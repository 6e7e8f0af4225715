------------------------- MODULE CommandPathProofs --------------------------
(***************************************************************************)
(* Theorems about the circuit breaker and the command path for every       *)
(* configuration and any number of concurrent requests, checked by TLAPS.  *)
(***************************************************************************)
EXTENDS CommandPath, FiniteSetTheorems, SequenceTheorems, TLAPS

-----------------------------------------------------------------------------
(* The sliding window *)

\* Positions in a window, and their number.
LEMMA WindowFinite ==
    ASSUME NEW s \in Seq(Record)
    PROVE  /\ ErrorsIn(s) \subseteq 1..Len(s) /\ IsFiniteSet(ErrorsIn(s))
           /\ ExpiredPrefix(s) \subseteq 1..Len(s) /\ IsFiniteSet(ExpiredPrefix(s))
           /\ Errors(s) \in 0..Len(s)
           /\ Expired(s) \in 0..Len(s)
<1>1. Len(s) \in Nat /\ DOMAIN s = 1..Len(s)
  OBVIOUS
<1>2. IsFiniteSet(1..Len(s)) /\ Cardinality(1..Len(s)) = Len(s)
  BY <1>1, FS_Interval
<1>3. ErrorsIn(s) \subseteq 1..Len(s) /\ ExpiredPrefix(s) \subseteq 1..Len(s)
  BY <1>1 DEF ErrorsIn, ExpiredPrefix
<1>4. /\ IsFiniteSet(ErrorsIn(s)) /\ Cardinality(ErrorsIn(s)) <= Len(s)
      /\ IsFiniteSet(ExpiredPrefix(s)) /\ Cardinality(ExpiredPrefix(s)) <= Len(s)
  BY <1>2, <1>3, FS_Subset
<1>5. Cardinality(ErrorsIn(s)) \in Nat /\ Cardinality(ExpiredPrefix(s)) \in Nat
  BY <1>4, FS_CardinalityType
<1> QED BY <1>1, <1>3, <1>4, <1>5 DEF Errors, Expired

\* A pushed result adds one error, or none.
LEMMA ErrorsOfPush ==
    ASSUME NEW s \in Seq(Record), NEW r \in Record
    PROVE  /\ Append(s, r) \in Seq(Record)
           /\ Len(Append(s, r)) = Len(s) + 1
           /\ Errors(Append(s, r)) = Errors(s) + (IF r.is_error THEN 1 ELSE 0)
<1> DEFINE a == Append(s, r)
           n == Len(s) + 1
<1>1. /\ a \in Seq(Record) /\ Len(s) \in Nat /\ Len(a) = n
      /\ DOMAIN a = 1..n /\ DOMAIN s = 1..Len(s)
      /\ \A i \in 1..Len(s) : a[i] = s[i]
      /\ a[n] = r
  OBVIOUS
<1>2. r.is_error \in BOOLEAN
  BY DEF Record
<1>3. n \notin ErrorsIn(s) /\ IsFiniteSet(ErrorsIn(s)) /\ Errors(s) \in Nat
  BY <1>1, WindowFinite
<1> HIDE DEF a
<1>4. CASE r.is_error
  <2>1. ErrorsIn(a) = ErrorsIn(s) \cup {n}
    BY <1>1, <1>4 DEF ErrorsIn
  <2>2. Cardinality(ErrorsIn(s) \cup {n}) = Cardinality(ErrorsIn(s)) + 1
    BY <1>3, FS_AddElement
  <2> QED BY <1>1, <1>4, <2>1, <2>2 DEF Errors, a
<1>5. CASE ~r.is_error
  <2>1. ErrorsIn(a) = ErrorsIn(s)
    BY <1>1, <1>5 DEF ErrorsIn
  <2> QED BY <1>1, <1>3, <1>5, <2>1 DEF Errors, a
<1> QED BY <1>4, <1>5

\* The arithmetic of dropping n out of l records.
LEMMA DropArithmetic ==
    ASSUME NEW l \in Nat, NEW n \in 0..l
    PROVE  /\ l - (n + 1) + 1 = l - n
           /\ \A i \in 1..(l - n) : (n + 1) + i - 1 = i + n
           /\ n + 1 <= l \/ l - n = 0
OBVIOUS

\* Splitting a window splits its errors.
LEMMA ErrorsOfSplit ==
    ASSUME NEW s \in Seq(Record), NEW n \in 0..Len(s)
    PROVE  /\ SubSeq(s, 1, n) \in Seq(Record)
           /\ DropFirst(s, n) \in Seq(Record)
           /\ Len(DropFirst(s, n)) = Len(s) - n
           /\ \A i \in 1..(Len(s) - n) : DropFirst(s, n)[i] = s[i + n]
           /\ Errors(s) = Errors(SubSeq(s, 1, n)) + Errors(DropFirst(s, n))
<1> DEFINE p == SubSeq(s, 1, n)
           q == DropFirst(s, n)
           m == Len(s) - n
           F == [i \in ErrorsIn(q) |-> i + n]
           T == {i \in ErrorsIn(s) : i > n}
<1>1. /\ Len(s) \in Nat /\ DOMAIN s = 1..Len(s) /\ n \in Nat /\ m \in Nat
      /\ \A i \in 1..Len(s) : s[i] \in Record
  OBVIOUS
<1>2. /\ p \in Seq(Record) /\ Len(p) = n /\ DOMAIN p = 1..n
      /\ \A i \in 1..n : p[i] = s[i]
  BY <1>1
<1>3. /\ q \in Seq(Record) /\ Len(q) = m /\ DOMAIN q = 1..m
      /\ \A i \in 1..m : q[i] = s[i + n]
  <2> DEFINE t == SubSeq(s, n + 1, Len(s))
  <2>1. \A i \in (n + 1)..Len(s) : s[i] \in Record
    BY <1>1
  <2>2. /\ t \in Seq(Record)
        /\ Len(t) = IF n + 1 <= Len(s) THEN Len(s) - (n + 1) + 1 ELSE 0
        /\ \A i \in 1..(Len(s) - (n + 1) + 1) : t[i] = s[(n + 1) + i - 1]
    <3>1. n + 1 \in Int /\ Len(s) \in Int
      BY <1>1
    <3> QED BY <2>1, <3>1, SubSeqProperties
  <2> HIDE DEF t
  <2>3. /\ Len(s) - (n + 1) + 1 = m /\ \A i \in 1..m : (n + 1) + i - 1 = i + n
        /\ n + 1 <= Len(s) \/ m = 0
    BY <1>1, DropArithmetic
  <2>6. Len(t) = m
    <3> HIDE DEF m
    <3>1. CASE n + 1 <= Len(s)
      BY <2>2, <2>3, <3>1
    <3>2. CASE ~(n + 1 <= Len(s))
      BY <2>2, <2>3, <3>2
    <3> QED BY <3>1, <3>2
  <2>4. q = t
    BY DEF DropFirst, t, q
  <2>5. DOMAIN t = 1..m
    <3> HIDE DEF m
    <3> QED BY <2>2, <2>6
  <2> QED BY <2>2, <2>3, <2>4, <2>5, <2>6
<1> HIDE DEF p, q
<1>4. /\ IsFiniteSet(ErrorsIn(p)) /\ IsFiniteSet(ErrorsIn(q)) /\ IsFiniteSet(ErrorsIn(s))
      /\ Errors(p) \in Nat /\ Errors(q) \in Nat
  BY <1>2, <1>3, WindowFinite
<1>5. ErrorsIn(s) = ErrorsIn(p) \cup T /\ ErrorsIn(p) \cap T = {}
  BY <1>1, <1>2 DEF ErrorsIn
<1>6. F \in Bijection(ErrorsIn(q), T)
  <2>1. \A i \in ErrorsIn(q) : i \in Int /\ i + n \in T
    BY <1>1, <1>3 DEF ErrorsIn
  <2>2. \A j \in T : j - n \in ErrorsIn(q) /\ (j - n) + n = j
    BY <1>1, <1>3 DEF ErrorsIn
  <2>3. F \in [ErrorsIn(q) -> T] /\ \A i \in ErrorsIn(q) : F[i] = i + n
    BY <2>1
  <2> HIDE DEF T
  <2>4. \A i, j \in ErrorsIn(q) : F[i] = F[j] => i = j
    BY <1>1, <2>1, <2>3
  <2>5. \A j \in T : \E i \in ErrorsIn(q) : F[i] = j
    BY <2>2, <2>3
  <2> HIDE DEF F
  <2> QED BY <2>3, <2>4, <2>5 DEF Bijection, Injection, Surjection, IsInjective
<1>7. IsFiniteSet(T) /\ Cardinality(T) = Errors(q)
  BY <1>4, <1>6, FS_Bijection DEF ExistsBijection, Errors
<1>8. Cardinality(ErrorsIn(p) \cup T) = Cardinality(ErrorsIn(p)) + Cardinality(T) - Cardinality({})
  BY SMTT(20), <1>4, <1>5, <1>7, FS_Union
<1>9. Errors(s) = Errors(p) + Errors(q)
  <2>1. Cardinality({}) = 0
    BY FS_EmptySet
  <2>2. Errors(s) = Cardinality(ErrorsIn(p) \cup T) /\ Errors(p) = Cardinality(ErrorsIn(p))
    BY <1>5 DEF Errors
  <2> HIDE DEF T
  <2> QED BY <1>4, <1>7, <1>8, <2>1, <2>2
<1> QED BY <1>2, <1>3, <1>9 DEF p, q

-----------------------------------------------------------------------------
(* The breaker on its own *)

\* Outcomes are recorded in the order of their ages.
RecordsSorted ==
    \A i, j \in DOMAIN records : i <= j => records[j].age <= records[i].age

\* While half-open the breaker is still short of the successes that close it.
ShortOfClosing == phase = "HalfOpen" => consecutive_success_count < ConsecutiveSuccesses

\* The inductive invariant of the breaker.
BreakerInv ==
    /\ BreakerTypeOK
    /\ ShortOfClosing
    /\ HealthyMatchesPhase
    /\ ErrorCountMatches
    /\ RecordsSorted
    /\ WindowCurrent

\* The empty window.
LEMMA EmptyWindow ==
    /\ <<>> \in Seq(Record) /\ Errors(<<>>) = 0
    /\ Len(<<>>) <= MaxWindowRecords /\ DOMAIN <<>> = {}
<1>1. <<>> \in Seq(Record) /\ Len(<<>>) = 0 /\ DOMAIN <<>> = {}
  OBVIOUS
<1>2. Errors(<<>>) \in 0..Len(<<>>)
  BY <1>1, WindowFinite
<1> QED BY <1>1, <1>2, BreakerConfig

\* The window that judges a result: its errors are those counted, nothing in it has
\* expired, and the cap holds.
LEMMA JudgedWindow ==
    ASSUME BreakerInv, NEW is_error \in BOOLEAN
    PROVE  LET pushed == Append(records, [age |-> 0, is_error |-> is_error])
               n      == Evicted(pushed)
               kept   == DropFirst(pushed, n)
           IN  /\ kept \in Seq(Record)
               /\ ErrorsAfter(pushed, n, is_error) = Errors(kept)
               /\ Len(kept) <= MaxWindowRecords
               /\ \A i \in DOMAIN kept : kept[i].age <= Window
               /\ \A i, j \in DOMAIN kept : i <= j => kept[j].age <= kept[i].age
<1> DEFINE r == [age |-> 0, is_error |-> is_error]
           pushed == Append(records, r)
           n == Evicted(pushed)
           kept == DropFirst(pushed, n)
<1>1. r \in Record /\ r.is_error = is_error /\ r.age = 0
  BY BreakerConfig DEF Record
<1>2. /\ records \in Seq(Record) /\ Len(records) \in Nat /\ DOMAIN records = 1..Len(records)
      /\ error_count = Errors(records)
      /\ \A i \in 1..Len(records) : records[i] \in Record
  BY DEF BreakerInv, BreakerTypeOK, ErrorCountMatches
<1>3. /\ pushed \in Seq(Record) /\ Len(pushed) = Len(records) + 1
      /\ Errors(pushed) = Errors(records) + (IF is_error THEN 1 ELSE 0)
      /\ Errors(records) \in Nat
  BY <1>1, <1>2, ErrorsOfPush, WindowFinite
<1>4. /\ DOMAIN pushed = 1..(Len(records) + 1)
      /\ \A i \in 1..Len(records) : pushed[i] = records[i]
      /\ pushed[Len(records) + 1] = r
  BY <1>2
<1>5. \A i \in DOMAIN pushed : pushed[i].age \in Nat
  BY <1>1, <1>2, <1>4, BreakerConfig DEF Record
<1>6. \A i, j \in DOMAIN pushed : i <= j => pushed[j].age <= pushed[i].age
  <2>1. \A i, j \in 1..Len(records) : i <= j => records[j].age <= records[i].age
    BY <1>2 DEF BreakerInv, RecordsSorted
  <2> QED BY <1>1, <1>2, <1>4, <1>5, <2>1
<1> HIDE DEF pushed, r
<1>7. /\ Expired(pushed) \in 0..Len(pushed) /\ ExpiredPrefix(pushed) \subseteq 1..Len(pushed)
      /\ IsFiniteSet(ExpiredPrefix(pushed))
  BY <1>3, WindowFinite
<1>8. /\ n \in 0..Len(pushed) /\ Len(pushed) - n <= MaxWindowRecords
      /\ Expired(pushed) <= n
  BY <1>2, <1>3, <1>7, BreakerConfig DEF Evicted
<1> DEFINE dropped == SubSeq(pushed, 1, n)
<1> HIDE DEF n
<1>9. /\ dropped \in Seq(Record) /\ kept \in Seq(Record)
      /\ Len(kept) = Len(pushed) - n
      /\ \A i \in 1..(Len(pushed) - n) : kept[i] = pushed[i + n]
      /\ Errors(pushed) = Errors(dropped) + Errors(kept)
  BY <1>3, <1>8, ErrorsOfSplit
<1> HIDE DEF kept
<1>10. Errors(dropped) \in Nat /\ Errors(kept) \in Nat
  <2> HIDE DEF dropped
  <2>1. Errors(dropped) \in 0..Len(dropped) /\ Errors(kept) \in 0..Len(kept)
    BY <1>9, WindowFinite
  <2> QED BY <2>1
<1>11. ErrorsAfter(pushed, n, is_error) = Errors(kept)
  <2>1. ErrorsAfter(pushed, n, is_error)
          = Errors(records) + (IF is_error THEN 1 ELSE 0) - Errors(dropped)
    BY <1>2 DEF ErrorsAfter
  <2> HIDE DEF dropped
  <2> QED BY <1>3, <1>9, <1>10, <2>1
<1>12. DOMAIN kept = 1..(Len(pushed) - n) /\ n \in Nat /\ Len(pushed) \in Nat
  BY <1>3, <1>8, <1>9
<1>13. ASSUME NEW k \in 1..Len(pushed), k > n
       PROVE  pushed[k].age <= Window
  <2>0. pushed[k].age \in Nat /\ Window \in Nat
    <3>1. k \in DOMAIN pushed
      BY <1>3, <1>4, <1>13
    <3> QED BY <1>5, <3>1, BreakerConfig
  <2>1. SUFFICES ASSUME pushed[k].age > Window PROVE FALSE
    BY <2>0
  <2>2. 1..k \subseteq ExpiredPrefix(pushed)
    <3>1. ASSUME NEW j \in 1..k PROVE pushed[j].age > Window
      <4>1. j \in DOMAIN pushed /\ k \in DOMAIN pushed /\ j <= k
        BY <1>3, <1>4, <1>13
      <4>2. pushed[k].age <= pushed[j].age /\ pushed[j].age \in Nat
        BY <1>5, <1>6, <4>1
      <4> QED BY <2>0, <2>1, <4>2
    <3> QED BY <1>3, <1>4, <3>1, <1>12 DEF ExpiredPrefix
  <2>3. Cardinality(1..k) = k
    BY <1>12, <1>13, FS_Interval
  <2>4. Cardinality(1..k) <= Cardinality(ExpiredPrefix(pushed))
    BY <1>7, <2>2, FS_Subset
  <2> QED BY <1>7, <1>8, <1>12, <1>13, <2>3, <2>4 DEF Expired
<1>14. \A i \in DOMAIN kept : kept[i].age <= Window
  BY <1>9, <1>12, <1>13
<1>15. \A i, j \in DOMAIN kept : i <= j => kept[j].age <= kept[i].age
  <2> SUFFICES ASSUME NEW i \in DOMAIN kept, NEW j \in DOMAIN kept, i <= j
               PROVE  kept[j].age <= kept[i].age
    OBVIOUS
  <2>1. i + n \in 1..Len(pushed) /\ j + n \in 1..Len(pushed) /\ i + n <= j + n
    BY <1>12
  <2>2. DOMAIN pushed = 1..Len(pushed) /\ kept[i] = pushed[i + n] /\ kept[j] = pushed[j + n]
    BY <1>3, <1>4, <1>9, <1>12
  <2> QED BY <1>6, <2>1, <2>2
<1> QED BY <1>8, <1>9, <1>11, <1>14, <1>15 DEF kept, n, pushed, r

\* Counters and ages start in their ranges.
LEMMA ZeroInRange ==
    0 \in {Never} \cup 0..OpenTimeout /\ 0 \in 0..ConsecutiveSuccesses
BY BreakerConfig

\* What an empty window contributes to the invariant.
LEMMA ClearedWindow ==
    ASSUME records' = <<>>, error_count' = 0
    PROVE  /\ records' \in Seq(Record) /\ error_count' \in Nat
           /\ ErrorCountMatches' /\ RecordsSorted' /\ WindowCurrent'
BY EmptyWindow DEF ErrorCountMatches, RecordsSorted, WindowCurrent

\* An untouched window keeps its part of the invariant.
LEMMA KeptWindow ==
    ASSUME BreakerInv, UNCHANGED <<records, error_count>>
    PROVE  /\ records' \in Seq(Record) /\ error_count' \in Nat
           /\ ErrorCountMatches' /\ RecordsSorted' /\ WindowCurrent'
BY DEF BreakerInv, BreakerTypeOK, ErrorCountMatches, RecordsSorted, WindowCurrent

\* A result reported while Closed, whether it trips the breaker or not.
LEMMA ClosedStep ==
    ASSUME BreakerInv, NEW is_error \in BOOLEAN, NEW inflight \in Nat,
           OnResultClosed(is_error, inflight)
    PROVE  BreakerInv'
<1> DEFINE pushed == Append(records, [age |-> 0, is_error |-> is_error])
           n      == Evicted(pushed)
           kept   == DropFirst(pushed, n)
           errors == ErrorsAfter(pushed, n, is_error)
<1>1. /\ kept \in Seq(Record) /\ errors = Errors(kept)
      /\ Len(kept) <= MaxWindowRecords
      /\ \A i \in DOMAIN kept : kept[i].age <= Window
      /\ \A i, j \in DOMAIN kept : i <= j => kept[j].age <= kept[i].age
  BY JudgedWindow
<1>2. errors \in Nat
  BY <1>1, WindowFinite
<1>3. CASE Trip(inflight)
  <2>1. /\ records' \in Seq(Record) /\ error_count' \in Nat
        /\ ErrorCountMatches' /\ RecordsSorted' /\ WindowCurrent'
    BY <1>3, ClearedWindow DEF Trip
  <2>2. BreakerTypeOK' /\ ShortOfClosing'
    BY <1>3, <2>1, ZeroInRange DEF Trip, BreakerInv, BreakerTypeOK, ShortOfClosing
  <2>3. HealthyMatchesPhase'
    BY <1>3 DEF Trip, HealthyMatchesPhase, Never
  <2> QED BY <2>1, <2>2, <2>3 DEF BreakerInv
<1>4. CASE /\ records' = kept /\ error_count' = errors
           /\ UNCHANGED <<phase, opened_at, consecutive_success_count,
                          stragglers_forgiven, inflight_at_trip, healthy>>
  <2> HIDE DEF kept, errors
  <2>1. BreakerTypeOK' /\ HealthyMatchesPhase' /\ ShortOfClosing'
    BY <1>1, <1>2, <1>4
       DEF BreakerInv, BreakerTypeOK, HealthyMatchesPhase, ShortOfClosing
  <2>2. ErrorCountMatches' /\ RecordsSorted' /\ WindowCurrent'
    BY <1>1, <1>4 DEF ErrorCountMatches, RecordsSorted, WindowCurrent
  <2> QED BY <2>1, <2>2 DEF BreakerInv
<1> QED BY <1>3, <1>4 DEF OnResultClosed

\* A result reported while HalfOpen.
LEMMA HalfOpenStep ==
    ASSUME BreakerInv, NEW is_error \in BOOLEAN, NEW inflight \in Nat,
           OnResultHalfOpen(is_error, inflight)
    PROVE  BreakerInv'
<1>1. CASE Reopen
  <2>1. UNCHANGED <<records, error_count>>
    BY <1>1 DEF Reopen
  <2>2. BreakerTypeOK' /\ ShortOfClosing'
    BY <1>1, ZeroInRange DEF Reopen, BreakerInv, BreakerTypeOK, ShortOfClosing
  <2>3. HealthyMatchesPhase'
    BY <1>1 DEF Reopen, HealthyMatchesPhase, Never
  <2> QED BY <2>1, <2>2, <2>3, KeptWindow DEF BreakerInv
<1>2. CASE /\ IsStraggler(inflight)
           /\ consecutive_success_count' = 0
           /\ stragglers_forgiven' = stragglers_forgiven + 1
           /\ UNCHANGED <<phase, records, error_count, opened_at, inflight_at_trip, healthy>>
  <2>1. BreakerTypeOK' /\ HealthyMatchesPhase' /\ ShortOfClosing'
    BY <1>2, BreakerConfig
       DEF IsStraggler, BreakerInv, BreakerTypeOK, HealthyMatchesPhase, ShortOfClosing
  <2> QED BY <1>2, <2>1, KeptWindow DEF BreakerInv
<1>3. CASE HalfOpenSuccess /\ Close
  <2>1. /\ consecutive_success_count' \in 0..ConsecutiveSuccesses
        /\ UNCHANGED <<stragglers_forgiven, inflight_at_trip>>
    <3>1. consecutive_success_count < ConsecutiveSuccesses
      BY DEF OnResultHalfOpen, BreakerInv, ShortOfClosing
    <3> QED BY <1>3, <3>1, BreakerConfig DEF HalfOpenSuccess, BreakerInv, BreakerTypeOK
  <2>2. /\ records' \in Seq(Record) /\ error_count' \in Nat
        /\ ErrorCountMatches' /\ RecordsSorted' /\ WindowCurrent'
    BY <1>3, ClearedWindow DEF Close
  <2>3. BreakerTypeOK' /\ ShortOfClosing'
    BY <1>3, <2>1, <2>2 DEF Close, BreakerInv, BreakerTypeOK, ShortOfClosing
  <2>4. HealthyMatchesPhase'
    BY <1>3 DEF Close, HealthyMatchesPhase
  <2> QED BY <2>2, <2>3, <2>4 DEF BreakerInv
<1>4. CASE /\ HalfOpenSuccess
           /\ consecutive_success_count' < ConsecutiveSuccesses
           /\ UNCHANGED <<phase, records, error_count, opened_at, healthy>>
  <2>1. BreakerTypeOK' /\ HealthyMatchesPhase' /\ ShortOfClosing'
    BY <1>4, BreakerConfig
       DEF HalfOpenSuccess, BreakerInv, BreakerTypeOK, HealthyMatchesPhase, ShortOfClosing
  <2> QED BY <1>4, <2>1, KeptWindow DEF BreakerInv
<1> QED BY <1>1, <1>2, <1>3, <1>4
       DEF OnResultHalfOpen, HalfOpenFailure, HalfOpenSuccess

\* A probe is allowed.
LEMMA ProbeStep == ASSUME BreakerInv, AllowProbe PROVE BreakerInv'
<1>1. BreakerTypeOK' /\ HealthyMatchesPhase' /\ ShortOfClosing'
  BY BreakerConfig
     DEF AllowProbe, BreakerInv, BreakerTypeOK, HealthyMatchesPhase, ShortOfClosing
<1>2. UNCHANGED <<records, error_count>>
  BY DEF AllowProbe
<1> QED BY <1>1, <1>2, KeptWindow DEF BreakerInv

\* Time passes.
LEMMA TickStep == ASSUME BreakerInv, BreakerTick PROVE BreakerInv'
<1>1. /\ records \in Seq(Record) /\ Len(records) \in Nat
      /\ DOMAIN records = 1..Len(records)
      /\ \A i \in 1..Len(records) : /\ records[i] \in Record
                                    /\ records[i].age \in 0..(Window + 1)
                                    /\ records[i].is_error \in BOOLEAN
  <2>1. records \in Seq(Record)
    BY DEF BreakerInv, BreakerTypeOK
  <2>2. Len(records) \in Nat /\ DOMAIN records = 1..Len(records)
    BY <2>1
  <2>3. \A i \in 1..Len(records) : records[i] \in Record
    BY <2>1, ElementOfSeq
  <2> QED BY <2>1, <2>2, <2>3 DEF Record
<1>2. /\ DOMAIN records' = 1..Len(records)
      /\ \A i \in 1..Len(records) :
             records'[i] = [records[i] EXCEPT !.age = Aged(records[i].age, Window + 1)]
  BY <1>1 DEF BreakerTick
<1>3. \A i \in 1..Len(records) :
          /\ records'[i] \in Record
          /\ records'[i].age = Aged(records[i].age, Window + 1)
          /\ records'[i].is_error = records[i].is_error
  BY <1>1, <1>2, BreakerConfig DEF Record, Aged
<1>4. records' \in Seq(Record) /\ Len(records') = Len(records)
  <2>1. records' \in [1..Len(records) -> Record]
    BY <1>1, <1>2, <1>3 DEF BreakerTick
  <2> QED BY <1>1, <2>1
<1>5. RecordsSorted'
  <2>1. \A i, j \in 1..Len(records) : i <= j => records[j].age <= records[i].age
    BY <1>1 DEF BreakerInv, RecordsSorted
  <2>2. \A i, j \in 1..Len(records) :
            i <= j => Aged(records[j].age, Window + 1) <= Aged(records[i].age, Window + 1)
    BY <1>1, <2>1, BreakerConfig DEF Aged
  <2> QED BY <1>2, <1>3, <2>2 DEF RecordsSorted
<1>6. ErrorCountMatches'
  <2>1. ErrorsIn(records') = ErrorsIn(records)
    BY <1>1, <1>2, <1>3 DEF ErrorsIn
  <2> QED BY <2>1 DEF BreakerTick, BreakerInv, ErrorCountMatches, Errors
<1>7. WindowCurrent'
  <2>1. ASSUME records' # <<>> PROVE records'[Len(records')].age # 0
    <3>1. Len(records) \in 1..Len(records)
      BY <1>1, <1>2, <1>4, <2>1
    <3> QED BY <1>1, <1>3, <1>4, <3>1, BreakerConfig DEF Aged
  <2> QED BY <1>4, <2>1 DEF BreakerInv, WindowCurrent
<1>8. BreakerTypeOK' /\ HealthyMatchesPhase' /\ ShortOfClosing'
  <2>1. opened_at' \in {Never} \cup 0..OpenTimeout /\ (opened_at' = Never <=> opened_at = Never)
    BY BreakerConfig DEF BreakerTick, BreakerInv, BreakerTypeOK, Never, Aged
  <2> QED BY <1>4, <2>1
         DEF BreakerTick, BreakerInv, BreakerTypeOK, HealthyMatchesPhase, ShortOfClosing
<1> QED BY <1>5, <1>6, <1>7, <1>8 DEF BreakerInv

\* The breaker's invariant is inductive.
LEMMA BreakerStep == ASSUME BreakerInv, [BreakerNext]_breakerVars PROVE BreakerInv'
<1>1. ASSUME NEW is_error \in BOOLEAN, NEW inflight \in Nat, OnResult(is_error, inflight)
      PROVE  BreakerInv'
  <2>1. CASE OnResultOpen
    BY <2>1 DEF OnResultOpen, breakerVars, BreakerInv, BreakerTypeOK, HealthyMatchesPhase,
                ShortOfClosing, ErrorCountMatches, RecordsSorted, WindowCurrent
  <2> QED BY <1>1, <2>1, ClosedStep, HalfOpenStep DEF OnResult
<1>2. CASE UNCHANGED breakerVars
  BY <1>2 DEF breakerVars, BreakerInv, BreakerTypeOK, HealthyMatchesPhase,
              ShortOfClosing, ErrorCountMatches, RecordsSorted, WindowCurrent
<1> QED BY <1>1, <1>2, ProbeStep, TickStep DEF BreakerNext

\* And holds at the start.
LEMMA BreakerStart == BreakerInit => BreakerInv
BY EmptyWindow, BreakerConfig
   DEF BreakerInit, BreakerInv, BreakerTypeOK, HealthyMatchesPhase, ShortOfClosing,
       ErrorCountMatches, RecordsSorted, WindowCurrent, Never

-----------------------------------------------------------------------------
(* The command path *)

HeldSteps == {"executing", "finishing", "reporting", "returning"}

\* The caller holds its Cmd from the reservation to the return, and clones exist only
\* from the reservation on.
CmdShape ==
    \A c \in Commands :
        /\ cmd[c].caller <=> cmd[c].step \in HeldSteps
        /\ cmd[c].clones > 0 => cmd[c].step \in HeldSteps \cup {"draining"}

\* What a step of the path must preserve besides the breaker's invariant.
PathInv ==
    /\ inflight_allowed \in Int
    /\ cmd \in [Commands -> Request]
    /\ healed \in BOOLEAN
    /\ CmdShape
    /\ InflightAccounted
    /\ InflightCastSafe

\* The requests that hold a slot are finitely many.
LEMMA LiveFinite == IsFiniteSet(Live) /\ Cardinality(Live) \in Nat
<1>1. Live \in SUBSET Commands
  BY DEF Live
<1> QED BY <1>1, PathConfig, FS_Subset, FS_CardinalityType

\* A request that holds no slot and moves without taking one, or holds one and moves
\* without giving it back, leaves the accounts alone.
LEMMA MoveStep ==
    ASSUME PathInv, NEW c \in Commands, NEW r \in Request,
           cmd' = [cmd EXCEPT ![c] = r],
           UNCHANGED <<inflight_allowed, healed>>,
           r.caller = cmd[c].caller, r.clones = cmd[c].clones,
           r.caller <=> r.step \in HeldSteps,
           r.clones > 0 => r.step \in HeldSteps \cup {"draining"},
           r.step = "reporting" => r.seen \in 1..Limit
    PROVE  PathInv'
<1>1. cmd' \in [Commands -> Request] /\ inflight_allowed' \in Int /\ healed' \in BOOLEAN
  BY DEF PathInv
<1>2. CmdShape'
  BY DEF PathInv, CmdShape
<1>3. Live' = Live
  BY DEF PathInv, Live, HoldsSlot
<1>4. InflightAccounted'
  BY <1>3 DEF PathInv, InflightAccounted
<1>5. InflightCastSafe'
  BY DEF PathInv, InflightCastSafe
<1> QED BY <1>1, <1>2, <1>4, <1>5 DEF PathInv

\* A request that holds no slot moves to a step in which none is held.
LEMMA UnheldStep ==
    ASSUME PathInv, NEW c \in Commands, NEW r \in Request,
           cmd' = [cmd EXCEPT ![c] = r],
           UNCHANGED <<inflight_allowed, healed>>,
           cmd[c].step \notin HeldSteps \cup {"draining"},
           r.step \notin HeldSteps,
           r.caller = FALSE, r.clones = 0
    PROVE  PathInv'
<1>1. cmd[c] \in Request
  BY DEF PathInv
<1>2. cmd[c].clones = 0
  BY <1>1, PathConfig DEF PathInv, CmdShape, Request
<1>3. cmd[c].caller = FALSE
  BY <1>1 DEF PathInv, CmdShape, Request
<1>4. r.caller = cmd[c].caller /\ r.clones = cmd[c].clones
  BY <1>2, <1>3
<1>5. r.caller <=> r.step \in HeldSteps
  OBVIOUS
<1>6. r.clones > 0 => r.step \in HeldSteps \cup {"draining"}
  OBVIOUS
<1>7. r.step = "reporting" => r.seen \in 1..Limit
  BY DEF HeldSteps
<1> QED BY <1>4, <1>5, <1>6, <1>7, MoveStep

\* A request takes a free slot.
LEMMA ReserveStep == ASSUME PathInv, NEW c \in Commands, Reserve(c) PROVE PathInv'
<1>1. cmd[c] \in Request /\ cmd[c].step = "admitted" /\ inflight_allowed > 0
  BY DEF PathInv, Reserve
<1>2. PICK n \in 0..(IF cmd[c].kind = "single" THEN MaxClones ELSE 0) :
          cmd' = [cmd EXCEPT ![c].step = "executing", ![c].caller = TRUE, ![c].clones = n]
  BY DEF Reserve
<1>3. n \in 0..MaxClones
  BY <1>2, PathConfig
<1> DEFINE r == [cmd[c] EXCEPT !.step = "executing", !.caller = TRUE, !.clones = n]
<1>4. /\ r \in Request /\ r.step = "executing" /\ r.caller = TRUE /\ r.clones = n
      /\ cmd' = [cmd EXCEPT ![c] = r]
  BY <1>1, <1>2, <1>3 DEF PathInv, Request, CmdSteps
<1> HIDE DEF r
<1>5. cmd' \in [Commands -> Request] /\ inflight_allowed' \in Int /\ healed' \in BOOLEAN
  <2>1. cmd' \in [Commands -> Request]
    BY <1>4 DEF PathInv
  <2>2. inflight_allowed' = inflight_allowed - 1 /\ healed' = healed
    BY DEF Reserve
  <2> QED BY <2>1, <2>2 DEF PathInv
<1>6. CmdShape'
  BY <1>4 DEF PathInv, CmdShape, HeldSteps
<1>7. Live' = Live \cup {c} /\ c \notin Live
  BY <1>1, <1>3, <1>4 DEF PathInv, CmdShape, HeldSteps, Live, HoldsSlot, Request
<1>8. Cardinality(Live \cup {c}) = Cardinality(Live) + 1
  BY <1>7, LiveFinite, FS_AddElement
<1>9. InflightAccounted'
  BY <1>1, <1>7, <1>8, LiveFinite DEF PathInv, InflightAccounted, Reserve
<1>10. InflightCastSafe'
  BY <1>4 DEF PathInv, InflightCastSafe
<1> QED BY <1>5, <1>6, <1>9, <1>10 DEF PathInv

\* Handles of a request are dropped, and the last one gives the slot back.
LEMMA DropStep ==
    ASSUME PathInv, NEW c \in Commands, HoldsSlot(c),
           NEW caller \in BOOLEAN, NEW clones \in 0..MaxClones, NEW step \in CmdSteps,
           Drop(c, caller, clones, step), UNCHANGED healed,
           caller <=> step \in HeldSteps,
           clones > 0 => step \in HeldSteps \cup {"draining"},
           step = "reporting" => cmd[c].step = "reporting"
    PROVE  PathInv'
<1>1. cmd[c] \in Request /\ c \in Live
  BY DEF PathInv, Live
<1>2. CASE ~caller /\ clones = 0
  <2>1. cmd' = [cmd EXCEPT ![c] = Free] /\ inflight_allowed' = inflight_allowed + 1
    BY <1>2 DEF Drop, SlotFreed, PathInv
  <2>2. /\ Free \in Request /\ Free.step = "idle" /\ Free.caller = FALSE
        /\ Free.clones = 0
    BY PathConfig DEF Free, Request, CmdSteps, Outcomes
  <2>3. cmd' \in [Commands -> Request] /\ inflight_allowed' \in Int /\ healed' \in BOOLEAN
    BY <2>1, <2>2 DEF PathInv
  <2>4. CmdShape'
    BY <2>1, <2>2 DEF PathInv, CmdShape, HeldSteps
  <2>5. Live' = Live \ {c}
    BY <2>1, <2>2 DEF PathInv, Live, HoldsSlot
  <2>6. Cardinality(Live \ {c}) = Cardinality(Live) - 1
    BY <1>1, LiveFinite, FS_RemoveElement
  <2>7. InflightAccounted'
    BY <2>1, <2>5, <2>6, LiveFinite DEF PathInv, InflightAccounted
  <2>8. InflightCastSafe'
    BY <2>1, <2>2 DEF PathInv, InflightCastSafe
  <2> QED BY <2>3, <2>4, <2>7, <2>8 DEF PathInv
<1>3. CASE ~(~caller /\ clones = 0)
  <2> DEFINE r == [cmd[c] EXCEPT !.caller = caller, !.clones = clones, !.step = step]
  <2>1. cmd' = [cmd EXCEPT ![c] = r] /\ inflight_allowed' = inflight_allowed
    <3>1. inflight_allowed' = inflight_allowed + 0
      BY <1>3 DEF Drop, SlotFreed
    <3>2. cmd' = [cmd EXCEPT ![c] = r]
      BY <1>3 DEF Drop
    <3> QED BY <3>1, <3>2 DEF PathInv
  <2>2. /\ r \in Request /\ r.step = step /\ r.caller = caller /\ r.clones = clones
        /\ r.seen = cmd[c].seen
    BY <1>1 DEF Request
  <2>3. cmd' \in [Commands -> Request] /\ inflight_allowed' \in Int /\ healed' \in BOOLEAN
    BY <2>1, <2>2 DEF PathInv
  <2> HIDE DEF r
  <2>4. CmdShape'
    BY <2>1, <2>2 DEF PathInv, CmdShape
  <2>5. Live' = Live
    BY <1>1, <1>3, <2>1, <2>2 DEF PathInv, Live, HoldsSlot
  <2>6. InflightAccounted'
    BY <2>1, <2>5 DEF PathInv, InflightAccounted
  <2>7. InflightCastSafe'
    BY <2>1, <2>2 DEF PathInv, InflightCastSafe
  <2> QED BY <2>3, <2>4, <2>6, <2>7 DEF PathInv
<1> QED BY <1>2, <1>3

\* The idle request.
LEMMA FreeRequest ==
    /\ Free \in Request /\ Free.step = "idle" /\ Free.caller = FALSE /\ Free.clones = 0
    /\ Free.step \notin HeldSteps
BY PathConfig DEF Free, Request, CmdSteps, Outcomes, HeldSteps

\* A request that is refused had taken no slot.
LEMMA RejectStep ==
    ASSUME PathInv, NEW c \in Commands, cmd[c].step \in {"probing", "admitted"},
           cmd' = [cmd EXCEPT ![c] = Free], UNCHANGED <<inflight_allowed, healed>>
    PROVE  PathInv'
<1>1. cmd[c].step \notin HeldSteps \cup {"draining"}
  BY DEF HeldSteps
<1> QED BY <1>1, FreeRequest, UnheldStep

\* Every step of the path preserves its invariant.
LEMMA PathStep == ASSUME PathInv, [Next]_vars PROVE PathInv'
<1>0. \A c \in Commands : cmd[c] \in Request
  BY DEF PathInv
<1>1. ASSUME NEW c \in Commands, NEW kind \in Kinds, Start(c, kind)
      PROVE  PathInv'
  <2> DEFINE r == [cmd[c] EXCEPT !.kind = kind,
                       !.step = IF kind = "batch" \/ healthy THEN "admitted" ELSE "probing"]
  <2>1. cmd' = [cmd EXCEPT ![c] = r] /\ UNCHANGED <<inflight_allowed, healed>>
    BY <1>1 DEF Start, PathInv
  <2>2. cmd[c].step = "idle" /\ cmd[c] \in Request /\ kind \in AllKinds
    BY <1>0, <1>1, PathConfig DEF Start
  <2>3. /\ r \in Request /\ r.caller = cmd[c].caller /\ r.clones = cmd[c].clones
        /\ r.step \in {"admitted", "probing"}
    BY <2>2 DEF Request, CmdSteps
  <2>4. cmd[c].caller = FALSE /\ cmd[c].clones = 0
    BY <2>2, PathConfig DEF PathInv, CmdShape, HeldSteps, Request
  <2> HIDE DEF r
  <2>5. r.step \notin HeldSteps /\ cmd[c].step \notin HeldSteps \cup {"draining"}
    BY <2>2, <2>3 DEF HeldSteps
  <2>6. r \in Request /\ r.caller = FALSE /\ r.clones = 0
    BY <2>3, <2>4
  <2> QED BY <2>1, <2>5, <2>6, UnheldStep
<1>2. ASSUME NEW c \in Commands, ProbeAllowed(c)
      PROVE  PathInv'
  <2> DEFINE r == [cmd[c] EXCEPT !.step = "admitted"]
  <2>1. /\ cmd' = [cmd EXCEPT ![c] = r] /\ UNCHANGED <<inflight_allowed, healed>>
        /\ cmd[c].step = "probing"
    BY <1>2 DEF ProbeAllowed, PathInv
  <2>2. /\ r \in Request /\ r.caller = cmd[c].caller /\ r.clones = cmd[c].clones
        /\ r.step = "admitted"
    BY <1>0 DEF Request, CmdSteps
  <2>3. cmd[c].caller = FALSE /\ cmd[c].clones = 0
    BY <1>0, <2>1, PathConfig DEF PathInv, CmdShape, HeldSteps, Request
  <2> HIDE DEF r
  <2>4. r.step \notin HeldSteps /\ cmd[c].step \notin HeldSteps \cup {"draining"}
    BY <2>1, <2>2 DEF HeldSteps
  <2>5. r \in Request /\ r.caller = FALSE /\ r.clones = 0
    BY <2>2, <2>3
  <2> QED BY <2>1, <2>4, <2>5, UnheldStep
<1>3. ASSUME NEW c \in Commands, ProbeLate(c)
      PROVE  PathInv'
  <2> DEFINE r == [cmd[c] EXCEPT !.step = "admitted"]
  <2>1. /\ UNCHANGED <<inflight_allowed, healed>> /\ cmd[c].step = "probing"
        /\ cmd' = [cmd EXCEPT ![c] = r] \/ cmd' = [cmd EXCEPT ![c] = Free]
    BY <1>3 DEF ProbeLate, PathInv
  <2>2. /\ r \in Request /\ r.caller = cmd[c].caller /\ r.clones = cmd[c].clones
        /\ r.step = "admitted"
    BY <1>0 DEF Request, CmdSteps
  <2>3. cmd[c].caller = FALSE /\ cmd[c].clones = 0
    BY <1>0, <2>1, PathConfig DEF PathInv, CmdShape, HeldSteps, Request
  <2> HIDE DEF r
  <2>4. r.step \notin HeldSteps /\ cmd[c].step \notin HeldSteps \cup {"draining"}
    BY <2>1, <2>2 DEF HeldSteps
  <2>5. r \in Request /\ r.caller = FALSE /\ r.clones = 0
    BY <2>2, <2>3
  <2>6. CASE cmd' = [cmd EXCEPT ![c] = r]
    BY <2>1, <2>4, <2>5, <2>6, UnheldStep
  <2> QED BY <2>1, <2>6, RejectStep
<1>4. ASSUME NEW c \in Commands, ProbeRejected(c) \/ Intercepted(c) \/ LimitReached(c)
      PROVE  PathInv'
  BY <1>4, RejectStep DEF ProbeRejected, Intercepted, LimitReached, Rejected
<1>5. ASSUME NEW c \in Commands, CloneDropped(c)
      PROVE  PathInv'
  <2>1. /\ HoldsSlot(c) /\ cmd[c].caller \in BOOLEAN /\ cmd[c].clones - 1 \in 0..MaxClones
        /\ cmd[c].step \in CmdSteps
    BY <1>0, <1>5, PathConfig DEF CloneDropped, HoldsSlot, Request
  <2>2. /\ cmd[c].caller <=> cmd[c].step \in HeldSteps
        /\ cmd[c].step \in HeldSteps \cup {"draining"}
    BY <1>5 DEF PathInv, CmdShape, CloneDropped
  <2> QED BY <1>5, <2>1, <2>2, DropStep DEF CloneDropped
<1>6. ASSUME NEW c \in Commands, Cancel(c) \/ Return(c)
      PROVE  PathInv'
  <2>1. HoldsSlot(c) /\ cmd[c].clones \in 0..MaxClones
    BY <1>0, <1>6 DEF PathInv, CmdShape, HeldSteps, HoldsSlot, Cancel, Return, Request
  <2>2. "draining" \in CmdSteps /\ "draining" \notin HeldSteps
    BY DEF CmdSteps, HeldSteps
  <2>3. Drop(c, FALSE, cmd[c].clones, "draining") /\ UNCHANGED healed
    BY <1>6 DEF Cancel, Return
  <2> QED BY <2>1, <2>2, <2>3, DropStep
<1>7. ASSUME NEW c \in Commands, NEW outcome \in Outcomes \ {"none"}, Complete(c, outcome)
      PROVE  PathInv'
  <2> DEFINE r == [cmd[c] EXCEPT !.outcome = outcome,
                       !.step = IF cmd[c].kind = "single" THEN "finishing" ELSE "returning"]
  <2>1. /\ cmd' = [cmd EXCEPT ![c] = r] /\ UNCHANGED <<inflight_allowed, healed>>
        /\ cmd[c].step = "executing"
    BY <1>7 DEF Complete, PathInv
  <2>2. /\ r \in Request /\ r.caller = cmd[c].caller /\ r.clones = cmd[c].clones
        /\ r.step \in {"finishing", "returning"}
    BY <1>0, <1>7 DEF Request, CmdSteps
  <2>3. cmd[c].caller
    BY <2>1 DEF PathInv, CmdShape, HeldSteps
  <2> HIDE DEF r
  <2>4. r.step \in HeldSteps /\ r.step # "reporting"
    BY <2>2 DEF HeldSteps
  <2> QED BY <2>1, <2>2, <2>3, <2>4, MoveStep
<1>8. ASSUME NEW c \in Commands, LoadInflight(c)
      PROVE  PathInv'
  <2> DEFINE r == [cmd[c] EXCEPT !.step = "reporting", !.seen = CurrentInflight]
  <2>1. /\ cmd' = [cmd EXCEPT ![c] = r] /\ UNCHANGED <<inflight_allowed, healed>>
        /\ cmd[c].step = "finishing"
    BY <1>8 DEF LoadInflight, PathInv
  <2>2. cmd[c].caller
    BY <2>1 DEF PathInv, CmdShape, HeldSteps
  <2>3. CurrentInflight \in 1..Limit
    <3>1. Cardinality(Live) # 0
      BY <2>2, LiveFinite, FS_EmptySet DEF Live, HoldsSlot
    <3> QED BY <3>1, LiveFinite, PathConfig DEF PathInv, InflightAccounted, CurrentInflight
  <2>4. /\ r \in Request /\ r.caller = cmd[c].caller /\ r.clones = cmd[c].clones
        /\ r.step = "reporting" /\ r.seen \in 1..Limit
    <3> HIDE DEF CurrentInflight
    <3>1. CurrentInflight \in Int /\ "reporting" \in CmdSteps
      BY <2>3, PathConfig DEF CmdSteps
    <3>2. cmd[c] \in Request
      BY <1>0
    <3> QED BY <2>3, <3>1, <3>2 DEF Request
  <2> HIDE DEF r
  <2>5. r.step \in HeldSteps
    BY <2>4 DEF HeldSteps
  <2> QED BY <2>1, <2>2, <2>4, <2>5, MoveStep
<1>9. ASSUME NEW c \in Commands, Report(c)
      PROVE  PathInv'
  <2> DEFINE r == [cmd[c] EXCEPT !.step = "returning", !.outcome = "none", !.seen = 0]
  <2>1. /\ cmd' = [cmd EXCEPT ![c] = r] /\ UNCHANGED <<inflight_allowed, healed>>
        /\ cmd[c].step = "reporting"
    BY <1>9 DEF Report, PathInv
  <2>2. /\ r \in Request /\ r.caller = cmd[c].caller /\ r.clones = cmd[c].clones
        /\ r.step = "returning"
    <3>1. "returning" \in CmdSteps /\ "none" \in Outcomes /\ 0 \in Int
      BY DEF CmdSteps, Outcomes
    <3>2. cmd[c] \in Request
      BY <1>0
    <3> QED BY <3>1, <3>2 DEF Request
  <2>3. cmd[c].caller
    BY <2>1 DEF PathInv, CmdShape, HeldSteps
  <2> HIDE DEF r
  <2>4. r.step \in HeldSteps /\ r.step # "reporting"
    BY <2>2 DEF HeldSteps
  <2> QED BY <2>1, <2>2, <2>3, <2>4, MoveStep
<1>10. CASE Tick \/ Heal \/ UNCHANGED vars
  <2>1. UNCHANGED <<cmd, inflight_allowed>> /\ healed' \in BOOLEAN
    BY <1>10 DEF Tick, Heal, vars, pathVars, PathInv
  <2>2. Live' = Live
    BY <2>1 DEF Live, HoldsSlot
  <2> QED BY <2>1, <2>2 DEF PathInv, CmdShape, InflightAccounted, InflightCastSafe
<1> QED BY <1>1, <1>2, <1>3, <1>4, <1>5, <1>6, <1>7, <1>8, <1>9, <1>10, ReserveStep DEF Next

\* Every step of the path is a step of the breaker, or leaves it alone.
LEMMA PathStepIsBreakerStep ==
    ASSUME PathInv, [Next]_vars PROVE [BreakerNext]_breakerVars
<1>1. ASSUME NEW c \in Commands, Report(c) PROVE BreakerNext
  <2>1. cmd[c].seen \in Nat
    BY <1>1, PathConfig DEF PathInv, InflightCastSafe, Report
  <2>2. IsError(cmd[c].outcome) \in BOOLEAN
    BY DEF IsError
  <2> QED BY <1>1, <2>1, <2>2 DEF Report, BreakerNext
<1>2. ASSUME NEW c \in Commands, ProbeAllowed(c) PROVE BreakerNext
  BY <1>2 DEF ProbeAllowed, BreakerNext
<1>3. CASE Tick
  BY <1>3 DEF Tick, BreakerNext
<1>4. ASSUME NEW c \in Commands,
             \/ \E kind \in Kinds : Start(c, kind)
             \/ ProbeLate(c) \/ ProbeRejected(c) \/ Intercepted(c) \/ Reserve(c) \/ LimitReached(c)
             \/ CloneDropped(c) \/ Cancel(c) \/ LoadInflight(c) \/ Return(c)
             \/ \E outcome \in Outcomes \ {"none"} : Complete(c, outcome)
      PROVE  UNCHANGED breakerVars
  BY <1>4 DEF Start, ProbeLate, ProbeRejected, Intercepted, Reserve, LimitReached, Rejected,
              CloneDropped, Cancel, LoadInflight, Return, Complete
<1>5. CASE Heal \/ UNCHANGED vars
  BY <1>5 DEF Heal, vars
<1> QED BY <1>1, <1>2, <1>3, <1>4, <1>5 DEF Next

\* Both invariants hold at the start.
LEMMA PathStart == Init => PathInv /\ BreakerInv
<1> SUFFICES ASSUME Init PROVE PathInv /\ BreakerInv
  OBVIOUS
<1>1. cmd \in [Commands -> Request] /\ \A c \in Commands : cmd[c] = Free
  BY FreeRequest DEF Init
<1>2. Live = {}
  BY <1>1, FreeRequest DEF Live, HoldsSlot
<1>3. InflightAccounted
  BY <1>2, FS_EmptySet, PathConfig DEF Init, InflightAccounted
<1>4. CmdShape /\ InflightCastSafe
  BY <1>1, FreeRequest DEF CmdShape, InflightCastSafe
<1>5. inflight_allowed \in Int
  <2>1. inflight_allowed = Limit
    BY DEF Init
  <2> QED BY <2>1, PathConfig
<1>6. healed \in BOOLEAN
  BY Zenon DEF Init
<1> QED BY <1>1, <1>3, <1>4, <1>5, <1>6, BreakerStart DEF Init, PathInv

-----------------------------------------------------------------------------
(* Theorems *)

\* For any number of requests and any configuration, every reachable state satisfies
\* the invariants of the path and of the breaker.
THEOREM PathInvariant == Spec => [](PathInv /\ BreakerInv)
<1>1. PathInv /\ BreakerInv /\ [Next]_vars => PathInv' /\ BreakerInv'
  BY PathStep, PathStepIsBreakerStep, BreakerStep
<1> QED BY PathStart, <1>1, PTL DEF Spec

\* Types: error_count never goes below 0 and at most two stragglers are forgiven in a
\* half-open phase (on_result).
THEOREM TypeCorrect == Spec => []TypeOK
<1>1. PathInv /\ BreakerInv => TypeOK
  BY DEF PathInv, BreakerInv, TypeOK
<1> QED BY PathInvariant, <1>1, PTL

\* The inflight limit holds and no slot is lost or given back twice, whatever times
\* out, is cancelled or lingers in the pipeline (InflightRequestTracker), and the count
\* reported to on_result is between 1 and the limit.
THEOREM InflightCounted == Spec => []InflightExact
<1>1. PathInv => InflightExact
  BY DEF PathInv, InflightExact
<1> QED BY PathInvariant, <1>1, PTL

\* The breaker's flag, phase, error count and window agree in every state: what a
\* caller reads without the lock is the phase, error_count is the number of errors in
\* the window, results are judged on unexpired outcomes only.
THEOREM BreakerAgrees == Spec => []BreakerConsistent
<1>1. BreakerInv => BreakerConsistent
  BY DEF BreakerInv, BreakerConsistent
<1> QED BY PathInvariant, <1>1, PTL

\* The command path implements the breaker on its own: what is reported to it is
\* always a result with a count that on_result accepts.
THEOREM PathImplementsBreaker == Spec => BreakerSpec
<1>1. Init => BreakerInit
  BY DEF Init
<1>2. PathInv /\ [Next]_vars => [BreakerNext]_breakerVars
  BY PathStepIsBreakerStep
<1> QED BY PathInvariant, <1>1, <1>2, PTL DEF Spec, BreakerSpec
=============================================================================
