-------------------------- MODULE ClientPoolProofs --------------------------
(***************************************************************************)
(* Theorems about ClientPool for every number of clients, borrowers and    *)
(* commands and every pool size, checked by TLAPS.                         *)
(***************************************************************************)
EXTENDS ClientPool, FiniteSetTheorems, TLAPS

-----------------------------------------------------------------------------
(* Sequences and counters *)

\* What Append does to the set of elements and to injectivity of the idle stack.
LEMMA AppendFacts ==
    ASSUME NEW S, NEW s \in Seq(S), NEW e \in S
    PROVE  /\ Append(s, e) \in Seq(S)
           /\ ToSet(Append(s, e)) = ToSet(s) \cup {e}
           /\ IsInjective(s) /\ e \notin ToSet(s) => IsInjective(Append(s, e))
<1>1. Append(s, e) \in Seq(S)
  OBVIOUS
<1>2. /\ DOMAIN s = 1..Len(s)
      /\ DOMAIN Append(s, e) = 1..(Len(s) + 1)
      /\ Len(s) \in Nat
      /\ \A i \in 1..Len(s) : Append(s, e)[i] = s[i]
      /\ Append(s, e)[Len(s) + 1] = e
  OBVIOUS
<1>3. ToSet(Append(s, e)) = ToSet(s) \cup {e}
  BY <1>2 DEF ToSet
<1>4. IsInjective(s) /\ e \notin ToSet(s) => IsInjective(Append(s, e))
  BY <1>2 DEF ToSet, IsInjective
<1> QED BY <1>1, <1>3, <1>4

\* What popping down to position top leaves, lends and evicts.
LEMMA PopFacts ==
    ASSUME NEW S, idle \in Seq(S), NEW top \in DOMAIN idle
    PROVE  /\ SubSeq(idle, 1, top - 1) \in Seq(S)
           /\ idle[top] \in S
           /\ PoppedAbove(top) \subseteq S
           /\ ToSet(idle) =
                ToSet(SubSeq(idle, 1, top - 1)) \cup {idle[top]} \cup PoppedAbove(top)
           /\ IsInjective(idle) =>
                /\ IsInjective(SubSeq(idle, 1, top - 1))
                /\ idle[top] \notin PoppedAbove(top)
                /\ idle[top] \notin ToSet(SubSeq(idle, 1, top - 1))
                /\ PoppedAbove(top) \cap ToSet(SubSeq(idle, 1, top - 1)) = {}
<1> DEFINE s == idle
           evicted == PoppedAbove(top)
<1> USE DEF PoppedAbove
<1> DEFINE r == SubSeq(s, 1, top - 1)
<1>1. /\ DOMAIN s = 1..Len(s)
      /\ Len(s) \in Nat
      /\ top \in 1..Len(s)
      /\ \A i \in 1..Len(s) : s[i] \in S
  OBVIOUS
<1>2. /\ r \in Seq(S)
      /\ Len(r) = top - 1
      /\ DOMAIN r = 1..(top - 1)
      /\ \A i \in 1..(top - 1) : r[i] = s[i]
  BY <1>1
<1>3. s[top] \in S /\ evicted \subseteq S
  BY <1>1
<1>4. ToSet(s) = ToSet(r) \cup {s[top]} \cup evicted
  <2>1. ToSet(r) = {s[i] : i \in 1..(top - 1)}
    BY <1>1, <1>2 DEF ToSet
  <2>2. 1..Len(s) = (1..(top - 1)) \cup {top} \cup ((top + 1)..Len(s))
    BY <1>1
  <2>3. ToSet(s) = {s[i] : i \in 1..Len(s)}
    BY <1>1 DEF ToSet
  <2> HIDE DEF r
  <2> QED BY <2>1, <2>2, <2>3
<1>5. ASSUME IsInjective(s)
      PROVE  /\ IsInjective(r)
             /\ s[top] \notin evicted
             /\ s[top] \notin ToSet(r)
             /\ evicted \cap ToSet(r) = {}
  <2> HIDE DEF r
  <2>1. \A i, j \in 1..Len(s) : s[i] = s[j] => i = j
    BY <1>1, <1>5 DEF IsInjective
  <2>2. IsInjective(r)
    BY <1>1, <1>2, <2>1 DEF IsInjective
  <2>3. ToSet(r) = {s[i] : i \in 1..(top - 1)}
    BY <1>1, <1>2 DEF ToSet
  <2>4. s[top] \notin evicted
    BY <1>1, <2>1
  <2>5. s[top] \notin ToSet(r)
    BY <1>1, <2>1, <2>3
  <2>6. evicted \cap ToSet(r) = {}
    BY <1>1, <2>1, <2>3
  <2> QED BY <2>2, <2>4, <2>5, <2>6
<1> QED BY <1>2, <1>3, <1>4, <1>5

\* The empty idle stack has no elements.
LEMMA EmptyIdle == ToSet(<<>>) = {} /\ IsInjective(<<>>)
BY DEF ToSet, IsInjective

\* fetch_sub does not wrap while the counter covers what is subtracted.
LEMMA DecrementFacts ==
    ASSUME total_count \in 0..(CountMod - 1), NEW n \in Int
    PROVE  /\ Decrement(n) \in 0..(CountMod - 1)
           /\ 0 <= n /\ n <= total_count => Decrement(n) = total_count - n
BY PoolAssumption DEF Decrement

\* Nor does fetch_add below the modulus.
LEMMA IncrementFacts ==
    ASSUME NEW n \in Nat, NEW m \in Nat, n + 1 < m
    PROVE  (n + 1) % m = n + 1
OBVIOUS

-----------------------------------------------------------------------------
(* Type correctness *)

\* The initial state has the right types.
LEMMA InitTypeOK == Init => TypeOK
BY PoolAssumption DEF Init, TypeOK, CmdType, FreeCmd

\* Taking one slot away leaves a u32.
LEMMA DecrementOne == TypeOK => Decrement(1) \in 0..(CountMod - 1)
BY DecrementFacts DEF TypeOK

\* A client that enters the idle stack keeps the types of stack and counters.
LEMMA AddTypes ==
    ASSUME TypeOK, NEW c \in Clients
    PROVE  /\ Append(idle, c) \in Seq(Clients)
           /\ [is_blocking EXCEPT ![c] = 0] \in [Clients -> Nat]
BY AppendFacts DEF TypeOK

\* Every idle entry is a client id.
LEMMA IdleClients == TypeOK => ToSet(idle) \subseteq Clients
BY DEF TypeOK, ToSet

\* An attempt to acquire keeps the types.
LEMMA AttemptTypeOK ==
    ASSUME TypeOK, NEW b \in Borrowers, Attempt(b), waiting' \subseteq Borrowers
    PROVE  TypeOK'
<1> USE DEF taskVars, monVars
<1>1. CASE Lend(b)
  <2>1. PICK top \in DOMAIN idle :
            /\ DrainAndEvict(PoppedAbove(top))
            /\ idle' = SubSeq(idle, 1, top - 1)
            /\ in_use' = in_use \cup {idle[top]}
            /\ inactive' = inactive \ {idle[top]}
            /\ total_count' = Decrement(Cardinality(PoppedAbove(top)))
            /\ holds' = [holds EXCEPT ![b] = idle[top]]
    BY <1>1 DEF Lend
  <2> DEFINE evicted == PoppedAbove(top)
  <2>2. idle' \in Seq(Clients) /\ idle[top] \in Clients /\ evicted \subseteq Clients
    BY <2>1, PopFacts DEF TypeOK
  <2>3. Cardinality(evicted) \in Nat
    BY <2>2, PoolAssumption, FS_Subset, FS_CardinalityType
  <2>4. total_count' \in 0..(CountMod - 1)
    BY <2>1, <2>3, DecrementFacts DEF TypeOK
  <2> QED BY <2>1, <2>2, <2>4, <1>1 DEF TypeOK, Lend, Attempt, DrainAndEvict
<1>2. CASE Miss
  <2>1. ToSet(idle) \subseteq Clients
    BY IdleClients
  <2>2. Cardinality(ToSet(idle)) \in Nat
    BY <2>1, PoolAssumption, FS_Subset, FS_CardinalityType
  <2>3. Decrement(Cardinality(ToSet(idle))) \in 0..(CountMod - 1)
    BY <2>2, DecrementFacts DEF TypeOK
  <2>4. total_count' \in 0..(CountMod - 1) /\ creating' \in Nat
    BY <1>2, <2>3, PoolAssumption DEF Miss, ShouldCreate, TypeOK
  <2> QED BY <1>2, <2>1, <2>4 DEF TypeOK, Miss, Attempt, DrainAndEvict
<1>3. CASE MissClosed
  BY <1>3 DEF TypeOK, MissClosed, Attempt
<1> QED BY <1>1, <1>2, <1>3 DEF Attempt

\* Every step keeps the types.
LEMMA NextTypeOK == TypeOK /\ [Next]_vars => TypeOK'
<1> SUFFICES ASSUME TypeOK, [Next]_vars PROVE TypeOK'
  OBVIOUS
<1> USE DEF coreVars, ffiVars, flagVars, userVars, taskVars, monVars
<1>1. ASSUME NEW b \in Borrowers, TryAcquire(b) PROVE TypeOK'
  BY <1>1, AttemptTypeOK DEF TryAcquire, TypeOK
<1>2. ASSUME NEW b \in Borrowers, AcquireBlocking(b) PROVE TypeOK'
  BY <1>2 DEF AcquireBlocking, TypeOK
<1>3. ASSUME NEW b \in Borrowers, AcquireRound(b) PROVE TypeOK'
  <2>1. waiting' \subseteq Borrowers
    BY <1>3 DEF AcquireRound, TypeOK
  <2> QED BY <1>3, <2>1, AttemptTypeOK DEF AcquireRound
<1>4. ASSUME NEW b \in Borrowers, AcquireTimeout(b) PROVE TypeOK'
  BY <1>4 DEF AcquireTimeout, TypeOK
<1>5. ASSUME NEW b \in Borrowers, Release(b) PROVE TypeOK'
  BY <1>5 DEF Release, Orphaned, TypeOK, CmdType
<1>6. ASSUME NEW b \in Borrowers, DispatchCommand(b) PROVE TypeOK'
  BY <1>6 DEF DispatchCommand, RefreshActivity, TypeOK
<1>7. ASSUME NEW b \in Borrowers, NEW k \in Commands, DispatchBlocking(b, k) PROVE TypeOK'
  <2>1. holds[b] \in Clients
    BY <1>7 DEF DispatchBlocking, TypeOK
  <2>2. cmd' \in [Commands -> CmdType]
    BY <1>7, <2>1 DEF DispatchBlocking, TypeOK, CmdType
  <2>3. is_blocking' \in [Clients -> Nat]
    BY <1>7, <2>1 DEF DispatchBlocking, TypeOK
  <2> QED BY <1>7, <2>2, <2>3 DEF DispatchBlocking, RefreshActivity, TypeOK
<1>8. ASSUME NEW c \in Clients, WarmupDone(c) PROVE TypeOK'
  <2>1. total_count' \in 0..(CountMod - 1) /\ warming' \in 0..MinIdle
    BY <1>8, PoolAssumption DEF WarmupDone, TypeOK
  <2>2. CASE Running
    <3>1. idle' \in Seq(Clients) /\ is_blocking' \in [Clients -> Nat]
      BY <1>8, <2>2, AddTypes DEF WarmupDone, AddClient
    <3> QED BY <1>8, <2>1, <2>2, <3>1 DEF WarmupDone, AddClient, TypeOK
  <2>3. CASE ~Running
    BY <1>8, <2>1, <2>3 DEF WarmupDone, TypeOK
  <2> QED BY <2>2, <2>3
<1>9. ASSUME NEW c \in Clients, CreateDone(c) PROVE TypeOK'
  <2>1. total_count' \in 0..(CountMod - 1) /\ creating' \in Nat
    BY <1>9, DecrementOne DEF CreateDone, TypeOK
  <2>2. CASE Running
    <3>1. idle' \in Seq(Clients) /\ is_blocking' \in [Clients -> Nat]
      BY <1>9, <2>2, AddTypes DEF CreateDone, AddClient
    <3> QED BY <1>9, <2>1, <2>2, <3>1 DEF CreateDone, AddClient, TypeOK
  <2>3. CASE ~Running
    BY <1>9, <2>1, <2>3 DEF CreateDone, TypeOK
  <2> QED BY <2>2, <2>3
<1>10. CASE WarmupFailed
  BY <1>10, PoolAssumption DEF WarmupFailed, TypeOK
<1>11. CASE CreateFailed
  BY <1>11, DecrementOne DEF CreateFailed, TypeOK
<1>12. ASSUME NEW c \in Clients, TakeForRelease(c) PROVE TypeOK'
  BY <1>12 DEF TakeForRelease, TypeOK
<1>13. ASSUME NEW c \in Clients, ResetOk(c) PROVE TypeOK'
  <2>1. CASE Running
    BY <1>13, <2>1, AddTypes DEF ResetOk, ReturnToIdle, TypeOK
  <2>2. CASE ~Running
    BY <1>13, <2>2, DecrementOne DEF ResetOk, ReturnToIdle, DiscardClient, TypeOK
  <2> QED BY <2>1, <2>2
<1>14. ASSUME NEW c \in Clients, ResetFailed(c) PROVE TypeOK'
  BY <1>14, DecrementOne DEF ResetFailed, DiscardClient, TypeOK
<1>15. ASSUME NEW c \in Clients, ReleaseCancelled(c) PROVE TypeOK'
  BY <1>15, DecrementOne DEF ReleaseCancelled, DiscardClient, TypeOK
<1>16. ASSUME NEW c \in Clients, DeferredDiscard(c) PROVE TypeOK'
  BY <1>16, DecrementOne DEF DeferredDiscard, DiscardClient, TypeOK
<1>17. CASE MonitorScan
  BY <1>17 DEF MonitorScan, TypeOK
<1>18. ASSUME NEW c \in Clients, MonitorRevalidate(c) PROVE TypeOK'
  BY <1>18 DEF MonitorRevalidate, TypeOK
<1>19. CASE MonitorAborted
  BY <1>19 DEF MonitorAborted, TypeOK
<1>20. ASSUME NEW k \in Commands, CommandReturned(k) PROVE TypeOK'
  <2>1. cmd' \in [Commands -> CmdType]
    BY <1>20 DEF CommandReturned, TypeOK, CmdType
  <2> QED BY <1>20, <2>1 DEF CommandReturned, RefreshActivity, TypeOK
<1>21. ASSUME NEW k \in Commands, Unmark(k) PROVE TypeOK'
  <2>1. cmd' \in [Commands -> CmdType]
    BY <1>21 DEF Unmark, TypeOK, CmdType, FreeCmd
  <2>2. is_blocking' \in [Clients -> Nat]
    <3>1. \A n \in Nat : (IF n > 0 THEN n - 1 ELSE 0) \in Nat
      OBVIOUS
    <3> QED BY <1>21, <3>1 DEF Unmark, Unmarked, TypeOK
  <2> QED BY <1>21, <2>1, <2>2 DEF Unmark, TypeOK
<1>22. CASE DestroyUnregister
  BY <1>22 DEF DestroyUnregister, TypeOK
<1>23. CASE DestroyCleanup
  BY <1>23, PoolAssumption DEF DestroyCleanup, TypeOK
<1>24. CASE IdleTimeout
  BY <1>24 DEF IdleTimeout, TypeOK
<1>25. ASSUME NEW c \in Clients, AbandonTimeout(c) PROVE TypeOK'
  BY <1>25 DEF AbandonTimeout, TypeOK
<1>26. CASE UNCHANGED vars
  BY <1>26 DEF vars, TypeOK
<1>27. CASE MonitorRemove
  BY <1>27, DecrementOne DEF MonitorRemove, DiscardClient, TypeOK
<1> QED
  BY <1>1, <1>2, <1>3, <1>4, <1>5, <1>6, <1>7, <1>8, <1>9, <1>10, <1>11, <1>12, <1>13,
     <1>14, <1>15, <1>16, <1>17, <1>18, <1>19, <1>20, <1>21, <1>22, <1>23, <1>24, <1>25,
     <1>26, <1>27
     DEF Next, BorrowerStep, ClientStep, CommandStep, PoolStep

\* Every reachable state of the pool is well typed; in particular total_count stays
\* a u32 even where it wraps (a release or creation that ends after destroy).
THEOREM TypeCorrect == Spec => []TypeOK
BY InitTypeOK, NextTypeOK, PTL DEF Spec

-----------------------------------------------------------------------------
(* Ownership: no client is in two places or lent to two borrowers *)

\* What Ownership reads.
ownVars == <<idle, in_use, releasing, cancelled, discarded_ids, holds, toRelease>>

\* Nothing is owned, lent or pending initially.
LEMMA InitOwn == Init => Ownership
BY PoolAssumption, EmptyIdle
   DEF Init, Ownership, SingleOwner, ExclusiveBorrow, ReleasedNotHeld, Owned

\* A step that touches no client keeps the ownership facts.
LEMMA OwnStutter == Ownership /\ UNCHANGED ownVars => Ownership'
BY DEF ownVars, Ownership, SingleOwner, ExclusiveBorrow, ReleasedNotHeld, Owned

\* Lending hands out a client nobody knows of and evicts others.
LEMMA LendOwn ==
    ASSUME TypeOK, Ownership, NEW b \in Borrowers, holds[b] = NoClient, Lend(b),
           UNCHANGED taskVars
    PROVE  Ownership'
<1> USE DEF taskVars
<1>1. PICK top \in DOMAIN idle :
          /\ DrainAndEvict(PoppedAbove(top))
          /\ idle' = SubSeq(idle, 1, top - 1)
          /\ in_use' = in_use \cup {idle[top]}
          /\ holds' = [holds EXCEPT ![b] = idle[top]]
  BY DEF Lend
<1> DEFINE evicted == PoppedAbove(top)
           x == idle[top]
<1>2. /\ ToSet(idle) = ToSet(idle') \cup {x} \cup evicted
      /\ IsInjective(idle')
      /\ x \notin evicted
      /\ x \notin ToSet(idle')
      /\ evicted \cap ToSet(idle') = {}
      /\ x \in Clients
  <2>1. idle \in Seq(Clients) /\ IsInjective(idle)
    BY DEF TypeOK, Ownership, SingleOwner
  <2>2. idle' = SubSeq(idle, 1, top - 1)
    BY <1>1
  <2> QED BY <2>1, <2>2, PopFacts
<1>3. discarded_ids' = evicted
  BY <1>1 DEF DrainAndEvict
<1> HIDE DEF evicted, x
<1>4. SingleOwner'
  BY <1>1, <1>2, <1>3 DEF Ownership, SingleOwner, Owned, x
<1>5. \A a \in Borrowers : holds'[a] = IF a = b THEN x ELSE holds[a]
  BY <1>1 DEF TypeOK, x
<1>6. x # NoClient
  BY <1>2, PoolAssumption
<1>7. ExclusiveBorrow'
  BY <1>2, <1>5, <1>6 DEF Ownership, ExclusiveBorrow, ReleasedNotHeld
<1>8. ReleasedNotHeld'
  BY <1>2, <1>5 DEF Ownership, SingleOwner, ReleasedNotHeld
<1> QED BY <1>4, <1>7, <1>8 DEF Ownership

\* A miss evicts the whole stack; a miss on a closed pool only drains.
LEMMA MissOwn ==
    ASSUME TypeOK, Ownership, Miss \/ MissClosed, UNCHANGED taskVars
    PROVE  Ownership'
<1> USE DEF taskVars
<1>1. CASE Miss
  <2>1. idle' = <<>> /\ discarded_ids' = ToSet(idle) /\ UNCHANGED <<in_use, holds>>
    BY <1>1 DEF Miss, DrainAndEvict
  <2> QED BY <2>1, EmptyIdle DEF Ownership, SingleOwner, ExclusiveBorrow, ReleasedNotHeld, Owned
<1>2. CASE MissClosed
  BY <1>2 DEF MissClosed, Ownership, SingleOwner, ExclusiveBorrow, ReleasedNotHeld, Owned
<1> QED BY <1>1, <1>2

\* A client nobody knows of may be pushed on the idle stack.
LEMMA PushOwn ==
    ASSUME TypeOK, Ownership, NEW c \in Clients,
           c \notin ToSet(idle) \cup in_use \cup discarded_ids \cup toRelease \cup cancelled,
           \A b \in Borrowers : holds[b] # c,
           idle' = Append(idle, c),
           releasing' = releasing \ {c},
           UNCHANGED <<in_use, cancelled, discarded_ids, holds, toRelease>>
    PROVE  Ownership'
<1>1. ToSet(idle') = ToSet(idle) \cup {c} /\ IsInjective(idle')
  BY AppendFacts DEF TypeOK, Ownership, SingleOwner
<1>2. SingleOwner'
  BY <1>1 DEF Ownership, SingleOwner, Owned
<1>3. ExclusiveBorrow' /\ ReleasedNotHeld'
  BY <1>1 DEF Ownership, ExclusiveBorrow, ReleasedNotHeld
<1> QED BY <1>2, <1>3 DEF Ownership

\* A slot holder may be moved to the discard list.
LEMMA DiscardOwn ==
    ASSUME Ownership, NEW c,
           in_use' \subseteq in_use, releasing' \subseteq releasing,
           cancelled' \subseteq cancelled,
           c \notin in_use' \cup releasing' \cup cancelled' \cup ToSet(idle),
           discarded_ids' = discarded_ids \cup {c},
           UNCHANGED <<idle, holds, toRelease>>
    PROVE  Ownership'
BY DEF Ownership, SingleOwner, ExclusiveBorrow, ReleasedNotHeld, Owned

\* A borrower that waits in acquire_blocking has no client.
WaitersEmpty == \A b \in waiting : holds[b] = NoClient

\* Acquire starts waiting only without a client and stops when it gets one.
LEMMA NextWaiters ==
    ASSUME TypeOK, WaitersEmpty, [Next]_vars
    PROVE  WaitersEmpty'
<1> USE DEF coreVars, ffiVars, flagVars, userVars, taskVars, monVars, WaitersEmpty
<1>1. ASSUME NEW b \in Borrowers, Attempt(b)
      PROVE  \A a \in Borrowers : a # b => holds'[a] = holds[a]
  BY <1>1 DEF Attempt, Lend, Miss, MissClosed, TypeOK
<1>2. ASSUME NEW b \in Borrowers, BorrowerStep(b) PROVE WaitersEmpty'
  <2>1. CASE TryAcquire(b)
    BY <1>1, <2>1 DEF TryAcquire, TypeOK
  <2>2. CASE AcquireRound(b)
    BY <1>1, <2>2 DEF AcquireRound, TypeOK
  <2>3. CASE AcquireBlocking(b) \/ AcquireTimeout(b)
    BY <2>3 DEF AcquireBlocking, AcquireTimeout
  <2>4. CASE Release(b)
    BY <2>4 DEF Release, TypeOK
  <2>5. CASE DispatchCommand(b) \/ \E k \in Commands : DispatchBlocking(b, k)
    BY <2>5 DEF DispatchCommand, DispatchBlocking
  <2> QED BY <1>2, <2>1, <2>2, <2>3, <2>4, <2>5 DEF BorrowerStep
<1>3. ASSUME NEW c \in Clients, ClientStep(c) PROVE UNCHANGED userVars
  BY <1>3 DEF ClientStep, WarmupDone, CreateDone, TakeForRelease, ResetOk, ResetFailed,
              ReleaseCancelled, DeferredDiscard, MonitorRevalidate, AbandonTimeout
<1>4. ASSUME NEW k \in Commands, CommandStep(k) PROVE UNCHANGED userVars
  BY <1>4 DEF CommandStep, CommandReturned, Unmark
<1>5. CASE PoolStep
  BY <1>5 DEF PoolStep, WarmupFailed, CreateFailed, MonitorScan, MonitorRemove, MonitorAborted,
              DestroyUnregister, DestroyCleanup, IdleTimeout
<1>6. CASE UNCHANGED vars
  BY <1>6 DEF vars
<1> QED BY <1>2, <1>3, <1>4, <1>5, <1>6 DEF Next

\* The client the monitor holds the mutex for is lent and inactive until it is removed.
CondemnedLent == condemned # NoClient => condemned \in in_use \cap inactive

\* What takes clients out of in_use or refreshes them needs the mutex.
LEMMA NextCondemned ==
    ASSUME CondemnedLent, [Next]_vars
    PROVE  CondemnedLent'
<1> USE DEF coreVars, ffiVars, flagVars, userVars, taskVars, monVars, CondemnedLent, MutexFree
<1>1. ASSUME NEW b \in Borrowers, BorrowerStep(b) PROVE CondemnedLent'
  <2>1. CASE TryAcquire(b) \/ AcquireRound(b)
    BY <2>1 DEF TryAcquire, AcquireRound, Attempt
  <2>2. CASE AcquireBlocking(b) \/ AcquireTimeout(b) \/ Release(b)
    BY <2>2 DEF AcquireBlocking, AcquireTimeout, Release
  <2>3. CASE DispatchCommand(b) \/ \E k \in Commands : DispatchBlocking(b, k)
    BY <2>3 DEF DispatchCommand, DispatchBlocking, RefreshActivity
  <2> QED BY <1>1, <2>1, <2>2, <2>3 DEF BorrowerStep
<1>2. ASSUME NEW c \in Clients, ClientStep(c) PROVE CondemnedLent'
  <2>1. CASE MonitorRevalidate(c)
    BY <2>1 DEF MonitorRevalidate, Abandoned
  <2>2. CASE ReleaseCancelled(c) \/ AbandonTimeout(c)
    BY <2>2 DEF ReleaseCancelled, AbandonTimeout
  <2>3. CASE \/ WarmupDone(c) \/ CreateDone(c) \/ TakeForRelease(c) \/ ResetOk(c)
             \/ ResetFailed(c) \/ DeferredDiscard(c)
    BY <2>3 DEF WarmupDone, CreateDone, TakeForRelease, ResetOk, ResetFailed, DeferredDiscard
  <2> QED BY <1>2, <2>1, <2>2, <2>3 DEF ClientStep
<1>3. ASSUME NEW k \in Commands, CommandStep(k) PROVE CondemnedLent'
  BY <1>3 DEF CommandStep, CommandReturned, Unmark, RefreshActivity
<1>4. CASE PoolStep
  BY <1>4 DEF PoolStep, WarmupFailed, CreateFailed, MonitorScan, MonitorRemove, MonitorAborted,
              DestroyUnregister, DestroyCleanup, IdleTimeout
<1>5. CASE UNCHANGED vars
  BY <1>5 DEF vars
<1> QED BY <1>1, <1>2, <1>3, <1>4, <1>5 DEF Next

\* Every step keeps the ownership facts.
LEMMA NextOwn ==
    ASSUME TypeOK, WaitersEmpty, CondemnedLent, Ownership, [Next]_vars
    PROVE  Ownership'
<1> USE DEF coreVars, ffiVars, flagVars, userVars, taskVars, monVars, ownVars
<1>1. ASSUME NEW b \in Borrowers, TryAcquire(b) PROVE Ownership'
  BY <1>1, LendOwn, MissOwn DEF TryAcquire, Attempt
<1>2. ASSUME NEW b \in Borrowers, AcquireBlocking(b) PROVE Ownership'
  BY <1>2, OwnStutter DEF AcquireBlocking
<1>3. ASSUME NEW b \in Borrowers, AcquireRound(b) PROVE Ownership'
  BY <1>3, LendOwn, MissOwn DEF AcquireRound, Attempt, WaitersEmpty
<1>4. ASSUME NEW b \in Borrowers, AcquireTimeout(b) PROVE Ownership'
  BY <1>4, OwnStutter DEF AcquireTimeout
<1>5. ASSUME NEW b \in Borrowers, Release(b) PROVE Ownership'
  <2>1. holds[b] # NoClient /\ holds' = [holds EXCEPT ![b] = NoClient]
    BY <1>5 DEF Release
  <2>2. \A a \in Borrowers : holds'[a] = IF a = b THEN NoClient ELSE holds[a]
    BY <2>1 DEF TypeOK
  <2>3. /\ toRelease' \subseteq toRelease \cup {holds[b]}
        /\ UNCHANGED <<idle, in_use, releasing, cancelled, discarded_ids>>
    BY <1>5 DEF Release
  <2>4. SingleOwner'
    BY <2>3 DEF Ownership, SingleOwner, Owned
  <2>5. ExclusiveBorrow'
    BY <2>2 DEF Ownership, ExclusiveBorrow
  <2>6. NoClient \notin toRelease \cup {holds[b]} \cup releasing \cup cancelled \cup ToSet(idle)
    BY <2>1, PoolAssumption, IdleClients DEF TypeOK
  <2>7. ReleasedNotHeld'
    <3>1. \A a \in Borrowers \ {b} : holds[a] # holds[b]
      BY <2>1 DEF Ownership, ExclusiveBorrow
    <3> QED BY <2>2, <2>3, <2>6, <3>1 DEF Ownership, ReleasedNotHeld
  <2> QED BY <2>4, <2>5, <2>7 DEF Ownership
<1>6. ASSUME NEW b \in Borrowers, DispatchCommand(b) PROVE Ownership'
  BY <1>6, OwnStutter DEF DispatchCommand
<1>7. ASSUME NEW b \in Borrowers, NEW k \in Commands, DispatchBlocking(b, k) PROVE Ownership'
  BY <1>7, OwnStutter DEF DispatchBlocking
<1>8. ASSUME NEW c \in Clients, WarmupDone(c) \/ CreateDone(c) PROVE Ownership'
  <2>1. Fresh(c) /\ UNCHANGED <<in_use, cancelled, discarded_ids, holds, toRelease, releasing>>
    BY <1>8 DEF WarmupDone, CreateDone
  <2>2. CASE Running
    <3>1. idle' = Append(idle, c)
      BY <1>8, <2>2 DEF WarmupDone, CreateDone, AddClient
    <3>2. releasing' = releasing \ {c}
      BY <2>1 DEF Fresh, Owned
    <3> QED BY <2>1, <3>1, <3>2, PushOwn DEF Fresh, Owned
  <2>3. CASE ~Running
    BY <1>8, <2>1, <2>3, OwnStutter DEF WarmupDone, CreateDone
  <2> QED BY <2>2, <2>3
<1>9. CASE WarmupFailed \/ CreateFailed
  BY <1>9, OwnStutter DEF WarmupFailed, CreateFailed
<1>10. ASSUME NEW c \in Clients, TakeForRelease(c) PROVE Ownership'
  <2>1. CASE c \in in_use
    BY <1>10, <2>1
       DEF TakeForRelease, Ownership, SingleOwner, ExclusiveBorrow, ReleasedNotHeld, Owned
  <2>2. CASE c \notin in_use
    BY <1>10, <2>2
       DEF TakeForRelease, Ownership, SingleOwner, ExclusiveBorrow, ReleasedNotHeld, Owned
  <2> QED BY <2>1, <2>2
<1>11. ASSUME NEW c \in Clients, ResetOk(c) PROVE Ownership'
  <2>1. CASE Running
    <3>1. /\ c \notin ToSet(idle) \cup in_use \cup discarded_ids \cup toRelease \cup cancelled
          /\ \A b \in Borrowers : holds[b] # c
      BY <1>11 DEF ResetOk, Ownership, SingleOwner, ReleasedNotHeld, Owned
    <3> QED BY <1>11, <2>1, <3>1, PushOwn DEF ResetOk, ReturnToIdle
  <2>2. CASE ~Running
    BY <1>11, <2>2, DiscardOwn DEF ResetOk, ReturnToIdle, DiscardClient, Ownership, SingleOwner
  <2> QED BY <2>1, <2>2
<1>12. ASSUME NEW c \in Clients, ResetFailed(c) PROVE Ownership'
  BY <1>12, DiscardOwn DEF ResetFailed, DiscardClient, Ownership, SingleOwner
<1>13. ASSUME NEW c \in Clients, ReleaseCancelled(c) PROVE Ownership'
  <2>1. CASE DiscardClient(c) /\ UNCHANGED cancelled
    BY <1>13, <2>1, DiscardOwn DEF ReleaseCancelled, DiscardClient, Ownership, SingleOwner
  <2>2. CASE cancelled' = cancelled \cup {c} /\ UNCHANGED <<total_count, discarded_ids, flags>>
    BY <1>13, <2>2
       DEF ReleaseCancelled, Ownership, SingleOwner, ExclusiveBorrow, ReleasedNotHeld, Owned
  <2> QED BY <1>13, <2>1, <2>2 DEF ReleaseCancelled
<1>14. ASSUME NEW c \in Clients, DeferredDiscard(c) PROVE Ownership'
  BY <1>14, DiscardOwn DEF DeferredDiscard, DiscardClient, Ownership, SingleOwner
<1>15. CASE MonitorRemove
  <2>1. condemned \in in_use
    BY <1>15 DEF MonitorRemove, CondemnedLent
  <2> QED BY <1>15, <2>1, DiscardOwn DEF MonitorRemove, DiscardClient, Ownership, SingleOwner
<1>16. CASE MonitorScan \/ MonitorAborted \/ DestroyUnregister \/ IdleTimeout
  BY <1>16, OwnStutter DEF MonitorScan, MonitorAborted, DestroyUnregister, IdleTimeout
<1>17. ASSUME NEW k \in Commands, CommandStep(k) PROVE Ownership'
  BY <1>17, OwnStutter DEF CommandStep, CommandReturned, Unmark
<1>18. CASE DestroyCleanup
  <2>1. /\ idle' = <<>> /\ in_use' = {} /\ discarded_ids' = {}
        /\ UNCHANGED <<holds, toRelease, releasing, cancelled>>
    BY <1>18 DEF DestroyCleanup
  <2> QED BY <2>1, EmptyIdle DEF Ownership, SingleOwner, ExclusiveBorrow, ReleasedNotHeld, Owned
<1>19. ASSUME NEW c \in Clients, AbandonTimeout(c) PROVE Ownership'
  BY <1>19, OwnStutter DEF AbandonTimeout
<1>20. CASE UNCHANGED vars
  BY <1>20, OwnStutter DEF vars
<1>21. ASSUME NEW c \in Clients, MonitorRevalidate(c) PROVE Ownership'
  BY <1>21, OwnStutter DEF MonitorRevalidate
<1> QED
  BY <1>1, <1>2, <1>3, <1>4, <1>5, <1>6, <1>7, <1>8, <1>9, <1>10, <1>11, <1>12, <1>13,
     <1>14, <1>15, <1>16, <1>17, <1>18, <1>19, <1>20, <1>21
     DEF Next, BorrowerStep, ClientStep, PoolStep

\* A client is never in two places and never has two holders: for every number of
\* borrowers and clients and every interleaving of releases, resets, cancellations,
\* abandonments and destroy, although ids are lent again and again and the monitor
\* takes clients away from borrowers that still know their id.
THEOREM OwnershipSafe == Spec => []Ownership
<1> DEFINE I == TypeOK /\ WaitersEmpty /\ CondemnedLent /\ Ownership
<1>1. Init => I
  BY InitTypeOK, InitOwn DEF Init, WaitersEmpty, CondemnedLent
<1>2. I /\ [Next]_vars => I'
  BY NextTypeOK, NextWaiters, NextCondemned, NextOwn
<1> QED BY <1>1, <1>2, PTL DEF Spec

-----------------------------------------------------------------------------
(* Accounting: total_count is the number of slots taken *)

\* The counters and bounds are naturals.
LEMMA Counters ==
    ASSUME TypeOK
    PROVE  /\ total_count \in Nat /\ creating \in Nat /\ warming \in Nat
           /\ total_count < CountMod /\ warming <= MinIdle
           /\ MaxSize \in Nat /\ MinIdle \in Nat /\ CountMod \in Nat
           /\ MaxSize + MinIdle < CountMod
BY PoolAssumption DEF TypeOK

\* The slots taken are finitely many.
LEMMA OwnedFinite ==
    ASSUME TypeOK
    PROVE  IsFiniteSet(Owned) /\ Cardinality(Owned) \in Nat
<1>1. Owned \subseteq Clients
  BY IdleClients DEF TypeOK, Owned
<1> QED BY <1>1, PoolAssumption, FS_Subset, FS_CardinalityType

\* The counter agrees with an empty pool.
LEMMA InitCount == Init => SlotsExact
<1> SUFFICES ASSUME Init PROVE SlotsExact
  OBVIOUS
<1>1. Owned = {}
  BY EmptyIdle DEF Init, Owned
<1> QED BY <1>1, FS_EmptySet, PoolAssumption DEF Init, SlotsExact, CountMatches, CapacityBound

\* A step that moves clients between places, and no slot, keeps the count; so does
\* one that leaves the pool destroyed.
LEMMA CountSame ==
    ASSUME TypeOK, SlotsExact, Owned' = Owned,
           UNCHANGED <<poolState, total_count, creating>>, warming' \in Nat, warming' <= warming
    PROVE  SlotsExact'
<1>1. CountMatches'
  BY DEF SlotsExact, CountMatches, Running
<1>2. CapacityBound'
  BY Counters DEF SlotsExact, CapacityBound, Running
<1> QED BY <1>1, <1>2 DEF SlotsExact

\* A destroyed pool makes no claim about its counter.
LEMMA CountClosed ==
    ASSUME poolState' # "RUNNING"
    PROVE  SlotsExact'
BY DEF SlotsExact, CountMatches, CapacityBound, Running

\* Evicting or discarding clients gives exactly their slots back.
LEMMA CountRemove ==
    ASSUME TypeOK, SlotsExact, Running, NEW E, E \subseteq Owned
    PROVE  /\ Cardinality(E) \in Nat
           /\ Decrement(Cardinality(E)) = total_count - Cardinality(E)
           /\ Cardinality(Owned \ E) = Cardinality(Owned) - Cardinality(E)
           /\ Cardinality(E) <= total_count
<1>1. IsFiniteSet(Owned) /\ Cardinality(Owned) \in Nat
  BY OwnedFinite
<1>2. Cardinality(E) \in Nat /\ Cardinality(E) <= Cardinality(Owned)
  BY <1>1, FS_Subset, FS_CardinalityType
<1>3. Cardinality(Owned \ E) = Cardinality(Owned) - Cardinality(E)
  <2>1. Owned \cap E = E
    OBVIOUS
  <2> QED BY <1>1, <2>1, FS_Difference
<1>4. Cardinality(E) <= total_count
  BY <1>1, <1>2 DEF SlotsExact, CountMatches, TypeOK
<1> QED BY <1>2, <1>3, <1>4, DecrementFacts DEF TypeOK

\* A discarded client gives one slot back.
LEMMA CountDiscard ==
    ASSUME TypeOK, SlotsExact, NEW c \in Owned, total_count' = Decrement(1),
           Owned' = Owned \ {c}, UNCHANGED <<poolState, creating, warming>>
    PROVE  SlotsExact'
<1>1. CASE Running
  <2>1. Cardinality({c}) = 1
    BY FS_Singleton
  <2>2. total_count' = total_count - 1 /\ Cardinality(Owned') = Cardinality(Owned) - 1
    BY <1>1, <2>1, CountRemove
  <2>3. Cardinality(Owned) \in Nat
    BY OwnedFinite
  <2>4. /\ total_count \in Nat /\ creating \in Nat /\ warming \in Nat
        /\ MaxSize \in Nat /\ MinIdle \in Nat
    BY PoolAssumption DEF TypeOK
  <2>5. /\ total_count = Cardinality(Owned) + creating
        /\ total_count + warming <= MaxSize + MinIdle
    BY <1>1 DEF SlotsExact, CountMatches, CapacityBound
  <2>6. CountMatches'
    BY <2>2, <2>3, <2>4, <2>5 DEF CountMatches
  <2>7. CapacityBound'
    BY <2>2, <2>4, <2>5 DEF CapacityBound
  <2> QED BY <2>6, <2>7 DEF SlotsExact
<1>2. CASE ~Running
  BY <1>2, CountClosed DEF Running
<1> QED BY <1>1, <1>2

\* A new client takes one slot.
LEMMA CountAdd ==
    ASSUME TypeOK, NEW c, c \notin Owned, Owned' = Owned \cup {c}
    PROVE  Cardinality(Owned') = Cardinality(Owned) + 1 /\ Cardinality(Owned) \in Nat
BY OwnedFinite, FS_AddElement

\* An attempt to acquire keeps the count.
LEMMA AttemptCount ==
    ASSUME TypeOK, Ownership, SlotsExact, NEW b \in Borrowers, Attempt(b)
    PROVE  SlotsExact'
<1> USE DEF taskVars
<1>1. CASE Lend(b)
  <2>1. PICK top \in DOMAIN idle :
            /\ idle' = SubSeq(idle, 1, top - 1)
            /\ in_use' = in_use \cup {idle[top]}
            /\ total_count' = Decrement(Cardinality(PoppedAbove(top)))
    BY <1>1 DEF Lend
  <2>2. /\ ToSet(idle) = ToSet(idle') \cup {idle[top]} \cup PoppedAbove(top)
        /\ idle[top] \notin PoppedAbove(top)
        /\ PoppedAbove(top) \cap ToSet(idle') = {}
    BY <2>1, PopFacts DEF TypeOK, Ownership, SingleOwner
  <2>3. UNCHANGED <<releasing, cancelled, poolState, warming, creating>>
    BY <1>1 DEF Attempt, Lend
  <2>4. /\ PoppedAbove(top) \subseteq Owned
        /\ Owned' = Owned \ PoppedAbove(top)
    BY <2>1, <2>2, <2>3 DEF Owned, Ownership, SingleOwner
  <2>5. Running
    BY <1>1 DEF Lend
  <2>6. /\ total_count' = total_count - Cardinality(PoppedAbove(top))
        /\ Cardinality(PoppedAbove(top)) \in Nat
        /\ Cardinality(Owned') = Cardinality(Owned) - Cardinality(PoppedAbove(top))
    BY <2>1, <2>4, <2>5, CountRemove
  <2>7. Cardinality(Owned) \in Nat
    BY OwnedFinite
  <2>8. CountMatches'
    BY <2>3, <2>5, <2>6, <2>7, Counters DEF SlotsExact, CountMatches, Running
  <2>9. CapacityBound'
    BY <2>3, <2>5, <2>6, Counters DEF SlotsExact, CapacityBound, Running
  <2> QED BY <2>8, <2>9 DEF SlotsExact
<1>2. CASE Miss
  <2> DEFINE n == Cardinality(ToSet(idle))
  <2>1. idle' = <<>> /\ UNCHANGED <<in_use, releasing, cancelled, poolState, warming>>
    BY <1>2 DEF Attempt, Miss
  <2>2. Owned' = Owned \ ToSet(idle) /\ ToSet(idle) \subseteq Owned
    BY <2>1, EmptyIdle DEF Owned, Ownership, SingleOwner
  <2>3. Running
    BY <1>2 DEF Miss
  <2>4. /\ n \in Nat
        /\ Decrement(n) = total_count - n
        /\ n <= total_count
        /\ Cardinality(Owned') = Cardinality(Owned) - n
    BY <2>2, <2>3, CountRemove
  <2>5. \/ Decrement(n) < MaxSize /\ total_count' = Decrement(n) + 1 /\ creating' = creating + 1
        \/ total_count' = Decrement(n) /\ creating' = creating
    BY <1>2 DEF Miss, ShouldCreate
  <2>6. Cardinality(Owned) \in Nat
    BY OwnedFinite
  <2> HIDE DEF n
  <2>7. CountMatches'
    BY <2>1, <2>3, <2>4, <2>5, <2>6 DEF TypeOK, SlotsExact, CountMatches, Running
  <2>8. CapacityBound'
    BY <2>1, <2>3, <2>4, <2>5, PoolAssumption DEF TypeOK, SlotsExact, CapacityBound, Running
  <2> QED BY <2>7, <2>8 DEF SlotsExact
<1>3. CASE MissClosed
  BY <1>3, CountClosed DEF MissClosed, Attempt, Running
<1> QED BY <1>1, <1>2, <1>3 DEF Attempt

\* Every step keeps the count.
LEMMA NextCount ==
    ASSUME TypeOK, CondemnedLent, Ownership, SlotsExact, [Next]_vars
    PROVE  SlotsExact'
<1> USE DEF coreVars, ffiVars, flagVars, userVars, taskVars, monVars
<1>1. warming \in Nat
  BY PoolAssumption DEF TypeOK
<1>2. ASSUME NEW b \in Borrowers, BorrowerStep(b) PROVE SlotsExact'
  <2>1. CASE TryAcquire(b) \/ AcquireRound(b)
    BY <2>1, AttemptCount DEF TryAcquire, AcquireRound
  <2>2. CASE AcquireBlocking(b) \/ AcquireTimeout(b)
    BY <1>1, <2>2, CountSame DEF AcquireBlocking, AcquireTimeout, Owned
  <2>3. CASE Release(b)
    BY <1>1, <2>3, CountSame DEF Release, Owned
  <2>4. CASE DispatchCommand(b) \/ \E k \in Commands : DispatchBlocking(b, k)
    BY <1>1, <2>4, CountSame DEF DispatchCommand, DispatchBlocking, Owned
  <2> QED BY <1>2, <2>1, <2>2, <2>3, <2>4 DEF BorrowerStep
<1>3. ASSUME NEW c \in Clients, WarmupDone(c) PROVE SlotsExact'
  <2>1. CASE Running
    <3>1. /\ idle' = Append(idle, c) /\ c \notin Owned
          /\ UNCHANGED <<in_use, releasing, cancelled, poolState, creating>>
          /\ warming' = warming - 1 /\ warming > 0
          /\ total_count' = (total_count + 1) % CountMod
      BY <1>3, <2>1 DEF WarmupDone, AddClient, Fresh
    <3>2. Owned' = Owned \cup {c}
      BY <3>1, AppendFacts DEF Owned, TypeOK
    <3>3. Cardinality(Owned') = Cardinality(Owned) + 1 /\ Cardinality(Owned) \in Nat
      BY <3>1, <3>2, CountAdd
    <3>4. total_count' = total_count + 1
      <4>1. warming > 0 /\ total_count' = (total_count + 1) % CountMod
        BY <3>1
      <4>2. total_count + warming <= MaxSize + MinIdle
        BY <2>1 DEF SlotsExact, CapacityBound
      <4>3. total_count + 1 < CountMod
        BY <4>1, <4>2, Counters
      <4> QED BY <4>1, <4>3, Counters, IncrementFacts
    <3>5. CountMatches'
      BY <2>1, <3>1, <3>3, <3>4, Counters DEF SlotsExact, CountMatches, Running
    <3>6. CapacityBound'
      BY <2>1, <3>1, <3>4, Counters DEF SlotsExact, CapacityBound, Running
    <3> QED BY <3>5, <3>6 DEF SlotsExact
  <2>2. CASE ~Running
    BY <1>3, <2>2, CountClosed DEF WarmupDone, Running
  <2> QED BY <2>1, <2>2
<1>4. ASSUME NEW c \in Clients, CreateDone(c) PROVE SlotsExact'
  <2>1. CASE Running
    <3>1. /\ idle' = Append(idle, c) /\ c \notin Owned
          /\ UNCHANGED <<in_use, releasing, cancelled, poolState, warming, total_count>>
          /\ creating' = creating - 1 /\ creating > 0
      BY <1>4, <2>1 DEF CreateDone, AddClient, Fresh
    <3>2. Owned' = Owned \cup {c}
      BY <3>1, AppendFacts DEF Owned, TypeOK
    <3>3. Cardinality(Owned') = Cardinality(Owned) + 1 /\ Cardinality(Owned) \in Nat
      BY <3>1, <3>2, CountAdd
    <3> QED BY <2>1, <3>1, <3>3 DEF TypeOK, SlotsExact, CountMatches, CapacityBound, Running
  <2>2. CASE ~Running
    BY <1>4, <2>2, CountClosed DEF CreateDone, Running
  <2> QED BY <2>1, <2>2
<1>5. CASE WarmupFailed
  BY <1>1, <1>5, CountSame DEF WarmupFailed, Owned
<1>6. CASE CreateFailed
  <2>1. CASE Running
    <3>1. /\ creating > 0 /\ creating' = creating - 1 /\ total_count' = Decrement(1)
          /\ Owned' = Owned /\ UNCHANGED <<poolState, warming>>
      BY <1>6 DEF CreateFailed, Owned
    <3>2. Cardinality(Owned) \in Nat
      BY OwnedFinite
    <3>3. total_count >= 1
      BY <2>1, <3>1, <3>2 DEF TypeOK, SlotsExact, CountMatches
    <3>4. total_count' = total_count - 1
      BY <3>1, <3>3, DecrementFacts DEF TypeOK
    <3> QED BY <1>1, <2>1, <3>1, <3>2, <3>4, PoolAssumption
            DEF TypeOK, SlotsExact, CountMatches, CapacityBound, Running
  <2>2. CASE ~Running
    BY <1>6, <2>2, CountClosed DEF CreateFailed, Running
  <2> QED BY <2>1, <2>2
<1>7. ASSUME NEW c \in Clients, TakeForRelease(c) PROVE SlotsExact'
  <2>1. Owned' = Owned
    BY <1>7 DEF TakeForRelease, Owned
  <2> QED BY <1>1, <1>7, <2>1, CountSame DEF TakeForRelease
<1>8. ASSUME NEW c \in Clients, ResetOk(c) PROVE SlotsExact'
  <2>1. CASE Running
    <3>1. Owned' = Owned
      <4>1. ToSet(Append(idle, c)) = ToSet(idle) \cup {c}
        BY AppendFacts DEF TypeOK
      <4> QED BY <1>8, <2>1, <4>1 DEF ResetOk, ReturnToIdle, Owned
    <3> QED BY <1>1, <1>8, <2>1, <3>1, CountSame DEF ResetOk, ReturnToIdle
  <2>2. CASE ~Running
    BY <1>8, <2>2, CountClosed DEF ResetOk, Running
  <2> QED BY <2>1, <2>2
<1>9. ASSUME NEW c \in Clients, ResetFailed(c) PROVE SlotsExact'
  <2>1. c \in Owned /\ Owned' = Owned \ {c}
    BY <1>9 DEF ResetFailed, Owned, Ownership, SingleOwner
  <2> QED BY <1>9, <2>1, CountDiscard DEF ResetFailed, DiscardClient
<1>10. ASSUME NEW c \in Clients, ReleaseCancelled(c) PROVE SlotsExact'
  <2>1. CASE DiscardClient(c) /\ UNCHANGED cancelled
    <3>1. c \in Owned /\ Owned' = Owned \ {c}
      BY <1>10, <2>1 DEF ReleaseCancelled, Owned, Ownership, SingleOwner
    <3> QED BY <1>10, <2>1, <3>1, CountDiscard DEF ReleaseCancelled, DiscardClient
  <2>2. CASE cancelled' = cancelled \cup {c} /\ UNCHANGED <<total_count, discarded_ids, flags>>
    <3>1. Owned' = Owned
      BY <1>10, <2>2 DEF ReleaseCancelled, Owned
    <3> QED BY <1>1, <1>10, <2>2, <3>1, CountSame DEF ReleaseCancelled
  <2> QED BY <1>10, <2>1, <2>2 DEF ReleaseCancelled
<1>11. ASSUME NEW c \in Clients, DeferredDiscard(c) PROVE SlotsExact'
  <2>1. c \in Owned /\ Owned' = Owned \ {c}
    BY <1>11 DEF DeferredDiscard, Owned, Ownership, SingleOwner
  <2> QED BY <1>11, <2>1, CountDiscard DEF DeferredDiscard, DiscardClient
<1>12. CASE MonitorRemove
  <2>1. condemned \in Owned /\ Owned' = Owned \ {condemned}
    BY <1>12 DEF MonitorRemove, CondemnedLent, Owned, Ownership, SingleOwner
  <2> QED BY <1>12, <2>1, CountDiscard DEF MonitorRemove, DiscardClient
<1>13. CASE MonitorScan \/ MonitorAborted \/ DestroyUnregister \/ IdleTimeout
  BY <1>1, <1>13, CountSame DEF MonitorScan, MonitorAborted, DestroyUnregister, IdleTimeout, Owned
<1>14. ASSUME NEW k \in Commands, CommandStep(k) PROVE SlotsExact'
  BY <1>1, <1>14, CountSame DEF CommandStep, CommandReturned, Unmark, Owned
<1>15. CASE DestroyCleanup
  BY <1>15, CountClosed DEF DestroyCleanup
<1>16. ASSUME NEW c \in Clients, AbandonTimeout(c) PROVE SlotsExact'
  BY <1>1, <1>16, CountSame DEF AbandonTimeout, Owned
<1>17. CASE UNCHANGED vars
  BY <1>1, <1>17, CountSame DEF vars, Owned
<1>18. ASSUME NEW c \in Clients, MonitorRevalidate(c) PROVE SlotsExact'
  BY <1>1, <1>18, CountSame DEF MonitorRevalidate, Owned
<1> QED
  BY <1>2, <1>3, <1>4, <1>5, <1>6, <1>7, <1>8, <1>9, <1>10, <1>11, <1>12, <1>13, <1>14,
     <1>15, <1>16, <1>17, <1>18 DEF Next, ClientStep, PoolStep

\* In a running pool total_count is the number of slots taken, and at most max_size +
\* min_idle: no path leaks a slot or gives one back twice, so the pool never wedges
\* below max_size, and the warm-up is the only way past it.
THEOREM SlotsAccounted == Spec => []SlotsExact
<1> DEFINE I == TypeOK /\ WaitersEmpty /\ CondemnedLent /\ Ownership /\ SlotsExact
<1>1. Init => I
  BY InitTypeOK, InitOwn, InitCount DEF Init, WaitersEmpty, CondemnedLent
<1>2. I /\ [Next]_vars => I'
  BY NextTypeOK, NextWaiters, NextCondemned, NextOwn, NextCount
<1> QED BY <1>1, <1>2, PTL DEF Spec

-----------------------------------------------------------------------------
(* Registries: what is kept per client id follows the clients *)

\* The adapter and flag tables, which both follow the slots.
TablesExact == AdaptersAccounted /\ FlagsLive

\* A step that moves clients between places touches no table entry.
LEMMA TablesSame ==
    ASSUME TablesExact, Owned' = Owned,
           UNCHANGED <<poolState, adapters, flags, discarded_ids>>
    PROVE  TablesExact'
BY DEF TablesExact, AdaptersAccounted, FlagsLive, Running

\* A destroyed pool makes no claim about the tables.
LEMMA TablesClosed ==
    ASSUME poolState' # "RUNNING"
    PROVE  TablesExact'
BY DEF TablesExact, AdaptersAccounted, FlagsLive, Running

\* A discarded client leaves the flags and stays an adapter until the next drain.
LEMMA TablesDiscard ==
    ASSUME TablesExact, NEW c \in Owned, Owned' = Owned \ {c},
           flags' = flags \ {c}, discarded_ids' = discarded_ids \cup {c},
           UNCHANGED <<poolState, adapters>>
    PROVE  TablesExact'
BY DEF TablesExact, AdaptersAccounted, FlagsLive, Running

\* A new client enters both tables.
LEMMA TablesAdd ==
    ASSUME TablesExact, NEW c, Owned' = Owned \cup {c},
           flags' = flags \cup {c}, adapters' = adapters \cup {c},
           UNCHANGED <<poolState, discarded_ids>>
    PROVE  TablesExact'
BY DEF TablesExact, AdaptersAccounted, FlagsLive, Running

\* The drain reclaims the adapters of the ids reported before, the evictions report
\* theirs.
LEMMA TablesEvict ==
    ASSUME TablesExact, discarded_ids \cap Owned = {}, NEW E, E \subseteq Owned,
           Owned' = Owned \ E, flags' = flags \ E,
           adapters' = adapters \ discarded_ids, discarded_ids' = E,
           UNCHANGED poolState
    PROVE  TablesExact'
BY DEF TablesExact, AdaptersAccounted, FlagsLive, Running

\* An attempt to acquire keeps the tables.
LEMMA AttemptTables ==
    ASSUME TypeOK, Ownership, TablesExact, NEW b \in Borrowers, Attempt(b)
    PROVE  TablesExact'
<1> USE DEF taskVars
<1>1. discarded_ids \cap Owned = {} /\ UNCHANGED <<poolState, releasing, cancelled>>
  BY DEF Ownership, SingleOwner, Attempt
<1>2. CASE Lend(b)
  <2>1. PICK top \in DOMAIN idle :
            /\ DrainAndEvict(PoppedAbove(top))
            /\ idle' = SubSeq(idle, 1, top - 1)
            /\ in_use' = in_use \cup {idle[top]}
    BY <1>2 DEF Lend
  <2>2. /\ ToSet(idle) = ToSet(idle') \cup {idle[top]} \cup PoppedAbove(top)
        /\ idle[top] \notin PoppedAbove(top)
        /\ PoppedAbove(top) \cap ToSet(idle') = {}
    BY <2>1, PopFacts DEF TypeOK, Ownership, SingleOwner
  <2>3. PoppedAbove(top) \subseteq Owned /\ Owned' = Owned \ PoppedAbove(top)
    BY <1>1, <2>1, <2>2 DEF Owned, Ownership, SingleOwner
  <2> QED BY <1>1, <2>1, <2>3, TablesEvict DEF DrainAndEvict
<1>3. CASE Miss
  <2>1. DrainAndEvict(ToSet(idle)) /\ idle' = <<>> /\ UNCHANGED in_use
    BY <1>3 DEF Miss
  <2>2. ToSet(idle) \subseteq Owned /\ Owned' = Owned \ ToSet(idle)
    BY <1>1, <2>1, EmptyIdle DEF Owned, Ownership, SingleOwner
  <2> QED BY <1>1, <2>1, <2>2, TablesEvict DEF DrainAndEvict
<1>4. CASE MissClosed
  BY <1>1, <1>4, TablesClosed DEF MissClosed, Running
<1> QED BY <1>2, <1>3, <1>4 DEF Attempt

\* Every step keeps the tables.
LEMMA NextTables ==
    ASSUME TypeOK, CondemnedLent, Ownership, TablesExact, [Next]_vars
    PROVE  TablesExact'
<1> USE DEF coreVars, ffiVars, flagVars, userVars, taskVars, monVars
<1>1. ASSUME NEW b \in Borrowers, BorrowerStep(b) PROVE TablesExact'
  <2>1. CASE TryAcquire(b) \/ AcquireRound(b)
    BY <2>1, AttemptTables DEF TryAcquire, AcquireRound
  <2>2. CASE AcquireBlocking(b) \/ AcquireTimeout(b) \/ Release(b)
    BY <2>2, TablesSame DEF AcquireBlocking, AcquireTimeout, Release, Owned
  <2>3. CASE DispatchCommand(b) \/ \E k \in Commands : DispatchBlocking(b, k)
    BY <2>3, TablesSame DEF DispatchCommand, DispatchBlocking, Owned
  <2> QED BY <1>1, <2>1, <2>2, <2>3 DEF BorrowerStep
<1>2. ASSUME NEW c \in Clients, WarmupDone(c) \/ CreateDone(c) PROVE TablesExact'
  <2>1. CASE Running
    <3>1. AddClient(c) /\ UNCHANGED <<poolState, in_use, releasing, cancelled, discarded_ids>>
      BY <1>2, <2>1 DEF WarmupDone, CreateDone
    <3>2. Owned' = Owned \cup {c}
      BY <3>1, AppendFacts DEF AddClient, Owned, TypeOK
    <3> QED BY <3>1, <3>2, TablesAdd DEF AddClient
  <2>2. CASE ~Running
    BY <1>2, <2>2, TablesClosed DEF WarmupDone, CreateDone, Running
  <2> QED BY <2>1, <2>2
<1>3. CASE WarmupFailed \/ CreateFailed
  BY <1>3, TablesSame DEF WarmupFailed, CreateFailed, Owned
<1>4. ASSUME NEW c \in Clients, TakeForRelease(c) PROVE TablesExact'
  <2>1. Owned' = Owned
    BY <1>4 DEF TakeForRelease, Owned
  <2> QED BY <1>4, <2>1, TablesSame DEF TakeForRelease
<1>5. ASSUME NEW c \in Clients, ResetOk(c) PROVE TablesExact'
  <2>1. CASE Running
    <3>1. ToSet(Append(idle, c)) = ToSet(idle) \cup {c}
      BY AppendFacts DEF TypeOK
    <3>2. Owned' = Owned
      BY <1>5, <2>1, <3>1 DEF ResetOk, ReturnToIdle, Owned
    <3> QED BY <1>5, <2>1, <3>2, TablesSame DEF ResetOk, ReturnToIdle
  <2>2. CASE ~Running
    BY <1>5, <2>2, TablesClosed DEF ResetOk, Running
  <2> QED BY <2>1, <2>2
<1>6. ASSUME NEW c \in Clients, ResetFailed(c) \/ DeferredDiscard(c) PROVE TablesExact'
  <2>1. c \in Owned /\ Owned' = Owned \ {c}
    BY <1>6 DEF ResetFailed, DeferredDiscard, Owned, Ownership, SingleOwner
  <2> QED BY <1>6, <2>1, TablesDiscard DEF ResetFailed, DeferredDiscard, DiscardClient
<1>7. ASSUME NEW c \in Clients, ReleaseCancelled(c) PROVE TablesExact'
  <2>1. CASE DiscardClient(c) /\ UNCHANGED cancelled
    <3>1. c \in Owned /\ Owned' = Owned \ {c}
      BY <1>7, <2>1 DEF ReleaseCancelled, Owned, Ownership, SingleOwner
    <3> QED BY <1>7, <2>1, <3>1, TablesDiscard DEF ReleaseCancelled, DiscardClient
  <2>2. CASE cancelled' = cancelled \cup {c} /\ UNCHANGED <<total_count, discarded_ids, flags>>
    <3>1. Owned' = Owned
      BY <1>7, <2>2 DEF ReleaseCancelled, Owned
    <3> QED BY <1>7, <2>2, <3>1, TablesSame DEF ReleaseCancelled
  <2> QED BY <1>7, <2>1, <2>2 DEF ReleaseCancelled
<1>8. CASE MonitorRemove
  <2>1. condemned \in Owned /\ Owned' = Owned \ {condemned}
    BY <1>8 DEF MonitorRemove, CondemnedLent, Owned, Ownership, SingleOwner
  <2> QED BY <1>8, <2>1, TablesDiscard DEF MonitorRemove, DiscardClient
<1>9. CASE MonitorScan \/ MonitorAborted \/ DestroyUnregister \/ IdleTimeout
  BY <1>9, TablesSame DEF MonitorScan, MonitorAborted, DestroyUnregister, IdleTimeout, Owned
<1>10. ASSUME NEW k \in Commands, CommandStep(k) PROVE TablesExact'
  BY <1>10, TablesSame DEF CommandStep, CommandReturned, Unmark, Owned
<1>11. CASE DestroyCleanup
  BY <1>11, TablesClosed DEF DestroyCleanup
<1>12. ASSUME NEW c \in Clients, AbandonTimeout(c) PROVE TablesExact'
  BY <1>12, TablesSame DEF AbandonTimeout, Owned
<1>13. CASE UNCHANGED vars
  BY <1>13, TablesSame DEF vars, Owned
<1>14. ASSUME NEW c \in Clients, MonitorRevalidate(c) PROVE TablesExact'
  BY <1>14, TablesSame DEF MonitorRevalidate, Owned
<1> QED
  BY <1>1, <1>2, <1>3, <1>4, <1>5, <1>6, <1>7, <1>8, <1>9, <1>10, <1>11, <1>12, <1>13, <1>14
     DEF Next, ClientStep, PoolStep

\* The commands counted on a client are finitely many.
LEMMA CommandsFinite ==
    ASSUME NEW c
    PROVE  IsFiniteSet(CommandsOn(c)) /\ Cardinality(CommandsOn(c)) \in Nat
<1>1. CommandsOn(c) \subseteq Commands
  BY DEF CommandsOn
<1> QED BY <1>1, PoolAssumption, FS_Subset, FS_CardinalityType

\* A step that starts and ends no command may only lower counters.
LEMMA BlockingSame ==
    ASSUME TypeOK, NoPhantomBlocking,
           \A c \in Clients : is_blocking'[c] = is_blocking[c] \/ is_blocking'[c] = 0,
           \A k \in Commands : cmd'[k].client = cmd[k].client
    PROVE  NoPhantomBlocking'
<1> SUFFICES ASSUME NEW c \in Clients
             PROVE  is_blocking'[c] <= Cardinality(CommandsOn(c)')
  BY DEF NoPhantomBlocking
<1>1. CommandsOn(c)' = CommandsOn(c)
  BY DEF CommandsOn
<1>2. Cardinality(CommandsOn(c)) \in Nat
  BY CommandsFinite
<1> QED BY <1>1, <1>2 DEF NoPhantomBlocking

\* Every step keeps the blocking counters below the commands in flight.
LEMMA NextBlocking ==
    ASSUME TypeOK, NoPhantomBlocking, [Next]_vars
    PROVE  NoPhantomBlocking'
<1> USE DEF coreVars, ffiVars, flagVars, userVars, taskVars, monVars
<1>1. ASSUME NEW b \in Borrowers, NEW k \in Commands, DispatchBlocking(b, k)
      PROVE  NoPhantomBlocking'
  <2> SUFFICES ASSUME NEW c \in Clients
               PROVE  is_blocking'[c] <= Cardinality(CommandsOn(c)')
    BY DEF NoPhantomBlocking
  <2>1. /\ cmd[k].client = NoClient
        /\ cmd' = [cmd EXCEPT ![k] = [client |-> holds[b], by |-> b, phase |-> "running",
                                        late |-> condemned = holds[b]]]
        /\ is_blocking' = [is_blocking EXCEPT ![holds[b]] = @ + 1]
    BY <1>1 DEF DispatchBlocking, FreeCmd
  <2>2. \A j \in Commands : cmd'[j].client = IF j = k THEN holds[b] ELSE cmd[j].client
    BY <2>1 DEF TypeOK
  <2>3. is_blocking[c] <= Cardinality(CommandsOn(c)) /\ is_blocking[c] \in Nat
    BY DEF NoPhantomBlocking, TypeOK
  <2>4. CASE c = holds[b]
    <3>1. k \notin CommandsOn(c) /\ CommandsOn(c)' = CommandsOn(c) \cup {k}
      BY <2>1, <2>2, <2>4, PoolAssumption DEF CommandsOn
    <3>2. Cardinality(CommandsOn(c)') = Cardinality(CommandsOn(c)) + 1
      BY <3>1, CommandsFinite, FS_AddElement
    <3>3. is_blocking'[c] = is_blocking[c] + 1
      BY <2>1, <2>4 DEF TypeOK
    <3> QED BY <2>3, <3>2, <3>3, CommandsFinite
  <2>5. CASE c # holds[b]
    <3>1. CommandsOn(c)' = CommandsOn(c)
      BY <2>1, <2>2, <2>5, PoolAssumption DEF CommandsOn
    <3>2. is_blocking'[c] = is_blocking[c]
      BY <2>1, <2>5 DEF TypeOK
    <3> QED BY <2>3, <3>1, <3>2
  <2> QED BY <2>4, <2>5
<1>2. ASSUME NEW k \in Commands, Unmark(k) PROVE NoPhantomBlocking'
  <2> SUFFICES ASSUME NEW c \in Clients
               PROVE  is_blocking'[c] <= Cardinality(CommandsOn(c)')
    BY DEF NoPhantomBlocking
  <2>1. /\ is_blocking' = Unmarked(cmd[k].client)
        /\ cmd' = [cmd EXCEPT ![k] = FreeCmd]
    BY <1>2 DEF Unmark
  <2>2. \A j \in Commands : cmd'[j].client = IF j = k THEN NoClient ELSE cmd[j].client
    BY <2>1 DEF TypeOK, FreeCmd
  <2>3. is_blocking[c] <= Cardinality(CommandsOn(c)) /\ is_blocking[c] \in Nat
    BY DEF NoPhantomBlocking, TypeOK
  <2>4. Cardinality(CommandsOn(c)) \in Nat
    BY CommandsFinite
  <2>5. CASE c = cmd[k].client
    <3>1. k \in CommandsOn(c) /\ CommandsOn(c)' = CommandsOn(c) \ {k}
      BY <2>2, <2>5, PoolAssumption DEF CommandsOn
    <3>2. /\ Cardinality(CommandsOn(c)') = Cardinality(CommandsOn(c)) - 1
          /\ Cardinality(CommandsOn(c)') \in Nat
      <4>1. IsFiniteSet(CommandsOn(c))
        BY CommandsFinite
      <4>2. /\ Cardinality(CommandsOn(c) \ {k}) = Cardinality(CommandsOn(c)) - 1
            /\ IsFiniteSet(CommandsOn(c) \ {k})
        BY <3>1, <4>1, FS_RemoveElement
      <4>3. Cardinality(CommandsOn(c) \ {k}) \in Nat
        BY <4>2, FS_CardinalityType
      <4> QED BY <3>1, <4>2, <4>3
    <3>3. is_blocking'[c] = IF is_blocking[c] > 0 THEN is_blocking[c] - 1 ELSE 0
      BY <2>1, <2>5 DEF Unmarked, TypeOK
    <3> QED BY <2>3, <2>4, <3>2, <3>3
  <2>6. CASE c # cmd[k].client
    <3>1. CommandsOn(c)' = CommandsOn(c)
      BY <2>2, <2>6, PoolAssumption DEF CommandsOn
    <3>2. is_blocking'[c] = is_blocking[c]
      BY <2>1, <2>6 DEF Unmarked, TypeOK
    <3> QED BY <2>3, <3>1, <3>2
  <2> QED BY <2>5, <2>6
<1>3. ASSUME NEW b \in Borrowers, TryAcquire(b) \/ AcquireRound(b) PROVE NoPhantomBlocking'
  <2>1. UNCHANGED <<is_blocking, cmd>>
    BY <1>3 DEF TryAcquire, AcquireRound, Attempt
  <2> QED BY <2>1, BlockingSame
<1>4. ASSUME NEW b \in Borrowers, AcquireBlocking(b) \/ AcquireTimeout(b) \/ DispatchCommand(b)
      PROVE  NoPhantomBlocking'
  BY <1>4, BlockingSame DEF AcquireBlocking, AcquireTimeout, DispatchCommand
<1>5. ASSUME NEW b \in Borrowers, Release(b) PROVE NoPhantomBlocking'
  <2>1. UNCHANGED is_blocking /\ \A k \in Commands : cmd'[k].client = cmd[k].client
    BY <1>5 DEF Release, Orphaned, TypeOK, CmdType
  <2> QED BY <2>1, BlockingSame
<1>6. ASSUME NEW k \in Commands, CommandReturned(k) PROVE NoPhantomBlocking'
  <2>1. UNCHANGED is_blocking /\ \A j \in Commands : cmd'[j].client = cmd[j].client
    BY <1>6 DEF CommandReturned, TypeOK, CmdType
  <2> QED BY <2>1, BlockingSame
<1>7. ASSUME NEW c \in Clients, WarmupDone(c) \/ CreateDone(c) \/ ResetOk(c)
      PROVE  NoPhantomBlocking'
  <2>1. /\ UNCHANGED cmd
        /\ \/ UNCHANGED is_blocking
           \/ is_blocking' = [is_blocking EXCEPT ![c] = 0]
    BY <1>7 DEF WarmupDone, CreateDone, ResetOk, AddClient, ReturnToIdle
  <2>2. \A d \in Clients : is_blocking'[d] = is_blocking[d] \/ is_blocking'[d] = 0
    BY <2>1 DEF TypeOK
  <2> QED BY <2>1, <2>2, BlockingSame
<1>8. ASSUME NEW c \in Clients,
             \/ TakeForRelease(c) \/ ResetFailed(c) \/ ReleaseCancelled(c)
             \/ DeferredDiscard(c) \/ MonitorRevalidate(c) \/ AbandonTimeout(c)
      PROVE  NoPhantomBlocking'
  <2>1. UNCHANGED <<is_blocking, cmd>>
    BY <1>8 DEF TakeForRelease, ResetFailed, ReleaseCancelled, DeferredDiscard,
                MonitorRevalidate, AbandonTimeout
  <2> QED BY <2>1, BlockingSame
<1>9. CASE PoolStep \/ UNCHANGED vars
  <2>1. UNCHANGED <<is_blocking, cmd>>
    BY <1>9 DEF vars, PoolStep, WarmupFailed, CreateFailed, MonitorScan, MonitorRemove, MonitorAborted,
                DestroyUnregister, DestroyCleanup, IdleTimeout
  <2> QED BY <2>1, BlockingSame
<1> QED
  BY <1>1, <1>2, <1>3, <1>4, <1>5, <1>6, <1>7, <1>8, <1>9
     DEF Next, BorrowerStep, ClientStep, CommandStep

\* The adapter table, the flag registry and the blocking counters agree with the
\* clients of a running pool, for every number of clients, borrowers and commands:
\* no path that removes a client forgets to report or unflag it, and a late command
\* never leaves a counter above the commands in flight.
THEOREM RegistriesAccounted == Spec => []RegistriesExact
<1> DEFINE J == /\ TypeOK /\ WaitersEmpty /\ CondemnedLent
                /\ Ownership /\ TablesExact /\ NoPhantomBlocking
<1>1. Init => J
  <2> SUFFICES ASSUME Init PROVE TablesExact /\ NoPhantomBlocking
    BY InitTypeOK, InitOwn DEF Init, WaitersEmpty, CondemnedLent
  <2>1. TablesExact
    BY EmptyIdle DEF Init, TablesExact, AdaptersAccounted, FlagsLive, Owned
  <2>2. NoPhantomBlocking
    BY CommandsFinite DEF Init, NoPhantomBlocking
  <2> QED BY <2>1, <2>2
<1>2. J /\ [Next]_vars => J'
  BY NextTypeOK, NextWaiters, NextCondemned, NextOwn, NextTables, NextBlocking
<1>3. J => RegistriesExact
  BY DEF TablesExact, RegistriesExact
<1> QED BY <1>1, <1>2, <1>3, PTL DEF Spec

-----------------------------------------------------------------------------
(* Abandonment *)

\* The blocking commands counted on a condemned client were dispatched after the check.
LateCounted == condemned # NoClient => is_blocking[condemned] <= Cardinality(LateOn(condemned))

\* The late commands on a client are finitely many.
LEMMA LateFinite ==
    ASSUME NEW c
    PROVE  IsFiniteSet(LateOn(c)) /\ Cardinality(LateOn(c)) \in Nat
<1>1. LateOn(c) \subseteq Commands
  BY DEF LateOn, CommandsOn
<1> QED BY <1>1, PoolAssumption, FS_Subset, FS_CardinalityType

\* A step that neither starts nor ends a command, nor raises a counter, keeps LateCounted
\* unless it condemns a client.
LEMMA LateSame ==
    ASSUME TypeOK, LateCounted, UNCHANGED <<is_blocking, condemned>>,
           \A k \in Commands : cmd'[k].client = cmd[k].client /\ cmd'[k].late = cmd[k].late
    PROVE  LateCounted'
<1>1. ASSUME NEW c PROVE LateOn(c)' = LateOn(c)
  BY DEF LateOn, CommandsOn
<1>2. LateOn(condemned)' = LateOn(condemned)
  BY <1>1 DEF LateOn, CommandsOn
<1> QED BY <1>2 DEF LateCounted

\* Every step keeps LateCounted: a dispatch on the condemned client raises the counter
\* and is late, a guard that drops lowers it.
LEMMA NextLate ==
    ASSUME TypeOK, LateCounted, [Next]_vars
    PROVE  LateCounted'
<1> USE DEF coreVars, ffiVars, flagVars, userVars, taskVars, monVars
<1>1. ASSUME NEW b \in Borrowers, NEW k \in Commands, DispatchBlocking(b, k)
      PROVE  LateCounted'
  <2> DEFINE c == condemned
  <2> SUFFICES ASSUME c # NoClient, c' = c
               PROVE  is_blocking'[c] <= Cardinality(LateOn(c)')
    BY <1>1 DEF LateCounted, DispatchBlocking, LateOn, CommandsOn
  <2>1. /\ cmd[k].client = NoClient
        /\ cmd' = [cmd EXCEPT ![k] = [client |-> holds[b], by |-> b, phase |-> "running",
                                      late |-> condemned = holds[b]]]
        /\ is_blocking' = [is_blocking EXCEPT ![holds[b]] = @ + 1]
    BY <1>1 DEF DispatchBlocking, FreeCmd
  <2>2. /\ cmd'[k].client = holds[b] /\ cmd'[k].late = (c = holds[b])
        /\ \A j \in Commands \ {k} : cmd'[j] = cmd[j]
    BY <2>1 DEF TypeOK
  <2>3. c \in Clients /\ is_blocking[c] <= Cardinality(LateOn(c)) /\ is_blocking[c] \in Nat
    BY DEF LateCounted, TypeOK
  <2>4. CASE c = holds[b]
    <3>1. k \notin LateOn(c) /\ LateOn(c)' = LateOn(c) \cup {k}
      <4>1. k \notin LateOn(c)
        BY <2>1 DEF LateOn, CommandsOn
      <4>2. cmd'[k].client = c /\ cmd'[k].late
        BY <2>2, <2>4
      <4>3. \A j \in Commands : j \in LateOn(c)' <=> cmd'[j].client = c /\ cmd'[j].late
        BY DEF LateOn, CommandsOn
      <4>4. \A j \in Commands : j \in LateOn(c) <=> cmd[j].client = c /\ cmd[j].late
        BY DEF LateOn, CommandsOn
      <4>5. LateOn(c)' \subseteq Commands /\ LateOn(c) \subseteq Commands
        BY DEF LateOn, CommandsOn
      <4> QED BY <2>2, <4>1, <4>2, <4>3, <4>4, <4>5
    <3>2. Cardinality(LateOn(c)') = Cardinality(LateOn(c)) + 1
      BY <3>1, LateFinite, FS_AddElement
    <3>3. is_blocking'[c] = is_blocking[c] + 1
      BY <2>1, <2>3, <2>4 DEF TypeOK
    <3> QED BY <2>3, <3>2, <3>3, LateFinite
  <2>5. CASE c # holds[b]
    <3>1. LateOn(c)' = LateOn(c)
      BY <2>1, <2>2, <2>5 DEF LateOn, CommandsOn
    <3>2. is_blocking'[c] = is_blocking[c]
      BY <2>1, <2>3, <2>5 DEF TypeOK
    <3> QED BY <2>3, <3>1, <3>2
  <2> QED BY <2>4, <2>5
<1>2. ASSUME NEW k \in Commands, Unmark(k) PROVE LateCounted'
  <2> DEFINE c == condemned
  <2> SUFFICES ASSUME c # NoClient, c' = c
               PROVE  is_blocking'[c] <= Cardinality(LateOn(c)')
    BY <1>2 DEF LateCounted, Unmark, LateOn, CommandsOn
  <2>1. /\ is_blocking' = Unmarked(cmd[k].client)
        /\ cmd' = [cmd EXCEPT ![k] = FreeCmd]
    BY <1>2 DEF Unmark
  <2>2. cmd'[k] = FreeCmd /\ \A j \in Commands \ {k} : cmd'[j] = cmd[j]
    BY <2>1 DEF TypeOK
  <2>3. c \in Clients /\ is_blocking[c] <= Cardinality(LateOn(c)) /\ is_blocking[c] \in Nat
    BY DEF LateCounted, TypeOK
  <2>4. IsFiniteSet(LateOn(c)) /\ Cardinality(LateOn(c)) \in Nat
    BY LateFinite
  <2>5. LateOn(c)' = LateOn(c) \ {k}
    BY <2>2 DEF LateOn, CommandsOn, FreeCmd
  <2>6. CASE c = cmd[k].client
    <3>1. is_blocking'[c] = IF is_blocking[c] > 0 THEN is_blocking[c] - 1 ELSE 0
      BY <2>1, <2>3, <2>6 DEF Unmarked, TypeOK
    <3>2. /\ Cardinality(LateOn(c) \ {k}) \in Nat
          /\ Cardinality(LateOn(c) \ {k}) >= Cardinality(LateOn(c)) - 1
      <4>1. CASE k \in LateOn(c)
        <5>1. /\ Cardinality(LateOn(c) \ {k}) = Cardinality(LateOn(c)) - 1
              /\ IsFiniteSet(LateOn(c) \ {k})
          BY <2>4, <4>1, FS_RemoveElement
        <5>2. Cardinality(LateOn(c) \ {k}) \in Nat
          BY <5>1, FS_CardinalityType
        <5> QED BY <2>4, <5>1, <5>2
      <4>2. CASE k \notin LateOn(c)
        <5>1. LateOn(c) \ {k} = LateOn(c)
          BY <4>2
        <5> QED BY <2>4, <5>1
      <4> QED BY <4>1, <4>2
    <3> QED BY <2>3, <2>4, <2>5, <3>1, <3>2
  <2>7. CASE c # cmd[k].client
    <3>1. k \notin LateOn(c)
      BY <2>7 DEF LateOn, CommandsOn
    <3>2. LateOn(c)' = LateOn(c)
      BY <2>5, <3>1
    <3>3. is_blocking'[c] = is_blocking[c]
      BY <2>1, <2>3, <2>7 DEF Unmarked, TypeOK
    <3> QED BY <2>3, <3>2, <3>3
  <2> QED BY <2>6, <2>7
<1>3. ASSUME NEW b \in Borrowers, TryAcquire(b) \/ AcquireRound(b) PROVE LateCounted'
  BY <1>3, LateSame DEF TryAcquire, AcquireRound, Attempt
<1>4. ASSUME NEW b \in Borrowers, AcquireBlocking(b) \/ AcquireTimeout(b) \/ DispatchCommand(b)
      PROVE  LateCounted'
  BY <1>4, LateSame DEF AcquireBlocking, AcquireTimeout, DispatchCommand
<1>5. ASSUME NEW b \in Borrowers, Release(b) PROVE LateCounted'
  <2>1. \A k \in Commands : cmd'[k].client = cmd[k].client /\ cmd'[k].late = cmd[k].late
    BY <1>5 DEF Release, Orphaned, TypeOK, CmdType
  <2> QED BY <1>5, <2>1, LateSame DEF Release
<1>6. ASSUME NEW k \in Commands, CommandReturned(k) PROVE LateCounted'
  <2>1. \A j \in Commands : cmd'[j].client = cmd[j].client /\ cmd'[j].late = cmd[j].late
    BY <1>6 DEF CommandReturned, TypeOK, CmdType
  <2> QED BY <1>6, <2>1, LateSame DEF CommandReturned
<1>7. ASSUME NEW c \in Clients,
             \/ WarmupDone(c) \/ CreateDone(c) \/ ResetOk(c) \/ TakeForRelease(c)
             \/ ResetFailed(c) \/ DeferredDiscard(c)
      PROVE  LateCounted'
  <2>1. condemned' = NoClient
    BY <1>7 DEF WarmupDone, CreateDone, ResetOk, TakeForRelease, ResetFailed, DeferredDiscard,
                MutexFree
  <2> QED BY <2>1 DEF LateCounted
<1>8. ASSUME NEW c \in Clients, ReleaseCancelled(c) \/ AbandonTimeout(c) PROVE LateCounted'
  BY <1>8, LateSame DEF ReleaseCancelled, AbandonTimeout
<1>9. ASSUME NEW c \in Clients, MonitorRevalidate(c) PROVE LateCounted'
  <2>1. UNCHANGED is_blocking /\ (condemned' # NoClient => condemned' = c /\ is_blocking[c] = 0)
    BY <1>9 DEF MonitorRevalidate, Abandoned
  <2>2. Cardinality(LateOn(c)) \in Nat /\ LateOn(c)' = LateOn(c)
    BY <1>9, LateFinite DEF MonitorRevalidate, LateOn, CommandsOn
  <2>3. condemned' # NoClient => LateOn(condemned)' = LateOn(c)'
    BY <2>1 DEF LateOn, CommandsOn
  <2> QED BY <2>1, <2>2, <2>3 DEF LateCounted
<1>10. CASE PoolStep
  <2>1. CASE MonitorRemove
    BY <2>1 DEF MonitorRemove, LateCounted
  <2>2. CASE ~MonitorRemove
    BY <1>10, <2>2, LateSame
       DEF PoolStep, WarmupFailed, CreateFailed, MonitorScan, MonitorAborted,
           DestroyUnregister, DestroyCleanup, IdleTimeout
  <2> QED BY <2>1, <2>2
<1>11. CASE UNCHANGED vars
  BY <1>11, LateSame DEF vars
<1> QED
  BY <1>1, <1>2, <1>3, <1>4, <1>5, <1>6, <1>7, <1>8, <1>9, <1>10, <1>11
     DEF Next, BorrowerStep, ClientStep, CommandStep

\* Every step that moves a lent client to the discard list is the monitor's removal.
LEMMA OnlyMonitorDiscards ==
    ASSUME Ownership, Next, NEW x \in in_use \ in_use', x \in discarded_ids'
    PROVE  x = condemned /\ condemned # NoClient
<1> USE DEF coreVars, ffiVars, flagVars, userVars, taskVars, monVars
<1>1. ASSUME NEW b \in Borrowers, BorrowerStep(b) PROVE FALSE
  <2>1. in_use \subseteq in_use'
    BY <1>1 DEF BorrowerStep, TryAcquire, AcquireRound, Attempt, Lend, Miss, MissClosed,
                AcquireBlocking, AcquireTimeout, Release, DispatchCommand, DispatchBlocking
  <2> QED BY <2>1
<1>2. ASSUME NEW c \in Clients, ClientStep(c) PROVE FALSE
  <2>1. CASE TakeForRelease(c)
    BY <2>1 DEF TakeForRelease, Ownership, SingleOwner, Owned
  <2>2. CASE ~TakeForRelease(c)
    <3>1. in_use' = in_use
      BY <1>2, <2>2 DEF ClientStep, WarmupDone, CreateDone, ResetOk, ResetFailed,
                        ReleaseCancelled, DeferredDiscard, MonitorRevalidate, AbandonTimeout
    <3> QED BY <3>1
  <2> QED BY <2>1, <2>2
<1>3. ASSUME NEW k \in Commands, CommandStep(k) PROVE FALSE
  BY <1>3 DEF CommandStep, CommandReturned, Unmark
<1>4. CASE PoolStep
  <2>1. CASE MonitorRemove
    BY <2>1 DEF MonitorRemove
  <2>2. CASE ~MonitorRemove
    <3>1. discarded_ids' = {} \/ in_use' = in_use
      BY <1>4, <2>2 DEF PoolStep, WarmupFailed, CreateFailed, MonitorScan, MonitorAborted,
                        DestroyUnregister, DestroyCleanup, IdleTimeout
    <3> QED BY <3>1
  <2> QED BY <2>1, <2>2
<1> QED BY <1>1, <1>2, <1>3, <1>4 DEF Next

\* For any number of clients, borrowers and commands a lent client is discarded only
\* while its current borrow is inactive, and every counted blocking command on it was
\* dispatched between the monitor's check of the counter and the removal: releases, new
\* borrows of the same id, refreshes and dispatches before the check are all seen, and
\* the dispatch, which does not take the mutex, is the only thing that can come between.
THEOREM AbandonSafe == Spec => AbandonRevalidated
<1> DEFINE I == TypeOK /\ WaitersEmpty /\ CondemnedLent /\ Ownership /\ LateCounted
<1>1. Init => I
  BY InitTypeOK, InitOwn DEF Init, WaitersEmpty, CondemnedLent, LateCounted
<1>2. I /\ [Next]_vars => I'
  BY NextTypeOK, NextWaiters, NextCondemned, NextOwn, NextLate
<1>3. I /\ [Next]_vars =>
        [\A c \in in_use \ in_use' :
            c \in discarded_ids' =>
               c \in inactive /\ is_blocking[c] <= Cardinality(LateOn(c))]_vars
  BY OnlyMonitorDiscards DEF CondemnedLent, LateCounted
<1> QED BY <1>1, <1>2, <1>3, PTL DEF Spec, AbandonRevalidated
=============================================================================
