---------------------------- MODULE SlotMapProofs ----------------------------
(***************************************************************************)
(* Proofs about SlotMap, for any number of slots, nodes and shards, any    *)
(* views the nodes may report and any number of MOVED errors and           *)
(* refreshes: the ranges stay disjoint, the index of addresses follows the *)
(* shards, a MOVED error takes effect, and on its slot alone.              *)
(***************************************************************************)
EXTENDS SlotMap, FiniteSetTheorems, FunctionTheorems, WellFoundedInduction, TLAPS

-----------------------------------------------------------------------------
(* The least and the greatest of a set *)

LEMMA Minimum ==
    ASSUME NEW D \in SUBSET Nat, D # {}
    PROVE  \E m \in D : \A k \in D : m <= k
<1>1. PICK m \in D : \A k \in D : ~(<<k, m>> \in OpToRel(<, Nat))
  BY NatLessThanWellFounded, WFMin
<1>2. ASSUME NEW k \in Nat, NEW j \in Nat, k < j
      PROVE  <<k, j>> \in OpToRel(<, Nat)
  BY <1>2, Zenon DEF OpToRel
<1>3. m \in Nat /\ \A k \in D : k \in Nat /\ ~(k < m)
  BY <1>1, <1>2
<1>4. \A k \in D : m <= k
  BY <1>3
<1> QED
  BY <1>4

LEMMA LeastFacts ==
    ASSUME NEW S \in SUBSET Nat, S # {}
    PROVE  Least(S) \in S /\ \A y \in S : Least(S) <= y
BY Minimum DEF Least

LEMMA GreatestFacts ==
    ASSUME NEW n \in Nat, NEW S \in SUBSET (0 .. n), S # {}
    PROVE  Greatest(S) \in S /\ \A y \in S : Greatest(S) >= y
<1> DEFINE D == {k \in Nat : \E i \in S : k = n - i}
<1>0. \A i \in S : i \in Nat /\ n - i \in Nat
  OBVIOUS
<1>1. D \in SUBSET Nat /\ D # {} /\ \A i \in S : n - i \in D
  BY <1>0
<1> HIDE DEF D
<1>2. PICK m \in D : \A k \in D : m <= k
  BY <1>1, Minimum
<1>3. PICK i \in S : m = n - i
  BY <1>2 DEF D
<1>4. \A j \in S : i >= j
  <2> SUFFICES ASSUME NEW j \in S PROVE i >= j
    OBVIOUS
  <2>1. n - i <= n - j
    BY <1>1, <1>2, <1>3
  <2> QED
    BY <1>0, <2>1
<1> QED
  BY <1>4 DEF Greatest

-----------------------------------------------------------------------------
(* The map of ranges *)

RangesOk(m) ==
    /\ DOMAIN m \subseteq Slots
    /\ \A e \in DOMAIN m : m[e] \in [start : Slots, shard : Shards] /\ m[e].start <= e
    /\ \A d, e \in DOMAIN m : d < e => d < m[e].start

Holds(m, e, s) == m[e].start <= s /\ s <= e

\* What the look-up finds.
LEMMA RouteFacts ==
    ASSUME NEW m, RangesOk(m), NEW s \in Slots
    PROVE  /\ \A e \in DOMAIN m : Holds(m, e, s) =>
                 /\ Covered(m, s) /\ Least(From(m, s)) = e
                 /\ slot_value_for_route(m, s) = m[e].shard
                 /\ shard_addrs_for_slot(m, s) = m[e].shard
           /\ Covered(m, s) => Least(From(m, s)) \in DOMAIN m /\ Holds(m, Least(From(m, s)), s)
           /\ ~Covered(m, s) => slot_value_for_route(m, s) = NoShard
           /\ shard_addrs_for_slot(m, s) # NoShard =>
                 \E e \in DOMAIN m : shard_addrs_for_slot(m, s) = m[e].shard
<1>0. MaxSlot \in Nat /\ s \in Nat
  BY BoundsAssumption DEF Slots
<1>1. From(m, s) \in SUBSET Nat /\ From(m, s) \subseteq DOMAIN m
  BY <1>0 DEF From, RangesOk, Slots
<1>2. From(m, s) # {} => /\ Least(From(m, s)) \in From(m, s)
                         /\ \A y \in From(m, s) : Least(From(m, s)) <= y
  BY <1>1, LeastFacts
<1>3. ASSUME NEW e \in DOMAIN m, Holds(m, e, s)
      PROVE  From(m, s) # {} /\ Least(From(m, s)) = e
  <2>1. e \in From(m, s) /\ e \in Nat
    BY <1>0, <1>3 DEF From, Holds, RangesOk, Slots
  <2>2. PICK l \in From(m, s) : l = Least(From(m, s)) /\ l <= e
    BY <1>2, <2>1
  <2>3. l \in DOMAIN m /\ l >= s /\ l \in Nat
    BY <1>1 DEF From
  <2>4. m[e].start \in Nat /\ m[e].start <= s
    BY <1>0, <1>3 DEF Holds, RangesOk, Slots
  <2>5. ~(l < e)
    BY <1>0, <2>3, <2>4 DEF RangesOk
  <2> QED
    BY <2>1, <2>2, <2>3, <2>5
<1>4. ASSUME NEW e \in DOMAIN m, Holds(m, e, s)
      PROVE  /\ Covered(m, s) /\ Least(From(m, s)) = e
             /\ slot_value_for_route(m, s) = m[e].shard
             /\ shard_addrs_for_slot(m, s) = m[e].shard
  BY <1>3, <1>4 DEF Covered, Holds, slot_value_for_route, shard_addrs_for_slot
<1>5. Covered(m, s) => Least(From(m, s)) \in DOMAIN m /\ Holds(m, Least(From(m, s)), s)
  BY <1>1, <1>2 DEF Covered, Holds, From
<1>6. shard_addrs_for_slot(m, s) # NoShard =>
          \E e \in DOMAIN m : shard_addrs_for_slot(m, s) = m[e].shard
  BY <1>1, <1>2 DEF shard_addrs_for_slot
<1> QED
  BY <1>4, <1>5, <1>6 DEF slot_value_for_route

\* m2 is m with the slot given to the shard.
Edited(m, m2, slot, shard) ==
    /\ RangesOk(m2)
    /\ \E e \in DOMAIN m2 : Holds(m2, e, slot) /\ m2[e].shard = shard
    /\ \A s \in Slots \ {slot} :
        /\ \A e \in DOMAIN m : Holds(m, e, s) =>
              \E f \in DOMAIN m2 : Holds(m2, f, s) /\ m2[f].shard = m[e].shard
        /\ \A f \in DOMAIN m2 : Holds(m2, f, s) => \E e \in DOMAIN m : Holds(m, e, s)
    /\ \A f \in DOMAIN m2 : m2[f].shard = shard \/ \E e \in DOMAIN m : m2[f].shard = m[e].shard

LEMMA EditedRoutes ==
    ASSUME NEW m, NEW m2, RangesOk(m), NEW slot \in Slots, NEW shard, Edited(m, m2, slot, shard)
    PROVE  /\ Covered(m2, slot) /\ slot_value_for_route(m2, slot) = shard
           /\ \A s \in Slots \ {slot} :
                 slot_value_for_route(m2, s) = slot_value_for_route(m, s)
<1>1. RangesOk(m2)
  BY DEF Edited
<1>2. Covered(m2, slot) /\ slot_value_for_route(m2, slot) = shard
  BY <1>1, RouteFacts DEF Edited
<1>3. ASSUME NEW s \in Slots \ {slot}
      PROVE  slot_value_for_route(m2, s) = slot_value_for_route(m, s)
  <2>1. CASE \E e \in DOMAIN m : Holds(m, e, s)
    <3>1. PICK e \in DOMAIN m : Holds(m, e, s)
      BY <2>1
    <3>2. PICK f \in DOMAIN m2 : Holds(m2, f, s) /\ m2[f].shard = m[e].shard
      BY <3>1 DEF Edited
    <3> QED
      BY <1>1, <3>1, <3>2, RouteFacts
  <2>2. CASE ~\E e \in DOMAIN m : Holds(m, e, s)
    <3>1. ~\E f \in DOMAIN m2 : Holds(m2, f, s)
      BY <2>2 DEF Edited
    <3>2. ~Covered(m, s) /\ ~Covered(m2, s)
      BY <1>1, <2>2, <3>1, RouteFacts
    <3> QED
      BY <3>2 DEF slot_value_for_route
  <2> QED
    BY <2>1, <2>2
<1> QED
  BY <1>2, <1>3

\* One more range that starts and ends with the slot, where there was none.
LEMMA SingleEdits ==
    ASSUME NEW m, RangesOk(m), NEW slot \in Slots, NEW shard \in Shards,
           \A e \in DOMAIN m : ~Holds(m, e, slot)
    PROVE  Edited(m, insert_single_slot(m, slot, shard), slot, shard)
<1> DEFINE m2 == insert_single_slot(m, slot, shard)
<1>0. MaxSlot \in Nat /\ Slots \subseteq Nat /\ DOMAIN m \subseteq Slots
  BY BoundsAssumption DEF Slots, RangesOk
<1>a. slot \in Nat
  BY <1>0
<1>1. slot \notin DOMAIN m
  BY <1>0 DEF RangesOk, Holds
<1>2. /\ DOMAIN m2 = DOMAIN m \cup {slot}
      /\ m2[slot] = [start |-> slot, shard |-> shard]
      /\ \A e \in DOMAIN m : m2[e] = m[e]
  BY <1>1 DEF insert_single_slot, Insert
<1> HIDE DEF m2
<1>3. RangesOk(m2)
  BY <1>0, <1>2 DEF RangesOk, Holds
<1>4. Holds(m2, slot, slot) /\ m2[slot].shard = shard
  BY <1>0, <1>2 DEF Holds
<1>5. \A s \in Slots \ {slot} :
         /\ \A e \in DOMAIN m : Holds(m, e, s) =>
               \E f \in DOMAIN m2 : Holds(m2, f, s) /\ m2[f].shard = m[e].shard
         /\ \A f \in DOMAIN m2 : Holds(m2, f, s) => \E e \in DOMAIN m : Holds(m, e, s)
  BY <1>0, <1>2 DEF Holds
<1>6. Edited(m, m2, slot, shard)
  BY <1>2, <1>3, <1>4, <1>5 DEF Edited
<1> QED
  BY <1>6 DEF m2

\* The range below the slot grows by it.
LEMMA PrevEdits ==
    ASSUME NEW m, RangesOk(m), NEW slot \in Slots, NEW shard \in Shards,
           \A e \in DOMAIN m : ~Holds(m, e, slot), MergesPrev(m, slot, shard)
    PROVE  Edited(m, MergePrev(m, slot), slot, shard)
<1> DEFINE m2 == MergePrev(m, slot)
<1>0. MaxSlot \in Nat /\ Slots \subseteq Nat /\ DOMAIN m \subseteq Slots
  BY BoundsAssumption DEF Slots, RangesOk
<1>a. slot \in Nat
  BY <1>0
<1>1. slot \notin DOMAIN m
  BY <1>0 DEF RangesOk, Holds
<1>2. slot - 1 \in DOMAIN m /\ m[slot - 1].shard = shard
  <2>1. Before(m, slot) \in SUBSET (0 .. MaxSlot) /\ Before(m, slot) # {}
    BY <1>0 DEF Before, Slots, MergesPrev
  <2>2. Greatest(Before(m, slot)) \in Before(m, slot)
    BY <1>0, <2>1, GreatestFacts
  <2> QED
    BY <2>2 DEF MergesPrev, Before
<1>3. PICK p \in DOMAIN m : p = slot - 1 /\ p \in Nat
  BY <1>0, <1>2
<1>4. /\ DOMAIN m2 = (DOMAIN m \ {p}) \cup {slot}
      /\ m2[slot] = [start |-> m[p].start, shard |-> shard]
      /\ \A e \in DOMAIN m \ {p} : m2[e] = m[e]
  BY <1>1, <1>2, <1>3 DEF MergePrev, update_end_range, Insert
<1> HIDE DEF m2
<1>5. m[p].start \in Slots /\ m[p].start <= p /\ m[p].start \in Nat /\ p < slot
  <2>1. m[p].start \in Slots /\ m[p].start <= p
    BY DEF RangesOk
  <2>2. p < slot
    BY <1>a, <1>3
  <2> QED
    BY <1>0, <2>1, <2>2
<1>6. RangesOk(m2)
  <2>1. ASSUME NEW e \in DOMAIN m2
        PROVE  m2[e] \in [start : Slots, shard : Shards] /\ m2[e].start <= e
    <3>1. CASE e = slot
      <4>1. m[p].start <= slot
        BY <1>0, <1>3, <1>5
      <4> QED
        BY <1>4, <1>5, <3>1, <4>1
    <3>2. CASE e # slot
      BY <1>4, <3>2 DEF RangesOk
    <3> QED
      BY <3>1, <3>2
  <2>2. ASSUME NEW d \in DOMAIN m2, NEW e \in DOMAIN m2, d < e
        PROVE  d < m2[e].start
    <3>1. CASE d = slot
      <4>a. e \in Nat /\ slot < e
        BY <1>0, <1>4, <2>2, <3>1
      <4>b. p < e
        BY <1>a, <1>3, <4>a
      <4>0. e \in Nat /\ slot \in Nat /\ slot < e /\ p < e
        BY <1>a, <4>a, <4>b
      <4>1. e \in DOMAIN m /\ m2[e] = m[e] /\ p < e
        BY <1>4, <4>0
      <4>2. m[e].start \in Nat /\ p < m[e].start /\ ~(m[e].start <= slot /\ slot <= e)
        BY <1>0, <4>1 DEF RangesOk, Holds
      <4>3. PICK t \in Nat : t = m[e].start
        BY <4>2
      <4>4. slot < t
        BY <4>0, <4>2, <4>3
      <4> QED
        BY <3>1, <4>1, <4>3, <4>4
    <3>2. CASE d # slot /\ e = slot
      <4>1. d \in DOMAIN m /\ d < p
        BY <1>0, <1>3, <1>4, <2>2, <3>2
      <4> QED
        BY <1>4, <3>2, <4>1 DEF RangesOk
    <3>3. CASE d # slot /\ e # slot
      BY <1>4, <2>2, <3>3 DEF RangesOk
    <3> QED
      BY <3>1, <3>2, <3>3
  <2>3. DOMAIN m2 \subseteq Slots
    BY <1>0, <1>4
  <2> QED
    BY <2>1, <2>2, <2>3 DEF RangesOk
<1>7. Holds(m2, slot, slot) /\ m2[slot].shard = shard
  BY <1>0, <1>3, <1>4, <1>5 DEF Holds
<1>8. ASSUME NEW s \in Slots \ {slot}
      PROVE  /\ \A e \in DOMAIN m : Holds(m, e, s) =>
                   \E f \in DOMAIN m2 : Holds(m2, f, s) /\ m2[f].shard = m[e].shard
             /\ \A f \in DOMAIN m2 : Holds(m2, f, s) => \E e \in DOMAIN m : Holds(m, e, s)
  <2>1. ASSUME NEW e \in DOMAIN m, Holds(m, e, s)
        PROVE  \E f \in DOMAIN m2 : Holds(m2, f, s) /\ m2[f].shard = m[e].shard
    <3>1. CASE e = p
      BY <1>0, <1>2, <1>3, <1>4, <1>5, <1>8, <2>1, <3>1 DEF Holds
    <3>2. CASE e # p
      BY <1>4, <2>1, <3>2 DEF Holds
    <3> QED
      BY <3>1, <3>2
  <2>2. ASSUME NEW f \in DOMAIN m2, Holds(m2, f, s)
        PROVE  \E e \in DOMAIN m : Holds(m, e, s)
    <3>1. CASE f = slot
      <4>1. m[p].start <= s /\ s <= slot /\ s \in Nat /\ s # slot
        BY <1>0, <1>4, <1>8, <2>2, <3>1 DEF Holds
      <4>2. s <= p
        BY <1>a, <1>3, <4>1
      <4> QED
        BY <4>1, <4>2 DEF Holds
    <3>2. CASE f # slot
      BY <1>4, <2>2, <3>2 DEF Holds
    <3> QED
      BY <3>1, <3>2
  <2> QED
    BY <2>1, <2>2
<1>9. Edited(m, m2, slot, shard)
  BY <1>4, <1>6, <1>7, <1>8 DEF Edited
<1> QED
  BY <1>9 DEF m2

\* The range above the slot grows by it.
LEMMA NextEdits ==
    ASSUME NEW m, RangesOk(m), NEW slot \in Slots, NEW shard \in Shards,
           \A e \in DOMAIN m : ~Holds(m, e, slot), MergesNext(m, slot, shard)
    PROVE  Edited(m, MergeNext(m, slot), slot, shard)
<1> DEFINE m2 == MergeNext(m, slot)
<1>0. MaxSlot \in Nat /\ Slots \subseteq Nat /\ DOMAIN m \subseteq Slots
  BY BoundsAssumption DEF Slots, RangesOk
<1>a. slot \in Nat
  BY <1>0
<1>1. From(m, slot + 1) \in SUBSET Nat /\ From(m, slot + 1) # {}
  BY <1>0 DEF From, MergesNext
<1>2. Least(From(m, slot + 1)) \in From(m, slot + 1)
  BY <1>1, LeastFacts
<1>3. PICK n \in DOMAIN m : n = Least(From(m, slot + 1)) /\ n >= slot + 1
  BY <1>2 DEF From
<1>4. m[n].start = slot + 1 /\ m[n].shard = shard /\ m[n] \in [start : Slots, shard : Shards]
  BY <1>3 DEF MergesNext, RangesOk
<1>5. /\ DOMAIN m2 = DOMAIN m
      /\ m2[n] = [start |-> slot, shard |-> shard]
      /\ \A e \in DOMAIN m \ {n} : m2[e] = m[e]
  BY <1>3, <1>4 DEF MergeNext
<1> HIDE DEF m2
<1>6. RangesOk(m2)
  <2>1. \A e \in DOMAIN m2 : m2[e] \in [start : Slots, shard : Shards] /\ m2[e].start <= e
    BY <1>0, <1>3, <1>5 DEF RangesOk
  <2>2. ASSUME NEW d \in DOMAIN m2, NEW e \in DOMAIN m2, d < e
        PROVE  d < m2[e].start
    <3>1. CASE e = n
      <4>1. d < slot + 1 /\ d \in Nat
        BY <1>0, <1>4, <1>5, <2>2, <3>1 DEF RangesOk
      <4>2. d # slot
        BY <1>0, <1>5 DEF RangesOk, Holds
      <4> QED
        BY <1>0, <1>5, <3>1, <4>1, <4>2
    <3>2. CASE e # n
      BY <1>5, <2>2, <3>2 DEF RangesOk
    <3> QED
      BY <3>1, <3>2
  <2> QED
    BY <1>0, <1>5, <2>1, <2>2 DEF RangesOk
<1>7. Holds(m2, n, slot) /\ m2[n].shard = shard
  BY <1>0, <1>3, <1>5 DEF Holds
<1>8. \A s \in Slots \ {slot} :
         /\ \A e \in DOMAIN m : Holds(m, e, s) =>
               \E f \in DOMAIN m2 : Holds(m2, f, s) /\ m2[f].shard = m[e].shard
         /\ \A f \in DOMAIN m2 : Holds(m2, f, s) => \E e \in DOMAIN m : Holds(m, e, s)
  BY <1>0, <1>3, <1>4, <1>5 DEF Holds
<1>9. Edited(m, m2, slot, shard)
  BY <1>3, <1>5, <1>6, <1>7, <1>8 DEF Edited
<1> QED
  BY <1>9 DEF m2

\* m1 is m with the slot taken away from whoever had it.
Freed(m, m1, slot) ==
    /\ RangesOk(m1)
    /\ \A e \in DOMAIN m1 : ~Holds(m1, e, slot)
    /\ \A s \in Slots \ {slot} :
        /\ \A e \in DOMAIN m : Holds(m, e, s) =>
              \E f \in DOMAIN m1 : Holds(m1, f, s) /\ m1[f].shard = m[e].shard
        /\ \A f \in DOMAIN m1 : Holds(m1, f, s) => \E e \in DOMAIN m : Holds(m, e, s)
    /\ \A f \in DOMAIN m1 : \E e \in DOMAIN m : m1[f].shard = m[e].shard

LEMMA FreedEdited ==
    ASSUME NEW m, NEW m1, NEW m2, NEW slot, NEW shard, Freed(m, m1, slot),
           Edited(m1, m2, slot, shard)
    PROVE  Edited(m, m2, slot, shard)
<1>1. ASSUME NEW s \in Slots \ {slot}, NEW e \in DOMAIN m, Holds(m, e, s)
      PROVE  \E f \in DOMAIN m2 : Holds(m2, f, s) /\ m2[f].shard = m[e].shard
  <2>1. PICK g \in DOMAIN m1 : Holds(m1, g, s) /\ m1[g].shard = m[e].shard
    BY <1>1 DEF Freed
  <2>2. PICK f \in DOMAIN m2 : Holds(m2, f, s) /\ m2[f].shard = m1[g].shard
    BY <2>1 DEF Edited
  <2> QED
    BY <2>1, <2>2
<1>2. ASSUME NEW s \in Slots \ {slot}, NEW f \in DOMAIN m2, Holds(m2, f, s)
      PROVE  \E e \in DOMAIN m : Holds(m, e, s)
  BY <1>2 DEF Freed, Edited
<1>3. ASSUME NEW f \in DOMAIN m2
      PROVE  m2[f].shard = shard \/ \E e \in DOMAIN m : m2[f].shard = m[e].shard
  BY DEF Freed, Edited
<1>4. RangesOk(m2) /\ \E e \in DOMAIN m2 : Holds(m2, e, slot) /\ m2[e].shard = shard
  BY DEF Edited
<1> QED
  BY <1>1, <1>2, <1>3, <1>4 DEF Edited

\* The slot is the first of a longer range.
LEMMA FreeStart ==
    ASSUME NEW m, RangesOk(m), NEW slot \in Slots, NEW end \in DOMAIN m,
           slot = m[end].start, slot # end
    PROVE  Freed(m, [m EXCEPT ![end].start = slot + 1], slot)
<1> DEFINE m1 == [m EXCEPT ![end].start = slot + 1]
<1>0. MaxSlot \in Nat /\ Slots \subseteq Nat /\ DOMAIN m \subseteq Slots
  BY BoundsAssumption DEF Slots, RangesOk
<1>1. /\ slot \in Nat /\ end \in Nat /\ slot < end /\ slot + 1 \in Slots /\ slot + 1 <= end
  <2>1. slot \in Nat /\ end \in Nat /\ slot <= end /\ end <= MaxSlot
    BY <1>0 DEF RangesOk, Slots
  <2>2. slot < end
    BY <2>1
  <2> QED
    BY <1>0, <2>1, <2>2 DEF Slots
<1>2. m[end] \in [start : Slots, shard : Shards]
  BY DEF RangesOk
<1>3. /\ DOMAIN m1 = DOMAIN m
      /\ m1[end] = [start |-> slot + 1, shard |-> m[end].shard]
      /\ \A e \in DOMAIN m \ {end} : m1[e] = m[e]
  BY <1>2
<1> HIDE DEF m1
<1>4. \A e \in DOMAIN m1 : /\ m1[e] \in [start : Slots, shard : Shards] /\ m1[e].start <= e
                           /\ m1[e].shard = m[e].shard
  BY <1>1, <1>2, <1>3 DEF RangesOk
<1>5. ASSUME NEW d \in DOMAIN m1, NEW e \in DOMAIN m1, d < e
      PROVE  d < m1[e].start
  <2>1. CASE e = end
    <3>1. d < slot /\ d \in Nat
      BY <1>0, <1>3, <1>5, <2>1 DEF RangesOk
    <3> QED
      BY <1>1, <1>3, <2>1, <3>1
  <2>2. CASE e # end
    BY <1>3, <1>5, <2>2 DEF RangesOk
  <2> QED
    BY <2>1, <2>2
<1>6. RangesOk(m1)
  BY <1>0, <1>3, <1>4, <1>5 DEF RangesOk
<1>7. ASSUME NEW e \in DOMAIN m1
      PROVE  ~Holds(m1, e, slot)
  <2>1. CASE e = end
    BY <1>1, <1>3, <2>1 DEF Holds
  <2>2. CASE e # end
    <3>1. e \in DOMAIN m /\ m1[e] = m[e] /\ e \in Nat /\ m[e].start \in Nat
      BY <1>0, <1>3, <2>2 DEF RangesOk
    <3>2. e < end => e < m[end].start
      BY <3>1 DEF RangesOk
    <3>3. end < e => end < m[e].start
      BY <3>1 DEF RangesOk
    <3>4. e < slot \/ slot < m[e].start
      BY <1>1, <2>2, <3>1, <3>2, <3>3
    <3> QED
      BY <1>1, <3>1, <3>4 DEF Holds
  <2> QED
    BY <2>1, <2>2
<1>8. ASSUME NEW s \in Slots \ {slot}, NEW e \in DOMAIN m
      PROVE  Holds(m1, e, s) <=> Holds(m, e, s)
  <2>1. CASE e = end
    <3>1. s \in Nat /\ s # slot
      BY <1>0, <1>8
    <3>2. slot + 1 <= s <=> slot <= s
      BY <1>1, <3>1
    <3> QED
      BY <1>3, <2>1, <3>2 DEF Holds
  <2>2. CASE e # end
    BY <1>3, <2>2 DEF Holds
  <2> QED
    BY <2>1, <2>2
<1>9. Freed(m, m1, slot)
  BY <1>3, <1>4, <1>6, <1>7, <1>8 DEF Freed
<1> QED
  BY <1>9 DEF m1

\* The slot is the last of a longer range.
LEMMA FreeEnd ==
    ASSUME NEW m, RangesOk(m), NEW slot \in DOMAIN m, slot # m[slot].start
    PROVE  Freed(m, update_end_range(m, slot, slot - 1), slot)
<1> DEFINE m1 == update_end_range(m, slot, slot - 1)
<1>0. MaxSlot \in Nat /\ Slots \subseteq Nat /\ DOMAIN m \subseteq Slots
  BY BoundsAssumption DEF Slots, RangesOk
<1>1. slot \in Nat /\ m[slot].start \in Nat /\ m[slot].start < slot /\ slot <= MaxSlot
  BY <1>0 DEF RangesOk, Slots
<1>2. PICK p \in Slots : p = slot - 1 /\ p \in Nat /\ m[slot].start <= p /\ p < slot
  BY <1>0, <1>1 DEF Slots
<1>3. m[slot] \in [start : Slots, shard : Shards]
  BY DEF RangesOk
<1>4. p \notin DOMAIN m
  BY <1>1, <1>2 DEF RangesOk
<1>5. /\ DOMAIN m1 = (DOMAIN m \ {slot}) \cup {p}
      /\ m1[p] = m[slot]
      /\ \A e \in DOMAIN m \ {slot} : m1[e] = m[e]
  <2>1. /\ DOMAIN m1 = (DOMAIN m \ {slot}) \cup {p}
        /\ m1[p] = [start |-> m[slot].start, shard |-> m[slot].shard]
        /\ \A e \in DOMAIN m \ {slot} : m1[e] = m[e]
    BY <1>2, <1>4 DEF update_end_range, Insert
  <2> QED
    BY <1>3, <2>1
<1> HIDE DEF m1
<1>6. ASSUME NEW e \in DOMAIN m1
      PROVE  m1[e] \in [start : Slots, shard : Shards] /\ m1[e].start <= e
  BY <1>2, <1>3, <1>5 DEF RangesOk
<1>7. ASSUME NEW d \in DOMAIN m1, NEW e \in DOMAIN m1, d < e
      PROVE  d < m1[e].start
  <2>1. CASE d = p
    <3>0. e # p
      BY <1>2, <1>7, <2>1
    <3>1. e \in DOMAIN m /\ m1[e] = m[e] /\ e # slot /\ e \in Nat
      BY <1>0, <1>5, <3>0
    <3>2. slot < e
      BY <1>1, <1>2, <1>7, <2>1, <3>1
    <3>3. slot < m[e].start /\ m[e].start \in Nat
      BY <1>0, <3>1, <3>2 DEF RangesOk
    <3> QED
      BY <1>1, <1>2, <2>1, <3>1, <3>3
  <2>2. CASE d # p /\ e = p
    <3>1. d \in DOMAIN m /\ d \in Nat
      BY <1>0, <1>5, <2>2
    <3>2. d < slot
      BY <1>1, <1>2, <1>7, <2>2, <3>1
    <3> QED
      BY <1>5, <2>2, <3>1, <3>2 DEF RangesOk
  <2>3. CASE d # p /\ e # p
    BY <1>5, <1>7, <2>3 DEF RangesOk
  <2> QED
    BY <2>1, <2>2, <2>3
<1>8. RangesOk(m1)
  BY <1>0, <1>2, <1>5, <1>6, <1>7 DEF RangesOk
<1>9. ASSUME NEW e \in DOMAIN m1
      PROVE  ~Holds(m1, e, slot)
  <2>1. CASE e = p
    BY <1>1, <1>2, <2>1 DEF Holds
  <2>2. CASE e # p
    <3>1. e \in DOMAIN m /\ m1[e] = m[e] /\ e \in Nat /\ m[e].start \in Nat /\ e # slot
      BY <1>0, <1>5, <2>2 DEF RangesOk
    <3>2. slot < e => slot < m[e].start
      BY <3>1 DEF RangesOk
    <3>3. e < slot \/ slot < m[e].start
      BY <1>1, <3>1, <3>2
    <3> QED
      BY <1>1, <3>1, <3>3 DEF Holds
  <2> QED
    BY <2>1, <2>2
<1>10. ASSUME NEW s \in Slots \ {slot}
       PROVE  Holds(m1, p, s) <=> Holds(m, slot, s)
  <2>1. s \in Nat /\ s # slot
    BY <1>0, <1>10
  <2>2. s <= p <=> s <= slot
    BY <1>1, <1>2, <2>1
  <2> QED
    BY <1>5, <2>2 DEF Holds
<1>11. ASSUME NEW s, NEW e \in DOMAIN m \ {slot}
       PROVE  Holds(m1, e, s) <=> Holds(m, e, s)
  BY <1>5, <1>11 DEF Holds
<1>12. Freed(m, m1, slot)
  <2>1. ASSUME NEW s \in Slots \ {slot}, NEW e \in DOMAIN m, Holds(m, e, s)
        PROVE  \E f \in DOMAIN m1 : Holds(m1, f, s) /\ m1[f].shard = m[e].shard
    BY <1>5, <1>10, <1>11, <2>1
  <2>2. ASSUME NEW s \in Slots \ {slot}, NEW f \in DOMAIN m1, Holds(m1, f, s)
        PROVE  \E e \in DOMAIN m : Holds(m, e, s)
    BY <1>5, <1>10, <1>11, <2>2
  <2>3. \A f \in DOMAIN m1 : \E e \in DOMAIN m : m1[f].shard = m[e].shard
    BY <1>5
  <2> QED
    BY <1>8, <1>9, <2>1, <2>2, <2>3 DEF Freed
<1> QED
  BY <1>12 DEF m1

\* The slot is inside a range.
LEMMA FreeMiddle ==
    ASSUME NEW m, RangesOk(m), NEW slot \in Slots, NEW end \in DOMAIN m,
           m[end].start < slot, slot < end
    PROVE  Freed(m, Insert([m EXCEPT ![end].start = slot + 1], slot - 1, m[end].start, m[end].shard),
                 slot)
<1> DEFINE m1 == Insert([m EXCEPT ![end].start = slot + 1], slot - 1, m[end].start, m[end].shard)
<1>0. MaxSlot \in Nat /\ Slots \subseteq Nat /\ DOMAIN m \subseteq Slots
  BY BoundsAssumption DEF Slots, RangesOk
<1>1. /\ slot \in Nat /\ end \in Nat /\ end <= MaxSlot /\ m[end].start \in Nat
      /\ m[end] \in [start : Slots, shard : Shards]
  BY <1>0 DEF RangesOk, Slots
<1>2. PICK p \in Slots : p = slot - 1 /\ p \in Nat /\ m[end].start <= p /\ p < slot /\ p < end
  BY <1>0, <1>1 DEF Slots
<1>3. PICK n \in Slots : n = slot + 1 /\ n \in Nat /\ n <= end /\ slot < n
  BY <1>0, <1>1 DEF Slots
<1>4. p \notin DOMAIN m /\ p # end
  BY <1>1, <1>2 DEF RangesOk
<1>5. /\ DOMAIN m1 = DOMAIN m \cup {p}
      /\ m1[p] = m[end]
      /\ m1[end] = [start |-> n, shard |-> m[end].shard]
      /\ \A e \in DOMAIN m \ {end} : m1[e] = m[e]
  <2> DEFINE u == [m EXCEPT ![end].start = slot + 1]
  <2>1. /\ DOMAIN u = DOMAIN m
        /\ u[end] = [start |-> n, shard |-> m[end].shard]
        /\ \A e \in DOMAIN m \ {end} : u[e] = m[e]
    BY <1>1, <1>3
  <2> HIDE DEF u
  <2>2. m1 = Insert(u, p, m[end].start, m[end].shard)
    BY <1>2 DEF u
  <2>3. /\ DOMAIN m1 = DOMAIN m \cup {p}
        /\ m1[p] = [start |-> m[end].start, shard |-> m[end].shard]
        /\ \A e \in DOMAIN m : m1[e] = u[e]
    BY <1>4, <2>1, <2>2 DEF Insert
  <2>4. m[end] = [start |-> m[end].start, shard |-> m[end].shard]
    BY <1>1
  <2> QED
    BY <2>1, <2>3, <2>4
<1> HIDE DEF m1
<1>6. ASSUME NEW e \in DOMAIN m1
      PROVE  m1[e] \in [start : Slots, shard : Shards] /\ m1[e].start <= e
  <2>1. CASE e = p
    BY <1>1, <1>2, <1>5, <2>1
  <2>2. CASE e = end
    BY <1>1, <1>3, <1>5, <2>2
  <2>3. CASE e # p /\ e # end
    BY <1>5, <2>3 DEF RangesOk
  <2> QED
    BY <2>1, <2>2, <2>3
<1>7. ASSUME NEW d \in DOMAIN m1, NEW e \in DOMAIN m1, d < e
      PROVE  d < m1[e].start
  <2>0. d \in Nat /\ e \in Nat
    BY <1>0, <1>2, <1>5
  <2>1. CASE d = p /\ e = end
    BY <1>2, <1>3, <1>5, <2>1, <1>1
  <2>2. CASE d = p /\ e # end
    <3>1. e \in DOMAIN m /\ m1[e] = m[e]
      BY <1>5, <1>7, <2>0, <2>2
    <3>2. m[e].start \in Nat /\ (e < end => e < m[end].start) /\ (end < e => end < m[e].start)
      BY <1>0, <3>1 DEF RangesOk
    <3> QED
      BY <1>1, <1>2, <1>7, <2>0, <2>2, <3>1, <3>2
  <2>3. CASE d # p /\ e = p
    <3>1. d \in DOMAIN m /\ d < end
      BY <1>1, <1>2, <1>5, <1>7, <2>0, <2>3
    <3> QED
      BY <1>5, <2>3, <3>1 DEF RangesOk
  <2>4. CASE d # p /\ e = end
    <3>1. d < m[end].start
      BY <1>5, <1>7, <2>4 DEF RangesOk
    <3> QED
      BY <1>1, <1>3, <1>5, <2>0, <2>4, <3>1
  <2>5. CASE d # p /\ e # p /\ e # end
    BY <1>5, <1>7, <2>5 DEF RangesOk
  <2> QED
    BY <2>1, <2>2, <2>3, <2>4, <2>5
<1>8. RangesOk(m1)
  BY <1>0, <1>5, <1>6, <1>7 DEF RangesOk
<1>9. ASSUME NEW e \in DOMAIN m1
      PROVE  ~Holds(m1, e, slot)
  <2>1. CASE e = p
    BY <1>1, <1>2, <2>1 DEF Holds
  <2>2. CASE e = end
    BY <1>1, <1>3, <1>5, <2>2 DEF Holds
  <2>3. CASE e # p /\ e # end
    <3>1. e \in DOMAIN m /\ m1[e] = m[e] /\ e \in Nat /\ m[e].start \in Nat
      BY <1>0, <1>5, <2>3 DEF RangesOk
    <3>2. (e < end => e < m[end].start) /\ (end < e => end < m[e].start)
      BY <3>1 DEF RangesOk
    <3>3. e < slot \/ slot < m[e].start
      BY <1>1, <2>3, <3>1, <3>2
    <3> QED
      BY <1>1, <3>1, <3>3 DEF Holds
  <2> QED
    BY <2>1, <2>2, <2>3
<1>10. ASSUME NEW s \in Slots \ {slot}
       PROVE  Holds(m1, p, s) \/ Holds(m1, end, s) <=> Holds(m, end, s)
  <2>1. s \in Nat /\ s # slot
    BY <1>0, <1>10
  <2>2. (m[end].start <= s /\ s <= p) \/ (n <= s /\ s <= end) <=> (m[end].start <= s /\ s <= end)
    BY <1>1, <1>2, <1>3, <2>1
  <2> QED
    BY <1>5, <2>2 DEF Holds
<1>11. ASSUME NEW s, NEW e \in DOMAIN m \ {end}
       PROVE  Holds(m1, e, s) <=> Holds(m, e, s)
  BY <1>5, <1>11 DEF Holds
<1>12. Freed(m, m1, slot)
  <2>0. m1[p].shard = m[end].shard /\ m1[end].shard = m[end].shard
    BY <1>5
  <2>1. ASSUME NEW s \in Slots \ {slot}, NEW e \in DOMAIN m, Holds(m, e, s)
        PROVE  \E f \in DOMAIN m1 : Holds(m1, f, s) /\ m1[f].shard = m[e].shard
    <3>1. CASE e = end
      BY <1>5, <1>10, <2>0, <2>1, <3>1
    <3>2. CASE e # end
      BY <1>5, <1>11, <2>1, <3>2
    <3> QED
      BY <3>1, <3>2
  <2>2. ASSUME NEW s \in Slots \ {slot}, NEW f \in DOMAIN m1, Holds(m1, f, s)
        PROVE  \E e \in DOMAIN m : Holds(m, e, s)
    <3>1. CASE f = end \/ f = p
      BY <1>10, <2>2, <3>1
    <3>2. CASE f # end /\ f # p
      BY <1>5, <1>11, <2>2, <3>2
    <3> QED
      BY <3>1, <3>2
  <2>3. \A f \in DOMAIN m1 : \E e \in DOMAIN m : m1[f].shard = m[e].shard
    BY <1>5, <2>0
  <2> QED
    BY <1>8, <1>9, <2>1, <2>2, <2>3 DEF Freed
<1> QED
  BY <1>12 DEF m1

\* A range of the slot alone changes hands.
LEMMA WholeEdits ==
    ASSUME NEW m, RangesOk(m), NEW slot \in DOMAIN m, m[slot].start = slot, NEW shard \in Shards
    PROVE  Edited(m, [m EXCEPT ![slot].shard = shard], slot, shard)
<1> DEFINE m2 == [m EXCEPT ![slot].shard = shard]
<1>0. MaxSlot \in Nat /\ Slots \subseteq Nat /\ DOMAIN m \subseteq Slots
  BY BoundsAssumption DEF Slots, RangesOk
<1>1. m[slot] \in [start : Slots, shard : Shards]
  BY DEF RangesOk
<1>2. /\ DOMAIN m2 = DOMAIN m
      /\ m2[slot] = [start |-> slot, shard |-> shard]
      /\ \A e \in DOMAIN m \ {slot} : m2[e] = m[e]
  BY <1>1
<1> HIDE DEF m2
<1>3. RangesOk(m2)
  BY <1>0, <1>2 DEF RangesOk
<1>4. Holds(m2, slot, slot) /\ m2[slot].shard = shard
  <2>1. slot \in Nat
    BY <1>0
  <2>2. slot <= slot
    BY <2>1
  <2> QED
    BY <1>2, <2>2 DEF Holds
<1>5. ASSUME NEW s \in Slots \ {slot}
      PROVE  ~Holds(m, slot, s) /\ ~Holds(m2, slot, s)
  <2>1. s \in Nat /\ slot \in Nat /\ s # slot
    BY <1>0, <1>5
  <2>2. ~(slot <= s /\ s <= slot)
    BY <2>1
  <2> QED
    BY <1>2, <2>2 DEF Holds
<1>6. \A s, e : e \in DOMAIN m \ {slot} => (Holds(m2, e, s) <=> Holds(m, e, s))
  BY <1>2 DEF Holds
<1>7. Edited(m, m2, slot, shard)
  BY <1>2, <1>3, <1>4, <1>5, <1>6 DEF Edited
<1> QED
  BY <1>7 DEF m2

\* LeavesEnd frees the slot and then merges or inserts it.
LEMMA LeavesEndEdits ==
    ASSUME NEW m, RangesOk(m), NEW slot \in DOMAIN m, m[slot].start # slot, NEW shard \in Shards
    PROVE  Edited(m, LeavesEnd(m, slot, shard), slot, shard)
<1> DEFINE m1 == update_end_range(m, slot, slot - 1)
<1>0. MaxSlot \in Nat /\ Slots \subseteq Nat /\ DOMAIN m \subseteq Slots /\ slot \in Slots
  BY BoundsAssumption DEF Slots, RangesOk
<1>1. slot \in Nat /\ m[slot].start \in Nat /\ m[slot].start < slot
  <2>1. slot \in Nat /\ m[slot].start \in Nat /\ m[slot].start <= slot
    BY <1>0 DEF RangesOk
  <2> QED
    BY <2>1
<1>2. PICK p \in Nat : p = slot - 1 /\ p < slot /\ m[slot].start <= p
  BY <1>1
<1>3. p \notin DOMAIN m /\ p # slot
  BY <1>1, <1>2 DEF RangesOk
<1>4. Freed(m, m1, slot)
  BY FreeEnd
<1>5. m1 = [e \in (DOMAIN m \ {slot}) \cup {p} |->
               IF e = p THEN [start |-> m[slot].start, shard |-> m[slot].shard] ELSE m[e]]
  BY <1>2, <1>3 DEF update_end_range, Insert
<1> HIDE DEF m1
<1>6. From(m1, slot + 1) = From(m, slot + 1)
  <2>1. ~(slot >= slot + 1) /\ ~(p >= slot + 1)
    BY <1>1, <1>2
  <2>2. DOMAIN m1 = (DOMAIN m \ {slot}) \cup {p}
    BY <1>5
  <2> QED
    BY <1>3, <2>1, <2>2 DEF From
<1>7. From(m, slot + 1) # {} =>
         /\ Least(From(m, slot + 1)) \in DOMAIN m /\ Least(From(m, slot + 1)) # slot
         /\ m1[Least(From(m, slot + 1))] = m[Least(From(m, slot + 1))]
  <2>1. From(m, slot + 1) \in SUBSET Nat
    BY <1>0 DEF From
  <2>2. From(m, slot + 1) # {} => Least(From(m, slot + 1)) \in From(m, slot + 1)
    BY <2>1, LeastFacts
  <2>3. \A e \in From(m, slot + 1) : e \in DOMAIN m /\ e # slot /\ e # p
    BY <1>1, <1>3 DEF From
  <2> QED
    BY <1>5, <2>2, <2>3
<1>8. MergesNext(m1, slot, shard) <=> MergesNext(m, slot, shard)
  BY <1>6, <1>7 DEF MergesNext
<1>9. RangesOk(m1) /\ \A e \in DOMAIN m1 : ~Holds(m1, e, slot)
  BY <1>4 DEF Freed
<1>10. CASE MergesNext(m, slot, shard)
  <2>1. LeavesEnd(m, slot, shard) = MergeNext(m1, slot)
    <3> DEFINE l == Least(From(m, slot + 1))
               g == [m EXCEPT ![l].start = slot]
    <3>1. l \in DOMAIN m /\ l # slot /\ l # p
      BY <1>3, <1>7, <1>10 DEF MergesNext
    <3>2. LeavesEnd(m, slot, shard) = update_end_range(g, slot, p)
      BY <1>2, <1>10 DEF LeavesEnd, MergeNext
    <3>3. MergeNext(m1, slot) = [m1 EXCEPT ![l].start = slot]
      BY <1>6 DEF MergeNext
    <3> HIDE DEF l
    <3>4. /\ DOMAIN g = DOMAIN m /\ g[l] = [m[l] EXCEPT !.start = slot]
          /\ \A e \in DOMAIN m \ {l} : g[e] = m[e]
      BY <3>1
    <3> HIDE DEF g
    <3>5. update_end_range(g, slot, p) =
              [e \in (DOMAIN m \ {slot}) \cup {p} |->
                  IF e = p THEN [start |-> m[slot].start, shard |-> m[slot].shard] ELSE g[e]]
      BY <1>3, <3>1, <3>4 DEF update_end_range, Insert
    <3>6. [m1 EXCEPT ![l].start = slot] =
              [e \in (DOMAIN m \ {slot}) \cup {p} |->
                  IF e = p THEN [start |-> m[slot].start, shard |-> m[slot].shard] ELSE g[e]]
      BY <1>3, <1>5, <3>1, <3>4
    <3> QED
      BY <3>2, <3>3, <3>5, <3>6
  <2>2. Edited(m1, MergeNext(m1, slot), slot, shard)
    BY <1>0, <1>8, <1>9, <1>10, NextEdits
  <2> QED
    BY <1>4, <2>1, <2>2, FreedEdited
<1>11. CASE ~MergesNext(m, slot, shard)
  <2>1. LeavesEnd(m, slot, shard) = insert_single_slot(m1, slot, shard)
    <3>1. LeavesEnd(m, slot, shard) =
              Insert(insert_single_slot(m, slot, shard), p, m[slot].start, m[slot].shard)
      BY <1>2, <1>11 DEF LeavesEnd
    <3> QED
      BY <1>3, <1>5, <3>1 DEF insert_single_slot, Insert
  <2>2. Edited(m1, insert_single_slot(m1, slot, shard), slot, shard)
    BY <1>0, <1>9, SingleEdits
  <2> QED
    BY <1>4, <2>1, <2>2, FreedEdited
<1> QED
  BY <1>10, <1>11

\* update_slot_range gives the slot to the shard, and changes nothing else.
LEMMA UpdateEdits ==
    ASSUME NEW m, RangesOk(m), NEW slot \in Slots, NEW shard \in Shards
    PROVE  Edited(m, update_slot_range(m, slot, shard), slot, shard)
<1>0. MaxSlot \in Nat /\ Slots \subseteq Nat /\ DOMAIN m \subseteq Slots
  BY BoundsAssumption DEF Slots, RangesOk
<1>1. CASE ~Covered(m, slot)
  <2>1. \A e \in DOMAIN m : ~Holds(m, e, slot)
    BY <1>1, RouteFacts
  <2>2. update_slot_range(m, slot, shard) = FillsGap(m, slot, shard)
    BY <1>1 DEF update_slot_range
  <2> QED
    BY <2>1, <2>2, PrevEdits, NextEdits, SingleEdits DEF FillsGap
<1>2. CASE Covered(m, slot)
  <2>1. PICK end \in DOMAIN m : end = Least(From(m, slot)) /\ Holds(m, end, slot)
    BY <1>2, RouteFacts
  <2>2. PICK start \in Slots : start = m[end].start
    BY DEF RangesOk
  <2>3. slot \in Nat /\ end \in Nat /\ start \in Nat /\ start <= slot /\ slot <= end
    BY <1>0, <2>1, <2>2 DEF Holds
  <2>4. CASE m[end].shard = shard
    <3>1. update_slot_range(m, slot, shard) = m
      BY <1>2, <2>1, <2>4 DEF update_slot_range
    <3> QED
      BY <2>1, <2>4, <3>1 DEF Edited
  <2>5. CASE m[end].shard # shard /\ start = end
    <3>1. update_slot_range(m, slot, shard) = [m EXCEPT ![end].shard = shard]
      BY <1>2, <2>1, <2>2, <2>3, <2>5 DEF update_slot_range
    <3>2. end = slot
      BY <2>3, <2>5
    <3>3. slot \in DOMAIN m /\ m[slot].start = slot
      BY <2>2, <2>5, <3>2
    <3>4. Edited(m, [m EXCEPT ![slot].shard = shard], slot, shard)
      BY <3>3, WholeEdits
    <3> QED
      BY <3>1, <3>2, <3>4
  <2>6. CASE m[end].shard # shard /\ start # end /\ slot = end
    <3>1. update_slot_range(m, slot, shard) = LeavesEnd(m, slot, shard)
      BY <1>2, <2>1, <2>2, <2>3, <2>6 DEF update_slot_range
    <3> QED
      BY <2>2, <2>6, <3>1, LeavesEndEdits
  <2>7. CASE m[end].shard # shard /\ start # end /\ slot # end /\ slot = start
    <3> DEFINE m1 == [m EXCEPT ![end].start = slot + 1]
    <3>1. update_slot_range(m, slot, shard) = LeavesStart(m, end, slot, shard)
      BY <1>2, <2>1, <2>2, <2>3, <2>7 DEF update_slot_range
    <3>2. Freed(m, m1, slot)
      BY <2>2, <2>7, FreeStart
    <3>3. LeavesStart(m, end, slot, shard) =
              IF MergesPrev(m1, slot, shard) THEN MergePrev(m1, slot)
              ELSE insert_single_slot(m1, slot, shard)
      BY DEF LeavesStart
    <3> HIDE DEF m1
    <3>4. Edited(m1, LeavesStart(m, end, slot, shard), slot, shard)
      BY <3>2, <3>3, PrevEdits, SingleEdits DEF Freed
    <3> QED
      BY <3>1, <3>2, <3>4, FreedEdited
  <2>8. CASE m[end].shard # shard /\ start < slot /\ slot < end
    <3> DEFINE m1 == Insert([m EXCEPT ![end].start = slot + 1], slot - 1, m[end].start, m[end].shard)
    <3>1. update_slot_range(m, slot, shard) = Splits(m, end, slot, shard)
      <4>1. start # end /\ slot # end /\ slot # start
        BY <2>3, <2>8
      <4> QED
        BY <1>2, <2>1, <2>2, <2>8, <4>1 DEF update_slot_range
    <3>2. Freed(m, m1, slot)
      BY <2>2, <2>8, FreeMiddle
    <3>3. Splits(m, end, slot, shard) = insert_single_slot(m1, slot, shard)
      BY DEF Splits
    <3> HIDE DEF m1
    <3>4. Edited(m1, Splits(m, end, slot, shard), slot, shard)
      BY <3>2, <3>3, SingleEdits DEF Freed
    <3> QED
      BY <3>1, <3>2, <3>4, FreedEdited
  <2> QED
    BY <2>3, <2>4, <2>5, <2>6, <2>7, <2>8
<1> QED
  BY <1>1, <1>2

-----------------------------------------------------------------------------
(* The election *)

\* One turn of the loop of calculate_topology, as a function of the turns before.
Turn(votes, order, f, i) ==
    IF i = 1 THEN [view |-> order[1], unique |-> TRUE]
    ELSE Compare(votes, f[i - 1], order[i])

\* The loop, as far as its n-th turn.
IsLoop(votes, order, n, f) == f = [i \in 1 .. n |-> Turn(votes, order, f, i)]

\* There is no least number of turns the loop cannot take.
LEMMA LoopExists ==
    ASSUME NEW votes, NEW order, NEW n \in Nat
    PROVE  \E f : IsLoop(votes, order, n, f)
<1> SUFFICES ASSUME ~\E f : IsLoop(votes, order, n, f)
             PROVE  FALSE
  OBVIOUS
<1> DEFINE D == {k \in Nat : ~\E f : IsLoop(votes, order, k, f)}
<1>1. PICK k \in D : \A j \in D : k <= j
  <2>1. D \in SUBSET Nat /\ D # {}
    OBVIOUS
  <2> HIDE DEF D
  <2> QED
    BY <2>1, Minimum
<1>2. k \in Nat /\ ~\E f : IsLoop(votes, order, k, f)
  OBVIOUS
<1>3. CASE k = 0
  <2> DEFINE f == [i \in 1 .. 0 |-> 0]
  <2>1. IsLoop(votes, order, 0, f)
    BY DEF IsLoop
  <2> QED
    BY <1>2, <1>3, <2>1
<1>4. CASE k # 0
  <2>1. PICK j \in Nat : k = j + 1
    <3>1. k - 1 \in Nat /\ k = (k - 1) + 1
      BY <1>2, <1>4
    <3> QED
      BY <3>1
  <2>2. j \notin D
    BY <1>1, <1>2, <2>1
  <2>3. PICK g : IsLoop(votes, order, j, g)
    BY <2>2
  <2> DEFINE f == [i \in 1 .. k |-> IF i = k THEN Turn(votes, order, g, k) ELSE g[i]]
  <2>4. \A i \in 1 .. k : f[i] = Turn(votes, order, f, i)
    <3> SUFFICES ASSUME NEW i \in 1 .. k PROVE f[i] = Turn(votes, order, f, i)
      OBVIOUS
    <3>1. i # 1 => i - 1 \in 1 .. k /\ i - 1 # k /\ f[i - 1] = g[i - 1]
      BY <1>2
    <3>2. Turn(votes, order, f, i) = Turn(votes, order, g, i)
      BY <3>1 DEF Turn
    <3>3. i # k => i \in 1 .. j
      BY <2>1
    <3>4. i # k => g[i] = Turn(votes, order, g, i)
      BY <2>3, <3>3 DEF IsLoop
    <3> QED
      BY <3>2, <3>4
  <2>5. f = [i \in 1 .. k |-> f[i]]
    OBVIOUS
  <2> HIDE DEF f
  <2>6. f = [i \in 1 .. k |-> Turn(votes, order, f, i)]
    BY <2>4, <2>5
  <2> QED
    BY <1>2, <2>6 DEF IsLoop
<1> QED
  BY <1>3, <1>4

LEMMA MostFrequentLoop ==
    ASSUME NEW votes, NEW order, Len(order) \in Nat
    PROVE  \E f : /\ IsLoop(votes, order, Len(order), f)
                  /\ MostFrequent(votes, order) = f[Len(order)]
<1>1. PICK g : IsLoop(votes, order, Len(order), g)
  BY LoopExists
<1>2. \E best : best = [i \in 1 .. Len(order) |->
                           IF i = 1 THEN [view |-> order[1], unique |-> TRUE]
                           ELSE Compare(votes, best[i - 1], order[i])]
  BY <1>1 DEF IsLoop, Turn
<1> DEFINE f == CHOOSE best : best = [i \in 1 .. Len(order) |->
                           IF i = 1 THEN [view |-> order[1], unique |-> TRUE]
                           ELSE Compare(votes, best[i - 1], order[i])]
<1>3. IsLoop(votes, order, Len(order), f)
  BY <1>2, Zenon DEF IsLoop, Turn
<1>4. MostFrequent(votes, order) = f[Len(order)]
  BY Zenon DEF MostFrequent
<1> QED
  BY <1>3, <1>4

\* After i turns: the best view is one of those seen, has as many votes as any of
\* them, and where another has as many it is not unique and covers as much.
BestOf(votes, order, i, best) ==
    /\ \E j \in 1 .. i : best.view = order[j]
    /\ \A j \in 1 .. i :
        /\ votes[order[j]] <= votes[best.view]
        /\ (votes[order[j]] = votes[best.view] /\ order[j] # best.view) =>
              ~best.unique /\ Coverage(order[j]) <= Coverage(best.view)

LEMMA CoverageNat ==
    ASSUME NEW v
    PROVE  Coverage(v) \in Nat
<1> DEFINE C == {s \in Slots : \E i \in DOMAIN v : v[i].start <= s /\ s <= v[i].end}
<1>1. IsFiniteSet(Slots)
  <2>1. 0 \in Int /\ MaxSlot \in Int
    BY BoundsAssumption
  <2> QED
    BY <2>1, FS_Interval DEF Slots
<1>2. C \in SUBSET Slots
  OBVIOUS
<1> HIDE DEF C
<1>3. IsFiniteSet(C)
  BY <1>1, <1>2, FS_Subset
<1>4. Cardinality(C) \in Nat
  BY <1>3, FS_CardinalityType
<1> QED
  BY <1>4 DEF Coverage, C

\* Compare keeps the loop's invariant.
LEMMA CompareBest ==
    ASSUME NEW votes, NEW order, NEW i \in Nat, NEW n \in Nat, n = i + 1, NEW best,
           \A j \in 1 .. n : votes[order[j]] \in Nat,
           BestOf(votes, order, i, best)
    PROVE  BestOf(votes, order, n, Compare(votes, best, order[n]))
<1>0. \A j \in 1 .. n : j \in 1 .. i \/ j = n
  OBVIOUS
<1>1. 1 .. i \subseteq 1 .. n /\ n \in 1 .. n
  OBVIOUS
<1>2. PICK k \in 1 .. i : best.view = order[k]
  BY DEF BestOf
<1> DEFINE b == votes[best.view]
           c == votes[order[n]]
           new == Compare(votes, best, order[n])
<1>3. b \in Nat /\ c \in Nat
  BY <1>1, <1>2
<1>4. \A j \in 1 .. i : votes[order[j]] \in Nat /\ votes[order[j]] <= b
  BY <1>1 DEF BestOf
<1>5. CASE b < c
  <2>1. new = [view |-> order[n], unique |-> TRUE]
    BY <1>5 DEF Compare
  <2> HIDE DEF new, b
  <2>2. \A j \in 1 .. i : votes[order[j]] < c
    BY <1>3, <1>4, <1>5
  <2>3. ASSUME NEW j \in 1 .. n
        PROVE  /\ votes[order[j]] <= votes[new.view]
               /\ (votes[order[j]] = votes[new.view] /\ order[j] # new.view) =>
                     ~new.unique /\ Coverage(order[j]) <= Coverage(new.view)
    <3>1. CASE j = n
      BY <1>3, <2>1, <3>1
    <3>2. CASE j \in 1 .. i
      BY <1>3, <1>4, <2>1, <2>2, <3>2
    <3> QED
      BY <1>0, <3>1, <3>2
  <2> QED
    BY <1>1, <2>1, <2>3 DEF BestOf, new
<1>6. CASE b > c
  <2>1. new = best
    BY <1>3, <1>6 DEF Compare
  <2> HIDE DEF new
  <2>2. ASSUME NEW j \in 1 .. n
        PROVE  /\ votes[order[j]] <= votes[best.view]
               /\ (votes[order[j]] = votes[best.view] /\ order[j] # best.view) =>
                     ~best.unique /\ Coverage(order[j]) <= Coverage(best.view)
    <3>1. CASE j = n
      BY <1>3, <1>6, <3>1
    <3>2. CASE j \in 1 .. i
      BY <3>2 DEF BestOf
    <3> QED
      BY <1>0, <3>1, <3>2
  <2> QED
    BY <1>1, <1>2, <2>1, <2>2 DEF BestOf, new
<1>7. CASE b = c
  <2> DEFINE v == IF Coverage(best.view) < Coverage(order[n]) THEN order[n] ELSE best.view
  <2>1. new = [view |-> v, unique |-> FALSE]
    BY <1>3, <1>7 DEF Compare
  <2>2. /\ Coverage(best.view) \in Nat /\ Coverage(order[n]) \in Nat
        /\ \A j \in 1 .. i : Coverage(order[j]) \in Nat
    BY CoverageNat
  <2>3. /\ v = order[n] \/ v = best.view
        /\ votes[v] = b
        /\ Coverage(v) \in Nat
        /\ Coverage(order[n]) <= Coverage(v) /\ Coverage(best.view) <= Coverage(v)
    BY <1>7, <2>2
  <2> HIDE DEF new, v
  <2>4. ASSUME NEW j \in 1 .. n, votes[order[j]] = b
        PROVE  Coverage(order[j]) <= Coverage(v)
    <3>1. CASE j = n
      BY <2>3, <3>1
    <3>2. CASE j \in 1 .. i /\ order[j] = best.view
      BY <2>3, <3>2
    <3>3. CASE j \in 1 .. i /\ order[j] # best.view
      <4>1. Coverage(order[j]) <= Coverage(best.view)
        BY <2>4, <3>3 DEF BestOf
      <4> QED
        BY <2>2, <2>3, <3>3, <4>1
    <3> QED
      BY <1>0, <3>1, <3>2, <3>3
  <2>5. \A j \in 1 .. n : votes[order[j]] <= b
    BY <1>0, <1>3, <1>4, <1>7
  <2>6. \E j \in 1 .. n : v = order[j]
    BY <1>1, <1>2, <2>3
  <2> QED
    BY <2>1, <2>3, <2>4, <2>5, <2>6 DEF BestOf, new
<1> QED
  BY <1>3, <1>5, <1>6, <1>7

\* There is no least turn after which the loop's invariant fails.
LEMMA LoopBest ==
    ASSUME NEW votes, NEW order, NEW n \in Nat, NEW f, IsLoop(votes, order, n, f),
           \A j \in 1 .. n : votes[order[j]] \in Nat
    PROVE  \A i \in 1 .. n : BestOf(votes, order, i, f[i])
<1> SUFFICES ASSUME NEW x \in 1 .. n, ~BestOf(votes, order, x, f[x])
             PROVE  FALSE
  OBVIOUS
<1> DEFINE D == {k \in 1 .. n : ~BestOf(votes, order, k, f[k])}
<1>1. PICK k \in D : \A j \in D : k <= j
  <2>1. D \in SUBSET Nat /\ D # {}
    OBVIOUS
  <2> HIDE DEF D
  <2> QED
    BY <2>1, Minimum
<1>2. k \in 1 .. n /\ ~BestOf(votes, order, k, f[k])
  OBVIOUS
<1>3. CASE k = 1
  <2>1. f[1] = [view |-> order[1], unique |-> TRUE]
    BY <1>2, <1>3 DEF IsLoop, Turn
  <2>2. votes[order[1]] \in Nat
    BY <1>2, <1>3
  <2>3. \A j \in 1 .. 1 : j = 1
    OBVIOUS
  <2>4. BestOf(votes, order, 1, f[1])
    BY <2>1, <2>2, <2>3 DEF BestOf
  <2> QED
    BY <1>2, <1>3, <2>4
<1>4. CASE k # 1
  <2>1. PICK i \in Nat : k = i + 1 /\ i \in 1 .. n /\ i = k - 1
    <3>1. k - 1 \in Nat /\ k = (k - 1) + 1 /\ k - 1 \in 1 .. n
      BY <1>2, <1>4
    <3> QED
      BY <3>1
  <2>2. BestOf(votes, order, i, f[i])
    BY <1>1, <1>2, <2>1
  <2>3. f[k] = Compare(votes, f[i], order[k])
    BY <1>2, <1>4, <2>1 DEF IsLoop, Turn
  <2>4. \A j \in 1 .. k : votes[order[j]] \in Nat
    BY <1>2
  <2>5. BestOf(votes, order, k, f[k])
    BY <1>2, <2>1, <2>2, <2>3, <2>4, CompareBest
  <2> QED
    BY <1>2, <2>5
<1> QED
  BY <1>3, <1>4

LEMMA PollFacts ==
    ASSUME NEW votes \in Polls
    PROVE  /\ \A v \in Views : votes[v] \in Nat
           /\ IsFiniteSet({v \in Views : votes[v] > 0})
<1> DEFINE All == Views \cup {NoView}
<1>1. PICK f \in [1 .. Queried -> All] :
          votes = [v \in All |-> Cardinality({i \in 1 .. Queried : f[i] = v})]
  BY DEF Polls
<1>2. IsFiniteSet(1 .. Queried)
  <2>1. 1 \in Int /\ Queried \in Int
    BY BoundsAssumption
  <2> QED
    BY <2>1, FS_Interval
<1>3. ASSUME NEW v \in All
      PROVE  /\ votes[v] \in Nat
             /\ votes[v] > 0 => \E i \in 1 .. Queried : f[i] = v
  <2> DEFINE T == {i \in 1 .. Queried : f[i] = v}
  <2>1. T \in SUBSET (1 .. Queried) /\ votes[v] = Cardinality(T)
    BY <1>1
  <2>2. T # {} => \E i \in 1 .. Queried : f[i] = v
    OBVIOUS
  <2> HIDE DEF T
  <2>3. IsFiniteSet(T) /\ Cardinality(T) \in Nat
    BY <1>2, <2>1, FS_Subset, FS_CardinalityType
  <2>4. T = {} => Cardinality(T) = 0
    BY FS_EmptySet
  <2> QED
    BY <2>1, <2>2, <2>3, <2>4
<1> DEFINE R == {f[i] : i \in 1 .. Queried}
<1>4. f \in Surjection(1 .. Queried, R)
  BY <1>1 DEF Surjection
<1>5. {v \in Views : votes[v] > 0} \in SUBSET R
  BY <1>3
<1> HIDE DEF R
<1>6. IsFiniteSet(R)
  BY <1>2, <1>4, FS_Surjection
<1>7. IsFiniteSet({v \in Views : votes[v] > 0})
  BY <1>5, <1>6, FS_Subset
<1> QED
  BY <1>3, <1>7

\* What ElectionFair says of a view elected with these votes.
Fair(votes, view, currRetry) ==
    LET rivals == {v \in Views \ {view} : votes[v] = votes[view]}
    IN /\ \A v \in Views : votes[v] <= votes[view]
       /\ rivals # {} => /\ currRetry = LastRetry \/ Queried < 3
                         /\ \A v \in rivals : Coverage(v) <= Coverage(view)

LEMMA ElectedFair ==
    ASSUME NEW votes \in Polls, NEW order \in Orders({v \in Views : votes[v] > 0}),
           NEW r \in 0 .. LastRetry, NEW view, view = calculate_topology(votes, order, r),
           view # NoView
    PROVE  view \in Views /\ Fair(votes, view, r)
<1> DEFINE S == {v \in Views : votes[v] > 0}
<1>1. (\A v \in Views : votes[v] \in Nat) /\ IsFiniteSet(S)
  BY PollFacts
<1>2. /\ S \subseteq Views
      /\ \A v \in Views : v \in S <=> votes[v] > 0
  OBVIOUS
<1>3. /\ order \in [1 .. Cardinality(S) -> S]
      /\ \A i, j \in 1 .. Cardinality(S) : i # j => order[i] # order[j]
  BY DEF Orders
<1> HIDE DEF S
<1>4. Cardinality(S) \in Nat
  BY <1>1, FS_CardinalityType
<1> DEFINE n == Cardinality(S)
<1>5. order \in Seq(S) /\ Len(order) = n
  BY <1>3, <1>4
<1>6. \A v \in S : \E j \in 1 .. n : order[j] = v
  <2>1. order \in Injection(1 .. n, S)
    BY <1>3 DEF Injection, IsInjective
  <2>2. Cardinality(1 .. n) = n
    <3>1. 1 \in Int /\ n \in Int
      BY <1>4
    <3>2. Cardinality(1 .. n) = IF 1 > n THEN 0 ELSE n - 1 + 1
      BY <3>1, FS_Interval
    <3> QED
      BY <1>4, <3>2
  <2>3. order \in Surjection(1 .. n, S)
    BY <1>1, <2>1, <2>2, FS_Injection
  <2> QED
    BY <2>3 DEF Surjection
<1>7. order # <<>> /\ n # 0
  <2>1. order # <<>>
    BY DEF calculate_topology
  <2> QED
    BY <1>5, <2>1
<1>8. PICK f : IsLoop(votes, order, n, f) /\ MostFrequent(votes, order) = f[n]
  BY <1>4, <1>5, MostFrequentLoop
<1>9. PICK best : best = f[n]
  OBVIOUS
<1>10. BestOf(votes, order, n, best)
  <2>1. \A j \in 1 .. n : votes[order[j]] \in Nat
    BY <1>1, <1>2, <1>3
  <2>2. n \in 1 .. n
    BY <1>4, <1>7
  <2> QED
    BY <1>4, <1>8, <1>9, <2>1, <2>2, LoopBest
<1>11. /\ view = best.view
       /\ ~best.unique => r >= LastRetry \/ Queried < 3
  BY <1>7, <1>8, <1>9 DEF calculate_topology
<1> HIDE DEF n
<1>12. view \in S
  BY <1>3, <1>10, <1>11 DEF BestOf, n
<1>13. ASSUME NEW v \in Views
       PROVE  votes[v] <= votes[view]
  <2>1. CASE v \in S
    BY <1>6, <1>10, <1>11, <2>1 DEF BestOf
  <2>2. CASE v \notin S
    <3>1. votes[v] \in Nat /\ votes[view] \in Nat /\ ~(votes[v] > 0)
      BY <1>1, <1>2, <1>12, <2>2
    <3> QED
      BY <3>1
  <2> QED
    BY <2>1, <2>2
<1>14. ASSUME NEW v \in Views \ {view}, votes[v] = votes[view]
       PROVE  (r = LastRetry \/ Queried < 3) /\ Coverage(v) <= Coverage(view)
  <2>1. v \in S
    BY <1>2, <1>12, <1>14
  <2>2. ~best.unique /\ Coverage(v) <= Coverage(view)
    BY <1>6, <1>10, <1>11, <1>14, <2>1 DEF BestOf
  <2>3. r = LastRetry \/ Queried < 3
    BY <1>11, <2>2, BoundsAssumption
  <2> QED
    BY <2>2, <2>3
<1> QED
  BY <1>2, <1>12, <1>13, <1>14 DEF Fair

-----------------------------------------------------------------------------
(* The map built from a view *)

Primaries(view) == {view[i].master : i \in DOMAIN view}

\* There are enough identities for the objects of a new map.
LEMMA ObjectsFacts ==
    ASSUME NEW view \in Views, NEW F \in SUBSET Shards,
           Cardinality(F) >= Cardinality(Nodes)
    PROVE  /\ Objects(view, F) \in [Primaries(view) -> F]
           /\ \A p, q \in Primaries(view) :
                 p # q => Objects(view, F)[p] # Objects(view, F)[q]
<1> DEFINE M == Primaries(view)
<1>1. M \in SUBSET Nodes
  <2>1. view \in Seq(SlotRange)
    BY ViewsAssumption
  <2>2. \A i \in DOMAIN view : view[i] \in SlotRange
    BY <2>1
  <2> QED
    BY <2>2 DEF Primaries, SlotRange
<1>2. IsFiniteSet(M) /\ Cardinality(M) <= Cardinality(Nodes) /\ IsFiniteSet(F)
  BY <1>1, ShardsAssumption, FS_Subset
<1> DEFINE k == Cardinality(M)
           n == Cardinality(F)
<1>3. k \in Nat /\ n \in Nat /\ Cardinality(Nodes) \in Nat /\ Cardinality(Nodes) <= n
  BY <1>2, ShardsAssumption, FS_CardinalityType
<1>4. k <= n
  BY <1>2, <1>3
<1> HIDE DEF k, n, M
<1>5. PICK g \in Bijection(M, 1 .. k) : TRUE
  <2>1. ExistsBijection(1 .. k, M)
    BY <1>2, FS_CardinalityType DEF k
  <2>2. ExistsBijection(M, 1 .. k)
    BY <2>1, Fun_ExistsBijSymmetric
  <2> QED
    BY <2>2 DEF ExistsBijection
<1>6. PICK h \in Bijection(1 .. n, F) : TRUE
  <2>1. ExistsBijection(1 .. n, F)
    BY <1>2, FS_CardinalityType DEF n
  <2> QED
    BY <2>1 DEF ExistsBijection
<1>7. g \in [M -> 1 .. k] /\ \A p, q \in M : p # q => g[p] # g[q]
  BY <1>5 DEF Bijection, Injection, IsInjective
<1>8. h \in [1 .. n -> F] /\ \A i, j \in 1 .. n : i # j => h[i] # h[j]
  BY <1>6 DEF Bijection, Injection, IsInjective
<1>9. 1 .. k \subseteq 1 .. n
  BY <1>3, <1>4
<1> DEFINE f == [p \in M |-> h[g[p]]]
<1>10. f \in [M -> F] /\ \A p, q \in DOMAIN f : p # q => f[p] # f[q]
  BY <1>7, <1>8, <1>9
<1> HIDE DEF f
<1>11. \E o \in [M -> F] : \A p, q \in DOMAIN o : p # q => o[p] # o[q]
  BY <1>10
<1>12. Objects(view, F) = CHOOSE o \in [M -> F] : \A p, q \in DOMAIN o : p # q => o[p] # o[q]
  BY DEF Objects, M, Primaries
<1>13. PICK o : o = Objects(view, F)
  OBVIOUS
<1>14. o \in [M -> F] /\ \A p, q \in DOMAIN o : p # q => o[p] # o[q]
  BY <1>11, <1>12, <1>13
<1> QED
  BY <1>13, <1>14 DEF M

\* The ranges, the objects and the index fit together; held is an object that
\* may be left without a reference from either.
Sound(m, sh, nm, held) ==
    /\ RangesOk(m)
    /\ DOMAIN sh \subseteq Shards
    /\ \A id \in DOMAIN sh : sh[id] \in [primary : Nodes, replicas : SUBSET Nodes]
    /\ DOMAIN nm \subseteq Nodes
    /\ \A n \in DOMAIN nm :
        /\ nm[n] \in DOMAIN sh /\ n \in Members(sh[nm[n]])
        /\ \A k \in Members(sh[nm[n]]) : k \in DOMAIN nm /\ nm[k] = nm[n]
    /\ \A e \in DOMAIN m : \E n \in DOMAIN nm : nm[n] = m[e].shard
    /\ \A id \in DOMAIN sh : id = held \/ \E n \in DOMAIN nm : nm[n] = id

LEMMA NewMapSound ==
    ASSUME NEW view \in Views, NEW F \in SUBSET Shards, NEW objects \in [Primaries(view) -> F],
           \A p, q \in Primaries(view) : p # q => objects[p] # objects[q]
    PROVE  /\ Sound(RangesOf(view, objects), ShardsOf(view, objects), NodesOf(view, objects), NoShard)
           /\ DOMAIN ShardsOf(view, objects) \subseteq F
<1> DEFINE m == RangesOf(view, objects)
           sh == ShardsOf(view, objects)
           nm == NodesOf(view, objects)
           I == DOMAIN view
<1>1. /\ \A i \in I : view[i] \in SlotRange
      /\ \A i \in I : i \in Nat
  <2>1. view \in Seq(SlotRange)
    BY ViewsAssumption
  <2> QED
    BY <2>1
<1>2. \A i, j \in I :
        /\ view[i].start <= view[i].end
        /\ view[i].master \notin view[j].replicas
        /\ i < j => view[i].end < view[j].start
        /\ view[i].master # view[j].master => view[i].replicas \cap view[j].replicas = {}
        /\ view[i].master = view[j].master => view[i].replicas = view[j].replicas
  BY ViewsAssumption
<1>3. \A i \in I : /\ view[i].start \in Slots /\ view[i].end \in Slots
                   /\ view[i].master \in Nodes /\ view[i].replicas \in SUBSET Nodes
                   /\ view[i].master \in Primaries(view)
  BY <1>1 DEF SlotRange, Primaries
<1>s. Slots \subseteq Nat
  BY BoundsAssumption DEF Slots
<1> HIDE DEF I
<1>4. /\ DOMAIN m = {view[i].end : i \in I}
      /\ \A e \in DOMAIN m : \E i \in I : view[i].end = e
            /\ m[e] = [start |-> view[i].start, shard |-> objects[view[i].master]]
  BY DEF RangesOf, I
<1>5. \A i \in I : \E j \in I : /\ objects[view[j].master] = objects[view[i].master]
                                /\ sh[objects[view[i].master]] =
                                       [primary |-> view[j].master, replicas |-> view[j].replicas]
  <2> SUFFICES ASSUME NEW i \in I
               PROVE  \E j \in I : /\ objects[view[j].master] = objects[view[i].master]
                                   /\ sh[objects[view[i].master]] =
                                       [primary |-> view[j].master, replicas |-> view[j].replicas]
    OBVIOUS
  <2> DEFINE id == objects[view[i].master]
             j == CHOOSE j \in I : objects[view[j].master] = id
  <2>1. j \in I /\ objects[view[j].master] = id
    OBVIOUS
  <2>2. id \in {objects[p] : p \in DOMAIN objects}
    BY <1>3
  <2>3. sh[id] = [primary |-> view[j].master, replicas |-> view[j].replicas]
    BY <2>2, Zenon DEF ShardsOf, I
  <2> QED
    BY <2>1, <2>3
<1>6. \A i \in I : sh[objects[view[i].master]] =
                       [primary |-> view[i].master, replicas |-> view[i].replicas]
  <2> SUFFICES ASSUME NEW i \in I
               PROVE  sh[objects[view[i].master]] =
                          [primary |-> view[i].master, replicas |-> view[i].replicas]
    OBVIOUS
  <2>1. PICK j \in I : /\ objects[view[j].master] = objects[view[i].master]
                       /\ sh[objects[view[i].master]] =
                              [primary |-> view[j].master, replicas |-> view[j].replicas]
    BY <1>5, Zenon
  <2>2. view[j].master = view[i].master
    BY <1>3, <2>1
  <2>3. view[j].replicas = view[i].replicas
    BY <1>2, <2>2
  <2> QED
    BY <2>1, <2>2, <2>3
<1>7. /\ DOMAIN sh = {objects[p] : p \in Primaries(view)}
      /\ \A id \in DOMAIN sh : \E i \in I : id = objects[view[i].master]
      /\ \A i \in I : objects[view[i].master] \in DOMAIN sh
  BY <1>3 DEF ShardsOf, Primaries, I
<1>8. DOMAIN nm = UNION {{view[i].master} \cup view[i].replicas : i \in I}
  BY DEF NodesOf, I
<1>9. \A n \in DOMAIN nm :
         \E i \in I : n \in {view[i].master} \cup view[i].replicas /\ nm[n] = objects[view[i].master]
  <2> SUFFICES ASSUME NEW n \in DOMAIN nm
               PROVE  \E i \in I : /\ n \in {view[i].master} \cup view[i].replicas
                                   /\ nm[n] = objects[view[i].master]
    OBVIOUS
  <2> DEFINE j == CHOOSE j \in I : n = view[j].master \/ n \in view[j].replicas
  <2>1. \E j0 \in I : n = view[j0].master \/ n \in view[j0].replicas
    BY <1>8
  <2>2. j \in I /\ (n = view[j].master \/ n \in view[j].replicas)
    BY <2>1
  <2>3. nm[n] = objects[view[j].master]
    BY <1>8, Zenon DEF NodesOf, I
  <2> QED
    BY <2>2, <2>3
<1>10. \A i, j \in I : \A n : n \in {view[i].master} \cup view[i].replicas
                              /\ n \in {view[j].master} \cup view[j].replicas
                              => view[i].master = view[j].master
  BY <1>2
<1>11. \A i \in I : \A n \in {view[i].master} \cup view[i].replicas :
           n \in DOMAIN nm /\ nm[n] = objects[view[i].master]
  BY <1>8, <1>9, <1>10
<1> HIDE DEF m, sh, nm
<1>12. RangesOk(m)
  <2>1. DOMAIN m \subseteq Slots
    BY <1>3, <1>4
  <2>2. \A e \in DOMAIN m : m[e] \in [start : Slots, shard : Shards] /\ m[e].start <= e
    <3> SUFFICES ASSUME NEW e \in DOMAIN m
                 PROVE  m[e] \in [start : Slots, shard : Shards] /\ m[e].start <= e
      OBVIOUS
    <3>1. PICK i \in I : view[i].end = e
                /\ m[e] = [start |-> view[i].start, shard |-> objects[view[i].master]]
      BY <1>4, Zenon
    <3>2. objects[view[i].master] \in Shards /\ view[i].start \in Slots
      BY <1>3
    <3> QED
      BY <1>2, <3>1, <3>2
  <2>3. ASSUME NEW d \in DOMAIN m, NEW e \in DOMAIN m, d < e
        PROVE  d < m[e].start
    <3>1. PICK i \in I : view[i].end = d
      BY <1>4
    <3>2. PICK j \in I : view[j].end = e /\ m[e].start = view[j].start
      <4>1. PICK j \in I : view[j].end = e
                  /\ m[e] = [start |-> view[j].start, shard |-> objects[view[j].master]]
        BY <1>4, Zenon
      <4> QED
        BY <4>1
    <3>3. i \in Nat /\ j \in Nat /\ view[i].end \in Nat /\ view[j].end \in Nat
          /\ view[j].start \in Nat /\ view[i].start \in Nat
      BY <1>1, <1>3, <1>s
    <3>4. i < j
      <4>1. CASE i = j
        BY <2>3, <3>1, <3>2, <3>3, <4>1
      <4>2. CASE j < i
        <5>1. view[j].end < view[i].start /\ view[i].start <= view[i].end
          BY <1>2, <4>2
        <5> QED
          BY <2>3, <3>1, <3>2, <3>3, <5>1
      <4> QED
        BY <3>3, <4>1, <4>2
    <3> QED
      BY <1>2, <3>1, <3>2, <3>4
  <2> QED
    BY <2>1, <2>2, <2>3 DEF RangesOk
<1>13. /\ DOMAIN sh \subseteq F
       /\ \A id \in DOMAIN sh : sh[id] \in [primary : Nodes, replicas : SUBSET Nodes]
  <2>1. DOMAIN sh \subseteq F
    BY <1>7
  <2> SUFFICES ASSUME NEW id \in DOMAIN sh
               PROVE  sh[id] \in [primary : Nodes, replicas : SUBSET Nodes]
    BY <2>1
  <2>2. PICK i \in I : id = objects[view[i].master]
    BY <1>7, Zenon
  <2>3. sh[id] = [primary |-> view[i].master, replicas |-> view[i].replicas]
    BY <1>6, <2>2
  <2> QED
    BY <1>3, <2>3
<1>14. DOMAIN nm \subseteq Nodes
  BY <1>3, <1>8
<1>15. \A n \in DOMAIN nm :
         /\ nm[n] \in DOMAIN sh /\ n \in Members(sh[nm[n]])
         /\ \A k \in Members(sh[nm[n]]) : k \in DOMAIN nm /\ nm[k] = nm[n]
  <2> SUFFICES ASSUME NEW n \in DOMAIN nm
               PROVE  /\ nm[n] \in DOMAIN sh /\ n \in Members(sh[nm[n]])
                      /\ \A k \in Members(sh[nm[n]]) : k \in DOMAIN nm /\ nm[k] = nm[n]
    OBVIOUS
  <2>1. PICK i \in I : /\ n \in {view[i].master} \cup view[i].replicas
                       /\ nm[n] = objects[view[i].master]
    BY <1>9, Zenon
  <2>2. sh[nm[n]] = [primary |-> view[i].master, replicas |-> view[i].replicas]
    BY <1>6, <2>1
  <2>3. Members(sh[nm[n]]) = {view[i].master} \cup view[i].replicas
    BY <2>2 DEF Members
  <2>4. nm[n] \in DOMAIN sh
    BY <1>7, <2>1
  <2> QED
    BY <1>11, <2>1, <2>3, <2>4
<1>16. \A e \in DOMAIN m : \E n \in DOMAIN nm : nm[n] = m[e].shard
  <2> SUFFICES ASSUME NEW e \in DOMAIN m
               PROVE  \E n \in DOMAIN nm : nm[n] = m[e].shard
    OBVIOUS
  <2>1. PICK i \in I : m[e] = [start |-> view[i].start, shard |-> objects[view[i].master]]
    BY <1>4, Zenon
  <2>2. view[i].master \in DOMAIN nm /\ nm[view[i].master] = objects[view[i].master]
    BY <1>11
  <2> QED
    BY <2>1, <2>2
<1>17. \A id \in DOMAIN sh : \E n \in DOMAIN nm : nm[n] = id
  <2> SUFFICES ASSUME NEW id \in DOMAIN sh
               PROVE  \E n \in DOMAIN nm : nm[n] = id
    OBVIOUS
  <2>1. PICK i \in I : id = objects[view[i].master]
    BY <1>7, Zenon
  <2>2. view[i].master \in DOMAIN nm /\ nm[view[i].master] = objects[view[i].master]
    BY <1>11
  <2> QED
    BY <2>1, <2>2
<1> QED
  BY <1>12, <1>13, <1>14, <1>15, <1>16, <1>17 DEF Sound, m, sh, nm

\* Freeing what nobody refers to leaves a sound map.
LEMMA KeptSound ==
    ASSUME NEW m, NEW sh, NEW nm, NEW held, Sound(m, sh, nm, held)
    PROVE  /\ Sound(m, Kept(sh, m, nm, NoShard), nm, NoShard)
           /\ \A n \in DOMAIN nm : Kept(sh, m, nm, NoShard)[nm[n]] = sh[nm[n]]
           /\ \A id \in DOMAIN Kept(sh, m, nm, NoShard) : \E n \in DOMAIN nm : nm[n] = id
<1> DEFINE k == Kept(sh, m, nm, NoShard)
           J == {nm[n] : n \in DOMAIN nm}
<1>1. J \subseteq DOMAIN sh /\ NoShard \notin J
  BY BoundsAssumption DEF Sound
<1>2. {m[e].shard : e \in DOMAIN m} \subseteq J
  BY DEF Sound
<1>3. InUse(m, nm, NoShard) = J
  BY <1>1, <1>2 DEF InUse
<1>4. DOMAIN k = J /\ \A id \in J : k[id] = sh[id]
  BY <1>3 DEF Kept
<1>5. (\A n \in DOMAIN nm : nm[n] \in J) /\ (\A id \in J : \E n \in DOMAIN nm : nm[n] = id)
  OBVIOUS
<1> HIDE DEF k, J
<1>6. /\ DOMAIN k \subseteq Shards
      /\ \A id \in DOMAIN k : k[id] \in [primary : Nodes, replicas : SUBSET Nodes]
  BY <1>1, <1>4 DEF Sound
<1>7. \A n \in DOMAIN nm :
        /\ nm[n] \in DOMAIN k /\ k[nm[n]] = sh[nm[n]]
        /\ n \in Members(k[nm[n]])
        /\ \A x \in Members(k[nm[n]]) : x \in DOMAIN nm /\ nm[x] = nm[n]
  BY <1>4, <1>5 DEF Sound
<1>8. RangesOk(m) /\ DOMAIN nm \subseteq Nodes
      /\ \A e \in DOMAIN m : \E n \in DOMAIN nm : nm[n] = m[e].shard
  BY DEF Sound
<1>9. \A id \in DOMAIN k : \E n \in DOMAIN nm : nm[n] = id
  BY <1>4, <1>5
<1>10. Sound(m, k, nm, NoShard)
  BY <1>6, <1>7, <1>8, <1>9 DEF Sound
<1> QED
  BY <1>7, <1>9, <1>10 DEF k

\* A new map next to the object the MOVED handler still holds.
LEMMA HeldSound ==
    ASSUME NEW m, NEW sh, NEW nm, NEW held \in Shards, Sound(m, sh, nm, NoShard),
           held \notin DOMAIN sh, NEW object \in [primary : Nodes, replicas : SUBSET Nodes],
           NEW all, DOMAIN all = DOMAIN sh \cup {held},
           all[held] = object, \A id \in DOMAIN sh : all[id] = sh[id]
    PROVE  Sound(m, all, nm, held)
<1>1. RangesOk(m) /\ DOMAIN nm \subseteq Nodes
      /\ \A e \in DOMAIN m : \E n \in DOMAIN nm : nm[n] = m[e].shard
  BY DEF Sound
<1>2. /\ DOMAIN all \subseteq Shards
      /\ \A id \in DOMAIN all : all[id] \in [primary : Nodes, replicas : SUBSET Nodes]
  BY DEF Sound
<1>3. \A n \in DOMAIN nm :
        /\ nm[n] \in DOMAIN all /\ n \in Members(all[nm[n]])
        /\ \A x \in Members(all[nm[n]]) : x \in DOMAIN nm /\ nm[x] = nm[n]
  BY DEF Sound
<1>4. \A id \in DOMAIN all : id = held \/ \E n \in DOMAIN nm : nm[n] = id
  BY BoundsAssumption DEF Sound
<1> QED
  BY <1>1, <1>2, <1>3, <1>4 DEF Sound

\* While no object is held, there is an identity for one more.
LEMMA FreshExists ==
    ASSUME NEW m, NEW sh, NEW nm, Sound(m, sh, nm, NoShard)
    PROVE  \E id \in Shards : id \notin DOMAIN sh
<1>1. /\ DOMAIN sh \in SUBSET Shards /\ DOMAIN nm \in SUBSET Nodes
      /\ \A n \in DOMAIN nm : nm[n] \in DOMAIN sh
      /\ \A id \in DOMAIN sh : \E n \in DOMAIN nm : nm[n] = id
  BY BoundsAssumption DEF Sound
<1> DEFINE D == DOMAIN nm
           T == DOMAIN sh
           g == [n \in D |-> nm[n]]
<1>2. g \in Surjection(D, T)
  BY <1>1 DEF Surjection
<1> HIDE DEF D, T, g
<1>3. IsFiniteSet(D) /\ Cardinality(D) <= Cardinality(Nodes) /\ Cardinality(D) \in Nat
  BY <1>1, ShardsAssumption, FS_Subset, FS_CardinalityType DEF D
<1>4. IsFiniteSet(T) /\ Cardinality(T) <= Cardinality(D) /\ Cardinality(T) \in Nat
  BY <1>2, <1>3, FS_Surjection, FS_CardinalityType
<1>5. Cardinality(Nodes) \in Nat /\ Cardinality(Shards) \in Nat
      /\ Cardinality(Shards) > Cardinality(Nodes)
  BY ShardsAssumption, FS_CardinalityType
<1>6. Cardinality(T) # Cardinality(Shards)
  BY <1>3, <1>4, <1>5
<1>7. T # Shards
  BY <1>6
<1> QED
  BY <1>1, <1>7 DEF T

\* Scenario 3 of update_upon_moved_error: the slot goes to a known primary.
LEMMA HomeSound ==
    ASSUME NEW m, NEW sh, NEW nm, Sound(m, sh, nm, NoShard), NEW slot \in Slots,
           NEW node \in DOMAIN nm
    PROVE  /\ Edited(m, update_slot_range(m, slot, nm[node]), slot, nm[node])
           /\ Sound(update_slot_range(m, slot, nm[node]), sh, nm, NoShard)
<1>1. PICK home \in Shards : home = nm[node]
  BY DEF Sound
<1>2. PICK m2 : m2 = update_slot_range(m, slot, home)
  OBVIOUS
<1>3. Edited(m, m2, slot, home)
  BY <1>2, UpdateEdits DEF Sound
<1>4. RangesOk(m2)
  BY <1>3 DEF Edited
<1>5. \A e \in DOMAIN m2 : \E n \in DOMAIN nm : nm[n] = m2[e].shard
  <2> SUFFICES ASSUME NEW e \in DOMAIN m2
               PROVE  \E n \in DOMAIN nm : nm[n] = m2[e].shard
    OBVIOUS
  <2>1. m2[e].shard = home \/ \E f \in DOMAIN m : m2[e].shard = m[f].shard
    BY <1>3 DEF Edited
  <2> QED
    BY <1>1, <2>1 DEF Sound
<1>6. Sound(m2, sh, nm, NoShard)
  BY <1>4, <1>5 DEF Sound
<1> QED
  BY <1>1, <1>2, <1>3, <1>6

\* Scenarios 4 and 5: the node leaves the shard it was a replica of, if it is
\* known, for a new shard of its own, and the slot goes there too.
Resettled(sh, nm, node, fresh, added, indexed) ==
    /\ DOMAIN added = DOMAIN sh \cup {fresh}
    /\ added[fresh] = [primary |-> node, replicas |-> {}]
    /\ \A id \in DOMAIN sh :
        added[id] = IF node \in DOMAIN nm /\ id = nm[node]
                    THEN [primary |-> sh[id].primary, replicas |-> sh[id].replicas \ {node}]
                    ELSE sh[id]
    /\ node \in DOMAIN nm => sh[nm[node]].primary # node
    /\ DOMAIN indexed = DOMAIN nm \cup {node}
    /\ indexed[node] = fresh
    /\ \A n \in DOMAIN nm \ {node} : indexed[n] = nm[n]

LEMMA FreshSound ==
    ASSUME NEW m, NEW sh, NEW nm, Sound(m, sh, nm, NoShard), NEW slot \in Slots,
           NEW node \in Nodes, NEW fresh \in Shards, fresh \notin DOMAIN sh,
           NEW added, NEW indexed, Resettled(sh, nm, node, fresh, added, indexed)
    PROVE  /\ Edited(m, update_slot_range(m, slot, fresh), slot, fresh)
           /\ Sound(update_slot_range(m, slot, fresh), added, indexed, NoShard)
<1> USE DEF Resettled
<1>1. PICK m2 : m2 = update_slot_range(m, slot, fresh)
  OBVIOUS
<1>2. Edited(m, m2, slot, fresh)
  BY <1>1, UpdateEdits DEF Sound
<1>3. RangesOk(m2)
  BY <1>2 DEF Edited
<1>4. \A id \in DOMAIN sh : sh[id] \in [primary : Nodes, replicas : SUBSET Nodes]
  BY DEF Sound
<1>5. \A id \in DOMAIN sh : /\ added[id] \in [primary : Nodes, replicas : SUBSET Nodes]
                            /\ added[id].primary = sh[id].primary
                            /\ Members(added[id]) =
                                 IF node \in DOMAIN nm /\ id = nm[node]
                                 THEN Members(sh[id]) \ {node} ELSE Members(sh[id])
  <2> SUFFICES ASSUME NEW id \in DOMAIN sh
               PROVE  /\ added[id] \in [primary : Nodes, replicas : SUBSET Nodes]
                      /\ added[id].primary = sh[id].primary
                      /\ Members(added[id]) = IF node \in DOMAIN nm /\ id = nm[node]
                                              THEN Members(sh[id]) \ {node} ELSE Members(sh[id])
    OBVIOUS
  <2>1. CASE node \in DOMAIN nm /\ id = nm[node]
    <3>1. added[id] = [primary |-> sh[id].primary, replicas |-> sh[id].replicas \ {node}]
      BY <2>1
    <3>2. sh[id].primary # node
      BY <2>1
    <3> QED
      BY <1>4, <2>1, <3>1, <3>2 DEF Members
  <2>2. CASE ~(node \in DOMAIN nm /\ id = nm[node])
    BY <1>4, <2>2
  <2> QED
    BY <2>1, <2>2
<1>6. Members(added[fresh]) = {node}
  BY DEF Members
<1>7. DOMAIN added \subseteq Shards /\ DOMAIN indexed \subseteq Nodes
  BY DEF Sound
<1>8. \A id \in DOMAIN added : added[id] \in [primary : Nodes, replicas : SUBSET Nodes]
  BY <1>5
<1>9. ASSUME NEW n \in DOMAIN nm, n # node
      PROVE  /\ indexed[n] = nm[n] /\ nm[n] \in DOMAIN sh /\ n \in Members(added[nm[n]])
             /\ \A x \in Members(added[nm[n]]) : x \in DOMAIN indexed /\ indexed[x] = nm[n]
  <2>1. /\ indexed[n] = nm[n] /\ nm[n] \in DOMAIN sh /\ n \in Members(sh[nm[n]])
        /\ \A x \in Members(sh[nm[n]]) : x \in DOMAIN nm /\ nm[x] = nm[n]
    BY <1>9 DEF Sound
  <2>2. Members(added[nm[n]]) = IF node \in DOMAIN nm /\ nm[n] = nm[node]
                                THEN Members(sh[nm[n]]) \ {node} ELSE Members(sh[nm[n]])
    BY <1>5, <2>1
  <2>3. \A x \in Members(added[nm[n]]) : x \in DOMAIN nm /\ x # node /\ nm[x] = nm[n]
    BY <2>1, <2>2
  <2> QED
    BY <1>9, <2>1, <2>2, <2>3
<1>10. ASSUME NEW n \in DOMAIN indexed
       PROVE  /\ indexed[n] \in DOMAIN added /\ n \in Members(added[indexed[n]])
              /\ \A x \in Members(added[indexed[n]]) :
                    x \in DOMAIN indexed /\ indexed[x] = indexed[n]
  <2>1. CASE n = node
    BY <1>6, <2>1
  <2>2. CASE n # node
    BY <1>9, <2>2
  <2> QED
    BY <2>1, <2>2
\* A shard that is indexed still is: its primary did not leave it.
<1>11. ASSUME NEW n \in DOMAIN nm
       PROVE  \E k \in DOMAIN indexed : indexed[k] = nm[n]
  <2>1. CASE n # node
    BY <1>9, <2>1
  <2>2. CASE n = node
    <3>1. PICK k : k = sh[nm[node]].primary
      OBVIOUS
    <3>2. k \in DOMAIN nm /\ nm[k] = nm[node] /\ k # node
      <4>1. k \in Members(sh[nm[node]])
        BY <3>1 DEF Members
      <4>2. k # node
        BY <2>2, <3>1
      <4> QED
        BY <2>2, <4>1, <4>2 DEF Sound
    <3> QED
      BY <2>2, <3>2
  <2> QED
    BY <2>1, <2>2
<1>12. ASSUME NEW e \in DOMAIN m2
       PROVE  \E k \in DOMAIN indexed : indexed[k] = m2[e].shard
  <2>1. m2[e].shard = fresh \/ \E f \in DOMAIN m : m2[e].shard = m[f].shard
    BY <1>2 DEF Edited
  <2>2. CASE m2[e].shard = fresh
    BY <2>2
  <2>3. CASE \E f \in DOMAIN m : m2[e].shard = m[f].shard
    <3>1. PICK n \in DOMAIN nm : nm[n] = m2[e].shard
      BY <2>3 DEF Sound
    <3> QED
      BY <1>11, <3>1
  <2> QED
    BY <2>1, <2>2, <2>3
<1>13. ASSUME NEW id \in DOMAIN added
       PROVE  \E k \in DOMAIN indexed : indexed[k] = id
  <2>1. CASE id = fresh
    BY <2>1
  <2>2. CASE id # fresh
    <3>1. id \in DOMAIN sh /\ id # NoShard
      BY <2>2, BoundsAssumption DEF Sound
    <3>2. PICK n \in DOMAIN nm : nm[n] = id
      BY <3>1 DEF Sound
    <3> QED
      BY <1>11, <3>2
  <2> QED
    BY <2>1, <2>2
<1>14. Sound(m2, added, indexed, NoShard)
  BY <1>3, <1>7, <1>8, <1>10, <1>12, <1>13 DEF Sound
<1> QED
  BY <1>1, <1>2, <1>14

-----------------------------------------------------------------------------
(* The invariant *)

\* What the MOVED handler knows: an object only between its look-up and the
\* update of the roles, and the one its slot is routed to unless a refresh came
\* in between.
HandlerInv ==
    /\ handler \in [pc : {"idle", "found", "elsewhere", "done"}, slot : Slots, node : Nodes,
                    shard : Shards \cup {NoShard}, covered : BOOLEAN, raced : BOOLEAN]
    /\ handler.pc # "found" => handler.shard = NoShard
    /\ handler.shard \in DOMAIN shards \cup {NoShard}
    /\ (handler.pc = "found" /\ handler.covered /\ ~handler.raced) =>
            /\ Covered(slots, handler.slot)
            /\ handler.shard = slot_value_for_route(slots, handler.slot)

Inv ==
    /\ Sound(slots, shards, nodesMap, handler.shard)
    /\ HandlerInv
    /\ retry \in 0 .. LastRetry
    /\ MovedTakesEffect
    /\ ElectionFair

\* A slot that is routed has an indexed object.
LEMMA RouteIndexed ==
    ASSUME NEW m, NEW sh, NEW nm, NEW held, Sound(m, sh, nm, held), NEW s \in Slots
    PROVE  /\ Covered(m, s) => /\ slot_value_for_route(m, s) = shard_addrs_for_slot(m, s)
                               /\ \E n \in DOMAIN nm : nm[n] = slot_value_for_route(m, s)
           /\ shard_addrs_for_slot(m, s) \in DOMAIN sh \cup {NoShard}
<1>1. RangesOk(m)
  BY DEF Sound
<1>2. Covered(m, s) => \E e \in DOMAIN m : /\ slot_value_for_route(m, s) = m[e].shard
                                           /\ shard_addrs_for_slot(m, s) = m[e].shard
  BY <1>1, RouteFacts
<1>3. shard_addrs_for_slot(m, s) # NoShard =>
          \E e \in DOMAIN m : shard_addrs_for_slot(m, s) = m[e].shard
  BY <1>1, RouteFacts
<1>4. \A e \in DOMAIN m : \E n \in DOMAIN nm : nm[n] = m[e].shard
  BY DEF Sound
<1>5. \A n \in DOMAIN nm : nm[n] \in DOMAIN sh
  BY DEF Sound
<1> QED
  BY <1>2, <1>3, <1>4, <1>5

LEMMA NoElectionFair ==
    elected' = NoElection => ElectionFair'
BY DEF ElectionFair, NoElection

LEMMA InitInv == Init => Inv
<1> SUFFICES ASSUME Init PROVE Inv
  OBVIOUS
<1>1. PICK v \in Views : LET objects == Objects(v, Shards)
        IN /\ slots = RangesOf(v, objects)
           /\ shards = ShardsOf(v, objects)
           /\ nodesMap = NodesOf(v, objects)
  BY DEF Init
<1>2. retry = 0 /\ elected = NoElection /\ handler = Idle
  BY DEF Init
<1>3. Cardinality(Shards) >= Cardinality(Nodes)
  BY ShardsAssumption, FS_CardinalityType
<1>4. PICK objects \in [Primaries(v) -> Shards] :
        /\ objects = Objects(v, Shards)
        /\ \A p, q \in Primaries(v) : p # q => objects[p] # objects[q]
  BY <1>3, ObjectsFacts
<1>5. Sound(slots, shards, nodesMap, NoShard)
  BY <1>1, <1>4, NewMapSound
<1>6. \E n : n \in Nodes
  <2>1. v \in Seq(SlotRange) /\ v # <<>>
    BY ViewsAssumption
  <2>2. v[1] \in SlotRange
    BY <2>1
  <2> QED
    BY <2>2 DEF SlotRange
<1>7. (CHOOSE n \in Nodes : TRUE) \in Nodes
  BY <1>6
<1>8. 0 \in Slots /\ 0 \in 0 .. LastRetry
  BY BoundsAssumption DEF Slots
<1>9. HandlerInv /\ handler.shard = NoShard
  BY <1>2, <1>7, <1>8 DEF HandlerInv, Idle
<1>10. MovedTakesEffect
  BY <1>2 DEF MovedTakesEffect, Idle
<1>11. ElectionFair
  BY <1>2 DEF ElectionFair, NoElection
<1> QED
  BY <1>2, <1>5, <1>8, <1>9, <1>10, <1>11 DEF Inv

LEMMA RefreshInv ==
    ASSUME Inv, refresh_slots
    PROVE  Inv'
<1>0. PICK votes \in Polls : \E order \in Orders({v \in Views : votes[v] > 0}) :
            LET view == calculate_topology(votes, order, retry)
            IN IF view = NoView
               THEN /\ retry' = AfterFailure(retry)
                    /\ elected' = NoElection
                    /\ UNCHANGED <<slots, shards, nodesMap, handler>>
               ELSE /\ Refresh(view)
                    /\ retry' = 0
                    /\ elected' = [view |-> view, votes |-> votes, retry |-> retry]
  BY Zenon DEF refresh_slots
<1>1. PICK order \in Orders({v \in Views : votes[v] > 0}) :
            LET view == calculate_topology(votes, order, retry)
            IN IF view = NoView
               THEN /\ retry' = AfterFailure(retry)
                    /\ elected' = NoElection
                    /\ UNCHANGED <<slots, shards, nodesMap, handler>>
               ELSE /\ Refresh(view)
                    /\ retry' = 0
                    /\ elected' = [view |-> view, votes |-> votes, retry |-> retry]
  BY <1>0, Zenon
<1>2. PICK view : view = calculate_topology(votes, order, retry)
  OBVIOUS
<1>3. CASE view = NoView
  <2>1. /\ retry' = AfterFailure(retry) /\ elected' = NoElection
        /\ UNCHANGED <<slots, shards, nodesMap, handler>>
    BY <1>1, <1>2, <1>3
  <2>2. retry' \in 0 .. LastRetry
    BY <2>1, BoundsAssumption DEF Inv, AfterFailure
  <2>3. ElectionFair'
    BY <2>1, NoElectionFair
  <2>4. Sound(slots, shards, nodesMap, handler.shard)' /\ HandlerInv' /\ MovedTakesEffect'
    BY <2>1 DEF Inv, HandlerInv, MovedTakesEffect
  <2> QED
    BY <2>2, <2>3, <2>4 DEF Inv
<1>4. CASE view # NoView
  <2>1. /\ Refresh(view) /\ retry' = 0
        /\ elected' = [view |-> view, votes |-> votes, retry |-> retry]
    BY <1>1, <1>2, <1>4
  <2>2. view \in Views /\ Fair(votes, view, retry)
    BY <1>2, <1>4, ElectedFair DEF Inv
  <2>3. ElectionFair'
    BY <2>1, <2>2 DEF ElectionFair, Fair
  <2> DEFINE F == Shards \ {handler.shard}
  <2>4. F \in SUBSET Shards /\ Cardinality(F) >= Cardinality(Nodes)
    <3>1. Cardinality(Nodes) \in Nat /\ Cardinality(Shards) \in Nat
          /\ Cardinality(Shards) > Cardinality(Nodes)
      BY ShardsAssumption, FS_CardinalityType
    <3>2. \/ Cardinality(F) = Cardinality(Shards) - 1
          \/ Cardinality(F) = Cardinality(Shards)
      BY ShardsAssumption, FS_RemoveElement
    <3> HIDE DEF F
    <3>3. Cardinality(F) >= Cardinality(Nodes)
      BY <3>1, <3>2
    <3> QED
      BY <3>3 DEF F
  <2>5. PICK objects \in [Primaries(view) -> F] :
          /\ objects = Objects(view, F)
          /\ \A p, q \in Primaries(view) : p # q => objects[p] # objects[q]
    BY <2>2, <2>4, ObjectsFacts
  <2>6. PICK sh : sh = ShardsOf(view, objects)
    OBVIOUS
  <2>7. Sound(slots', sh, nodesMap', NoShard) /\ DOMAIN sh \subseteq F
    BY <2>1, <2>2, <2>4, <2>5, <2>6, NewMapSound DEF Refresh
  <2>8. PICK held : held = handler.shard /\ held \in DOMAIN shards \cup {NoShard}
    BY DEF Inv, HandlerInv
  <2>9. /\ DOMAIN shards' = DOMAIN sh \cup ({held} \ {NoShard})
        /\ \A id \in DOMAIN shards' : shards'[id] = IF id = held THEN shards[id] ELSE sh[id]
    BY <2>1, <2>5, <2>6, <2>8 DEF Refresh
  <2>10. handler' = [handler EXCEPT !.raced = TRUE]
    BY <2>1 DEF Refresh
  <2>11. handler'.shard = held /\ handler'.raced /\ handler'.pc = handler.pc
    BY <2>8, <2>10 DEF Inv, HandlerInv
  <2>12. held \notin DOMAIN sh
    BY <2>7, <2>8
  <2>13. Sound(slots', shards', nodesMap', held)
    <3>1. CASE held = NoShard
      <4>1. DOMAIN shards' = DOMAIN sh /\ \A id \in DOMAIN sh : shards'[id] = sh[id]
        BY <2>9, <2>12, <3>1
      <4>2. /\ RangesOk(slots') /\ DOMAIN nodesMap' \subseteq Nodes
            /\ \A e \in DOMAIN slots' : \E n \in DOMAIN nodesMap' : nodesMap'[n] = slots'[e].shard
        BY <2>7 DEF Sound
      <4>3. /\ DOMAIN shards' \subseteq Shards
            /\ \A id \in DOMAIN shards' : shards'[id] \in [primary : Nodes, replicas : SUBSET Nodes]
            /\ \A id \in DOMAIN shards' : id = held \/ \E n \in DOMAIN nodesMap' : nodesMap'[n] = id
        BY <2>7, <3>1, <4>1 DEF Sound
      <4>4. \A n \in DOMAIN nodesMap' :
              /\ nodesMap'[n] \in DOMAIN shards' /\ n \in Members(shards'[nodesMap'[n]])
              /\ \A x \in Members(shards'[nodesMap'[n]]) :
                    x \in DOMAIN nodesMap' /\ nodesMap'[x] = nodesMap'[n]
        BY <2>7, <4>1 DEF Sound
      <4> QED
        BY <4>2, <4>3, <4>4 DEF Sound
    <3>2. CASE held # NoShard
      <4>1. held \in DOMAIN shards
        BY <2>8, <3>2
      <4>2. held \in Shards /\ shards[held] \in [primary : Nodes, replicas : SUBSET Nodes]
        BY <4>1 DEF Inv, Sound
      <4>3. /\ DOMAIN shards' = DOMAIN sh \cup {held} /\ shards'[held] = shards[held]
            /\ \A id \in DOMAIN sh : shards'[id] = sh[id]
        BY <2>9, <2>12, <3>2
      <4> QED
        BY <2>7, <2>12, <4>2, <4>3, HeldSound
    <3> QED
      BY <3>1, <3>2
  <2>14. HandlerInv'
    <3>1. handler' \in [pc : {"idle", "found", "elsewhere", "done"}, slot : Slots, node : Nodes,
                        shard : Shards \cup {NoShard}, covered : BOOLEAN, raced : BOOLEAN]
      BY <2>10 DEF Inv, HandlerInv
    <3>2. handler'.shard \in DOMAIN shards' \cup {NoShard}
      BY <2>9, <2>11
    <3>3. handler'.pc # "found" => handler'.shard = NoShard
      BY <2>8, <2>11 DEF Inv, HandlerInv
    <3> QED
      BY <2>11, <3>1, <3>2, <3>3 DEF HandlerInv
  <2>15. MovedTakesEffect'
    BY <2>11 DEF MovedTakesEffect
  <2>16. retry' \in 0 .. LastRetry
    BY <2>1, BoundsAssumption
  <2> QED
    BY <2>3, <2>11, <2>13, <2>14, <2>15, <2>16 DEF Inv
<1> QED
  BY <1>3, <1>4

LEMMA MovedInv ==
    ASSUME Inv, NEW slot \in Slots, NEW node \in Nodes, Moved(slot, node)
    PROVE  Inv'
<1>1. /\ handler.shard = NoShard
      /\ Sound(slots, shards, nodesMap, NoShard)
  BY DEF Inv, HandlerInv, Moved
<1>2. handler' = [pc |-> "found", slot |-> slot, node |-> node,
                  shard |-> shard_addrs_for_slot(slots, slot),
                  covered |-> Covered(slots, slot), raced |-> FALSE]
  BY DEF Moved
<1>3. elected' = NoElection /\ UNCHANGED <<slots, shards, nodesMap, retry>>
  BY DEF Moved
<1>4. PICK held \in DOMAIN shards \cup {NoShard} : held = shard_addrs_for_slot(slots, slot)
  BY <1>1, RouteIndexed
<1>5. held \in Shards \cup {NoShard}
  BY <1>1 DEF Sound
<1>6. Covered(slots, slot) \in BOOLEAN
  BY DEF Covered
<1>7. handler'.shard = held /\ handler'.pc = "found" /\ handler'.slot = slot
  BY <1>2, <1>4
<1>8. Sound(slots, shards, nodesMap, held)
  <2>1. \A id \in DOMAIN shards : \E n \in DOMAIN nodesMap : nodesMap[n] = id
    BY <1>1, BoundsAssumption DEF Sound
  <2> QED
    BY <1>1, <2>1 DEF Sound
<1>9. HandlerInv'
  <2>1. handler' \in [pc : {"idle", "found", "elsewhere", "done"}, slot : Slots, node : Nodes,
                      shard : Shards \cup {NoShard}, covered : BOOLEAN, raced : BOOLEAN]
    BY <1>2, <1>4, <1>5, <1>6
  <2>2. handler'.covered => Covered(slots, slot)
    BY <1>2
  <2>3. Covered(slots, slot) => held = slot_value_for_route(slots, slot)
    BY <1>1, <1>4, RouteIndexed
  <2> QED
    BY <1>3, <1>4, <1>7, <2>1, <2>2, <2>3 DEF HandlerInv
<1>10. MovedTakesEffect'
  BY <1>7 DEF MovedTakesEffect
<1> QED
  BY <1>3, <1>7, <1>8, <1>9, <1>10, NoElectionFair DEF Inv

\* A promotion swaps two members of a shard.
LEMMA PromotedMembers ==
    ASSUME NEW sh \in [primary : Nodes, replicas : SUBSET Nodes], NEW node \in Members(sh)
    PROVE  /\ Promoted(sh, node) \in [primary : Nodes, replicas : SUBSET Nodes]
           /\ Members(Promoted(sh, node)) = Members(sh)
           /\ Promoted(sh, node).primary = node
<1>1. CASE node \in sh.replicas
  <2>1. Promoted(sh, node) =
            [primary |-> node, replicas |-> (sh.replicas \ {node}) \cup {sh.primary}]
    BY <1>1 DEF Promoted
  <2> QED
    BY <1>1, <2>1 DEF Members
<1>2. CASE node \notin sh.replicas
  BY <1>2 DEF Promoted, Members
<1> QED
  BY <1>1, <1>2

LEMMA RoleUpdateInv ==
    ASSUME Inv, RoleUpdate
    PROVE  Inv'
<1>1. PICK id \in DOMAIN shards \cup {NoShard} : id = handler.shard
  BY DEF Inv, HandlerInv
<1>2. Sound(slots, shards, nodesMap, id)
  BY <1>1 DEF Inv
<1> DEFINE found == id # NoShard /\ handler.node \in Members(shards[id])
           changed == IF found THEN [shards EXCEPT ![id] = Promoted(@, handler.node)] ELSE shards
<1>3. /\ handler' = [handler EXCEPT !.pc = IF found THEN "done" ELSE "elsewhere",
                                    !.shard = NoShard]
      /\ shards' = Kept(changed, slots, nodesMap, NoShard)
      /\ elected' = NoElection /\ UNCHANGED <<slots, nodesMap, retry, used>>
      /\ handler.pc = "found"
  BY <1>1 DEF RoleUpdate
<1>4. /\ DOMAIN changed = DOMAIN shards
      /\ \A x \in DOMAIN shards : /\ Members(changed[x]) = Members(shards[x])
                                  /\ changed[x] \in [primary : Nodes, replicas : SUBSET Nodes]
      /\ found => changed[id].primary = handler.node
  <2>1. \A x \in DOMAIN shards : shards[x] \in [primary : Nodes, replicas : SUBSET Nodes]
    BY <1>2 DEF Sound
  <2>2. CASE found
    <3>1. id \in DOMAIN shards
      BY <2>2
    <3>2. PICK p : p = Promoted(shards[id], handler.node)
      OBVIOUS
    <3>3. /\ p \in [primary : Nodes, replicas : SUBSET Nodes]
          /\ Members(p) = Members(shards[id]) /\ p.primary = handler.node
      BY <2>1, <2>2, <3>1, <3>2, PromotedMembers
    <3>4. changed = [shards EXCEPT ![id] = p]
      BY <2>2, <3>2
    <3>5. /\ DOMAIN changed = DOMAIN shards /\ changed[id] = p
          /\ \A x \in DOMAIN shards : x # id => changed[x] = shards[x]
      BY <3>1, <3>4
    <3> HIDE DEF changed
    <3> QED
      BY <2>1, <3>3, <3>5
  <2>3. CASE ~found
    <3>1. changed = shards
      BY <2>3
    <3> HIDE DEF changed
    <3> QED
      BY <2>1, <2>3, <3>1
  <2> QED
    BY <2>2, <2>3
<1> HIDE DEF changed
<1>5. Sound(slots, changed, nodesMap, id)
  BY <1>2, <1>4 DEF Sound
<1>6. /\ Sound(slots, shards', nodesMap, NoShard)
      /\ \A n \in DOMAIN nodesMap : shards'[nodesMap[n]] = changed[nodesMap[n]]
  BY <1>3, <1>5, KeptSound
<1>7. /\ handler'.shard = NoShard /\ handler'.pc \in {"done", "elsewhere"}
      /\ handler'.pc = "done" => found
      /\ handler'.slot = handler.slot /\ handler'.node = handler.node
      /\ handler'.covered = handler.covered /\ handler'.raced = handler.raced
      /\ handler' \in [pc : {"idle", "found", "elsewhere", "done"}, slot : Slots, node : Nodes,
                       shard : Shards \cup {NoShard}, covered : BOOLEAN, raced : BOOLEAN]
  BY <1>3 DEF Inv, HandlerInv
<1> HIDE DEF found
<1>8. HandlerInv'
  BY <1>7 DEF HandlerInv
<1>9. MovedTakesEffect'
  <2> SUFFICES ASSUME handler'.pc = "done", handler'.covered, ~handler'.raced
               PROVE  /\ Covered(slots, handler.slot)
                      /\ shards'[slot_value_for_route(slots, handler.slot)].primary = handler.node
    BY <1>3, <1>7 DEF MovedTakesEffect
  <2>1. found /\ Covered(slots, handler.slot) /\ id = slot_value_for_route(slots, handler.slot)
    BY <1>1, <1>3, <1>7 DEF Inv, HandlerInv
  <2>2. handler.slot \in Slots
    BY DEF Inv, HandlerInv
  <2>3. PICK n \in DOMAIN nodesMap : nodesMap[n] = id
    BY <1>2, <2>1, <2>2, RouteIndexed
  <2> QED
    BY <1>4, <1>6, <2>1, <2>3
<1>10. Sound(slots, shards, nodesMap, handler.shard)'
  BY <1>3, <1>6, <1>7
<1> QED
  BY <1>3, <1>8, <1>9, <1>10, NoElectionFair DEF Inv

\* What Relocate does to the map, whichever scenario applies.
LEMMA RelocateFacts ==
    ASSUME Inv, Relocate
    PROVE  \E id \in Shards :
              /\ Edited(slots, slots', handler.slot, id)
              /\ Sound(slots', shards', nodesMap', NoShard)
              /\ shards'[id].primary = handler.node
<1>1. PICK node \in Nodes, slot \in Slots : node = handler.node /\ slot = handler.slot
  BY DEF Inv, HandlerInv
<1>2. Sound(slots, shards, nodesMap, NoShard)
  BY DEF Inv, HandlerInv, Relocate
<1>3. PICK fresh \in Shards : /\ fresh = CHOOSE id \in Shards : id \notin DOMAIN shards
                              /\ fresh \notin DOMAIN shards
  BY <1>2, FreshExists
<1> DEFINE known == node \in DOMAIN nodesMap
           home == nodesMap[node]
           without == IF known
                      THEN [shards EXCEPT ![home].replicas = @ \ {node}]
                      ELSE shards
           added == [id \in DOMAIN shards \cup {fresh} |->
                        IF id = fresh THEN [primary |-> node, replicas |-> {}]
                        ELSE without[id]]
           indexed == [n \in DOMAIN nodesMap \cup {node} |->
                        IF n = node THEN fresh ELSE nodesMap[n]]
<1>4. IF known /\ shards[home].primary = node
      THEN /\ slots' = update_slot_range(slots, slot, home)
           /\ nodesMap' = nodesMap
           /\ shards' = Kept(shards, slots', nodesMap, NoShard)
      ELSE /\ slots' = update_slot_range(slots, slot, fresh)
           /\ nodesMap' = indexed
           /\ shards' = Kept(added, slots', indexed, NoShard)
  BY <1>1, <1>3 DEF Relocate
<1>5. CASE known /\ shards[home].primary = node
  <2>1. /\ slots' = update_slot_range(slots, slot, home)
        /\ nodesMap' = nodesMap
        /\ shards' = Kept(shards, slots', nodesMap, NoShard)
    BY <1>4, <1>5
  <2>2. Edited(slots, slots', slot, home) /\ Sound(slots', shards, nodesMap, NoShard)
    BY <1>2, <1>5, <2>1, HomeSound
  <2>3. /\ Sound(slots', shards', nodesMap', NoShard)
        /\ shards'[home] = shards[home]
    BY <1>5, <2>1, <2>2, KeptSound
  <2>4. home \in Shards
    BY <1>2, <1>5 DEF Sound
  <2> QED
    BY <1>1, <1>5, <2>2, <2>3, <2>4
<1>6. CASE ~(known /\ shards[home].primary = node)
  <2>1. /\ slots' = update_slot_range(slots, slot, fresh)
        /\ nodesMap' = indexed
        /\ shards' = Kept(added, slots', indexed, NoShard)
    BY <1>4, <1>6
  <2>2. \A id \in DOMAIN shards : shards[id] \in [primary : Nodes, replicas : SUBSET Nodes]
    BY <1>2 DEF Sound
  <2>3. ASSUME NEW id \in DOMAIN shards
        PROVE  added[id] = IF known /\ id = home
                           THEN [primary |-> shards[id].primary,
                                 replicas |-> shards[id].replicas \ {node}]
                           ELSE shards[id]
    <3>1. added[id] = without[id]
      BY <1>3
    <3>2. CASE known /\ id = home
      BY <2>2, <3>1, <3>2
    <3>3. CASE ~(known /\ id = home)
      BY <3>1, <3>3
    <3> QED
      BY <3>2, <3>3
  <2>4. /\ DOMAIN added = DOMAIN shards \cup {fresh}
        /\ added[fresh] = [primary |-> node, replicas |-> {}]
        /\ DOMAIN indexed = DOMAIN nodesMap \cup {node} /\ indexed[node] = fresh
        /\ \A n \in DOMAIN nodesMap \ {node} : indexed[n] = nodesMap[n]
        /\ known => shards[home].primary # node
    BY <1>6
  <2> HIDE DEF added, indexed, without
  <2>5. /\ Edited(slots, update_slot_range(slots, slot, fresh), slot, fresh)
        /\ Sound(update_slot_range(slots, slot, fresh), added, indexed, NoShard)
    <3>1. Resettled(shards, nodesMap, node, fresh, added, indexed)
      BY <2>3, <2>4 DEF Resettled
    <3> QED
      BY <1>2, <1>3, <3>1, FreshSound
  <2>6. /\ Sound(slots', shards', nodesMap', NoShard)
        /\ \A n \in DOMAIN indexed : shards'[indexed[n]] = added[indexed[n]]
    BY <2>1, <2>5, KeptSound
  <2>7. shards'[fresh].primary = node
    BY <2>4, <2>6
  <2> QED
    BY <1>1, <1>3, <2>1, <2>5, <2>6, <2>7
<1> QED
  BY <1>5, <1>6

LEMMA RelocateInv ==
    ASSUME Inv, Relocate
    PROVE  Inv'
<1>1. PICK id \in Shards : /\ Edited(slots, slots', handler.slot, id)
                           /\ Sound(slots', shards', nodesMap', NoShard)
                           /\ shards'[id].primary = handler.node
  BY RelocateFacts
<1>2. /\ handler' = [handler EXCEPT !.pc = "done"] /\ handler.pc = "elsewhere"
      /\ elected' = NoElection /\ retry' = retry
  BY DEF Relocate
<1>3. /\ handler'.shard = NoShard /\ handler'.pc = "done"
      /\ handler'.slot = handler.slot /\ handler'.node = handler.node
      /\ handler' \in [pc : {"idle", "found", "elsewhere", "done"}, slot : Slots, node : Nodes,
                       shard : Shards \cup {NoShard}, covered : BOOLEAN, raced : BOOLEAN]
  BY <1>2 DEF Inv, HandlerInv
<1>4. HandlerInv'
  BY <1>3 DEF HandlerInv
<1>5. handler.slot \in Slots /\ RangesOk(slots)
  BY DEF Inv, HandlerInv, Sound
<1>6. Covered(slots', handler.slot) /\ slot_value_for_route(slots', handler.slot) = id
  BY <1>1, <1>5, EditedRoutes
<1>7. MovedTakesEffect'
  BY <1>1, <1>3, <1>6 DEF MovedTakesEffect
<1> QED
  BY <1>1, <1>2, <1>3, <1>4, <1>7, NoElectionFair DEF Inv

LEMMA FinishInv ==
    ASSUME Inv, Finish
    PROVE  Inv'
<1>1. handler.node \in Nodes /\ handler.shard = NoShard
  BY DEF Inv, HandlerInv, Finish
<1>2. (CHOOSE n \in Nodes : TRUE) \in Nodes
  BY <1>1
<1>3. 0 \in Slots
  BY BoundsAssumption DEF Slots
<1>4. handler' = Idle /\ elected' = NoElection /\ UNCHANGED <<slots, shards, nodesMap, retry, used>>
  BY DEF Finish
<1>5. HandlerInv' /\ handler'.shard = NoShard /\ handler'.pc = "idle"
  BY <1>2, <1>3, <1>4 DEF HandlerInv, Idle
<1>6. Sound(slots, shards, nodesMap, handler.shard)'
  BY <1>1, <1>4, <1>5 DEF Inv
<1>7. MovedTakesEffect'
  BY <1>5 DEF MovedTakesEffect
<1> QED
  BY <1>4, <1>5, <1>6, <1>7, NoElectionFair DEF Inv

LEMMA NextInv ==
    ASSUME Inv, [Next]_vars
    PROVE  Inv'
<1>1. CASE UNCHANGED vars
  BY <1>1 DEF vars, Inv, HandlerInv, MovedTakesEffect, ElectionFair
<1> QED
  BY <1>1, RefreshInv, MovedInv, RoleUpdateInv, RelocateInv, FinishInv DEF Next

-----------------------------------------------------------------------------
(* The theorems *)

\* The inductive invariant: what SlotMap holds fits together, and the MOVED
\* handler's object is the one its slot is routed to until a refresh replaces
\* the map.
THEOREM SlotMapInvariant == Spec => []Inv
<1>1. Inv /\ [Next]_vars => Inv'
  BY NextInv
<1> QED
  BY InitInv, <1>1, PTL DEF Spec

\* However refreshes replace the map and MOVED errors split and merge its
\* ranges, the ranges of cluster_slotmap.rs stay disjoint and every node of a
\* shard is indexed under the object the slots refer to.
THEOREM MapAlwaysConsistent == Spec => []MapConsistent
<1>1. Inv => MapConsistent
  <2> SUFFICES ASSUME Inv PROVE MapConsistent
    OBVIOUS
  <2>1. Sound(slots, shards, nodesMap, handler.shard)
    BY DEF Inv
  <2>2. RangesDisjoint
    BY <2>1 DEF Sound, RangesOk, RangesDisjoint
  <2>3. ASSUME NEW e \in DOMAIN slots
        PROVE  /\ slots[e] \in [start : Slots, shard : DOMAIN shards]
               /\ \A n \in Members(shards[slots[e].shard]) :
                     n \in DOMAIN nodesMap /\ nodesMap[n] = slots[e].shard
    <3>1. PICK k \in DOMAIN nodesMap : nodesMap[k] = slots[e].shard
      BY <2>1 DEF Sound
    <3>2. slots[e] \in [start : Slots, shard : Shards]
      BY <2>1 DEF Sound, RangesOk
    <3>3. slots[e].shard \in DOMAIN shards
      BY <2>1, <3>1 DEF Sound
    <3> QED
      BY <2>1, <3>1, <3>2, <3>3 DEF Sound
  <2>4. IndexFollowsShards
    BY <2>1, <2>3 DEF IndexFollowsShards, Sound
  <2>5. TypeOK
    BY <2>1, <2>3 DEF TypeOK, Sound, RangesOk, Inv, HandlerInv
  <2> QED
    BY <2>2, <2>4, <2>5 DEF MapConsistent
<1> QED
  BY <1>1, SlotMapInvariant, PTL

\* A MOVED error for a covered slot routes it to the node the server named,
\* whichever scenario of update_upon_moved_error applies, unless a refresh
\* replaced the map meanwhile.
THEOREM MovedAlwaysTakesEffect == Spec => []MovedTakesEffect
<1>1. Inv => MovedTakesEffect
  BY DEF Inv
<1> QED
  BY <1>1, SlotMapInvariant, PTL

\* calculate_topology never adopts a view that another one beats, and decides
\* a tie only when it may, by coverage, in whatever order the views come.
THEOREM ElectionAlwaysFair == Spec => []ElectionFair
<1>1. Inv => ElectionFair
  BY DEF Inv
<1> QED
  BY <1>1, SlotMapInvariant, PTL

\* update_slot_range, as the MOVED handler calls it, changes the owner of one
\* slot and of no other.
THEOREM OnlyTheSlotMoves == Spec => OtherSlotsStay
<1>1. Inv /\ [Next]_vars =>
        [Relocate => \A s \in Slots \ {handler.slot} :
            slot_value_for_route(slots', s) = slot_value_for_route(slots, s)]_vars
  <2> SUFFICES ASSUME Inv, Relocate, NEW s \in Slots \ {handler.slot}
               PROVE  slot_value_for_route(slots', s) = slot_value_for_route(slots, s)
    OBVIOUS
  <2>1. PICK id \in Shards : Edited(slots, slots', handler.slot, id)
    BY RelocateFacts
  <2>2. handler.slot \in Slots /\ RangesOk(slots)
    BY DEF Inv, HandlerInv, Sound
  <2> QED
    BY <2>1, <2>2, EditedRoutes
<1> QED
  BY <1>1, SlotMapInvariant, PTL DEF Spec, OtherSlotsStay
=============================================================================
