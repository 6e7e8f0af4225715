------------------------------ MODULE SlotMap -------------------------------
(***************************************************************************)
(* What a cluster client knows of the cluster: the ranges of slots and the *)
(* shards that own them (cluster_slotmap.rs), the election of one topology *)
(* among the views of several nodes (cluster_topology.rs), and the two     *)
(* writers of the map, which run on different tasks: a slot refresh, which *)
(* replaces the whole map, and the handler of a MOVED error, which edits   *)
(* it (update_upon_moved_error in cluster_async/mod.rs).                   *)
(*                                                                         *)
(* A shard is a shared, mutable object (Arc<ShardAddrs>): the ranges and   *)
(* the node index hold references to it, and so does the MOVED handler     *)
(* between its look-up under the read lock and its edit.  The IP index of  *)
(* the map, the read strategies and DNS are left out.                      *)
(***************************************************************************)
EXTENDS Integers, FiniteSets, Sequences

CONSTANTS
    Nodes,          \* addresses
    Shards,         \* identities of shard objects
    NoShard,
    MaxSlot,        \* the last slot
    Views,          \* the topologies a node may report: sequences of ranges
    NoView,
    Queried,        \* how many nodes a refresh asks
    LastRetry,      \* DEFAULT_NUMBER_OF_REFRESH_SLOTS_RETRIES
    MaxMoved,       \* MOVED errors handled in a behaviour
    MaxRefreshes    \* attempts at a slot refresh in a behaviour

Slots == 0 .. MaxSlot

\* A range of CLUSTER SLOTS after parse_and_count_slots.
SlotRange == [start : Slots, end : Slots, master : Nodes, replicas : SUBSET Nodes]

\* A node reports disjoint ranges, and a node it names has one role in one shard.
ASSUME ViewsAssumption ==
    \A v \in Views :
        /\ v \in Seq(SlotRange) /\ v # <<>>
        /\ \A i, j \in DOMAIN v :
            /\ v[i].start <= v[i].end
            /\ v[i].master \notin v[j].replicas
            /\ i < j => v[i].end < v[j].start
            /\ v[i].master # v[j].master => v[i].replicas \cap v[j].replicas = {}
            /\ v[i].master = v[j].master => v[i].replicas = v[j].replicas

ASSUME BoundsAssumption ==
    /\ MaxSlot \in Nat /\ MaxMoved \in Nat /\ MaxRefreshes \in Nat
    /\ LastRetry \in Nat /\ Queried \in Nat \ {0}
    /\ NoShard \notin Shards /\ NoView \notin Views

\* There is always an identity for one more object: every object but the one the
\* MOVED handler holds has a node of its own.
ASSUME ShardsAssumption ==
    /\ IsFiniteSet(Nodes) /\ IsFiniteSet(Shards)
    /\ Cardinality(Shards) > Cardinality(Nodes)

VARIABLES
    slots,      \* BTreeMap: the last slot of a range |-> its first slot and shard
    shards,     \* the shard objects something refers to
    nodesMap,   \* NodesMap: an address |-> its shard
    retry,      \* curr_retry of the running slot refresh
    elected,    \* what the last step elected: the votes and the view
    handler,    \* the MOVED handler
    used        \* MOVED errors and refreshes so far

vars == <<slots, shards, nodesMap, retry, elected, handler, used>>

-----------------------------------------------------------------------------
(* The map of ranges. *)

Least(S) == CHOOSE x \in S : \A y \in S : x <= y
Greatest(S) == CHOOSE x \in S : \A y \in S : x >= y

\* slots.range(slot..).next() and slots.range(..slot).next_back()
From(m, slot) == {end \in DOMAIN m : end >= slot}
Before(m, slot) == {end \in DOMAIN m : end < slot}

\* slot_value_for_route: the range that holds the slot, if there is one.
Covered(m, slot) ==
    From(m, slot) # {} /\ m[Least(From(m, slot))].start <= slot

slot_value_for_route(m, slot) ==
    IF Covered(m, slot) THEN m[Least(From(m, slot))].shard ELSE NoShard

\* shard_addrs_for_slot does not look at the start of the range it finds.
shard_addrs_for_slot(m, slot) ==
    IF From(m, slot) = {} THEN NoShard ELSE m[Least(From(m, slot))].shard

Insert(m, end, start, shard) ==
    [e \in DOMAIN m \cup {end} |->
        IF e = end THEN [start |-> start, shard |-> shard] ELSE m[e]]

insert_single_slot(m, slot, shard) == Insert(m, slot, slot, shard)

update_end_range(m, end, newEnd) ==
    Insert([e \in DOMAIN m \ {end} |-> m[e]], newEnd, m[end].start, m[end].shard)

\* Mutant of MergesNext: the shard of the next range is not compared.
MergesAnyNext(m, slot, shard) ==
    From(m, slot + 1) # {} /\ m[Least(From(m, slot + 1))].start = slot + 1

\* try_merge_to_next_range
MergesNext(m, slot, shard) ==
    /\ From(m, slot + 1) # {}
    /\ LET next == m[Least(From(m, slot + 1))]
       IN next.start = slot + 1 /\ next.shard = shard

MergeNext(m, slot) == [m EXCEPT ![Least(From(m, slot + 1))].start = slot]

\* try_merge_to_prev_range
MergesPrev(m, slot, shard) ==
    /\ Before(m, slot) # {}
    /\ LET end == Greatest(Before(m, slot))
       IN end = slot - 1 /\ m[end].shard = shard

MergePrev(m, slot) == update_end_range(m, slot - 1, slot)

\* The branches of update_slot_range, by where the slot lies in its range.
LeavesEnd(m, slot, shard) ==
    LET old == m[slot]
    IN IF MergesNext(m, slot, shard)
       THEN update_end_range(MergeNext(m, slot), slot, slot - 1)
       ELSE Insert(insert_single_slot(m, slot, shard), slot - 1, old.start, old.shard)

LeavesStart(m, end, slot, shard) ==
    LET shorter == [m EXCEPT ![end].start = slot + 1]
    IN IF MergesPrev(shorter, slot, shard)
       THEN MergePrev(shorter, slot)
       ELSE insert_single_slot(shorter, slot, shard)

\* Mutant of Splits: the part below the slot is lost.
SplitsAway(m, end, slot, shard) ==
    insert_single_slot([m EXCEPT ![end].start = slot + 1], slot, shard)

Splits(m, end, slot, shard) ==
    LET upper == [m EXCEPT ![end].start = slot + 1]
    IN insert_single_slot(Insert(upper, slot - 1, m[end].start, m[end].shard), slot, shard)

FillsGap(m, slot, shard) ==
    IF MergesPrev(m, slot, shard) THEN MergePrev(m, slot)
    ELSE IF MergesNext(m, slot, shard) THEN MergeNext(m, slot)
    ELSE insert_single_slot(m, slot, shard)

update_slot_range(m, slot, shard) ==
    LET end == Least(From(m, slot))
        start == m[end].start
    IN CASE ~Covered(m, slot) -> FillsGap(m, slot, shard)
         [] Covered(m, slot) /\ m[end].shard = shard -> m
         [] Covered(m, slot) /\ m[end].shard # shard /\ start = end ->
                [m EXCEPT ![end].shard = shard]
         [] Covered(m, slot) /\ m[end].shard # shard /\ start # end /\ slot = end ->
                LeavesEnd(m, slot, shard)
         [] Covered(m, slot) /\ m[end].shard # shard /\ start # end /\ slot = start ->
                LeavesStart(m, end, slot, shard)
         [] Covered(m, slot) /\ m[end].shard # shard /\ start < slot /\ slot < end ->
                Splits(m, end, slot, shard)

-----------------------------------------------------------------------------
(* The election of a topology. *)

Coverage(v) ==
    Cardinality({s \in Slots : \E i \in DOMAIN v : v[i].start <= s /\ s <= v[i].end})

\* Mutant of Compare: a tie that is overtaken is not forgotten, coverage is not compared.
CompareKeepsFlag(votes, best, v) ==
    IF votes[best.view] <= votes[v]
    THEN [view |-> v, unique |-> best.unique] ELSE best

\* One turn of the loop over the views, which come in the order of a hash map.
Compare(votes, best, v) ==
    LET b == votes[best.view]
        c == votes[v]
    IN IF b < c THEN [view |-> v, unique |-> TRUE]
       ELSE IF b > c THEN best
       ELSE [view |-> IF Coverage(best.view) < Coverage(v) THEN v ELSE best.view,
             unique |-> FALSE]

MostFrequent(votes, order) ==
    LET best[i \in 1 .. Len(order)] ==
            IF i = 1 THEN [view |-> order[1], unique |-> TRUE]
            ELSE Compare(votes, best[i - 1], order[i])
    IN best[Len(order)]

\* How many of the nodes asked answered with which view; the others failed
\* (their number is NoView's).
Polls ==
    {[v \in Views \cup {NoView} |-> Cardinality({i \in 1 .. Queried : f[i] = v})] :
        f \in [1 .. Queried -> Views \cup {NoView}]}

\* calculate_topology: the view it returns, NoView for its errors.
calculate_topology(votes, order, currRetry) ==
    LET best == MostFrequent(votes, order)
    IN IF order = <<>> THEN NoView
       ELSE IF ~best.unique
       THEN IF currRetry >= LastRetry \/ Queried < 3 THEN best.view ELSE NoView
       ELSE IF 5 * votes[best.view] >= Queried
       THEN best.view ELSE NoView

\* The orders in which a hash map may yield a set of views.
Orders(S) ==
    {o \in [1 .. Cardinality(S) -> S] : \A i, j \in DOMAIN o : i # j => o[i] # o[j]}

-----------------------------------------------------------------------------
(* Building a map from a view, and the objects that are still referred to. *)

\* SlotMap::new: one shard object for each primary of the view.
Objects(view, free) ==
    CHOOSE f \in [{view[i].master : i \in DOMAIN view} -> free] :
        \A p, q \in DOMAIN f : p # q => f[p] # f[q]

RangesOf(view, objects) ==
    [end \in {view[i].end : i \in DOMAIN view} |->
        LET i == CHOOSE i \in DOMAIN view : view[i].end = end
        IN [start |-> view[i].start, shard |-> objects[view[i].master]]]

ShardsOf(view, objects) ==
    [id \in {objects[p] : p \in DOMAIN objects} |->
        LET i == CHOOSE i \in DOMAIN view : objects[view[i].master] = id
        IN [primary |-> view[i].master, replicas |-> view[i].replicas]]

NodesOf(view, objects) ==
    [n \in UNION {{view[i].master} \cup view[i].replicas : i \in DOMAIN view} |->
        LET i == CHOOSE i \in DOMAIN view : n = view[i].master \/ n \in view[i].replicas
        IN objects[view[i].master]]

Members(shard) == {shard.primary} \cup shard.replicas

InUse(m, nodes, held) ==
    ({m[e].shard : e \in DOMAIN m} \cup {nodes[n] : n \in DOMAIN nodes} \cup {held})
        \ {NoShard}

\* Objects nobody refers to any more are freed.
Kept(objects, m, nodes, held) ==
    [id \in InUse(m, nodes, held) |-> objects[id]]

Idle == [pc |-> "idle", slot |-> 0, node |-> CHOOSE n \in Nodes : TRUE,
         shard |-> NoShard, covered |-> FALSE, raced |-> FALSE]

NoElection == [view |-> NoView, votes |-> [v \in Views |-> 0], retry |-> 0]

Init ==
    \E v \in Views :
        LET objects == Objects(v, Shards)
        IN /\ slots = RangesOf(v, objects)
           /\ shards = ShardsOf(v, objects)
           /\ nodesMap = NodesOf(v, objects)
           /\ retry = 0
           /\ elected = NoElection
           /\ handler = Idle
           /\ used = [moved |-> 0, refreshes |-> 0]

-----------------------------------------------------------------------------
(* Slot refresh. *)

\* refresh_slots_inner, from the elected view: the container is replaced
\* under the write lock.
Refresh(view) ==
    LET objects == Objects(view, Shards \ {handler.shard})
        held == handler.shard
        all == [id \in DOMAIN ShardsOf(view, objects) \cup ({held} \ {NoShard}) |->
                    IF id = held THEN shards[id] ELSE ShardsOf(view, objects)[id]]
    IN /\ slots' = RangesOf(view, objects)
       /\ nodesMap' = NodesOf(view, objects)
       /\ shards' = all
       /\ handler' = [handler EXCEPT !.raced = TRUE]

\* take(DEFAULT_NUMBER_OF_REFRESH_SLOTS_RETRIES): the refresh gives up after
\* the attempt numbered LastRetry.
AfterFailure(currRetry) == IF currRetry >= LastRetry THEN 0 ELSE currRetry + 1

\* One attempt of refresh_slots_and_subscriptions_with_retries: the nodes
\* answer, a node that fails counts for no view.
refresh_slots ==
    /\ used.refreshes < MaxRefreshes
    /\ used' = [used EXCEPT !.refreshes = @ + 1]
    /\ \E votes \in Polls :
        \E order \in Orders({v \in Views : votes[v] > 0}) :
            LET view == calculate_topology(votes, order, retry)
            IN IF view = NoView
               THEN /\ retry' = AfterFailure(retry)
                    /\ elected' = NoElection
                    /\ UNCHANGED <<slots, shards, nodesMap, handler>>
               ELSE /\ Refresh(view)
                    /\ retry' = 0
                    /\ elected' = [view |-> view, votes |-> votes, retry |-> retry]

-----------------------------------------------------------------------------
(* The MOVED handler. *)

\* update_upon_moved_error looks the shard of the slot up under the read lock.
Moved(slot, node) ==
    /\ handler.pc = "idle" /\ used.moved < MaxMoved
    /\ handler' = [pc |-> "found", slot |-> slot, node |-> node,
                   shard |-> shard_addrs_for_slot(slots, slot),
                   covered |-> Covered(slots, slot), raced |-> FALSE]
    /\ used' = [used EXCEPT !.moved = @ + 1]
    /\ elected' = NoElection
    /\ UNCHANGED <<slots, shards, nodesMap, retry>>

\* Mutant of Promoted: the old primary is not kept as a replica.
PromotedAlone(shard, node) ==
    IF node \in shard.replicas
    THEN [primary |-> node, replicas |-> shard.replicas \ {node}]
    ELSE shard

\* attempt_shard_role_update on the object it holds: what becomes of the
\* shard, and whether the node was found in it.
Promoted(shard, node) ==
    IF node \in shard.replicas
    THEN [primary |-> node, replicas |-> (shard.replicas \ {node}) \cup {shard.primary}]
    ELSE shard

RoleUpdate ==
    /\ handler.pc = "found"
    /\ LET id == handler.shard
           found == id # NoShard /\ handler.node \in Members(shards[id])
           changed == IF found THEN [shards EXCEPT ![id] = Promoted(@, handler.node)]
                      ELSE shards
       IN /\ handler' = [handler EXCEPT !.pc = IF found THEN "done" ELSE "elsewhere",
                                        !.shard = NoShard]
          /\ shards' = Kept(changed, slots, nodesMap, NoShard)
    /\ elected' = NoElection
    /\ UNCHANGED <<slots, nodesMap, retry, used>>

\* Scenarios 3 to 5, under the write lock: the map may be another one by now.
Relocate ==
    /\ handler.pc = "elsewhere"
    /\ LET node == handler.node
           slot == handler.slot
           known == node \in DOMAIN nodesMap
           home == nodesMap[node]
           fresh == CHOOSE id \in Shards : id \notin DOMAIN shards
           without == IF known
                      THEN [shards EXCEPT ![home].replicas = @ \ {node}]
                      ELSE shards
           added == [id \in DOMAIN shards \cup {fresh} |->
                        IF id = fresh THEN [primary |-> node, replicas |-> {}]
                        ELSE without[id]]
           indexed == [n \in DOMAIN nodesMap \cup {node} |->
                        IF n = node THEN fresh ELSE nodesMap[n]]
       IN IF known /\ shards[home].primary = node
          THEN LET m == update_slot_range(slots, slot, home)
               IN /\ slots' = m
                  /\ nodesMap' = nodesMap
                  /\ shards' = Kept(shards, m, nodesMap, NoShard)
          ELSE LET m == update_slot_range(slots, slot, fresh)
               IN /\ slots' = m
                  /\ nodesMap' = indexed
                  /\ shards' = Kept(added, m, indexed, NoShard)
    /\ handler' = [handler EXCEPT !.pc = "done"]
    /\ elected' = NoElection
    /\ UNCHANGED <<retry, used>>

\* The request is retried and the handler's future is gone.
Finish ==
    /\ handler.pc = "done"
    /\ handler' = Idle
    /\ elected' = NoElection
    /\ UNCHANGED <<slots, shards, nodesMap, retry, used>>

Next ==
    \/ refresh_slots
    \/ \E slot \in Slots, node \in Nodes : Moved(slot, node)
    \/ RoleUpdate
    \/ Relocate
    \/ Finish

Spec == Init /\ [][Next]_vars

-----------------------------------------------------------------------------
(* Properties. *)

\* The state is of the types cluster_slotmap.rs declares.
TypeOK ==
    /\ DOMAIN slots \subseteq Slots
    /\ \A e \in DOMAIN slots : slots[e] \in [start : Slots, shard : DOMAIN shards]
    /\ DOMAIN shards \subseteq Shards
    /\ \A id \in DOMAIN shards :
        shards[id] \in [primary : Nodes, replicas : SUBSET Nodes]
    /\ DOMAIN nodesMap \subseteq Nodes
    /\ \A n \in DOMAIN nodesMap : nodesMap[n] \in DOMAIN shards
    /\ retry \in 0 .. LastRetry
    /\ handler.pc \in {"idle", "found", "elsewhere", "done"}
    /\ handler.shard \in DOMAIN shards \cup {NoShard}

\* However MOVED errors shrink, split and merge the ranges of
\* update_slot_range, no range is empty or reaches into another: the look-up
\* by the end of a range finds every slot the range was given.
RangesDisjoint ==
    /\ \A e \in DOMAIN slots : slots[e].start <= e
    /\ \A d, e \in DOMAIN slots : d < e => d < slots[e].start

\* The index of addresses and the shards of the slots never part: a node of
\* a shard some slot refers to is indexed under that very object.  Scenario 4
\* of update_upon_moved_error relies on it (remove_replica fails otherwise),
\* validate_all_user_connections drops the connections of addresses that are
\* not indexed.
IndexFollowsShards ==
    /\ \A e \in DOMAIN slots :
        \A n \in Members(shards[slots[e].shard]) :
            n \in DOMAIN nodesMap /\ nodesMap[n] = slots[e].shard
    /\ \A n \in DOMAIN nodesMap : n \in Members(shards[nodesMap[n]])

\* Refreshes and MOVED errors leave a map that can be looked up and edited.
MapConsistent == TypeOK /\ RangesDisjoint /\ IndexFollowsShards

\* A MOVED error for a slot the map covers takes effect, unless a refresh
\* replaced the map while it was handled: the slot is routed to the node the
\* server named, whichever of the scenarios applied.
MovedTakesEffect ==
    (handler.pc = "done" /\ handler.covered /\ ~handler.raced) =>
        /\ Covered(slots, handler.slot)
        /\ shards[slot_value_for_route(slots, handler.slot)].primary = handler.node

\* Relocating a slot moves that slot alone: every other slot stays covered or
\* uncovered as it was, by the shard it had.
OtherSlotsStay ==
    [][Relocate => \A s \in Slots \ {handler.slot} :
            slot_value_for_route(slots', s) = slot_value_for_route(slots, s)]_vars

\* The refresh adopts a view only if no other view has more voters; one that
\* ties with another only on the last retry or when fewer than three nodes
\* were asked, and then none of the tied ones covers more slots: whatever
\* order the hash map yields the views in.
ElectionFair ==
    elected.view # NoView =>
        LET votes == elected.votes
            rivals == {v \in Views \ {elected.view} : votes[v] = votes[elected.view]}
        IN /\ \A v \in Views : votes[v] <= votes[elected.view]
           /\ rivals # {} => /\ elected.retry = LastRetry \/ Queried < 3
                             /\ \A v \in rivals : Coverage(v) <= Coverage(elected.view)
=============================================================================
