-------------------------- MODULE MultiplexedProofs --------------------------
(***************************************************************************)
(* Proofs about MultiplexedConnection and ClientCache, for any calls, keys *)
(* and commands, any capacity of the channel and of the cache, and any     *)
(* number of faults, breaks and writes by other clients.                   *)
(***************************************************************************)
EXTENDS MultiplexedConnection, FiniteSetTheorems, FunctionTheorems, SequenceTheorems, WellFoundedInduction, TLAPS

-----------------------------------------------------------------------------
(* What the cache's operations do to entries and fills *)

LEMMA Minimum ==
    ASSUME NEW D \in SUBSET Nat, D # {}
    PROVE  \E m \in D : \A k \in D : m <= k
<1>1. PICK m \in D : \A k \in D : ~(<<k, m>> \in OpToRel(<, Nat))
  BY NatLessThanWellFounded, WFMin
<1>2. ASSUME NEW k \in Nat, NEW j \in Nat, k < j
      PROVE  <<k, j>> \in OpToRel(<, Nat)
  BY <1>2, Zenon DEF OpToRel
<1>3. m \in Nat /\ \A k \in D : k \in Nat /\ ~(k < m)
  BY <1>1, <1>2
<1>4. \A k \in D : m <= k
  BY <1>3
<1> QED
  BY <1>4

Entry == [version : Nat, expired : BOOLEAN, frequency : Nat \ {0}]

IsCache(c) ==
    /\ c = [entries |-> c.entries, recency |-> c.recency, minFrequency |-> c.minFrequency,
            memory |-> c.memory, fills |-> c.fills, policy |-> c.policy]
    /\ Cached(c) \subseteq Keys
    /\ \A k \in Cached(c) : c.entries[k] \in Entry
    /\ c.fills \subseteq Keys \X Calls
    /\ c.memory \in Nat

\* Every entry of d is one of c, with its value.
Within(d, c) ==
    /\ IsCache(d) /\ d.policy = c.policy
    /\ Cached(d) \subseteq Cached(c)
    /\ \A k \in Cached(d) : d.entries[k].version = c.entries[k].version

LEMMA DroppedFacts ==
    ASSUME NEW c, IsCache(c), NEW k \in Cached(c)
    PROVE  /\ Within(Dropped(c, k), c)
           /\ Cached(Dropped(c, k)) = Cached(c) \ {k}
           /\ Dropped(c, k).fills = c.fills /\ Dropped(c, k).memory = c.memory
           /\ \A other \in Cached(c) \ {k} : Dropped(c, k).entries[other] = c.entries[other]
<1> DEFINE rest == [other \in Cached(c) \ {k} |-> c.entries[other]]
<1>1. PICK f, g : Dropped(c, k) = [c EXCEPT !.entries = rest, !.recency = f, !.minFrequency = g]
  BY DEF Dropped
<1>2. PICK d : d = Dropped(c, k)
  OBVIOUS
<1>3. d = [entries |-> rest, recency |-> f, minFrequency |-> g, memory |-> c.memory,
           fills |-> c.fills, policy |-> c.policy]
  BY <1>1, <1>2 DEF IsCache
<1>4. d.entries = rest /\ d.fills = c.fills /\ d.memory = c.memory /\ d.policy = c.policy
      /\ d = [entries |-> d.entries, recency |-> d.recency, minFrequency |-> d.minFrequency,
              memory |-> d.memory, fills |-> d.fills, policy |-> d.policy]
  BY <1>3
<1>5. Cached(d) = Cached(c) \ {k} /\ \A other \in Cached(d) : d.entries[other] = c.entries[other]
  BY <1>4 DEF Cached
<1>6. IsCache(d)
  BY <1>4, <1>5 DEF IsCache
<1> QED
  BY <1>2, <1>4, <1>5, <1>6 DEF Within

LEMMA StoredFacts ==
    ASSUME NEW c, IsCache(c), NEW k \in Keys, NEW entry \in Entry
    PROVE  /\ IsCache(Stored(c, k, entry))
           /\ Stored(c, k, entry).policy = c.policy
           /\ Stored(c, k, entry).fills = c.fills /\ Stored(c, k, entry).memory = c.memory
           /\ Cached(Stored(c, k, entry)) = Cached(c) \cup {k}
           /\ Stored(c, k, entry).entries[k] = entry
           /\ \A other \in Cached(c) \ {k} : Stored(c, k, entry).entries[other] = c.entries[other]
<1> DEFINE all == [other \in Cached(c) \cup {k} |-> IF other = k THEN entry ELSE c.entries[other]]
<1>1. PICK g : WithMinimum(c, entry.frequency) = [c EXCEPT !.minFrequency = g]
  BY DEF WithMinimum
<1>2. PICK w : w = [entries |-> c.entries, recency |-> c.recency, minFrequency |-> g,
                    memory |-> c.memory, fills |-> c.fills, policy |-> c.policy]
  OBVIOUS
<1>3. WithMinimum(c, entry.frequency) = w
  BY <1>1, <1>2 DEF IsCache
<1>4. PICK d : d = Stored(c, k, entry)
  OBVIOUS
<1>5. d = [w EXCEPT !.entries = all, !.recency = Append(c.recency, k)]
  BY <1>2, <1>3, <1>4 DEF Stored
<1>6. d = [entries |-> all, recency |-> Append(c.recency, k), minFrequency |-> g,
           memory |-> c.memory, fills |-> c.fills, policy |-> c.policy]
  BY <1>2, <1>5
<1>7. d.entries = all /\ d.fills = c.fills /\ d.memory = c.memory /\ d.policy = c.policy
      /\ d = [entries |-> d.entries, recency |-> d.recency, minFrequency |-> d.minFrequency,
              memory |-> d.memory, fills |-> d.fills, policy |-> d.policy]
  BY <1>6
<1>8. /\ Cached(d) = Cached(c) \cup {k} /\ d.entries[k] = entry
      /\ \A other \in Cached(c) \ {k} : d.entries[other] = c.entries[other]
  BY <1>7 DEF Cached
<1>9. IsCache(d)
  BY <1>7, <1>8 DEF IsCache
<1> QED
  BY <1>4, <1>7, <1>8, <1>9

\* A cache whose memory or fills alone are other ones.
LEMMA RebookedFacts ==
    ASSUME NEW c, IsCache(c), NEW memory \in Nat, NEW fills \in SUBSET (Keys \X Calls), NEW d,
           \/ d = [c EXCEPT !.memory = memory] /\ fills = c.fills
           \/ d = [c EXCEPT !.fills = fills] /\ memory = c.memory
    PROVE  /\ IsCache(d) /\ d.entries = c.entries /\ d.policy = c.policy
           /\ d.recency = c.recency /\ d.minFrequency = c.minFrequency
           /\ d.memory = memory /\ d.fills = fills
<1>1. d = [entries |-> c.entries, recency |-> c.recency, minFrequency |-> c.minFrequency,
           memory |-> memory, fills |-> fills, policy |-> c.policy]
  BY DEF IsCache
<1>2. /\ d.entries = c.entries /\ d.policy = c.policy /\ d.memory = memory /\ d.fills = fills
      /\ d.recency = c.recency /\ d.minFrequency = c.minFrequency
      /\ d = [entries |-> d.entries, recency |-> d.recency, minFrequency |-> d.minFrequency,
              memory |-> d.memory, fills |-> d.fills, policy |-> d.policy]
  BY <1>1
<1>3. Cached(d) = Cached(c)
  BY <1>2 DEF Cached
<1> QED
  BY <1>2, <1>3 DEF IsCache

LEMMA SizeNat ==
    ASSUME NEW v \in Nat
    PROVE  EntrySize(v) \in Nat
<1>1. v % 2 \in Nat /\ MaxMemory \in Nat
  BY MemoryAssumption
<1> QED
  BY <1>1 DEF EntrySize

LEMMA RemovedFacts ==
    ASSUME NEW c, IsCache(c), NEW k
    PROVE  /\ Within(Removed(c, k), c) /\ Removed(c, k).fills = c.fills
           /\ Cached(Removed(c, k)) = Cached(c) \ {k}
<1>1. CASE k \notin Cached(c)
  BY <1>1 DEF Removed, Within
<1>2. CASE k \in Cached(c)
  <2>1. PICK d : d = Dropped(c, k)
    OBVIOUS
  <2>2. Within(d, c) /\ Cached(d) = Cached(c) \ {k} /\ d.fills = c.fills /\ d.memory = c.memory
    BY <1>2, <2>1, DroppedFacts
  <2>3. PICK size \in Nat : size = EntrySize(c.entries[k].version)
    BY <1>2, SizeNat DEF IsCache, Entry
  <2>4. PICK memory : memory = IF size > d.memory THEN 0 ELSE d.memory - size
    OBVIOUS
  <2>5. memory \in Nat
    <3>1. d.memory \in Nat
      BY <2>2 DEF Within, IsCache
    <3> QED
      BY <2>4, <3>1
  <2>6. Removed(c, k) = [d EXCEPT !.memory = memory]
    BY <1>2, <2>1, <2>3, <2>4 DEF Removed
  <2>7. PICK x : x = Removed(c, k)
    OBVIOUS
  <2>8. IsCache(d) /\ d.fills \in SUBSET (Keys \X Calls)
    BY <2>2 DEF Within, IsCache
  <2>9. IsCache(x) /\ x.entries = d.entries /\ x.policy = d.policy /\ x.fills = d.fills
    BY <2>5, <2>6, <2>7, <2>8, RebookedFacts
  <2> QED
    BY <2>2, <2>7, <2>9 DEF Within, Cached
<1> QED
  BY <1>1, <1>2

LEMMA PromotedFacts ==
    ASSUME NEW c, IsCache(c), NEW k
    PROVE  /\ Within(Promoted(c, k), c) /\ Promoted(c, k).fills = c.fills
           /\ Cached(Promoted(c, k)) = Cached(c)
<1>1. CASE k \notin Cached(c)
  BY <1>1 DEF Promoted, Within
<1>2. CASE k \in Cached(c)
  <2>1. PICK d : d = Dropped(c, k)
    OBVIOUS
  <2>2. /\ Within(d, c) /\ Cached(d) = Cached(c) \ {k} /\ d.fills = c.fills
        /\ \A other \in Cached(c) \ {k} : d.entries[other] = c.entries[other]
    BY <1>2, <2>1, DroppedFacts
  <2>3. c.entries[k] \in Entry /\ k \in Keys
    BY <1>2 DEF IsCache
  <2>4. PICK entry : entry = [c.entries[k] EXCEPT !.frequency = @ + 1]
    OBVIOUS
  <2>5. entry \in Entry /\ entry.version = c.entries[k].version
    <3>1. PICK f \in Nat \ {0} : f = c.entries[k].frequency
      BY <2>3 DEF Entry
    <3>2. f + 1 \in Nat \ {0}
      BY <3>1
    <3>3. PICK h \in Nat \ {0} : h = f + 1
      BY <3>2
    <3>4. entry = [c.entries[k] EXCEPT !.frequency = h]
      BY <2>4, <3>1, <3>3
    <3> QED
      BY <2>3, <3>4 DEF Entry
  <2>6. Promoted(c, k) = Stored(d, k, entry)
    BY <1>2, <2>1, <2>4 DEF Promoted
  <2>7. PICK x : x = Stored(d, k, entry)
    OBVIOUS
  <2>8. /\ IsCache(x) /\ x.policy = d.policy /\ x.fills = d.fills
        /\ Cached(x) = Cached(d) \cup {k} /\ x.entries[k] = entry
        /\ \A other \in Cached(d) \ {k} : x.entries[other] = d.entries[other]
    BY <2>2, <2>3, <2>5, <2>7, StoredFacts DEF Within
  <2>9. Cached(x) = Cached(c)
    BY <1>2, <2>2, <2>8
  <2>10. \A other \in Cached(x) : x.entries[other].version = c.entries[other].version
    BY <2>2, <2>5, <2>8, <2>9
  <2> QED
    BY <2>2, <2>6, <2>7, <2>8, <2>9, <2>10 DEF Within
<1> QED
  BY <1>1, <1>2

-----------------------------------------------------------------------------
(* The lines of calls: a command is sent once and by a call that waits *)

PCs == {"lookup", "promote", "expire", "fill", "send", "full", "await", "complete", "done"}

Results == {"none", "unused", "ok", "FatalSendError", "TimedOut", "FatalReceiveError", "error"}

Pairings == UNION {[K -> 1..Nil] : K \in SUBSET Keys}

ValSet == {<<>>} \cup (SUBSET Keys) \cup Pairings

ItemSet ==
    [kind : {"reply", "pong", "subscribe", "sunsubscribe", "invalidate", "flush"},
     of : Calls \cup {NoCall}, nth : Nat, ok : BOOLEAN, vals : ValSet]

CallSet ==
    [pc : PCs, key : Keys \cup {NoCall}, todo : SUBSET Keys, missing : SUBSET Keys, ticks : 0..1,
     moved : BOOLEAN, result : Results, items : Seq(ItemSet)]

OneshotSet == [state : {"none", "dropped", "sent"}, ok : BOOLEAN, items : Seq(ItemSet)]

EntrySet ==
    [of : Calls, left : Nat, buffer : Seq(ItemSet), failed : BOOLEAN, fenced_result : Seq(ItemSet)]

ShapeInv ==
    /\ scenario \in Scenarios
    /\ call \in [Calls -> CallSet]
    /\ out \in [Calls -> OneshotSet]
    /\ channel \in Seq(Calls)
    /\ in_flight \in Seq(EntrySet)
    /\ sync_lost \in BOOLEAN /\ ended \in BOOLEAN
    /\ wire \in Seq(Calls)
    /\ stream \in Seq(ItemSet)
    /\ db \in [Keys -> 1..Nil]
    /\ dirty \in SUBSET Keys
    /\ sent \in SUBSET Calls

\* UsesCache(r) in scenario s.
Caches(s, r) == s.policy # "none" /\ s.command[r].keys # {}

\* What call r holds at each place of send_packed_command.
CallOK(s, r, c) ==
    /\ c.pc # "done" => c.result = "none" /\ s.command[r].width # 0
    /\ c.todo \subseteq s.command[r].keys /\ c.missing \subseteq s.command[r].keys
    /\ c.pc \in {"lookup", "promote", "expire", "fill"} => Caches(s, r) /\ c.todo # {}
    /\ c.pc \in {"promote", "expire", "fill"} => c.key \in c.todo
    /\ c.pc \in {"send", "full", "await", "complete"} /\ Caches(s, r) => c.missing # {}
    /\ c.pc = "complete" => Caches(s, r) /\ c.todo # {} /\ c.todo \subseteq c.missing

CallInv == \A r \in Calls : CallOK(scenario, r, call[r])

Begun == {"await", "complete", "done"}

\* A call is in the channel or was sent, never both, and has begun in either case;
\* an entry stands for one sent call and waits for a reply.
LineInv ==
    /\ Len(channel) <= Capacity
    /\ \A i, j \in DOMAIN channel : channel[i] = channel[j] => i = j
    /\ \A i \in DOMAIN channel : channel[i] \notin sent /\ call[channel[i]].pc \in Begun
    /\ \A r \in sent : call[r].pc \in Begun /\ call[r].result # "FatalSendError"
    /\ \A i \in DOMAIN in_flight :
         /\ in_flight[i].of \in sent
         /\ in_flight[i].left \in 1..scenario.command[in_flight[i].of].width
    /\ \A i, j \in DOMAIN in_flight : in_flight[i].of = in_flight[j].of => i = j
    /\ ended => channel = <<>> /\ in_flight = <<>> /\ stream = <<>> /\ dirty = {}

BaseInv == ShapeInv /\ CallInv /\ LineInv

LEMMA EmptySeqs ==
    /\ <<>> \in Seq(ItemSet) /\ <<>> \in Seq(Calls) /\ <<>> \in Seq(EntrySet)
    /\ \A f \in ItemSet : <<f>> \in Seq(ItemSet)
<1> DEFINE A == ItemSet
           B == EntrySet
<1> HIDE DEF A, B
<1>1. <<>> \in Seq(A) /\ <<>> \in Seq(Calls) /\ <<>> \in Seq(B) /\ \A f \in A : <<f>> \in Seq(A)
  OBVIOUS
<1> QED
  BY <1>1 DEF A, B

LEMMA ScenarioFacts ==
    ASSUME NEW s \in Scenarios, NEW r \in Calls
    PROVE  /\ s.command[r].keys \in SUBSET Keys /\ s.command[r].width \in Nat
           /\ s.command[r].keys # {} => s.command[r].width = 1 /\ s.command[r].kind # "SUNSUBSCRIBE"
BY ScenariosAssumption

LEMMA IdleFacts ==
    /\ Idle \in CallSet /\ Idle.pc = "send" /\ Idle.todo = {} /\ Idle.missing = {}
    /\ Idle.result = "none" /\ Idle.items = <<>> /\ Idle.key = NoCall
BY EmptySeqs DEF Idle, CallSet, PCs, Results

LEMMA DoneFacts ==
    ASSUME NEW result \in Results, NEW items \in Seq(ItemSet)
    PROVE  /\ Done(result, items) \in CallSet
           /\ Done(result, items).pc = "done" /\ Done(result, items).result = result
           /\ Done(result, items).items = items /\ Done(result, items).todo = {}
           /\ Done(result, items).missing = {}
           /\ \A s, r : CallOK(s, r, Done(result, items))
<1> DEFINE Q == Seq(ItemSet)
<1>1. items \in Q
  OBVIOUS
<1>2. PICK d : d = Done(result, items)
  OBVIOUS
<1>a. d = [pc |-> "done", key |-> NoCall, todo |-> {}, missing |-> {}, ticks |-> 0, moved |-> FALSE,
           result |-> result, items |-> items]
  BY <1>2 DEF Done, Idle
<1>3. /\ d \in [pc : PCs, key : Keys \cup {NoCall}, todo : SUBSET Keys, missing : SUBSET Keys,
                ticks : 0..1, moved : BOOLEAN, result : Results, items : Q]
      /\ d.pc = "done" /\ d.result = result /\ d.items = items /\ d.todo = {} /\ d.missing = {}
  <2> HIDE DEF Q
  <2> QED
    BY <1>1, <1>a DEF PCs
<1>4. d \in CallSet
  BY <1>3 DEF CallSet
<1>5. \A s, r : CallOK(s, r, d)
  BY <1>3 DEF CallOK
<1> QED
  BY <1>2, <1>3, <1>4, <1>5

LEMMA DoneEmpty ==
    ASSUME NEW result \in Results
    PROVE  /\ Done(result, <<>>) \in CallSet
           /\ Done(result, <<>>).pc = "done" /\ Done(result, <<>>).result = result
           /\ \A s, r : CallOK(s, r, Done(result, <<>>))
<1>1. PICK items \in Seq(ItemSet) : items = <<>>
  BY EmptySeqs
<1>2. PICK d : d = Done(result, items)
  OBVIOUS
<1>3. d \in CallSet /\ d.pc = "done" /\ d.result = result /\ \A s, r : CallOK(s, r, d)
  BY <1>2, DoneFacts
<1> QED
  BY <1>1, <1>2, <1>3

LEMMA InitBase ==
    ASSUME Init
    PROVE  BaseInv
<1>1. scenario \in Scenarios
  BY DEF Init
<1>2. ASSUME NEW r \in Calls
      PROVE  /\ NewCall(r) \in CallSet /\ CallOK(scenario, r, NewCall(r))
  <2>1. CASE Command(r).width = 0
    <3>1. NewCall(r) = Done("unused", <<>>)
      BY <2>1 DEF NewCall
    <3>2. "unused" \in Results
      BY DEF Results
    <3>3. PICK d : d = Done("unused", <<>>)
      OBVIOUS
    <3>4. d \in CallSet /\ \A s, q : CallOK(s, q, d)
      BY <3>2, <3>3, DoneEmpty
    <3> QED
      BY <3>1, <3>3, <3>4
  <2>2. CASE Command(r).width # 0 /\ UsesCache(r)
    <3>1. NewCall(r) = [Idle EXCEPT !.pc = "lookup", !.todo = Command(r).keys]
      BY <2>2 DEF NewCall
    <3>2. PICK k \in SUBSET Keys : k = Command(r).keys
      BY <1>1, ScenarioFacts DEF Command
    <3>3. PICK n : n = [Idle EXCEPT !.pc = "lookup", !.todo = k]
      OBVIOUS
    <3>4. /\ n \in CallSet /\ n.pc = "lookup" /\ n.todo = k /\ n.missing = {} /\ n.result = "none"
      BY <3>3, IdleFacts DEF CallSet, PCs
    <3> QED
      BY <2>2, <3>1, <3>2, <3>3, <3>4 DEF CallOK, UsesCache, IsRead, Command, Caches
  <2>3. CASE Command(r).width # 0 /\ ~UsesCache(r)
    <3>1. NewCall(r) = [Idle EXCEPT !.missing = Command(r).keys]
      BY <2>3 DEF NewCall
    <3>2. PICK k \in SUBSET Keys : k = Command(r).keys
      BY <1>1, ScenarioFacts DEF Command
    <3>3. PICK n : n = [Idle EXCEPT !.missing = k]
      OBVIOUS
    <3>4. /\ n \in CallSet /\ n.pc = "send" /\ n.todo = {} /\ n.missing = k /\ n.result = "none"
      BY <3>3, IdleFacts DEF CallSet, PCs
    <3> QED
      BY <2>3, <3>1, <3>2, <3>3, <3>4 DEF CallOK, UsesCache, IsRead, Command, Caches
  <2> QED
    BY <2>1, <2>2, <2>3
<1>3. call \in [Calls -> CallSet] /\ \A r \in Calls : call[r] = NewCall(r)
  BY <1>2 DEF Init
<1>4. CallInv
  BY <1>2, <1>3 DEF CallInv
<1>5. Unset \in OneshotSet
  BY EmptySeqs DEF Unset, Oneshot, OneshotSet
<1>6. db \in [Keys -> 1..Nil]
  BY DEF Init, Nil
<1>7. ShapeInv
  BY <1>1, <1>3, <1>5, <1>6, EmptySeqs DEF ShapeInv, Init
<1>8. Len(channel) <= Capacity
  <2>1. Len(channel) = 0
    BY DEF Init
  <2> QED
    BY <2>1, ScenariosAssumption
<1>9. LineInv
  BY <1>8 DEF LineInv, Init
<1> QED
  BY <1>4, <1>7, <1>9 DEF BaseInv

\* The steps of a caller: they change its own record and may put it on the channel.
LEMMA CallerBase ==
    ASSUME BaseInv, NEW r \in Calls, NEW c \in CallSet, call' = [call EXCEPT ![r] = c],
           CallOK(scenario, r, c), call[r].pc # "done",
           UNCHANGED <<scenario, in_flight, sync_lost, ended, serverVars, sent>>,
           out' \in [Calls -> OneshotSet],
           \/ channel' = channel
           \/ /\ channel' = Append(channel, r) /\ Len(channel) < Capacity /\ ~ended
              /\ call[r].pc \in {"send", "full"} /\ c.pc = "await",
           call[r].pc \in {"await", "complete"} => c.pc \in Begun /\ c.result # "FatalSendError"
    PROVE  BaseInv'
<1>1. /\ call' \in [Calls -> CallSet] /\ call'[r] = c
      /\ \A q \in Calls : q # r => call'[q] = call[q]
  BY DEF BaseInv, ShapeInv
<1>2. CallInv'
  BY <1>1 DEF BaseInv, CallInv
<1>a. channel \in Seq(Calls)
  BY DEF BaseInv, ShapeInv
<1>3. channel' \in Seq(Calls)
  BY <1>a
<1>4. ShapeInv'
  BY <1>1, <1>3 DEF BaseInv, ShapeInv, serverVars
<1>5. \A q \in Calls : call[q].pc \in Begun =>
        call'[q].pc \in Begun /\ (call[q].result # "FatalSendError" => call'[q].result # "FatalSendError")
  BY <1>1 DEF Begun
<1>6. channel \in Seq(Calls) /\ sent \in SUBSET Calls
  BY DEF BaseInv, ShapeInv
<1>b. \A q \in sent' : call'[q].pc \in Begun /\ call'[q].result # "FatalSendError"
  BY <1>5, <1>6 DEF BaseInv, LineInv
<1>c. /\ \A i \in DOMAIN in_flight' :
         /\ in_flight'[i].of \in sent'
         /\ in_flight'[i].left \in 1..scenario'.command[in_flight'[i].of].width
      /\ \A i, j \in DOMAIN in_flight' : in_flight'[i].of = in_flight'[j].of => i = j
      /\ ended' => channel = <<>> /\ in_flight' = <<>> /\ stream' = <<>> /\ dirty' = {}
  BY DEF BaseInv, LineInv, serverVars
<1>d. /\ Len(channel) <= Capacity
      /\ \A i, j \in DOMAIN channel : channel[i] = channel[j] => i = j
      /\ \A i \in DOMAIN channel : channel[i] \in Calls /\ channel[i] \notin sent /\ call[channel[i]].pc \in Begun
  BY <1>6 DEF BaseInv, LineInv
<1>7. ASSUME channel' = channel PROVE LineInv'
  BY <1>5, <1>7, <1>b, <1>c, <1>d DEF LineInv
<1>8. ASSUME channel' = Append(channel, r), Len(channel) < Capacity, ~ended,
             call[r].pc \in {"send", "full"}, c.pc = "await"
      PROVE  LineInv'
  <2>1. r \notin sent /\ \A i \in DOMAIN channel : channel[i] # r
    BY <1>8 DEF BaseInv, LineInv, Begun
  <2>2. PICK n \in Nat : n = Len(channel) /\ DOMAIN channel = 1..n
    BY <1>6
  <2>3. /\ Len(channel') = n + 1 /\ DOMAIN channel' = 1..(n + 1) /\ channel'[n + 1] = r
        /\ \A i \in 1..n : channel'[i] = channel[i] /\ channel[i] \in Calls
    BY <1>6, <1>8, <2>2
  <2>4. Len(channel') <= Capacity
    BY <1>8, <2>2, <2>3, ScenariosAssumption
  <2>5. ASSUME NEW i \in DOMAIN channel', NEW j \in DOMAIN channel', channel'[i] = channel'[j]
        PROVE  i = j
    <3>1. \A m \in 1..(n + 1) : m \in 1..n \/ m = n + 1
      BY <2>2
    <3> QED
      BY <2>1, <2>2, <2>3, <2>5, <3>1 DEF BaseInv, LineInv
  <2>6. ASSUME NEW i \in DOMAIN channel'
        PROVE  channel'[i] \notin sent' /\ call'[channel'[i]].pc \in Begun
    <3>1. CASE i = n + 1
      BY <1>1, <1>8, <2>1, <2>3, <3>1 DEF Begun
    <3>2. CASE i # n + 1
      <4>1. i \in 1..n
        BY <2>2, <2>3, <3>2
      <4> QED
        BY <1>5, <2>2, <2>3, <4>1 DEF BaseInv, LineInv
    <3> QED
      BY <3>1, <3>2
  <2> QED
    BY <1>8, <1>b, <1>c, <2>4, <2>5, <2>6 DEF LineInv
<1>9. LineInv'
  BY <1>7, <1>8
<1> QED
  BY <1>2, <1>4, <1>9 DEF BaseInv

\* What Looked(r, missing) is, at each place it is used.
LEMMA LookedFacts ==
    ASSUME BaseInv, NEW r \in Calls, call[r].pc \in {"promote", "fill"}, NEW missing,
           missing = call[r].missing \/ missing = call[r].missing \cup {call[r].key},
           call[r].todo = {call[r].key} => missing # {}
    PROVE  /\ Looked(r, missing) \in CallSet /\ CallOK(scenario, r, Looked(r, missing))
           /\ Looked(r, missing).missing = missing
           /\ Looked(r, missing).pc \in {"lookup", "send"} /\ Looked(r, missing).result = "none"
<1>1. call[r] \in CallSet /\ CallOK(scenario, r, call[r])
  BY DEF BaseInv, ShapeInv, CallInv
<1>2. call[r].key \in call[r].todo /\ Caches(scenario, r)
  BY <1>1 DEF CallOK
<1>3. PICK rest \in SUBSET Keys : rest = call[r].todo \ {call[r].key}
  BY <1>1 DEF CallSet
<1>4. missing \in SUBSET Keys /\ missing \subseteq scenario.command[r].keys
  BY <1>1, <1>2 DEF CallSet, CallOK
<1>5. PICK pc \in {"lookup", "send"} : pc = IF rest # {} THEN "lookup" ELSE "send"
  OBVIOUS
<1>6. PICK l : l = [call[r] EXCEPT !.todo = rest, !.missing = missing, !.key = NoCall, !.pc = pc]
  OBVIOUS
<1>7. l = Looked(r, missing)
  BY <1>3, <1>5, <1>6 DEF Looked
<1>8. pc \in PCs
  BY <1>5 DEF PCs
<1>9. l \in CallSet
  BY <1>1, <1>3, <1>4, <1>6, <1>8 DEF CallSet
<1>10. l.todo = rest /\ l.missing = missing /\ l.pc = pc /\ l.result = call[r].result
  BY <1>1, <1>6 DEF CallSet
<1>11. call[r].result = "none" /\ scenario.command[r].width # 0
  BY <1>1 DEF CallOK
<1>12. rest # {} \/ missing # {}
  BY <1>2, <1>3
<1>13. CallOK(scenario, r, l)
  BY <1>1, <1>2, <1>3, <1>4, <1>5, <1>10, <1>11, <1>12 DEF CallOK
<1> QED
  BY <1>5, <1>7, <1>9, <1>10, <1>11, <1>13

LEMMA LookupBase ==
    ASSUME BaseInv, NEW r \in Calls, Lookup(r)
    PROVE  BaseInv'
<1>1. call[r] \in CallSet /\ CallOK(scenario, r, call[r]) /\ out \in [Calls -> OneshotSet]
  BY DEF BaseInv, ShapeInv, CallInv
<1>2. PICK k : k = CHOOSE key \in call[r].todo : TRUE
  OBVIOUS
<1>3. k \in call[r].todo /\ k \in Keys \cup {NoCall} /\ call[r].pc = "lookup"
  BY <1>1, <1>2 DEF Lookup, CallOK, CallSet
<1>4. PICK pc \in {"expire", "promote", "fill"} :
        call' = [call EXCEPT ![r] = [call[r] EXCEPT !.key = k, !.pc = pc]]
  BY <1>2 DEF Lookup, BaseInv, ShapeInv
<1>5. PICK c : c = [call[r] EXCEPT !.key = k, !.pc = pc]
  OBVIOUS
<1>6. pc \in PCs
  BY DEF PCs
<1>7. /\ c \in CallSet /\ c.pc = pc /\ c.key = k /\ c.todo = call[r].todo
      /\ c.missing = call[r].missing /\ c.result = call[r].result
  BY <1>1, <1>3, <1>5, <1>6 DEF CallSet
<1>8. CallOK(scenario, r, c)
  BY <1>1, <1>3, <1>7 DEF CallOK
<1> QED
  BY <1>1, <1>3, <1>4, <1>5, <1>7, <1>8, CallerBase DEF Lookup, connVars

LEMMA PromoteBase ==
    ASSUME BaseInv, NEW r \in Calls, Promote(r)
    PROVE  BaseInv'
<1>1. out \in [Calls -> OneshotSet] /\ call[r].pc = "promote"
  BY DEF BaseInv, ShapeInv, Promote
<1>2. CASE call[r].todo = {call[r].key} /\ call[r].missing = {}
  <2>1. call' = [call EXCEPT ![r] = Done("ok", <<>>)] /\ "ok" \in Results
    BY <1>2 DEF Promote, Results
  <2>2. PICK c : c = Done("ok", <<>>)
    OBVIOUS
  <2>3. c \in CallSet /\ CallOK(scenario, r, c)
    BY <2>1, <2>2, DoneEmpty
  <2> QED
    BY <1>1, <2>1, <2>2, <2>3, CallerBase DEF Promote, connVars
<1>3. CASE ~(call[r].todo = {call[r].key} /\ call[r].missing = {})
  <2>1. call' = [call EXCEPT ![r] = Looked(r, call[r].missing)]
    BY <1>3 DEF Promote
  <2>2. PICK c : c = Looked(r, call[r].missing)
    OBVIOUS
  <2>3. c \in CallSet /\ CallOK(scenario, r, c)
    BY <1>1, <1>3, <2>2, LookedFacts
  <2> QED
    BY <1>1, <2>1, <2>2, <2>3, CallerBase DEF Promote, connVars
<1> QED
  BY <1>2, <1>3

LEMMA ExpireBase ==
    ASSUME BaseInv, NEW r \in Calls, Expire(r)
    PROVE  BaseInv'
<1>1. call[r] \in CallSet /\ CallOK(scenario, r, call[r]) /\ out \in [Calls -> OneshotSet]
  BY DEF BaseInv, ShapeInv, CallInv
<1>2. PICK c : c = [call[r] EXCEPT !.pc = "fill"]
  OBVIOUS
<1>3. /\ c \in CallSet /\ c.pc = "fill" /\ c.key = call[r].key /\ c.todo = call[r].todo
      /\ c.missing = call[r].missing /\ c.result = call[r].result
  BY <1>1, <1>2 DEF CallSet, PCs
<1>4. call[r].pc = "expire" /\ call' = [call EXCEPT ![r] = c]
  BY <1>2 DEF Expire
<1>5. CallOK(scenario, r, c)
  BY <1>1, <1>3, <1>4 DEF CallOK
<1> QED
  BY <1>1, <1>3, <1>4, <1>5, CallerBase DEF Expire, connVars

LEMMA BeginFillBase ==
    ASSUME BaseInv, NEW r \in Calls, BeginFill(r)
    PROVE  BaseInv'
<1>1. out \in [Calls -> OneshotSet] /\ call[r].pc = "fill"
  BY DEF BaseInv, ShapeInv, BeginFill
<1>2. PICK missing : missing = call[r].missing \cup {call[r].key}
  OBVIOUS
<1>3. PICK c : c = Looked(r, missing)
  OBVIOUS
<1>4. c \in CallSet /\ CallOK(scenario, r, c)
  BY <1>1, <1>2, <1>3, LookedFacts
<1>5. call' = [call EXCEPT ![r] = c]
  BY <1>2, <1>3 DEF BeginFill
<1> QED
  BY <1>1, <1>4, <1>5, CallerBase DEF BeginFill, connVars

LEMMA CompleteBase ==
    ASSUME BaseInv, NEW r \in Calls, Complete(r)
    PROVE  BaseInv'
<1>1. call[r] \in CallSet /\ CallOK(scenario, r, call[r]) /\ out \in [Calls -> OneshotSet]
  BY DEF BaseInv, ShapeInv, CallInv
<1>2. PICK k : k = CHOOSE key \in call[r].todo : TRUE
  OBVIOUS
<1>3. call[r].pc = "complete" /\ k \in call[r].todo /\ call[r].items \in Seq(ItemSet)
  BY <1>1, <1>2 DEF Complete, CallOK, CallSet
<1>4. CASE call[r].todo = {k}
  <2>1. call' = [call EXCEPT ![r] = Done("ok", call[r].items)] /\ "ok" \in Results
    BY <1>2, <1>4 DEF Complete, Results
  <2>2. PICK c : c = Done("ok", call[r].items)
    OBVIOUS
  <2>3. c \in CallSet /\ CallOK(scenario, r, c) /\ c.pc = "done" /\ c.result = "ok"
    BY <1>3, <2>1, <2>2, DoneFacts
  <2> QED
    BY <1>1, <1>3, <2>1, <2>2, <2>3, CallerBase DEF Complete, connVars, Begun
<1>5. CASE call[r].todo # {k}
  <2>1. PICK todo \in SUBSET Keys : todo = call[r].todo \ {k}
    BY <1>1 DEF CallSet
  <2>2. PICK c : c = [call[r] EXCEPT !.todo = todo]
    OBVIOUS
  <2>3. /\ c \in CallSet /\ c.pc = call[r].pc /\ c.key = call[r].key /\ c.todo = todo
        /\ c.missing = call[r].missing /\ c.result = call[r].result
    BY <1>1, <2>2 DEF CallSet
  <2>4. call' = [call EXCEPT ![r] = c]
    <3>1. call' = [call EXCEPT ![r] = IF call[r].todo = {k} THEN Done("ok", call[r].items)
                                      ELSE [call[r] EXCEPT !.todo = call[r].todo \ {k}]]
      BY <1>2 DEF Complete
    <3> QED
      BY <1>5, <2>1, <2>2, <3>1
  <2>5. CallOK(scenario, r, c)
    BY <1>1, <1>3, <1>5, <2>1, <2>3 DEF CallOK
  <2> QED
    BY <1>1, <1>3, <2>3, <2>4, <2>5, CallerBase DEF Complete, connVars, Begun, CallOK
<1> QED
  BY <1>4, <1>5

LEMMA SendBase ==
    ASSUME BaseInv, NEW r \in Calls, Send(r)
    PROVE  BaseInv'
<1>1. call[r] \in CallSet /\ CallOK(scenario, r, call[r]) /\ out \in [Calls -> OneshotSet]
  BY DEF BaseInv, ShapeInv, CallInv
<1>2. /\ call[r].pc \in {"send", "full"}
      /\ UNCHANGED <<scenario, out, in_flight, sync_lost, ended, serverVars, sent>>
  BY DEF Send
<1>3. CASE Finish(r, "FatalSendError", <<>>) /\ UNCHANGED channel
  <2>1. call' = [call EXCEPT ![r] = Done("FatalSendError", <<>>)] /\ "FatalSendError" \in Results
    BY <1>3 DEF Finish, Results
  <2>2. PICK c : c = Done("FatalSendError", <<>>)
    OBVIOUS
  <2>3. c \in CallSet /\ CallOK(scenario, r, c)
    BY <2>1, <2>2, DoneEmpty
  <2> QED
    BY <1>1, <1>2, <1>3, <2>1, <2>2, <2>3, CallerBase
<1>4. CASE ~ended /\ Len(channel) < Capacity /\ Enqueue(r)
  <2>1. PICK c : c = [call[r] EXCEPT !.pc = "await", !.ticks = 0, !.moved = FALSE]
    OBVIOUS
  <2>2. /\ c \in CallSet /\ c.pc = "await" /\ c.key = call[r].key /\ c.todo = call[r].todo
        /\ c.missing = call[r].missing /\ c.result = call[r].result
    <3>1. 0 \in 0..1 /\ "await" \in PCs
      BY DEF PCs
    <3>2. PICK zero \in 0..1 : zero = 0
      BY <3>1
    <3>3. c = [call[r] EXCEPT !.pc = "await", !.ticks = zero, !.moved = FALSE]
      BY <2>1, <3>2
    <3> QED
      BY <1>1, <3>1, <3>3 DEF CallSet
  <2>3. call' = [call EXCEPT ![r] = c] /\ channel' = Append(channel, r)
    BY <1>4, <2>1 DEF Enqueue
  <2>4. CallOK(scenario, r, c)
    BY <1>1, <1>2, <2>2 DEF CallOK
  <2> QED
    BY <1>1, <1>2, <1>4, <2>2, <2>3, <2>4, CallerBase
<1>5. CASE call[r].pc = "send" /\ call' = [call EXCEPT ![r].pc = "full"] /\ UNCHANGED channel
  <2>1. PICK c : c = [call[r] EXCEPT !.pc = "full"]
    OBVIOUS
  <2>2. /\ c \in CallSet /\ c.pc = "full" /\ c.key = call[r].key /\ c.todo = call[r].todo
        /\ c.missing = call[r].missing /\ c.result = call[r].result
    BY <1>1, <2>1 DEF CallSet, PCs
  <2>3. call' = [call EXCEPT ![r] = c]
    BY <1>5, <2>1
  <2>4. CallOK(scenario, r, c)
    BY <1>1, <1>2, <2>2 DEF CallOK
  <2> QED
    BY <1>1, <1>2, <1>5, <2>2, <2>3, <2>4, CallerBase
<1> QED
  BY <1>3, <1>4, <1>5 DEF Send

LEMMA TickBase ==
    ASSUME BaseInv, NEW r \in Calls, Tick(r)
    PROVE  BaseInv'
<1>1. call[r] \in CallSet /\ CallOK(scenario, r, call[r]) /\ out \in [Calls -> OneshotSet]
  BY DEF BaseInv, ShapeInv, CallInv
<1>2. /\ call[r].pc = "full"
      /\ UNCHANGED <<scenario, out, channel, in_flight, sync_lost, ended, serverVars, sent>>
  BY DEF Tick, connVars
<1>3. CASE Finish(r, "FatalSendError", <<>>)
  <2>1. call' = [call EXCEPT ![r] = Done("FatalSendError", <<>>)] /\ "FatalSendError" \in Results
    BY <1>3 DEF Finish, Results
  <2>2. PICK c : c = Done("FatalSendError", <<>>)
    OBVIOUS
  <2>3. c \in CallSet /\ CallOK(scenario, r, c)
    BY <2>1, <2>2, DoneEmpty
  <2> QED
    BY <1>1, <1>2, <2>1, <2>2, <2>3, CallerBase
<1>4. CASE ~Finish(r, "FatalSendError", <<>>)
  <2>1. PICK ticks \in 0..1 : call' = [call EXCEPT ![r] = [call[r] EXCEPT !.ticks = ticks, !.moved = FALSE]]
    <3>1. call[r].ticks \in 0..1
      BY <1>1 DEF CallSet
    <3>2. PICK ticks : ticks = IF call[r].moved THEN 0 ELSE call[r].ticks + 1
      OBVIOUS
    <3>3. ~(ticks >= DEAD_TICKS) /\ call' = [call EXCEPT ![r] = [call[r] EXCEPT !.ticks = ticks, !.moved = FALSE]]
      BY <1>4, <3>2 DEF Tick, BaseInv, ShapeInv
    <3>4. ticks \in 0..1
      BY <3>1, <3>2, <3>3 DEF DEAD_TICKS
    <3> QED
      BY <3>3, <3>4
  <2>2. PICK c : c = [call[r] EXCEPT !.ticks = ticks, !.moved = FALSE]
    OBVIOUS
  <2>3. /\ c \in CallSet /\ c.pc = "full" /\ c.key = call[r].key /\ c.todo = call[r].todo
        /\ c.missing = call[r].missing /\ c.result = call[r].result
    BY <1>1, <1>2, <2>2 DEF CallSet
  <2>4. CallOK(scenario, r, c)
    BY <1>1, <1>2, <2>3 DEF CallOK
  <2> QED
    BY <1>1, <1>2, <2>1, <2>2, <2>3, <2>4, CallerBase
<1> QED
  BY <1>3, <1>4

LEMMA TimeOutBase ==
    ASSUME BaseInv, NEW r \in Calls, TimeOut(r)
    PROVE  BaseInv'
<1>1. out \in [Calls -> OneshotSet] /\ call[r].pc \in {"full", "await"}
  BY DEF BaseInv, ShapeInv, TimeOut
<1>2. call' = [call EXCEPT ![r] = Done("TimedOut", <<>>)] /\ "TimedOut" \in Results
  BY DEF TimeOut, Finish, Results
<1>3. PICK c : c = Done("TimedOut", <<>>)
  OBVIOUS
<1>4. c \in CallSet /\ CallOK(scenario, r, c) /\ c.pc = "done" /\ c.result = "TimedOut"
  BY <1>2, <1>3, DoneEmpty
<1> QED
  BY <1>1, <1>2, <1>3, <1>4, CallerBase DEF TimeOut, connVars, Begun

LEMMA UnsetFacts == Unset \in OneshotSet /\ SenderDropped \in OneshotSet /\ ~Unset.ok /\ ~SenderDropped.ok
BY EmptySeqs DEF Unset, SenderDropped, Oneshot, OneshotSet

LEMMA ReceiveBase ==
    ASSUME BaseInv, NEW r \in Calls, Receive(r)
    PROVE  BaseInv'
<1>1. /\ call[r] \in CallSet /\ CallOK(scenario, r, call[r]) /\ out[r].items \in Seq(ItemSet)
      /\ out' \in [Calls -> OneshotSet]
  BY UnsetFacts DEF BaseInv, ShapeInv, CallInv, Receive, OneshotSet
<1>2. call[r].pc = "await" /\ UNCHANGED <<scenario, channel, in_flight, sync_lost, ended, serverVars, sent>>
  BY DEF Receive, connVars
<1>3. ASSUME NEW result \in Results, result # "FatalSendError", NEW items \in Seq(ItemSet),
             Finish(r, result, items)
      PROVE  BaseInv'
  <2>1. call' = [call EXCEPT ![r] = Done(result, items)]
    BY <1>3 DEF Finish
  <2>2. PICK c : c = Done(result, items)
    OBVIOUS
  <2>3. c \in CallSet /\ CallOK(scenario, r, c) /\ c.pc = "done" /\ c.result = result
    BY <2>2, DoneFacts
  <2> QED
    BY <1>1, <1>2, <1>3, <2>1, <2>2, <2>3, CallerBase DEF Begun
<1>4. ASSUME UsesCache(r),
             call' = [call EXCEPT ![r] = [call[r] EXCEPT !.pc = "complete", !.todo = call[r].missing,
                                                         !.items = out[r].items]]
      PROVE  BaseInv'
  <2>1. PICK c : c = [call[r] EXCEPT !.pc = "complete", !.todo = call[r].missing, !.items = out[r].items]
    OBVIOUS
  <2> DEFINE Q == Seq(ItemSet)
  <2>2. call[r] \in [pc : PCs, key : Keys \cup {NoCall}, todo : SUBSET Keys, missing : SUBSET Keys,
                     ticks : 0..1, moved : BOOLEAN, result : Results, items : Q] /\ out[r].items \in Q
    BY <1>1 DEF CallSet
  <2> HIDE DEF Q
  <2>3. /\ c \in [pc : PCs, key : Keys \cup {NoCall}, todo : SUBSET Keys, missing : SUBSET Keys,
                  ticks : 0..1, moved : BOOLEAN, result : Results, items : Q]
        /\ c.pc = "complete" /\ c.todo = call[r].missing
        /\ c.missing = call[r].missing /\ c.result = call[r].result
    BY <2>1, <2>2 DEF PCs
  <2>4. c \in CallSet
    BY <2>3 DEF CallSet, Q
  <2>5. Caches(scenario, r)
    BY <1>4 DEF UsesCache, IsRead, Command, Caches
  <2>6. CallOK(scenario, r, c) /\ c.result = "none"
    BY <1>1, <1>2, <2>3, <2>5 DEF CallOK
  <2> QED
    BY <1>1, <1>2, <1>4, <2>1, <2>3, <2>4, <2>6, CallerBase DEF Begun
<1>5. LostReplyError \in Results /\ "error" \in Results /\ "ok" \in Results
  BY DEF LostReplyError, Results
<1> QED
  BY <1>1, <1>3, <1>4, <1>5, EmptySeqs DEF Receive, LostReplyError, BaseInv, ShapeInv

-----------------------------------------------------------------------------
(* The writer task *)

\* d differs from c in nothing but the liveness ticks.
Alike(d, c) ==
    /\ d.pc = c.pc /\ d.key = c.key /\ d.todo = c.todo /\ d.missing = c.missing
    /\ d.result = c.result /\ d.items = c.items

LEMMA ProgressedFacts ==
    ASSUME BaseInv
    PROVE  Progressed \in [Calls -> CallSet] /\ \A r \in Calls : Alike(Progressed[r], call[r])
<1>1. ASSUME NEW r \in Calls
      PROVE  Progressed[r] \in CallSet /\ Alike(Progressed[r], call[r])
  <2>1. call[r] \in CallSet
    BY DEF BaseInv, ShapeInv
  <2>2. PICK c : c = [call[r] EXCEPT !.moved = TRUE]
    OBVIOUS
  <2>3. c \in CallSet /\ Alike(c, call[r])
    BY <2>1, <2>2 DEF CallSet, Alike
  <2>4. Progressed[r] = c \/ Progressed[r] = call[r]
    BY <2>2 DEF Progressed
  <2> QED
    BY <2>1, <2>3, <2>4 DEF Alike
<1>2. Progressed = [r \in Calls |-> Progressed[r]]
  BY DEF Progressed
<1> QED
  BY <1>1, <1>2

LEMMA AlikeOK ==
    ASSUME NEW s, NEW r, NEW c, NEW d, CallOK(s, r, c), Alike(d, c)
    PROVE  CallOK(s, r, d)
BY DEF CallOK, Alike

LEMMA OutputFacts ==
    ASSUME BaseInv, NEW r \in Calls, NEW ok \in BOOLEAN, NEW items \in Seq(ItemSet)
    PROVE  /\ Output(r, ok, items) \in [Calls -> OneshotSet]
           /\ \A q \in Calls : \/ Output(r, ok, items)[q] = out[q]
                               \/ /\ q = r /\ call[r].pc = "await" /\ Output(r, ok, items)[q].ok = ok
                                  /\ Output(r, ok, items)[q].items = items
<1>1. PICK o : o = Oneshot("sent", ok, items)
  OBVIOUS
<1>2. o \in OneshotSet /\ o.ok = ok /\ o.items = items
  <2> DEFINE Q == Seq(ItemSet)
  <2>1. items \in Q
    OBVIOUS
  <2> HIDE DEF Q
  <2>2. o \in [state : {"none", "dropped", "sent"}, ok : BOOLEAN, items : Q] /\ o.ok = ok /\ o.items = items
    BY <1>1, <2>1 DEF Oneshot
  <2> QED
    BY <2>2 DEF OneshotSet, Q
<1>3. out \in [Calls -> OneshotSet]
  BY DEF BaseInv, ShapeInv
<1>4. CASE Closed(r) \/ out[r] # Unset
  BY <1>3, <1>4 DEF Output
<1>5. CASE ~(Closed(r) \/ out[r] # Unset)
  <2>1. Output(r, ok, items) = [out EXCEPT ![r] = o]
    BY <1>1, <1>5 DEF Output
  <2> QED
    BY <1>2, <1>3, <1>5, <2>1 DEF Closed
<1> QED
  BY <1>4, <1>5

LEMMA OrphanedFacts ==
    ASSUME NEW o \in [Calls -> OneshotSet], NEW queued, NEW entries
    PROVE  /\ Orphaned(o, queued, entries) \in [Calls -> OneshotSet]
           /\ \A r \in Calls : Orphaned(o, queued, entries)[r] \in {o[r], SenderDropped}
<1> DEFINE gone == ToSet(queued) \cup {entries[i].of : i \in DOMAIN entries}
<1>1. Orphaned(o, queued, entries) = [r \in Calls |-> IF r \in gone /\ o[r] = Unset THEN SenderDropped ELSE o[r]]
  BY DEF Orphaned
<1> HIDE DEF gone
<1> QED
  BY <1>1, UnsetFacts

LEMMA EndBase ==
    ASSUME BaseInv, NEW o \in [Calls -> OneshotSet], NEW queued, End(o, queued),
           call' \in [Calls -> CallSet], \A r \in Calls : Alike(call'[r], call[r]),
           UNCHANGED <<scenario, sync_lost, wire, db, sent>>
    PROVE  BaseInv'
<1>1. /\ ended' = TRUE /\ channel' = <<>> /\ in_flight' = <<>> /\ dirty' = {} /\ stream' = <<>>
      /\ out' = Orphaned(o, queued, in_flight)
  BY DEF End
<1>2. out' \in [Calls -> OneshotSet]
  BY <1>1, OrphanedFacts
<1>3. ShapeInv'
  BY <1>1, <1>2, EmptySeqs DEF BaseInv, ShapeInv
<1>4. CallInv'
  BY AlikeOK DEF BaseInv, CallInv
<1>5. \A r \in sent : call'[r].pc \in Begun /\ call'[r].result # "FatalSendError"
  BY DEF BaseInv, ShapeInv, LineInv, Alike
<1>6. Len(channel') <= Capacity
  <2>1. Len(channel') = 0
    BY <1>1
  <2> QED
    BY <2>1, ScenariosAssumption
<1>7. LineInv'
  BY <1>1, <1>5, <1>6 DEF LineInv
<1> QED
  BY <1>3, <1>4, <1>7 DEF BaseInv

LEMMA NewEntryFacts ==
    ASSUME BaseInv, NEW r \in Calls, call[r].pc # "done"
    PROVE  /\ NewEntry(r) \in EntrySet /\ NewEntry(r).of = r
           /\ NewEntry(r).left \in 1..scenario.command[r].width
<1>1. CallOK(scenario, r, call[r]) /\ scenario \in Scenarios
  BY DEF BaseInv, ShapeInv, CallInv
<1>2. PICK w \in Nat : w = scenario.command[r].width /\ w # 0
  BY <1>1, ScenarioFacts DEF CallOK
<1>3. PICK l : l = IF Command(r).kind \in {"pipeline", "transaction"} THEN w ELSE 1
  OBVIOUS
<1>4. l \in Nat /\ l \in 1..w
  BY <1>2, <1>3
<1>5. PICK e : e = [of |-> r, left |-> l, buffer |-> <<>>, failed |-> FALSE, fenced_result |-> <<>>]
  OBVIOUS
<1>6. e = NewEntry(r)
  BY <1>2, <1>3, <1>5 DEF NewEntry, Command
<1>7. e \in EntrySet /\ e.of = r /\ e.left = l
  BY <1>4, <1>5, EmptySeqs DEF EntrySet
<1> QED
  BY <1>2, <1>4, <1>6, <1>7

\* A message leaves the channel: shed, or written.
LEMMA StartSendBase ==
    ASSUME BaseInv, channel # <<>>, StartSend(Head(channel)), channel' = Tail(channel),
           call' \in [Calls -> CallSet], \A r \in Calls : Alike(call'[r], call[r]), ~ended,
           UNCHANGED <<scenario, out, ended, sync_lost, stream, db, dirty>>
    PROVE  BaseInv'
<1>1. channel \in Seq(Calls) /\ in_flight \in Seq(EntrySet) /\ wire \in Seq(Calls) /\ sent \in SUBSET Calls
  BY DEF BaseInv, ShapeInv
<1>2. PICK n \in Nat : n = Len(channel) /\ DOMAIN channel = 1..n /\ n # 0
  BY <1>1
<1>3. PICK r \in Calls : r = Head(channel) /\ r = channel[1] /\ 1 \in DOMAIN channel
  BY <1>1, <1>2
<1>4. /\ channel' \in Seq(Calls) /\ Len(channel') = n - 1 /\ DOMAIN channel' = 1..(n - 1)
      /\ \A i \in 1..(n - 1) : channel'[i] = channel[i + 1] /\ i + 1 \in 1..n
  BY <1>1, <1>2
<1>5. CallInv'
  BY AlikeOK DEF BaseInv, CallInv
<1>6. \A i \in DOMAIN channel' : channel'[i] # r /\ channel'[i] \notin sent /\ call[channel'[i]].pc \in Begun
  <2>1. ASSUME NEW i \in 1..(n - 1) PROVE i + 1 # 1 /\ i + 1 \in DOMAIN channel
    BY <1>2
  <2> QED
    BY <1>3, <1>4, <2>1 DEF BaseInv, LineInv
<1>7. \A i, j \in DOMAIN channel' : channel'[i] = channel'[j] => i = j
  <2>1. ASSUME NEW i \in 1..(n - 1), NEW j \in 1..(n - 1), i + 1 = j + 1 PROVE i = j
    BY <2>1
  <2> QED
    BY <1>2, <1>4, <2>1 DEF BaseInv, LineInv
<1>8. Len(channel') <= Capacity
  BY <1>2, <1>4, ScenariosAssumption DEF BaseInv, LineInv
<1>9. \A q \in Calls : call'[q].pc = call[q].pc /\ call'[q].result = call[q].result
  BY DEF Alike
<1>10. CASE Closed(r)
  <2>1. UNCHANGED <<wire, in_flight, sent>>
    BY <1>3, <1>10 DEF StartSend
  <2>2. ShapeInv'
    BY <1>4, <2>1 DEF BaseInv, ShapeInv
  <2>3. LineInv'
    <3>1. \A q \in sent' : call'[q].pc \in Begun /\ call'[q].result # "FatalSendError"
      BY <1>1, <1>9, <2>1 DEF BaseInv, LineInv
    <3>2. \A i \in DOMAIN channel' : channel'[i] \notin sent' /\ call'[channel'[i]].pc \in Begun
      BY <1>4, <1>6, <1>9, <2>1
    <3>3. /\ \A i \in DOMAIN in_flight' :
             /\ in_flight'[i].of \in sent'
             /\ in_flight'[i].left \in 1..scenario'.command[in_flight'[i].of].width
          /\ \A i, j \in DOMAIN in_flight' : in_flight'[i].of = in_flight'[j].of => i = j
      BY <2>1 DEF BaseInv, LineInv
    <3> QED
      BY <1>7, <1>8, <3>1, <3>2, <3>3 DEF LineInv
  <2> QED
    BY <1>5, <2>2, <2>3 DEF BaseInv
<1>11. CASE ~Closed(r)
  <2>1. wire' = Append(wire, r) /\ in_flight' = Append(in_flight, NewEntry(r)) /\ sent' = sent \cup {r}
    BY <1>3, <1>11 DEF StartSend
  <2>2. PICK e \in EntrySet : e = NewEntry(r) /\ e.of = r /\ e.left \in 1..scenario.command[r].width
    BY <1>11, NewEntryFacts DEF Closed
  <2>3. call[r].pc = "await" /\ call[r].result = "none" /\ r \notin sent
    BY <1>3, <1>11 DEF Closed, BaseInv, CallInv, CallOK, LineInv
  <2> DEFINE E == EntrySet
  <2>4. in_flight \in Seq(E) /\ e \in E
    BY <1>1
  <2> HIDE DEF E
  <2>5. PICK m \in Nat : m = Len(in_flight) /\ DOMAIN in_flight = 1..m
    BY <2>4
  <2>6. /\ in_flight' \in Seq(E) /\ DOMAIN in_flight' = 1..(m + 1) /\ in_flight'[m + 1] = e
        /\ \A i \in 1..m : in_flight'[i] = in_flight[i]
    BY <2>1, <2>2, <2>4, <2>5
  <2>7. wire' \in Seq(Calls) /\ in_flight' \in Seq(EntrySet) /\ sent' \in SUBSET Calls
    BY <1>1, <2>1, <2>6 DEF E
  <2>8. ShapeInv'
    BY <1>4, <2>7 DEF BaseInv, ShapeInv
  <2>9. \A i \in DOMAIN in_flight' : i \in 1..m \/ i = m + 1
    BY <2>5, <2>6
  <2>10. \A i \in 1..m : in_flight[i].of \in sent /\ in_flight[i].of # r
    BY <2>3, <2>5 DEF BaseInv, LineInv
  <2>11. \A i \in DOMAIN in_flight' :
            /\ in_flight'[i].of \in sent' /\ in_flight'[i].left \in 1..scenario.command[in_flight'[i].of].width
    BY <2>1, <2>2, <2>5, <2>6, <2>9 DEF BaseInv, LineInv
  <2>12. \A i, j \in DOMAIN in_flight' : in_flight'[i].of = in_flight'[j].of => i = j
    <3>1. \A i, j \in 1..m : in_flight[i].of = in_flight[j].of => i = j
      BY <2>5 DEF BaseInv, LineInv
    <3>2. \A i \in 1..m : in_flight'[i].of = in_flight[i].of
      BY <2>6
    <3> QED
      BY <2>2, <2>6, <2>9, <2>10, <3>1, <3>2
  <2>13. \A q \in sent' : call'[q].pc \in Begun /\ call'[q].result # "FatalSendError"
    BY <1>1, <1>9, <2>1, <2>3 DEF BaseInv, LineInv, Begun
  <2>14. \A i \in DOMAIN channel' : channel'[i] \notin sent' /\ call'[channel'[i]].pc \in Begun
    BY <1>4, <1>6, <1>9, <2>1
  <2>15. LineInv'
    BY <1>7, <1>8, <2>11, <2>12, <2>13, <2>14 DEF LineInv
  <2> QED
    BY <1>5, <2>8, <2>15 DEF BaseInv
<1> QED
  BY <1>10, <1>11

LEMMA PullBase ==
    ASSUME BaseInv, Pull
    PROVE  BaseInv'
<1>1. call' \in [Calls -> CallSet] /\ \A r \in Calls : Alike(call'[r], call[r])
  BY ProgressedFacts DEF Pull
<1>2. ~ended /\ channel # <<>> /\ UNCHANGED <<scenario, sync_lost, db>>
  BY DEF Pull
<1>3. PICK r \in Calls : r = Head(channel)
  BY <1>2 DEF BaseInv, ShapeInv
<1>4. CASE StartSend(r) /\ channel' = Tail(channel) /\ UNCHANGED <<out, ended, dirty, stream>>
  BY <1>1, <1>2, <1>3, <1>4, StartSendBase
<1>5. CASE End(Output(r, FALSE, <<>>), Tail(channel)) /\ UNCHANGED <<wire, sent>>
  <2>1. Output(r, FALSE, <<>>) \in [Calls -> OneshotSet]
    BY OutputFacts, EmptySeqs
  <2> QED
    BY <1>1, <1>2, <1>5, <2>1, EndBase
<1> QED
  BY <1>3, <1>4, <1>5 DEF Pull

LEMMA TailFacts ==
    ASSUME NEW A, NEW s \in Seq(A), s # <<>>
    PROVE  /\ Head(s) = s[1] /\ s[1] \in A /\ Tail(s) \in Seq(A) /\ Len(s) \in Nat \ {0}
           /\ Len(Tail(s)) = Len(s) - 1 /\ DOMAIN Tail(s) = 1..(Len(s) - 1)
           /\ \A i \in 1..(Len(s) - 1) : i + 1 \in DOMAIN s /\ Tail(s)[i] = s[i + 1]
OBVIOUS

LEMMA PutFirst ==
    ASSUME NEW A, NEW s \in Seq(A), s # <<>>, NEW e \in A
    PROVE  /\ <<e>> \o Tail(s) \in Seq(A) /\ Len(<<e>> \o Tail(s)) = Len(s)
           /\ DOMAIN (<<e>> \o Tail(s)) = DOMAIN s
           /\ (<<e>> \o Tail(s))[1] = e
           /\ \A i \in DOMAIN s : i # 1 => (<<e>> \o Tail(s))[i] = s[i]
OBVIOUS

\* The entry of a command that was given one more of its replies.
Gathered(e, x) ==
    [e EXCEPT !.buffer = Append(@, x),
              !.failed = e.failed \/ (~x.ok /\ Command(e.of).kind # "pipeline"),
              !.left = @ - 1]

First == Head(in_flight)

\* What send_result does with item x.
Skips(x) ==
    /\ (~sync_lost /\ ~HasReply(x)) \/ in_flight = <<>>
    /\ UNCHANGED <<in_flight, out, sync_lost>>

Refuses ==
    /\ sync_lost
    /\ in_flight' = Tail(in_flight) /\ out' = Output(First.of, FALSE, <<>>)
    /\ UNCHANGED sync_lost

Gathers(x) ==
    /\ ~Fenced(First.of) /\ Gathered(First, x).left > 0
    /\ in_flight' = <<Gathered(First, x)>> \o Tail(in_flight)
    /\ UNCHANGED <<out, sync_lost>>

Replies(x) ==
    /\ ~Fenced(First.of) /\ ~(Gathered(First, x).left > 0)
    /\ in_flight' = Tail(in_flight)
    /\ out' = Output(First.of, ~Gathered(First, x).failed, Gathered(First, x).buffer)
    /\ UNCHANGED sync_lost

Pongs(x) ==
    /\ Fenced(First.of) /\ First.fenced_result = <<>> /\ x.kind = "pong"
    /\ in_flight' = Tail(in_flight) /\ out' = Output(First.of, TRUE, <<x>>)
    /\ UNCHANGED sync_lost

Keeps(x) ==
    /\ Fenced(First.of) /\ First.fenced_result = <<>> /\ x.kind # "pong"
    /\ in_flight' = <<[First EXCEPT !.fenced_result = <<x>>]>> \o Tail(in_flight)
    /\ UNCHANGED <<out, sync_lost>>

Closes(x) ==
    /\ Fenced(First.of) /\ First.fenced_result # <<>>
    /\ in_flight' = Tail(in_flight)
    /\ sync_lost' = (x.kind # "pong")
    /\ out' = Output(First.of, x.kind = "pong" /\ First.fenced_result[1].ok, First.fenced_result)

LEMMA ReadCases ==
    ASSUME BaseInv, NEW x \in ItemSet, SendResult(x)
    PROVE  \/ Skips(x)
           \/ in_flight # <<>> /\ Refuses
           \/ /\ in_flight # <<>> /\ ~sync_lost /\ HasReply(x)
              /\ Gathers(x) \/ Replies(x) \/ Pongs(x) \/ Keeps(x) \/ Closes(x)
<1>1. CASE (~sync_lost /\ ~HasReply(x)) \/ in_flight = <<>>
  BY <1>1 DEF SendResult, Skips
<1>2. CASE ~((~sync_lost /\ ~HasReply(x)) \/ in_flight = <<>>)
  <2>1. CASE sync_lost
    BY <1>2, <2>1 DEF SendResult, Refuses, First
  <2>2. CASE ~sync_lost /\ ~Fenced(First.of)
    <3>1. Collect(First, x, Tail(in_flight))
      BY <1>2, <2>2 DEF SendResult, First
    <3>2. Gathers(x) \/ Replies(x)
      <4>1. PICK g : g = Gathered(First, x)
        OBVIOUS
      <4>2. PICK failed : failed = (First.failed \/ (~x.ok /\ Command(First.of).kind # "pipeline"))
        OBVIOUS
      <4>3. g = [First EXCEPT !.buffer = Append(First.buffer, x), !.failed = failed, !.left = First.left - 1]
        BY <4>1, <4>2 DEF Gathered
      <4>4. g.failed = failed
        <5>1. First \in EntrySet
          BY <1>2, TailFacts DEF BaseInv, ShapeInv, First
        <5> QED
          BY <4>3, <5>1 DEF EntrySet
      <4>5. /\ IF g.left > 0 THEN in_flight' = <<g>> \o Tail(in_flight) /\ UNCHANGED out
               ELSE in_flight' = Tail(in_flight) /\ out' = Output(First.of, ~failed, g.buffer)
            /\ UNCHANGED sync_lost
        BY <3>1, <4>2, <4>3 DEF Collect
      <4> QED
        BY <2>2, <4>1, <4>4, <4>5 DEF Gathers, Replies
    <3> QED
      BY <1>2, <2>2, <3>2
  <2>3. CASE ~sync_lost /\ Fenced(First.of) /\ First.fenced_result = <<>>
    BY <1>2, <2>3 DEF SendResult, First, FencedFirst, Pongs, Keeps
  <2>4. CASE ~sync_lost /\ Fenced(First.of) /\ First.fenced_result # <<>>
    BY <1>2, <2>4 DEF SendResult, First, FencedSecond, Closes
  <2> QED
    BY <2>1, <2>2, <2>3, <2>4 DEF BaseInv, ShapeInv
<1> QED
  BY <1>1, <1>2

LEMMA FirstFacts ==
    ASSUME BaseInv, in_flight # <<>>
    PROVE  /\ First = in_flight[1] /\ First \in EntrySet /\ First.of \in Calls
           /\ First.left \in Nat \ {0} /\ First.left <= scenario.command[First.of].width
           /\ 1 \in DOMAIN in_flight
<1> DEFINE E == EntrySet
<1>1. in_flight \in Seq(E)
  BY DEF BaseInv, ShapeInv
<1> HIDE DEF E
<1>2. First = in_flight[1] /\ First \in E /\ 1 \in DOMAIN in_flight
  BY <1>1, TailFacts DEF First
<1>3. First \in EntrySet
  BY <1>2 DEF E
<1>4. First.left \in 1..scenario.command[First.of].width /\ First.of \in Calls
  BY <1>2, <1>3 DEF BaseInv, LineInv, EntrySet
<1>5. scenario.command[First.of].width \in Nat
  BY <1>4, ScenarioFacts DEF BaseInv, ShapeInv
<1> QED
  BY <1>2, <1>3, <1>4, <1>5

LEMMA GatheredFacts ==
    ASSUME BaseInv, NEW e \in EntrySet, NEW x \in ItemSet, e.left \in Nat \ {0}
    PROVE  /\ Gathered(e, x) \in EntrySet /\ Gathered(e, x).of = e.of
           /\ Gathered(e, x).left = e.left - 1 /\ Gathered(e, x).buffer = Append(e.buffer, x)
           /\ Gathered(e, x).failed = (e.failed \/ (~x.ok /\ Command(e.of).kind # "pipeline"))
           /\ Gathered(e, x).fenced_result = e.fenced_result
<1> DEFINE Q == Seq(ItemSet)
<1>1. PICK b : b = Append(e.buffer, x)
  OBVIOUS
<1>2. b \in Q
  <2> DEFINE A == ItemSet
  <2>1. e.buffer \in Seq(A) /\ x \in A
    BY DEF EntrySet
  <2> HIDE DEF A
  <2>2. b \in Seq(A)
    BY <1>1, <2>1
  <2> QED
    BY <2>2 DEF A
<1>3. PICK l \in Nat : l = e.left - 1
  OBVIOUS
<1>4. PICK f \in BOOLEAN : f = (e.failed \/ (~x.ok /\ Command(e.of).kind # "pipeline"))
  OBVIOUS
<1>5. PICK g : g = [e EXCEPT !.buffer = b, !.failed = f, !.left = l]
  OBVIOUS
<1>6. g = Gathered(e, x)
  BY <1>1, <1>3, <1>4, <1>5 DEF Gathered
<1>7. e \in [of : Calls, left : Nat, buffer : Q, failed : BOOLEAN, fenced_result : Q]
  BY DEF EntrySet
<1> HIDE DEF Q
<1>8. /\ g \in [of : Calls, left : Nat, buffer : Q, failed : BOOLEAN, fenced_result : Q]
      /\ g.of = e.of /\ g.left = l /\ g.buffer = b /\ g.failed = f /\ g.fenced_result = e.fenced_result
  BY <1>2, <1>5, <1>7
<1>9. g \in EntrySet
  BY <1>8 DEF EntrySet, Q
<1> QED
  BY <1>1, <1>3, <1>4, <1>6, <1>8, <1>9

LEMMA KeptFacts ==
    ASSUME NEW e \in EntrySet, NEW x \in ItemSet
    PROVE  /\ [e EXCEPT !.fenced_result = <<x>>] \in EntrySet
           /\ [e EXCEPT !.fenced_result = <<x>>].of = e.of
           /\ [e EXCEPT !.fenced_result = <<x>>].left = e.left
           /\ [e EXCEPT !.fenced_result = <<x>>].buffer = e.buffer
           /\ [e EXCEPT !.fenced_result = <<x>>].fenced_result = <<x>>
<1>1. PICK y : y = <<x>>
  OBVIOUS
<1>2. y \in Seq(ItemSet)
  BY <1>1, EmptySeqs
<1>3. PICK g : g = [e EXCEPT !.fenced_result = y]
  OBVIOUS
<1>4. g \in EntrySet /\ g.of = e.of /\ g.left = e.left /\ g.buffer = e.buffer /\ g.fenced_result = y
  BY <1>2, <1>3 DEF EntrySet
<1> QED
  BY <1>1, <1>3, <1>4

\* The entries after an item was read: the first d are gone, the others stand for the
\* same calls.
Shifted(d) ==
    /\ in_flight' \in Seq(EntrySet)
    /\ d <= Len(in_flight) /\ DOMAIN in_flight' = 1..(Len(in_flight) - d)
    /\ \A i \in DOMAIN in_flight' :
         /\ in_flight'[i].of = in_flight[i + d].of
         /\ in_flight'[i].left \in 1..in_flight[i + d].left

LEMMA ReadShape ==
    ASSUME BaseInv, NEW x \in ItemSet, SendResult(x)
    PROVE  /\ out' \in [Calls -> OneshotSet] /\ sync_lost' \in BOOLEAN
           /\ \E d \in {0, 1} : Shifted(d)
<1> DEFINE E == EntrySet
<1>1. in_flight \in Seq(E) /\ out \in [Calls -> OneshotSet] /\ sync_lost \in BOOLEAN
  BY DEF BaseInv, ShapeInv
<1>2. PICK n \in Nat : n = Len(in_flight) /\ DOMAIN in_flight = 1..n
  <2> HIDE DEF E
  <2> QED
    BY <1>1
<1>3. \A i \in DOMAIN in_flight : in_flight[i].left \in Nat \ {0}
  <2> SUFFICES ASSUME NEW i \in DOMAIN in_flight PROVE in_flight[i].left \in Nat \ {0}
    OBVIOUS
  <2>1. in_flight[i] \in E
    <3> HIDE DEF E
    <3> QED
      BY <1>1
  <2>2. in_flight[i].left \in Nat
    BY <2>1 DEF EntrySet
  <2> QED
    BY <2>2 DEF BaseInv, LineInv
<1>4. ASSUME in_flight' = in_flight PROVE Shifted(0)
  <2>1. \A i \in 1..n : i + 0 = i
    OBVIOUS
  <2>2. n - 0 = n /\ 0 <= n
    OBVIOUS
  <2>3. \A i \in DOMAIN in_flight : in_flight[i].left \in 1..in_flight[i].left
    BY <1>3
  <2> QED
    BY <1>1, <1>2, <1>4, <2>1, <2>2, <2>3 DEF Shifted
<1>5. ASSUME in_flight # <<>>, in_flight' = Tail(in_flight) PROVE Shifted(1)
  <2>1. /\ in_flight' \in Seq(E) /\ n # 0 /\ DOMAIN in_flight' = 1..(n - 1)
        /\ \A i \in 1..(n - 1) : i + 1 \in DOMAIN in_flight /\ in_flight'[i] = in_flight[i + 1]
    <3> HIDE DEF E
    <3> QED
      BY <1>1, <1>2, <1>5, TailFacts
  <2>2. \A i \in 1..(n - 1) : in_flight'[i].left \in 1..in_flight[i + 1].left
    <3>1. ASSUME NEW i \in 1..(n - 1) PROVE in_flight[i + 1].left \in Nat \ {0}
      BY <1>3, <2>1
    <3> QED
      BY <2>1, <3>1
  <2>3. 1 <= n
    BY <2>1
  <2> QED
    BY <1>2, <2>1, <2>2, <2>3 DEF Shifted
<1>6. ASSUME in_flight # <<>>, NEW e \in EntrySet, e.of = First.of, e.left \in 1..First.left,
             in_flight' = <<e>> \o Tail(in_flight)
      PROVE  Shifted(0)
  <2>1. /\ in_flight' \in Seq(E) /\ DOMAIN in_flight' = DOMAIN in_flight
        /\ in_flight'[1] = e /\ \A i \in DOMAIN in_flight : i # 1 => in_flight'[i] = in_flight[i]
    <3>1. e \in E
      OBVIOUS
    <3> HIDE DEF E
    <3> QED
      BY <1>1, <1>6, <3>1, PutFirst
  <2>2. First = in_flight[1]
    BY <1>6, FirstFacts
  <2>3. \A i \in 1..n : i + 0 = i
    OBVIOUS
  <2>4. n - 0 = n /\ 0 <= n
    OBVIOUS
  <2>5. \A i \in DOMAIN in_flight : in_flight[i].left \in 1..in_flight[i].left
    BY <1>3
  <2>6. \A i \in 1..n : in_flight'[i].of = in_flight[i].of /\ in_flight'[i].left \in 1..in_flight[i].left
    BY <1>2, <1>6, <2>1, <2>2, <2>5
  <2> QED
    BY <1>2, <2>1, <2>3, <2>4, <2>6 DEF Shifted
<1>7. CASE Skips(x)
  BY <1>1, <1>4, <1>7 DEF Skips
<1>8. CASE in_flight # <<>> /\ Refuses
  BY <1>1, <1>5, <1>8, FirstFacts, OutputFacts, EmptySeqs DEF Refuses
<1>9. CASE in_flight # <<>> /\ Gathers(x)
  <2>1. PICK e \in EntrySet : e = Gathered(First, x) /\ e.of = First.of /\ e.left = First.left - 1
    BY <1>9, FirstFacts, GatheredFacts
  <2>2. First.left \in Nat \ {0} /\ e.left > 0
    BY <1>9, <2>1, FirstFacts DEF Gathers
  <2>3. e.left \in 1..First.left
    BY <2>1, <2>2
  <2> QED
    BY <1>1, <1>6, <1>9, <2>1, <2>3 DEF Gathers
<1>10. CASE in_flight # <<>> /\ Replies(x)
  <2>1. PICK e \in EntrySet : e = Gathered(First, x)
    BY <1>10, FirstFacts, GatheredFacts
  <2>2. e.failed \in BOOLEAN /\ e.buffer \in Seq(ItemSet)
    BY <2>1 DEF EntrySet
  <2>3. PICK ok \in BOOLEAN : ok = ~e.failed
    BY <2>2
  <2>4. PICK b \in Seq(ItemSet) : b = e.buffer
    BY <2>2
  <2>5. out' = Output(First.of, ok, b) /\ sync_lost' = sync_lost /\ in_flight' = Tail(in_flight)
    BY <1>10, <2>1, <2>3, <2>4 DEF Replies
  <2>6. First.of \in Calls
    BY <1>10, FirstFacts
  <2>7. out' \in [Calls -> OneshotSet]
    BY <2>5, <2>6, OutputFacts
  <2> QED
    BY <1>1, <1>5, <1>10, <2>5, <2>7
<1>11. CASE in_flight # <<>> /\ Pongs(x)
  BY <1>1, <1>5, <1>11, FirstFacts, OutputFacts, EmptySeqs DEF Pongs
<1>12. CASE in_flight # <<>> /\ Keeps(x)
  <2>1. PICK e \in EntrySet : e = [First EXCEPT !.fenced_result = <<x>>] /\ e.of = First.of /\ e.left = First.left
    BY <1>12, FirstFacts, KeptFacts
  <2>2. e.left \in 1..First.left
    BY <1>12, <2>1, FirstFacts
  <2> QED
    BY <1>1, <1>6, <1>12, <2>1, <2>2 DEF Keeps
<1>13. CASE in_flight # <<>> /\ Closes(x)
  <2>1. First.fenced_result \in Seq(ItemSet) /\ First.of \in Calls
    BY <1>13, FirstFacts DEF EntrySet
  <2>2. PICK ok \in BOOLEAN : ok = (x.kind = "pong" /\ First.fenced_result[1].ok)
    OBVIOUS
  <2>3. out' = Output(First.of, ok, First.fenced_result) /\ sync_lost' \in BOOLEAN /\ in_flight' = Tail(in_flight)
    BY <1>13, <2>2 DEF Closes
  <2> QED
    BY <1>5, <1>13, <2>1, <2>3, OutputFacts
<1> QED
  BY <1>7, <1>8, <1>9, <1>10, <1>11, <1>12, <1>13, ReadCases

LEMMA ReadBase ==
    ASSUME BaseInv, Read
    PROVE  BaseInv'
<1> DEFINE I == ItemSet
<1>1. ~ended /\ stream # <<>> /\ stream \in Seq(I)
  BY DEF Read, BaseInv, ShapeInv
<1>2. PICK x \in ItemSet : x = Head(stream) /\ stream' \in Seq(ItemSet)
  <2>1. stream' = Tail(stream)
    BY DEF Read
  <2> HIDE DEF I
  <2>2. Head(stream) \in I /\ stream' \in Seq(I)
    BY <1>1, <2>1, TailFacts
  <2> QED
    BY <2>2 DEF I
<1>3. SendResult(x)
  BY <1>2 DEF Read
<1>4. out' \in [Calls -> OneshotSet] /\ sync_lost' \in BOOLEAN /\ \E d \in {0, 1} : Shifted(d)
  BY <1>3, ReadShape
<1>5. PICK d \in {0, 1} : Shifted(d)
  BY <1>4
<1>6. call' \in [Calls -> CallSet] /\ \A r \in Calls : Alike(call'[r], call[r])
  BY ProgressedFacts DEF Read
<1>7. UNCHANGED <<scenario, channel, ended, wire, db, dirty, sent>>
  BY DEF Read
<1>8. ShapeInv'
  BY <1>2, <1>4, <1>5, <1>6, <1>7 DEF BaseInv, ShapeInv, Shifted
<1>9. CallInv'
  BY <1>6, <1>7, AlikeOK DEF BaseInv, CallInv
<1>10. \A r \in Calls : call'[r].pc = call[r].pc /\ call'[r].result = call[r].result
  BY <1>6 DEF Alike
<1>11. channel \in Seq(Calls) /\ sent \in SUBSET Calls
  BY DEF BaseInv, ShapeInv
<1>12. /\ \A r \in sent' : call'[r].pc \in Begun /\ call'[r].result # "FatalSendError"
       /\ Len(channel') <= Capacity
       /\ \A i, j \in DOMAIN channel' : channel'[i] = channel'[j] => i = j
       /\ \A i \in DOMAIN channel' : channel'[i] \notin sent' /\ call'[channel'[i]].pc \in Begun
  <2>1. \A i \in DOMAIN channel : channel[i] \in Calls
    BY <1>11
  <2> QED
    BY <1>7, <1>10, <1>11, <2>1 DEF BaseInv, LineInv
<1>13. PICK n \in Nat : n = Len(in_flight) /\ DOMAIN in_flight = 1..n
  <2> DEFINE E == EntrySet
  <2>1. in_flight \in Seq(E)
    BY DEF BaseInv, ShapeInv
  <2> HIDE DEF E
  <2> QED
    BY <2>1
<1>14. ASSUME NEW i \in DOMAIN in_flight' PROVE i \in Nat /\ i + d \in DOMAIN in_flight
  <2>1. DOMAIN in_flight' = 1..(n - d) /\ d <= n
    BY <1>5, <1>13 DEF Shifted
  <2> QED
    BY <1>13, <2>1
<1>15. ASSUME NEW i \in DOMAIN in_flight'
       PROVE  in_flight'[i].of \in sent' /\ in_flight'[i].left \in 1..scenario'.command[in_flight'[i].of].width
  <2>1. PICK q \in Calls : q = in_flight'[i].of /\ q = in_flight[i + d].of
    <3>1. in_flight[i + d].of \in sent
      BY <1>14 DEF BaseInv, LineInv
    <3> QED
      BY <1>5, <1>11, <3>1 DEF Shifted
  <2>2. q \in sent /\ in_flight[i + d].left \in 1..scenario.command[q].width
    BY <1>14, <2>1 DEF BaseInv, LineInv
  <2>3. PICK w \in Nat : w = scenario.command[q].width
    BY ScenarioFacts DEF BaseInv, ShapeInv
  <2>4. PICK l \in Nat : l = in_flight[i + d].left /\ l <= w
    BY <2>2, <2>3
  <2>5. in_flight'[i].left \in 1..l
    BY <1>5, <2>4 DEF Shifted
  <2>6. in_flight'[i].left \in 1..w
    BY <2>4, <2>5
  <2> QED
    BY <1>7, <2>1, <2>2, <2>3, <2>6
<1>16. ASSUME NEW i \in DOMAIN in_flight', NEW j \in DOMAIN in_flight', in_flight'[i].of = in_flight'[j].of
       PROVE  i = j
  <2>1. i + d = j + d
    BY <1>5, <1>14, <1>16 DEF Shifted, BaseInv, LineInv
  <2> QED
    BY <1>14, <2>1
<1>17. LineInv'
  BY <1>1, <1>7, <1>12, <1>15, <1>16 DEF LineInv
<1> QED
  BY <1>8, <1>9, <1>17 DEF BaseInv

LEMMA BreakBase ==
    ASSUME BaseInv, Break
    PROVE  BaseInv'
<1>1. UNCHANGED <<scenario, cache, call, sync_lost, wire, db, sent>>
  BY DEF Break
<1>2. call' \in [Calls -> CallSet] /\ \A r \in Calls : Alike(call'[r], call[r])
  BY <1>1 DEF BaseInv, ShapeInv, Alike
<1>3. PICK o \in [Calls -> OneshotSet] : End(o, channel)
  <2>1. out \in [Calls -> OneshotSet]
    BY DEF BaseInv, ShapeInv
  <2>2. in_flight # <<>> => Output(Head(in_flight).of, FALSE, <<>>) \in [Calls -> OneshotSet]
    BY FirstFacts, OutputFacts, EmptySeqs DEF First
  <2> QED
    BY <2>1, <2>2 DEF Break
<1> QED
  BY <1>1, <1>2, <1>3, EndBase

\* Steps of the server: they change the stream, the wire and the data alone.
LEMMA ServerBase ==
    ASSUME BaseInv, stream' \in Seq(ItemSet), wire' \in Seq(Calls), dirty' \in SUBSET Keys,
           db' \in [Keys -> 1..Nil], ended => stream' = stream /\ dirty' = dirty,
           UNCHANGED <<scenario, call, out, connVars, sent>>
    PROVE  BaseInv'
<1>1. ShapeInv'
  BY DEF BaseInv, ShapeInv, connVars
<1>2. CallInv'
  BY DEF BaseInv, CallInv
<1>3. LineInv'
  BY DEF BaseInv, LineInv, connVars
<1> QED
  BY <1>1, <1>2, <1>3 DEF BaseInv

LEMMA PushFacts ==
    ASSUME NEW kind \in {"sunsubscribe", "invalidate", "flush"}, NEW keys \in SUBSET Keys
    PROVE  /\ Push(kind, keys) \in ItemSet /\ Push(kind, keys).kind = kind
           /\ Push(kind, keys).vals = keys /\ ~HasReply(Push(kind, keys))
<1>1. keys \in ValSet
  BY DEF ValSet
<1>2. PICK x : x = Push(kind, keys)
  OBVIOUS
<1>3. x = [kind |-> kind, of |-> NoCall, nth |-> 0, ok |-> TRUE, vals |-> keys]
  BY <1>2 DEF Push, Item
<1>4. x \in ItemSet /\ x.kind = kind /\ x.vals = keys
  BY <1>1, <1>3 DEF ItemSet
<1> QED
  BY <1>2, <1>4 DEF HasReply

LEMMA AppendStream ==
    ASSUME BaseInv, NEW x \in ItemSet
    PROVE  Append(stream, x) \in Seq(ItemSet)
<1> DEFINE A == ItemSet
<1>1. stream \in Seq(A) /\ x \in A
  BY DEF BaseInv, ShapeInv
<1> HIDE DEF A
<1>2. Append(stream, x) \in Seq(A)
  BY <1>1
<1> QED
  BY <1>2 DEF A

\* What the server may answer to call r.
LEMMA ReadItemFacts ==
    ASSUME BaseInv, NEW r \in Calls
    PROVE  /\ ReadItem(r) \in ItemSet /\ ReadItem(r).kind = "reply" /\ ReadItem(r).of = r
           /\ ReadItem(r).nth = 1 /\ ReadItem(r).vals \in [call[r].missing -> 1..Nil]
           /\ \A k \in call[r].missing : ReadItem(r).vals[k] \in {db[k], Nil}
<1> DEFINE v == [k \in call[r].missing |-> IF Matches(r, db[k]) THEN db[k] ELSE Nil]
           ok == Command(r).kind = "MGET" \/ \A k \in call[r].missing : Matches(r, db[k])
<1>1. call[r].missing \in SUBSET Keys /\ db \in [Keys -> 1..Nil]
  BY DEF BaseInv, ShapeInv, CallSet
<1>2. Nil \in 1..Nil
  BY DEF Nil
<1>3. v \in [call[r].missing -> 1..Nil] /\ \A k \in call[r].missing : v[k] \in {db[k], Nil}
  BY <1>1, <1>2
<1>4. v \in ValSet
  <2> HIDE DEF v
  <2>1. PICK K \in SUBSET Keys : K = call[r].missing
    BY <1>1
  <2>2. v \in [K -> 1..Nil]
    BY <1>3, <2>1
  <2>3. v \in Pairings
    BY <2>2, Zenon DEF Pairings
  <2> QED
    BY <2>3 DEF ValSet
<1>5. ReadItem(r) = [kind |-> "reply", of |-> r, nth |-> 1, ok |-> ok, vals |-> v]
  BY DEF ReadItem, Item
<1>6. ok \in BOOLEAN
  OBVIOUS
<1> HIDE DEF v, ok
<1>7. PICK x : x = ReadItem(r)
  OBVIOUS
<1>8. x \in ItemSet /\ x.kind = "reply" /\ x.of = r /\ x.nth = 1 /\ x.vals = v
  BY <1>4, <1>5, <1>6, <1>7 DEF ItemSet
<1> QED
  BY <1>3, <1>7, <1>8

LEMMA ItemFacts ==
    ASSUME NEW kind \in {"reply", "pong", "subscribe"}, NEW r \in Calls, NEW n \in Nat, NEW ok \in BOOLEAN
    PROVE  /\ Item(kind, r, n, ok, <<>>) \in ItemSet /\ Item(kind, r, n, ok, <<>>).kind = kind
           /\ Item(kind, r, n, ok, <<>>).of = r /\ Item(kind, r, n, ok, <<>>).nth = n
           /\ Item(kind, r, n, ok, <<>>).ok = ok
<1>1. <<>> \in ValSet
  BY DEF ValSet
<1>2. PICK x : x = Item(kind, r, n, ok, <<>>)
  OBVIOUS
<1>3. x = [kind |-> kind, of |-> r, nth |-> n, ok |-> ok, vals |-> <<>>]
  BY <1>2 DEF Item
<1>4. x \in ItemSet /\ x.kind = kind /\ x.of = r /\ x.nth = n /\ x.ok = ok
  BY <1>1, <1>3 DEF ItemSet
<1> QED
  BY <1>2, <1>4

\* A fenced command is answered by a push or an error and then by the PONG.
FencedAnswer(r, items) ==
    /\ items \in Seq(ItemSet) /\ Len(items) = 2
    /\ HasReply(items[2]) /\ items[2].of = r /\ items[2].nth = 2 /\ items[2].ok = (items[2].kind = "pong")
    /\ HasReply(items[1]) => /\ items[1].of = r /\ items[1].nth = 1
                             /\ items[1].kind # "pong" /\ ~items[1].ok

\* Any other one by as many replies as it is wide.
PlainAnswer(r, items, width) ==
    /\ items \in Seq(ItemSet) /\ Len(items) = width
    /\ \A n \in 1..width : HasReply(items[n]) /\ items[n].of = r /\ items[n].nth = n

LEMMA FencedPair ==
    ASSUME NEW r, NEW items \in FencedItems(r)
    PROVE  \E first \in {Push("sunsubscribe", {}), Item("reply", r, 1, FALSE, <<>>)},
              second \in {Item("pong", r, 2, TRUE, <<>>), Item("reply", r, 2, FALSE, <<>>)} :
                items = <<first, second>>
<1>1. ASSUME NEW A, NEW B, NEW x \in A \X B
      PROVE  \E first \in A, second \in B : x = <<first, second>>
  OBVIOUS
<1>2. PICK A : A = {Push("sunsubscribe", {}), Item("reply", r, 1, FALSE, <<>>)}
  OBVIOUS
<1>3. PICK B : B = {Item("pong", r, 2, TRUE, <<>>), Item("reply", r, 2, FALSE, <<>>)}
  OBVIOUS
<1>4. items \in A \X B
  BY <1>2, <1>3, Zenon DEF FencedItems
<1>5. \E first \in A, second \in B : items = <<first, second>>
  BY <1>1, <1>4
<1> QED
  BY <1>2, <1>3, <1>5, Zenon

LEMMA FencedFacts ==
    ASSUME NEW r \in Calls, NEW items \in FencedItems(r)
    PROVE  FencedAnswer(r, items)
<1>a. PICK no \in BOOLEAN : no = FALSE
  OBVIOUS
<1>b. PICK yes \in BOOLEAN : yes = TRUE
  OBVIOUS
<1>1. PICK push \in ItemSet : push = Push("sunsubscribe", {}) /\ ~HasReply(push)
  BY PushFacts
<1>2. PICK err \in ItemSet : /\ err = Item("reply", r, 1, FALSE, <<>>) /\ err.kind = "reply"
                             /\ err.of = r /\ err.nth = 1 /\ ~err.ok
  <2>1. PICK x : x = Item("reply", r, 1, no, <<>>)
    OBVIOUS
  <2>2. x \in ItemSet /\ x.kind = "reply" /\ x.of = r /\ x.nth = 1 /\ x.ok = no
    BY <2>1, ItemFacts
  <2> QED
    BY <1>a, <2>1, <2>2
<1>3. PICK pong \in ItemSet : /\ pong = Item("pong", r, 2, TRUE, <<>>) /\ pong.kind = "pong"
                              /\ pong.of = r /\ pong.nth = 2 /\ pong.ok
  <2>1. PICK x : x = Item("pong", r, 2, yes, <<>>)
    OBVIOUS
  <2>2. x \in ItemSet /\ x.kind = "pong" /\ x.of = r /\ x.nth = 2 /\ x.ok = yes
    BY <2>1, ItemFacts
  <2> QED
    BY <1>b, <2>1, <2>2
<1>4. PICK loading \in ItemSet : /\ loading = Item("reply", r, 2, FALSE, <<>>) /\ loading.kind = "reply"
                                 /\ loading.of = r /\ loading.nth = 2 /\ ~loading.ok
  <2>1. PICK x : x = Item("reply", r, 2, no, <<>>)
    OBVIOUS
  <2>2. x \in ItemSet /\ x.kind = "reply" /\ x.of = r /\ x.nth = 2 /\ x.ok = no
    BY <2>1, ItemFacts
  <2> QED
    BY <1>a, <2>1, <2>2
<1>5. items \in {<<push, pong>>, <<err, pong>>, <<push, loading>>, <<err, loading>>}
  <2>1. PICK first \in {Push("sunsubscribe", {}), Item("reply", r, 1, FALSE, <<>>)},
             second \in {Item("pong", r, 2, TRUE, <<>>), Item("reply", r, 2, FALSE, <<>>)} :
               items = <<first, second>>
    BY FencedPair
  <2>2. first \in {push, err} /\ second \in {pong, loading}
    BY <1>1, <1>2, <1>3, <1>4, <2>1
  <2> QED
    BY <2>1, <2>2
<1>6. HasReply(err) /\ HasReply(pong) /\ HasReply(loading)
  BY <1>2, <1>3, <1>4 DEF HasReply
<1>7. ASSUME NEW a \in ItemSet, NEW b \in ItemSet
      PROVE  <<a, b>> \in Seq(ItemSet) /\ Len(<<a, b>>) = 2 /\ <<a, b>>[1] = a /\ <<a, b>>[2] = b
  <2> DEFINE A == ItemSet
  <2>1. a \in A /\ b \in A
    OBVIOUS
  <2> HIDE DEF A
  <2>2. <<a, b>> \in Seq(A) /\ Len(<<a, b>>) = 2 /\ <<a, b>>[1] = a /\ <<a, b>>[2] = b
    BY <2>1
  <2> QED
    BY <2>2 DEF A
<1>8. CASE items = <<push, pong>>
  BY <1>1, <1>3, <1>6, <1>7, <1>8 DEF FencedAnswer
<1>9. CASE items = <<err, pong>>
  BY <1>2, <1>3, <1>6, <1>7, <1>9 DEF FencedAnswer
<1>10. CASE items \in {<<push, loading>>, <<err, loading>>}
  <2>1. items \in Seq(ItemSet) /\ Len(items) = 2 /\ items[1] \in {push, err} /\ items[2] = loading
    <3>1. PICK first \in {push, err} : items = <<first, loading>>
      BY <1>10
    <3>2. first \in ItemSet
      OBVIOUS
    <3> QED
      BY <1>7, <3>1, <3>2
  <2>2. loading.ok = (loading.kind = "pong")
    <3>1. loading.kind # "pong" /\ ~loading.ok /\ loading.ok \in BOOLEAN
      BY <1>4 DEF ItemSet
    <3> QED
      BY <3>1
  <2> QED
    BY <1>1, <1>2, <1>4, <1>6, <2>1, <2>2 DEF FencedAnswer
<1> QED
  BY <1>5, <1>8, <1>9, <1>10

LEMMA PlainFacts ==
    ASSUME BaseInv, NEW r \in Calls, ~Fenced(r), NEW items \in Answers(r)
    PROVE  /\ PlainAnswer(r, items, scenario.command[r].width)
           /\ IsRead(r) => items = <<ReadItem(r)>>
<1>1. PICK w \in Nat : w = scenario.command[r].width /\ (IsRead(r) => w = 1)
  BY ScenarioFacts DEF BaseInv, ShapeInv, IsRead, Command
<1>2. CASE IsRead(r)
  <2>1. PICK x \in ItemSet : x = ReadItem(r) /\ x.kind = "reply" /\ x.of = r /\ x.nth = 1
    BY ReadItemFacts
  <2>2. items = <<x>>
    BY <1>2, <2>1 DEF Answers
  <2> DEFINE A == ItemSet
  <2>3. items \in Seq(A) /\ Len(items) = 1 /\ items[1] = x
    <3>1. x \in A
      OBVIOUS
    <3> HIDE DEF A
    <3> QED
      BY <2>2, <3>1
  <2>4. \A n \in 1..w : n = 1
    BY <1>1, <1>2
  <2> QED
    BY <1>1, <1>2, <2>1, <2>2, <2>3, <2>4 DEF PlainAnswer, HasReply
<1>3. CASE ~IsRead(r)
  <2>1. items \in PlainItems(r)
    BY <1>3 DEF Answers
  <2>2. PICK bad : items = [n \in 1..w |->
            Item(IF n \in bad THEN "reply" ELSE PlainKind(r, n), r, n, n \notin bad, <<>>)]
    BY <1>1, <2>1 DEF PlainItems, Command
  <2>4. ASSUME NEW n \in 1..w
        PROVE  /\ items[n] \in ItemSet /\ HasReply(items[n])
               /\ items[n].of = r /\ items[n].nth = n
    <3>0. PICK kind \in {"reply", "pong", "subscribe"} : kind = IF n \in bad THEN "reply" ELSE PlainKind(r, n)
      BY DEF PlainKind
    <3>1. items[n] = Item(kind, r, n, n \notin bad, <<>>)
      BY <2>2, <3>0
    <3>2. PICK ok \in BOOLEAN : ok = (n \notin bad)
      OBVIOUS
    <3>3. n \in Nat
      BY <1>1
    <3>4. PICK x : x = Item(kind, r, n, ok, <<>>)
      OBVIOUS
    <3>5. x \in ItemSet /\ x.kind = kind /\ x.of = r /\ x.nth = n
      BY <3>3, <3>4, ItemFacts
    <3>6. HasReply(x)
      BY <3>5 DEF HasReply
    <3> QED
      BY <3>1, <3>2, <3>4, <3>5, <3>6
  <2> DEFINE A == ItemSet
  <2>5. items \in Seq(A) /\ Len(items) = w
    <3>1. \A n \in 1..w : items[n] \in A
      BY <2>4
    <3>2. items = [n \in 1..w |-> items[n]]
      BY <2>2
    <3> HIDE DEF A
    <3>3. items \in [1..w -> A]
      BY <3>1, <3>2
    <3> QED
      BY <1>1, <3>3
  <2> QED
    BY <1>1, <1>3, <2>4, <2>5 DEF PlainAnswer
<1> QED
  BY <1>2, <1>3

LEMMA AnswerTypes ==
    ASSUME BaseInv, NEW r \in Calls, NEW items \in Answers(r)
    PROVE  items \in Seq(ItemSet)
<1>1. CASE Fenced(r)
  BY <1>1, FencedFacts DEF Answers, FencedAnswer
<1>2. CASE ~Fenced(r)
  BY <1>2, PlainFacts DEF PlainAnswer
<1> QED
  BY <1>1, <1>2

LEMMA ExecuteBase ==
    ASSUME BaseInv, Execute
    PROVE  BaseInv'
<1>1. wire # <<>> /\ wire \in Seq(Calls) /\ ~ended
  BY DEF Execute, BaseInv, ShapeInv
<1>2. Head(wire) \in Calls /\ wire' \in Seq(Calls)
  BY <1>1, TailFacts DEF Execute
<1>3. PICK items \in Answers(Head(wire)) : stream' = stream \o items
  BY DEF Execute
<1>4. stream' \in Seq(ItemSet)
  <2> DEFINE A == ItemSet
  <2>1. stream \in Seq(A) /\ items \in Seq(A)
    BY <1>2, AnswerTypes DEF BaseInv, ShapeInv
  <2> HIDE DEF A
  <2>2. stream' \in Seq(A)
    BY <1>3, <2>1
  <2> QED
    BY <2>2 DEF A
<1>5. dirty' \in SUBSET Keys /\ db' \in [Keys -> 1..Nil]
  BY DEF Execute, BaseInv, ShapeInv
<1> QED
  BY <1>1, <1>2, <1>4, <1>5, ServerBase DEF Execute

LEMMA PushBase ==
    ASSUME BaseInv, UnpromptedPush \/ Broadcast
    PROVE  BaseInv'
<1>1. dirty \in SUBSET Keys /\ db \in [Keys -> 1..Nil] /\ wire \in Seq(Calls)
  BY DEF BaseInv, ShapeInv
<1>2. PICK x \in ItemSet : stream' = Append(stream, x)
  <2>1. Push("sunsubscribe", {}) \in ItemSet /\ Push("invalidate", dirty) \in ItemSet
    BY <1>1, PushFacts
  <2> QED
    BY <2>1 DEF UnpromptedPush, Broadcast
<1>3. ~ended
  BY DEF UnpromptedPush, Broadcast, BaseInv, LineInv
<1>4. stream' \in Seq(ItemSet)
  BY <1>2, AppendStream
<1>5. dirty' \in SUBSET Keys /\ UNCHANGED <<scenario, call, out, connVars, wire, db, sent>>
  BY <1>1 DEF UnpromptedPush, Broadcast
<1> QED
  BY <1>1, <1>3, <1>4, <1>5, ServerBase

LEMMA WriteBase ==
    ASSUME BaseInv, Write
    PROVE  BaseInv'
<1>1. dirty \in SUBSET Keys /\ db \in [Keys -> 1..Nil] /\ wire \in Seq(Calls) /\ stream \in Seq(ItemSet)
  BY DEF BaseInv, ShapeInv
<1>2. UNCHANGED <<scenario, call, out, connVars, wire, sent>>
  BY DEF Write
<1>3. Nil \in 1..Nil
  BY DEF Nil
<1>4. ASSUME NEW k \in Keys, NEW v \in (db[k] + 1)..Nil, db' = [db EXCEPT ![k] = v],
             IF ended THEN lost' = lost \cup {k} /\ UNCHANGED <<dirty, stream>>
             ELSE dirty' = dirty \cup {k} /\ UNCHANGED <<lost, stream>>
      PROVE  BaseInv'
  <2>1. db[k] \in 1..Nil /\ v \in 1..Nil
    BY <1>1, <1>4 DEF Nil
  <2>2. db' \in [Keys -> 1..Nil] /\ dirty' \in SUBSET Keys /\ stream' = stream /\ (ended => dirty' = dirty)
    BY <1>1, <1>4, <2>1
  <2> QED
    BY <1>1, <1>2, <2>2, ServerBase
<1>5. ASSUME db' = [k \in Keys |-> Nil], dirty' = {},
             IF ended THEN lost' = Keys /\ UNCHANGED stream
             ELSE stream' = Append(stream, Push("flush", {})) /\ UNCHANGED lost
      PROVE  BaseInv'
  <2>1. db' \in [Keys -> 1..Nil] /\ dirty' \in SUBSET Keys
    BY <1>3, <1>5
  <2>2. Append(stream, Push("flush", {})) \in Seq(ItemSet)
    BY PushFacts, AppendStream
  <2>3. stream' \in Seq(ItemSet) /\ (ended => stream' = stream)
    BY <1>1, <1>5, <2>2
  <2>4. ended => dirty' = dirty
    BY <1>5 DEF BaseInv, LineInv
  <2> QED
    BY <1>1, <1>2, <2>1, <2>3, <2>4, ServerBase
<1> QED
  BY <1>4, <1>5 DEF Write

LEMMA ReopenBase ==
    ASSUME BaseInv, Reopen
    PROVE  BaseInv'
<1>1. ended /\ ended' = FALSE /\ sync_lost' = FALSE /\ wire' = <<>>
  BY DEF Reopen
<1>2. UNCHANGED <<scenario, call, out, channel, in_flight, stream, db, dirty, sent>>
  BY DEF Reopen
<1>3. ShapeInv'
  BY <1>1, <1>2, EmptySeqs DEF BaseInv, ShapeInv
<1>4. CallInv'
  BY <1>2 DEF BaseInv, CallInv
<1>5. LineInv'
  BY <1>1, <1>2 DEF BaseInv, LineInv
<1> QED
  BY <1>3, <1>4, <1>5 DEF BaseInv

LEMMA NextBase ==
    ASSUME BaseInv, [Next]_vars
    PROVE  BaseInv'
<1>1. ASSUME NEW r \in Calls, CallStep(r) \/ Tick(r) \/ TimeOut(r)
      PROVE  BaseInv'
  BY <1>1, LookupBase, PromoteBase, ExpireBase, BeginFillBase, SendBase, ReceiveBase, CompleteBase,
     TickBase, TimeOutBase DEF CallStep
<1>2. CASE Age
  BY <1>2, ServerBase DEF Age, serverVars, BaseInv, ShapeInv
<1>3. CASE UNCHANGED vars
  BY <1>3, ServerBase DEF vars, serverVars, BaseInv, ShapeInv
<1> QED
  BY <1>1, <1>2, <1>3, PullBase, ReadBase, BreakBase, ExecuteBase, PushBase, WriteBase, ReopenBase DEF Next

\* A command is in the channel or was sent, never both, by a call that has begun to
\* wait; each entry of in_flight stands for one of the sent ones, whatever else happens.
THEOREM LinesHold == Spec => []BaseInv
<1>1. BaseInv /\ [Next]_vars => BaseInv'
  BY NextBase
<1> QED
  BY <1>1, InitBase, PTL DEF Spec

\* FatalSendError, which the caller retries, is never reported of a command that was
\* written to a socket (send_recv, PipelineSink).
THEOREM NeverResent == Spec => []SendErrorUnseen
<1>1. BaseInv => SendErrorUnseen
  BY DEF BaseInv, ShapeInv, LineInv, SendErrorUnseen
<1> QED
  BY <1>1, LinesHold, PTL

-----------------------------------------------------------------------------
(* Replies are matched by counting *)

\* Fenced(r), for the commands of a scenario.
IsFence(cmds, r) == cmds[r].kind = "SUNSUBSCRIBE"

\* NewEntry(r)
EntryFor(cmds, r) ==
    [of |-> r, left |-> IF cmds[r].kind \in {"pipeline", "transaction"} THEN cmds[r].width ELSE 1,
     buffer |-> <<>>, failed |-> FALSE, fenced_result |-> <<>>]

\* The numbers of the replies entry e still waits for once its command was executed.
\* Of a fence the first may not come.
Due(cmds, e, fence) ==
    IF ~IsFence(cmds, e.of) THEN (cmds[e.of].width - e.left + 1)..cmds[e.of].width
    ELSE IF e.fenced_result = <<>> THEN fence
    ELSE IF e.fenced_result[1].nth = 1 THEN {2} ELSE {}

MayDue(cmds, e) == Due(cmds, e, {1, 2})
MustDue(cmds, e) == Due(cmds, e, {2})

\* The commands on the wire are those of the last entries.
Suffix(cmds, F, W) ==
    /\ Len(W) <= Len(F)
    /\ \A j \in 1..Len(W) : F[Len(F) - Len(W) + j] = EntryFor(cmds, W[j])

\* A reply in the stream is due to an entry whose command was executed.
Placed(cmds, F, W, S) ==
    \A p \in DOMAIN S : HasReply(S[p]) =>
        \E i \in 1..(Len(F) - Len(W)) : F[i].of = S[p].of /\ S[p].nth \in MayDue(cmds, F[i])

\* What is due is in the stream.
Present(cmds, F, W, S) ==
    \A i \in 1..(Len(F) - Len(W)) : \A n \in MustDue(cmds, F[i]) :
        \E p \in DOMAIN S : HasReply(S[p]) /\ S[p].of = F[i].of /\ S[p].nth = n

\* Replies come in the order of the entries.
Ordered(F, S) ==
    \A p, q \in DOMAIN S : p < q /\ HasReply(S[p]) /\ HasReply(S[q]) =>
        \A i, j \in DOMAIN F : F[i].of = S[p].of /\ F[j].of = S[q].of =>
            i < j \/ (i = j /\ S[p].nth < S[q].nth)

Aligned(cmds, F, W, S) ==
    Suffix(cmds, F, W) /\ Placed(cmds, F, W, S) /\ Present(cmds, F, W, S) /\ Ordered(F, S)

IsLine(F, W, S) ==
    /\ F \in Seq(EntrySet) /\ W \in Seq(Calls) /\ S \in Seq(ItemSet)
    /\ \A i, j \in DOMAIN F : F[i].of = F[j].of => i = j

LEMMA Lengths ==
    ASSUME NEW F, NEW W, NEW S, IsLine(F, W, S)
    PROVE  /\ Len(F) \in Nat /\ DOMAIN F = 1..Len(F)
           /\ Len(W) \in Nat /\ DOMAIN W = 1..Len(W)
           /\ Len(S) \in Nat /\ DOMAIN S = 1..Len(S)
           /\ \A p \in DOMAIN S : S[p] \in ItemSet /\ S[p].nth \in Nat
           /\ \A i \in DOMAIN F : F[i] \in EntrySet
<1> DEFINE E == EntrySet
           I == ItemSet
<1>1. F \in Seq(E) /\ W \in Seq(Calls) /\ S \in Seq(I)
  BY DEF IsLine
<1>2. \A x \in I : x.nth \in Nat
  BY DEF ItemSet
<1> HIDE DEF E, I
<1>3. /\ Len(F) \in Nat /\ DOMAIN F = 1..Len(F)
      /\ Len(W) \in Nat /\ DOMAIN W = 1..Len(W)
      /\ Len(S) \in Nat /\ DOMAIN S = 1..Len(S)
      /\ \A p \in DOMAIN S : S[p] \in I
      /\ \A i \in DOMAIN F : F[i] \in E
  BY <1>1
<1> QED
  BY <1>2, <1>3 DEF E, I

LEMMA AlignedEmpty ==
    ASSUME NEW cmds
    PROVE  Aligned(cmds, <<>>, <<>>, <<>>)
<1>1. Len(<<>>) = 0 /\ DOMAIN <<>> = {} /\ 0 - 0 = 0 /\ 1..0 = {} /\ 0 <= 0
  OBVIOUS
<1> QED
  BY <1>1 DEF Aligned, Suffix, Placed, Present, Ordered

\* A command is written.
LEMMA AlignedSend ==
    ASSUME NEW cmds, NEW F, NEW W, NEW S, IsLine(F, W, S), Aligned(cmds, F, W, S), NEW r \in Calls,
           EntryFor(cmds, r) \in EntrySet, \A i \in DOMAIN F : F[i].of # r
    PROVE  Aligned(cmds, Append(F, EntryFor(cmds, r)), Append(W, r), S)
<1>1. PICK n \in Nat : n = Len(F) /\ DOMAIN F = 1..n
  BY Lengths
<1>2. PICK m \in Nat : m = Len(W) /\ DOMAIN W = 1..m
  BY Lengths
<1>3. PICK e \in EntrySet : e = EntryFor(cmds, r)
  OBVIOUS
<1>4. PICK F2 : F2 = Append(F, e)
  OBVIOUS
<1>5. PICK W2 : W2 = Append(W, r)
  OBVIOUS
<1>6. Len(F2) = n + 1 /\ F2[n + 1] = e /\ DOMAIN F2 = 1..(n + 1) /\ \A i \in 1..n : F2[i] = F[i]
  <2> DEFINE E == EntrySet
  <2>1. F \in Seq(E) /\ e \in E
    BY DEF IsLine
  <2> HIDE DEF E
  <2> QED
    BY <1>1, <1>4, <2>1
<1>7. Len(W2) = m + 1 /\ W2[m + 1] = r /\ \A i \in 1..m : W2[i] = W[i]
  BY <1>2, <1>5 DEF IsLine
<1>8. m <= n /\ \A j \in 1..m : F[n - m + j] = EntryFor(cmds, W[j])
  BY <1>1, <1>2 DEF Aligned, Suffix
<1>9. (n + 1) - (m + 1) = n - m
  OBVIOUS
<1>10. Suffix(cmds, F2, W2)
  <2>1. ASSUME NEW j \in 1..(m + 1) PROVE F2[n - m + j] = EntryFor(cmds, W2[j])
    <3>1. CASE j = m + 1
      <4>1. n - m + j = n + 1
        BY <3>1
      <4> QED
        BY <1>3, <1>6, <1>7, <3>1, <4>1
    <3>2. CASE j # m + 1
      <4>1. j \in 1..m
        BY <3>2
      <4>2. n - m + j \in 1..n
        BY <1>8, <4>1
      <4> QED
        BY <1>6, <1>7, <1>8, <4>1, <4>2
    <3> QED
      BY <3>1, <3>2
  <2>2. m + 1 <= n + 1
    BY <1>8
  <2> QED
    BY <1>6, <1>7, <1>9, <2>1, <2>2 DEF Suffix
<1>11. \A i \in 1..(n - m) : i \in 1..n /\ F2[i] = F[i]
  BY <1>6, <1>8
<1>12. Placed(cmds, F2, W2, S)
  BY <1>1, <1>2, <1>6, <1>7, <1>9, <1>11 DEF Aligned, Placed
<1>13. Present(cmds, F2, W2, S)
  <2>1. ASSUME NEW i \in 1..(n - m), NEW k \in MustDue(cmds, F2[i])
        PROVE  \E p \in DOMAIN S : HasReply(S[p]) /\ S[p].of = F2[i].of /\ S[p].nth = k
    <3>1. F2[i] = F[i]
      BY <1>11
    <3>2. PICK p \in DOMAIN S : HasReply(S[p]) /\ S[p].of = F[i].of /\ S[p].nth = k
      BY <1>1, <1>2, <3>1 DEF Aligned, Present
    <3> QED
      BY <3>1, <3>2
  <2> QED
    BY <1>6, <1>7, <1>9, <2>1 DEF Present
<1>14. Ordered(F2, S)
  <2>1. ASSUME NEW p \in DOMAIN S, HasReply(S[p]) PROVE S[p].of # r
    <3>1. PICK i \in 1..(n - m) : F[i].of = S[p].of
      BY <1>1, <1>2, <2>1 DEF Aligned, Placed
    <3> QED
      BY <1>1, <1>11, <3>1
  <2>2. e.of = r
    BY <1>3 DEF EntryFor
  <2>3. ASSUME NEW i \in DOMAIN F2, NEW p \in DOMAIN S, HasReply(S[p]), F2[i].of = S[p].of
        PROVE  i \in DOMAIN F /\ F[i].of = S[p].of
    <3>1. i # n + 1
      BY <1>6, <2>1, <2>2, <2>3
    <3>2. i \in 1..n
      BY <1>6, <3>1
    <3> QED
      BY <1>1, <1>6, <2>3, <3>2
  <2> QED
    BY <2>3 DEF Aligned, Ordered
<1>15. Aligned(cmds, F2, W2, S)
  BY <1>10, <1>12, <1>13, <1>14 DEF Aligned
<1> QED
  BY <1>3, <1>4, <1>5, <1>15

\* The stream after its first item.
LEMMA StreamTail ==
    ASSUME NEW F, NEW W, NEW S, IsLine(F, W, S), S # <<>>
    PROVE  /\ Head(S) = S[1] /\ 1 \in DOMAIN S
           /\ \A p \in DOMAIN Tail(S) : p + 1 \in DOMAIN S /\ p + 1 # 1 /\ p + 1 > 1 /\ Tail(S)[p] = S[p + 1]
           /\ \A p \in DOMAIN S : p = 1 \/ (p - 1 \in DOMAIN Tail(S) /\ Tail(S)[p - 1] = S[p])
           /\ \A p, q \in DOMAIN Tail(S) : p < q => p + 1 < q + 1
<1> DEFINE I == ItemSet
<1>1. S \in Seq(I)
  BY DEF IsLine
<1> HIDE DEF I
<1>2. PICK l \in Nat : l = Len(S) /\ l # 0 /\ DOMAIN S = 1..l
  BY <1>1
<1>3. Head(S) = S[1] /\ DOMAIN Tail(S) = 1..(l - 1) /\ \A p \in 1..(l - 1) : Tail(S)[p] = S[p + 1]
  BY <1>1, <1>2, TailFacts
<1>4. \A p \in 1..(l - 1) : p + 1 \in 1..l /\ p + 1 # 1 /\ p + 1 > 1
  BY <1>2
<1>5. \A p \in 1..l : p = 1 \/ (p - 1 \in 1..(l - 1) /\ (p - 1) + 1 = p)
  BY <1>2
<1>6. \A p, q \in 1..(l - 1) : p < q => p + 1 < q + 1
  BY <1>2
<1>7. 1 \in 1..l
  BY <1>2
<1>8. \A p \in 1..l : p = 1 \/ (p - 1 \in 1..(l - 1) /\ Tail(S)[p - 1] = S[p])
  BY <1>3, <1>5
<1> QED
  BY <1>2, <1>3, <1>4, <1>6, <1>7, <1>8

\* A push, which is nobody's reply, is read.
LEMMA AlignedSkip ==
    ASSUME NEW cmds, NEW F, NEW W, NEW S, IsLine(F, W, S), Aligned(cmds, F, W, S), S # <<>>,
           ~HasReply(Head(S))
    PROVE  Aligned(cmds, F, W, Tail(S))
<1>1. PICK T : T = Tail(S)
  OBVIOUS
<1>2. /\ ~HasReply(S[1])
      /\ \A p \in DOMAIN T : p + 1 \in DOMAIN S /\ T[p] = S[p + 1]
      /\ \A p \in DOMAIN S : p = 1 \/ (p - 1 \in DOMAIN T /\ T[p - 1] = S[p])
      /\ \A p, q \in DOMAIN T : p < q => p + 1 < q + 1
  BY <1>1, StreamTail
<1>3. Placed(cmds, F, W, T)
  BY <1>2 DEF Aligned, Placed
<1>4. Present(cmds, F, W, T)
  <2>1. ASSUME NEW i \in 1..(Len(F) - Len(W)), NEW n \in MustDue(cmds, F[i])
        PROVE  \E p \in DOMAIN T : HasReply(T[p]) /\ T[p].of = F[i].of /\ T[p].nth = n
    <3>1. PICK p \in DOMAIN S : HasReply(S[p]) /\ S[p].of = F[i].of /\ S[p].nth = n
      BY DEF Aligned, Present
    <3>2. p - 1 \in DOMAIN T /\ T[p - 1] = S[p]
      BY <1>2, <3>1
    <3> QED
      BY <3>1, <3>2
  <2> QED
    BY <2>1 DEF Present
<1>5. Ordered(F, T)
  BY <1>2 DEF Aligned, Ordered
<1> QED
  BY <1>1, <1>3, <1>4, <1>5 DEF Aligned

\* A push is sent.
LEMMA AlignedPush ==
    ASSUME NEW cmds, NEW F, NEW W, NEW S, IsLine(F, W, S), Aligned(cmds, F, W, S), NEW x \in ItemSet,
           ~HasReply(x)
    PROVE  Aligned(cmds, F, W, Append(S, x))
<1>1. PICK T : T = Append(S, x)
  OBVIOUS
<1>2. PICK l \in Nat : l = Len(S) /\ DOMAIN S = 1..l
  BY Lengths
<1>3. DOMAIN T = 1..(l + 1) /\ T[l + 1] = x /\ \A p \in 1..l : T[p] = S[p]
  <2> DEFINE I == ItemSet
  <2>1. S \in Seq(I) /\ x \in I
    BY DEF IsLine
  <2> HIDE DEF I
  <2> QED
    BY <1>1, <1>2, <2>1
<1>4. \A p \in DOMAIN S : p \in DOMAIN T /\ T[p] = S[p]
  BY <1>2, <1>3
<1>5. \A p \in DOMAIN T : HasReply(T[p]) => p \in DOMAIN S
  BY <1>2, <1>3
<1>6. Placed(cmds, F, W, T)
  BY <1>4, <1>5 DEF Aligned, Placed
<1>7. Present(cmds, F, W, T)
  <2>1. ASSUME NEW i \in 1..(Len(F) - Len(W)), NEW n \in MustDue(cmds, F[i])
        PROVE  \E p \in DOMAIN T : HasReply(T[p]) /\ T[p].of = F[i].of /\ T[p].nth = n
    <3>1. PICK p \in DOMAIN S : HasReply(S[p]) /\ S[p].of = F[i].of /\ S[p].nth = n
      BY DEF Aligned, Present
    <3> QED
      BY <1>4, <3>1
  <2> QED
    BY <2>1 DEF Present
<1>8. Ordered(F, T)
  BY <1>4, <1>5 DEF Aligned, Ordered
<1> QED
  BY <1>1, <1>6, <1>7, <1>8 DEF Aligned

\* The reply at the front belongs to the first entry and is the next one due to it,
\* unless nothing is due to it.
LEMMA HeadOwn ==
    ASSUME NEW cmds, NEW F, NEW W, NEW S, IsLine(F, W, S), Aligned(cmds, F, W, S), S # <<>>,
           HasReply(Head(S))
    PROVE  /\ 1 \in 1..(Len(F) - Len(W))
           /\ \/ MustDue(cmds, F[1]) = {} /\ \E i \in DOMAIN F : F[i].of = Head(S).of
              \/ /\ F[1].of = Head(S).of /\ Head(S).nth \in MayDue(cmds, F[1])
                 /\ \A n \in MustDue(cmds, F[1]) : n = Head(S).nth \/ Head(S).nth < n
<1>1. PICK n \in Nat : n = Len(F) /\ DOMAIN F = 1..n
  BY Lengths
<1>2. PICK m \in Nat : m = Len(W) /\ m <= n
  BY <1>1, Lengths DEF Aligned, Suffix
<1>3. Head(S) = S[1] /\ 1 \in DOMAIN S /\ HasReply(S[1])
  BY StreamTail
<1>4. PICK i \in 1..(n - m) : F[i].of = S[1].of /\ S[1].nth \in MayDue(cmds, F[i])
  BY <1>1, <1>2, <1>3 DEF Aligned, Placed
<1>5. 1 \in 1..(n - m) /\ i \in 1..n /\ 1 \in 1..n
  BY <1>2, <1>4
<1>6. ASSUME NEW k \in MustDue(cmds, F[1]) PROVE i = 1 /\ (k = S[1].nth \/ S[1].nth < k)
  <2>1. PICK p \in DOMAIN S : HasReply(S[p]) /\ S[p].of = F[1].of /\ S[p].nth = k
    BY <1>1, <1>2, <1>5 DEF Aligned, Present
  <2>2. CASE p = 1
    BY <1>1, <1>4, <1>5, <2>1, <2>2 DEF IsLine
  <2>3. CASE p # 1
    <3>1. 1 < p
      <4>1. p \in 1..Len(S) /\ Len(S) \in Nat
        BY Lengths
      <4> QED
        BY <2>3, <4>1
    <3>2. i < 1 \/ (i = 1 /\ S[1].nth < S[p].nth)
      BY <1>1, <1>3, <1>4, <1>5, <2>1, <3>1 DEF Aligned, Ordered
    <3>3. ~(i < 1)
      BY <1>5
    <3> QED
      BY <2>1, <3>2, <3>3
  <2> QED
    BY <2>2, <2>3
<1> QED
  BY <1>1, <1>2, <1>3, <1>4, <1>5, <1>6

\* The first entry was given the reply at the front and waits for less.
LEMMA AlignedKeep ==
    ASSUME NEW cmds, NEW F, NEW W, NEW S, IsLine(F, W, S), Aligned(cmds, F, W, S), S # <<>>,
           HasReply(Head(S)), 1 \in 1..(Len(F) - Len(W)), F[1].of = Head(S).of, NEW e, e.of = F[1].of,
           \A n \in MayDue(cmds, F[1]) : Head(S).nth < n => n \in MayDue(cmds, e),
           \A n \in MustDue(cmds, e) : n \in MustDue(cmds, F[1]) /\ n # Head(S).nth,
           NEW G, Len(G) = Len(F), DOMAIN G = DOMAIN F, G[1] = e, \A i \in DOMAIN F : i # 1 => G[i] = F[i]
    PROVE  Aligned(cmds, G, W, Tail(S))
<1>1. PICK n \in Nat : n = Len(F) /\ DOMAIN F = 1..n
  BY Lengths
<1>2. PICK m \in Nat : m = Len(W) /\ m <= n
  BY <1>1, Lengths DEF Aligned, Suffix
<1>3. 1 <= n - m /\ \A i \in 1..(n - m) : i \in DOMAIN F
  BY <1>1, <1>2
<1>4. \A i \in DOMAIN F : G[i].of = F[i].of
  OBVIOUS
<1>5. PICK T : T = Tail(S)
  OBVIOUS
<1>6. /\ Head(S) = S[1] /\ 1 \in DOMAIN S
      /\ \A p \in DOMAIN T : p + 1 \in DOMAIN S /\ p + 1 > 1 /\ T[p] = S[p + 1]
      /\ \A p \in DOMAIN S : p = 1 \/ (p - 1 \in DOMAIN T /\ T[p - 1] = S[p])
      /\ \A p, q \in DOMAIN T : p < q => p + 1 < q + 1
  BY <1>5, StreamTail
<1>7. Suffix(cmds, G, W)
  <2>1. ASSUME NEW j \in 1..m PROVE n - m + j \in DOMAIN F /\ n - m + j # 1
    BY <1>1, <1>2, <1>3
  <2> QED
    BY <1>1, <1>2, <2>1 DEF Aligned, Suffix
<1>8. Placed(cmds, G, W, T)
  <2>1. ASSUME NEW p \in DOMAIN T, HasReply(T[p])
        PROVE  \E i \in 1..(n - m) : G[i].of = T[p].of /\ T[p].nth \in MayDue(cmds, G[i])
    <3>1. PICK i \in 1..(n - m) : F[i].of = T[p].of /\ T[p].nth \in MayDue(cmds, F[i])
      BY <1>1, <1>2, <1>6, <2>1 DEF Aligned, Placed
    <3>2. CASE i = 1
      <4>1. 1 < p + 1
        <5>1. p + 1 \in Nat
          BY <1>6, Lengths
        <5> QED
          BY <1>6, <5>1
      <4>2. i < i \/ S[1].nth < S[p + 1].nth
        BY <1>3, <1>6, <2>1, <3>1, <3>2, <4>1 DEF Aligned, Ordered
      <4>3. ~(i < i)
        BY <1>2
      <4>4. S[1].nth < T[p].nth
        BY <1>6, <4>2, <4>3
      <4> QED
        BY <1>3, <1>4, <1>6, <3>1, <3>2, <4>4
    <3>3. CASE i # 1
      BY <1>3, <3>1, <3>3
    <3> QED
      BY <3>2, <3>3
  <2> QED
    BY <1>1, <1>2, <2>1 DEF Placed
<1>9. Present(cmds, G, W, T)
  <2>1. ASSUME NEW i \in 1..(n - m), NEW k \in MustDue(cmds, G[i])
        PROVE  \E p \in DOMAIN T : HasReply(T[p]) /\ T[p].of = G[i].of /\ T[p].nth = k
    <3>1. k \in MustDue(cmds, F[i]) /\ (i = 1 => k # S[1].nth)
      BY <1>3, <1>6
    <3>2. PICK p \in DOMAIN S : HasReply(S[p]) /\ S[p].of = F[i].of /\ S[p].nth = k
      BY <1>1, <1>2, <3>1 DEF Aligned, Present
    <3>3. p # 1
      <4> SUFFICES ASSUME p = 1 PROVE FALSE
        OBVIOUS
      <4>1. F[i].of = F[1].of /\ i \in DOMAIN F /\ 1 \in DOMAIN F
        BY <1>1, <1>2, <1>3, <1>6, <3>2
      <4>2. i = 1
        BY <4>1 DEF IsLine
      <4> QED
        BY <3>1, <3>2, <4>2
    <3>4. p - 1 \in DOMAIN T /\ T[p - 1] = S[p]
      BY <1>6, <3>3
    <3> QED
      BY <1>3, <1>4, <3>2, <3>4
  <2>2. Len(G) - Len(W) = n - m
    BY <1>1, <1>2
  <2>3. \A i \in 1..(n - m) : \A k \in MustDue(cmds, G[i]) :
          \E p \in DOMAIN T : HasReply(T[p]) /\ T[p].of = G[i].of /\ T[p].nth = k
    BY <2>1
  <2> QED
    BY <2>2, <2>3 DEF Present
<1>10. Ordered(G, T)
  <2>1. ASSUME NEW p \in DOMAIN T, NEW q \in DOMAIN T, p < q, HasReply(T[p]), HasReply(T[q]),
               NEW i \in DOMAIN G, NEW j \in DOMAIN G, G[i].of = T[p].of, G[j].of = T[q].of
        PROVE  i < j \/ (i = j /\ T[p].nth < T[q].nth)
    BY <1>4, <1>6, <2>1 DEF Aligned, Ordered
  <2> QED
    BY <2>1 DEF Ordered
<1> QED
  BY <1>5, <1>7, <1>8, <1>9, <1>10 DEF Aligned

\* The first entry was given the reply at the front and waits for no other.
LEMMA AlignedPop ==
    ASSUME NEW cmds, NEW F, NEW W, NEW S, IsLine(F, W, S), Aligned(cmds, F, W, S), S # <<>>,
           HasReply(Head(S)), 1 \in 1..(Len(F) - Len(W)), F[1].of = Head(S).of,
           \A n \in MayDue(cmds, F[1]) : ~(Head(S).nth < n)
    PROVE  Aligned(cmds, Tail(F), W, Tail(S))
<1>1. PICK n \in Nat : n = Len(F) /\ DOMAIN F = 1..n
  BY Lengths
<1>2. PICK m \in Nat : m = Len(W) /\ m <= n
  BY <1>1, Lengths DEF Aligned, Suffix
<1>3. 1 <= n - m /\ 1 \in 1..n
  BY <1>1, <1>2
<1>4. PICK G : G = Tail(F)
  OBVIOUS
<1>5. Len(G) = n - 1 /\ DOMAIN G = 1..(n - 1) /\ \A i \in 1..(n - 1) : i + 1 \in DOMAIN F /\ G[i] = F[i + 1]
  <2> DEFINE E == EntrySet
  <2>1. F \in Seq(E)
    BY DEF IsLine
  <2> HIDE DEF E
  <2>2. F # <<>>
    BY <1>1, <1>3
  <2> QED
    BY <1>1, <1>4, <2>1, <2>2, TailFacts
<1>6. PICK T : T = Tail(S)
  OBVIOUS
<1>7. /\ Head(S) = S[1] /\ 1 \in DOMAIN S
      /\ \A p \in DOMAIN T : p + 1 \in DOMAIN S /\ p + 1 > 1 /\ T[p] = S[p + 1]
      /\ \A p \in DOMAIN S : p = 1 \/ (p - 1 \in DOMAIN T /\ T[p - 1] = S[p])
      /\ \A p, q \in DOMAIN T : p < q => p + 1 < q + 1
  BY <1>6, StreamTail
<1>8. (n - 1) - m = (n - m) - 1
  OBVIOUS
<1>9. Suffix(cmds, G, W)
  <2>1. m <= n - 1
    BY <1>2, <1>3
  <2>2. ASSUME NEW j \in 1..m PROVE (n - 1) - m + j \in 1..(n - 1) /\ ((n - 1) - m + j) + 1 = n - m + j
    BY <1>2, <1>3
  <2>3. \A j \in 1..m : G[(n - 1) - m + j] = F[n - m + j]
    BY <1>5, <2>2
  <2> QED
    BY <1>1, <1>2, <1>5, <2>1, <2>3 DEF Aligned, Suffix
<1>10. ASSUME NEW i \in 1..(n - m), i # 1
       PROVE  i - 1 \in 1..((n - m) - 1) /\ G[i - 1] = F[i]
  <2>1. i - 1 \in 1..((n - m) - 1) /\ i - 1 \in 1..(n - 1) /\ (i - 1) + 1 = i
    BY <1>2, <1>3, <1>10
  <2> QED
    BY <1>5, <2>1
<1>11. Placed(cmds, G, W, T)
  <2>1. ASSUME NEW p \in DOMAIN T, HasReply(T[p])
        PROVE  \E i \in 1..((n - m) - 1) : G[i].of = T[p].of /\ T[p].nth \in MayDue(cmds, G[i])
    <3>1. PICK i \in 1..(n - m) : F[i].of = T[p].of /\ T[p].nth \in MayDue(cmds, F[i])
      BY <1>1, <1>2, <1>7, <2>1 DEF Aligned, Placed
    <3>2. i # 1
      <4> SUFFICES ASSUME i = 1 PROVE FALSE
        OBVIOUS
      <4>1. 1 < p + 1
        <5>1. p + 1 \in Nat
          BY <1>7, Lengths
        <5> QED
          BY <1>7, <5>1
      <4>2. i < i \/ S[1].nth < S[p + 1].nth
        BY <1>1, <1>3, <1>7, <2>1, <3>1, <4>1 DEF Aligned, Ordered
      <4>3. ~(i < i)
        BY <1>2
      <4> QED
        BY <1>7, <3>1, <4>2, <4>3
    <3> QED
      BY <1>10, <3>1, <3>2
  <2> QED
    BY <1>2, <1>5, <1>8, <2>1 DEF Placed
<1>12. ASSUME NEW i \in 1..((n - m) - 1) PROVE i + 1 \in 1..(n - m) /\ i + 1 # 1 /\ i + 1 \in DOMAIN F /\ G[i] = F[i + 1]
  <2>1. i + 1 \in 1..(n - m) /\ i + 1 # 1 /\ i \in 1..(n - 1)
    BY <1>2, <1>3
  <2> QED
    BY <1>5, <2>1
<1>13. Present(cmds, G, W, T)
  <2>1. ASSUME NEW i \in 1..((n - m) - 1), NEW k \in MustDue(cmds, G[i])
        PROVE  \E p \in DOMAIN T : HasReply(T[p]) /\ T[p].of = G[i].of /\ T[p].nth = k
    <3>1. i + 1 \in 1..(n - m) /\ i + 1 # 1 /\ i + 1 \in DOMAIN F /\ G[i] = F[i + 1]
      BY <1>12
    <3>2. PICK p \in DOMAIN S : HasReply(S[p]) /\ S[p].of = F[i + 1].of /\ S[p].nth = k
      BY <1>1, <1>2, <3>1 DEF Aligned, Present
    <3>3. p # 1
      <4> SUFFICES ASSUME p = 1 PROVE FALSE
        OBVIOUS
      <4>1. F[i + 1].of = F[1].of /\ 1 \in DOMAIN F
        BY <1>1, <1>3, <1>7, <3>2
      <4> QED
        BY <3>1, <4>1 DEF IsLine
    <3>4. p - 1 \in DOMAIN T /\ T[p - 1] = S[p]
      BY <1>7, <3>3
    <3> QED
      BY <3>1, <3>2, <3>4
  <2> QED
    <3>1. Len(G) - Len(W) = (n - m) - 1
      BY <1>2, <1>5, <1>8
    <3> QED
      BY <2>1, <3>1 DEF Present
<1>14. Ordered(G, T)
  <2>1. ASSUME NEW p \in DOMAIN T, NEW q \in DOMAIN T, p < q, HasReply(T[p]), HasReply(T[q]),
               NEW i \in DOMAIN G, NEW j \in DOMAIN G, G[i].of = T[p].of, G[j].of = T[q].of
        PROVE  i < j \/ (i = j /\ T[p].nth < T[q].nth)
    <3>1. /\ i + 1 \in DOMAIN F /\ G[i] = F[i + 1] /\ j + 1 \in DOMAIN F /\ G[j] = F[j + 1]
          /\ p + 1 \in DOMAIN S /\ q + 1 \in DOMAIN S /\ T[p] = S[p + 1] /\ T[q] = S[q + 1] /\ p + 1 < q + 1
      BY <1>5, <1>7, <2>1
    <3>2. i + 1 < j + 1 \/ (i + 1 = j + 1 /\ T[p].nth < T[q].nth)
      BY <2>1, <3>1 DEF Aligned, Ordered
    <3>3. i \in Nat /\ j \in Nat
      BY <1>5
    <3>4. (i + 1 < j + 1 => i < j) /\ (i + 1 = j + 1 => i = j)
      BY <3>3
    <3> QED
      BY <3>2, <3>4
  <2> QED
    BY <2>1 DEF Ordered
<1> QED
  BY <1>4, <1>6, <1>9, <1>11, <1>13, <1>14 DEF Aligned

\* What the server says to command r is what its entry waits for, in order.
AnswerTo(cmds, r, items) ==
    /\ items \in Seq(ItemSet)
    /\ \A p \in DOMAIN items : HasReply(items[p]) =>
         items[p].of = r /\ items[p].nth \in MayDue(cmds, EntryFor(cmds, r))
    /\ \A n \in MustDue(cmds, EntryFor(cmds, r)) :
         \E p \in DOMAIN items : HasReply(items[p]) /\ items[p].nth = n
    /\ \A p, q \in DOMAIN items : p < q /\ HasReply(items[p]) /\ HasReply(items[q]) =>
         items[p].nth < items[q].nth

\* The server executes the first command on the wire.
LEMMA AlignedExecute ==
    ASSUME NEW cmds, NEW F, NEW W, NEW S, IsLine(F, W, S), Aligned(cmds, F, W, S), W # <<>>,
           NEW items, AnswerTo(cmds, Head(W), items)
    PROVE  Aligned(cmds, F, Tail(W), S \o items)
<1>1. PICK n \in Nat : n = Len(F) /\ DOMAIN F = 1..n
  BY Lengths
<1>2. PICK m \in Nat : m = Len(W) /\ m <= n /\ DOMAIN W = 1..m
  BY <1>1, Lengths DEF Aligned, Suffix
<1>3. PICK V : V = Tail(W)
  OBVIOUS
<1>4. /\ Len(V) = m - 1 /\ 1 <= m /\ Head(W) = W[1]
      /\ \A j \in 1..(m - 1) : V[j] = W[j + 1]
  <2>1. W \in Seq(Calls)
    BY DEF IsLine
  <2>2. m # 0
    BY <1>2, <2>1
  <2> QED
    BY <1>2, <1>3, <2>1, <2>2, TailFacts
<1>5. PICK T : T = S \o items
  OBVIOUS
<1>6. PICK l \in Nat : l = Len(S) /\ DOMAIN S = 1..l
  BY Lengths
<1>7. PICK o \in Nat : o = Len(items) /\ DOMAIN items = 1..o
  <2> DEFINE I == ItemSet
  <2>1. items \in Seq(I)
    BY DEF AnswerTo
  <2> HIDE DEF I
  <2> QED
    BY <2>1
<1>8. /\ DOMAIN T = 1..(l + o) /\ \A p \in 1..l : T[p] = S[p]
      /\ \A p \in 1..o : T[l + p] = items[p]
  <2> DEFINE I == ItemSet
  <2>1. items \in Seq(I) /\ S \in Seq(I)
    BY DEF AnswerTo, IsLine
  <2> HIDE DEF I
  <2> QED
    BY <1>5, <1>6, <1>7, <2>1
<1>9. \A p \in DOMAIN T : p \in DOMAIN S \/ (p > l /\ p - l \in DOMAIN items /\ T[p] = items[p - l])
  <2>1. ASSUME NEW p \in 1..(l + o), p \notin 1..l PROVE p > l /\ p - l \in 1..o /\ l + (p - l) = p
    BY <1>6, <1>7, <2>1
  <2> QED
    BY <1>6, <1>7, <1>8, <2>1
<1>10. \A p \in DOMAIN S : p \in DOMAIN T /\ T[p] = S[p]
  BY <1>6, <1>7, <1>8
<1>11. PICK a \in Nat : a = n - m + 1 /\ n - (m - 1) = a /\ a \in 1..n
  <2>1. n - m + 1 \in 1..n /\ n - (m - 1) = n - m + 1
    BY <1>2, <1>4
  <2> QED
    BY <2>1
<1>12. F[a] = EntryFor(cmds, Head(W)) /\ F[a].of = Head(W)
  <2>1. 1 \in 1..m
    BY <1>2, <1>4
  <2>2. F[n - m + 1] = EntryFor(cmds, W[1])
    BY <1>1, <1>2, <2>1 DEF Aligned, Suffix
  <2> QED
    BY <1>4, <1>11, <2>2 DEF EntryFor
<1>13. Suffix(cmds, F, V)
  <2>1. m - 1 <= n
    BY <1>2
  <2>2. ASSUME NEW j \in 1..(m - 1) PROVE j + 1 \in 1..m /\ n - (m - 1) + j = n - m + (j + 1)
    BY <1>2
  <2>3. \A j \in 1..(m - 1) : F[n - (m - 1) + j] = EntryFor(cmds, V[j])
    BY <1>1, <1>2, <1>4, <2>2 DEF Aligned, Suffix
  <2> QED
    BY <1>1, <1>4, <2>1, <2>3 DEF Suffix
<1>14. \A i \in 1..(n - m) : i \in 1..a /\ i < a /\ i \in 1..n
  BY <1>2, <1>11
<1>15. a \in 1..a
  BY <1>11
<1>16. Placed(cmds, F, V, T)
  <2>1. ASSUME NEW p \in DOMAIN T, HasReply(T[p])
        PROVE  \E i \in 1..a : F[i].of = T[p].of /\ T[p].nth \in MayDue(cmds, F[i])
    <3>1. CASE p \in DOMAIN S
      <4>1. PICK i \in 1..(n - m) : F[i].of = S[p].of /\ S[p].nth \in MayDue(cmds, F[i])
        BY <1>1, <1>2, <1>10, <2>1, <3>1 DEF Aligned, Placed
      <4> QED
        BY <1>10, <1>14, <3>1, <4>1
    <3>2. CASE p \notin DOMAIN S
      BY <1>9, <1>12, <1>15, <2>1, <3>2 DEF AnswerTo
    <3> QED
      BY <3>1, <3>2
  <2> QED
    BY <1>1, <1>4, <1>11, <2>1 DEF Placed
<1>17. Present(cmds, F, V, T)
  <2>1. ASSUME NEW i \in 1..a, NEW k \in MustDue(cmds, F[i])
        PROVE  \E p \in DOMAIN T : HasReply(T[p]) /\ T[p].of = F[i].of /\ T[p].nth = k
    <3>1. CASE i = a
      <4>1. PICK p \in DOMAIN items : HasReply(items[p]) /\ items[p].nth = k
        BY <1>12, <3>1 DEF AnswerTo
      <4>2. items[p].of = F[i].of
        BY <1>12, <3>1, <4>1 DEF AnswerTo
      <4>3. l + p \in DOMAIN T /\ T[l + p] = items[p]
        BY <1>7, <1>8
      <4> QED
        BY <4>1, <4>2, <4>3
    <3>2. CASE i # a
      <4>1. i \in 1..(n - m)
        BY <1>2, <1>11, <3>2
      <4>2. PICK p \in DOMAIN S : HasReply(S[p]) /\ S[p].of = F[i].of /\ S[p].nth = k
        BY <1>1, <1>2, <4>1 DEF Aligned, Present
      <4> QED
        BY <1>10, <4>2
    <3> QED
      BY <3>1, <3>2
  <2> QED
    <3>1. Len(F) - Len(V) = a
      BY <1>1, <1>4, <1>11
    <3> QED
      BY <2>1, <3>1 DEF Present
<1>18. Ordered(F, T)
  <2>1. ASSUME NEW p \in DOMAIN T, NEW q \in DOMAIN T, p < q, HasReply(T[p]), HasReply(T[q]),
               NEW i \in DOMAIN F, NEW j \in DOMAIN F, F[i].of = T[p].of, F[j].of = T[q].of
        PROVE  i < j \/ (i = j /\ T[p].nth < T[q].nth)
    <3>1. ASSUME NEW x \in DOMAIN T, HasReply(T[x]), x \notin DOMAIN S, NEW b \in DOMAIN F, F[b].of = T[x].of
          PROVE  b = a
      <4>1. T[x].of = F[a].of
        BY <1>9, <1>12, <3>1 DEF AnswerTo
      <4> QED
        BY <1>1, <1>11, <3>1, <4>1 DEF IsLine
    <3>2. ASSUME NEW x \in DOMAIN T, HasReply(T[x]), x \in DOMAIN S, NEW b \in DOMAIN F, F[b].of = T[x].of
          PROVE  b < a
      <4>1. PICK c \in 1..(n - m) : F[c].of = S[x].of
        BY <1>1, <1>2, <1>10, <3>2 DEF Aligned, Placed
      <4>2. b = c
        BY <1>1, <1>10, <1>14, <3>2, <4>1 DEF IsLine
      <4> QED
        BY <1>14, <4>2
    <3>3. CASE q \in DOMAIN S
      <4>1. p \in DOMAIN S
        BY <1>6, <1>7, <1>8, <2>1, <3>3
      <4> QED
        BY <1>10, <2>1, <3>3, <4>1 DEF Aligned, Ordered
    <3>4. CASE q \notin DOMAIN S /\ p \in DOMAIN S
      BY <2>1, <3>1, <3>2, <3>4
    <3>5. CASE q \notin DOMAIN S /\ p \notin DOMAIN S
      <4>1. i = a /\ j = a
        BY <2>1, <3>1, <3>5
      <4>2. p - l \in DOMAIN items /\ T[p] = items[p - l] /\ q - l \in DOMAIN items /\ T[q] = items[q - l]
        BY <1>9, <3>5
      <4>3. p - l < q - l
        BY <1>6, <1>7, <1>8, <2>1
      <4>4. T[p].nth < T[q].nth
        BY <2>1, <4>2, <4>3 DEF AnswerTo
      <4> QED
        BY <4>1, <4>4
    <3> QED
      BY <3>3, <3>4, <3>5
  <2> QED
    BY <2>1 DEF Ordered
<1> QED
  BY <1>3, <1>5, <1>13, <1>16, <1>17, <1>18 DEF Aligned

-----------------------------------------------------------------------------
(* The steps of a caller, by what they do to its record, its oneshot and the cache *)

Underway == {"lookup", "promote", "expire", "fill", "send", "full", "await"}

\* Caller r goes on and has no reply yet.
Moves(r) ==
    \E c \in CallSet :
        /\ call' = [call EXCEPT ![r] = c] /\ out' = out
        /\ call[r].pc \in Underway \ {"await"} /\ c.pc \in Underway /\ c.result = "none"
        /\ c.pc = "await" => call[r].pc \in {"send", "full"}
        /\ \/ /\ c.missing = call[r].missing
              /\ cache' \in {cache, Promoted(cache, call[r].key), remove_if_expired(cache, call[r].key)}
           \/ /\ c.missing = call[r].missing \cup {call[r].key} /\ call[r].key \in Keys /\ call[r].pc = "fill"
              /\ c.pc # "await" /\ cache' = WithFill(cache, call[r].key, r)

\* All it asked for was cached.
Hits(r) ==
    /\ call[r].pc = "promote" /\ call[r].missing = {} /\ out' = out
    /\ call' = [call EXCEPT ![r] = Done("ok", <<>>)]
    /\ cache' = Promoted(cache, call[r].key)

\* It ends without offering anything to the cache.
Ends(r) ==
    \E result \in Results : \E items \in Seq(ItemSet) :
        /\ Finish(r, result, items)
        /\ call[r].pc \in {"send", "full", "await"}
        /\ result = "ok" => out[r].ok /\ items = out[r].items
        /\ out' \in {out, [out EXCEPT ![r] = Unset]}

\* Its reply is in and goes to the cache.
Answered(r) ==
    \E c \in CallSet :
        /\ call[r].pc = "await" /\ out[r].ok /\ UsesCache(r)
        /\ call' = [call EXCEPT ![r] = c] /\ out' = [out EXCEPT ![r] = Unset] /\ cache' = cache
        /\ c.pc = "complete" /\ c.result = "none" /\ c.items = out[r].items
        /\ c.todo = call[r].missing /\ c.missing = call[r].missing

Offers(r) ==
    \E k \in call[r].todo :
        /\ call[r].pc = "complete" /\ out' = out
        /\ cache' = IF call[r].items[1].vals[k] = Nil THEN WithoutFill(cache, k, r)
                    ELSE insert_if_active_fill(cache, k, call[r].items[1].vals[k], r)
        /\ IF call[r].todo = {k} THEN call' = [call EXCEPT ![r] = Done("ok", call[r].items)]
           ELSE \E c \in CallSet :
                  /\ call' = [call EXCEPT ![r] = c]
                  /\ c.pc = "complete" /\ c.result = "none" /\ c.items = call[r].items
                  /\ c.todo = call[r].todo \ {k} /\ c.missing = call[r].missing

LEMMA LookupCase ==
    ASSUME BaseInv, NEW r \in Calls, Lookup(r)
    PROVE  Moves(r)
<1>1. call[r] \in CallSet /\ CallOK(scenario, r, call[r])
  BY DEF BaseInv, ShapeInv, CallInv
<1>2. PICK k : k = CHOOSE key \in call[r].todo : TRUE
  OBVIOUS
<1>3. k \in call[r].todo /\ k \in Keys \cup {NoCall} /\ call[r].pc = "lookup" /\ call[r].result = "none"
  BY <1>1, <1>2 DEF Lookup, CallOK, CallSet
<1>4. PICK pc \in {"expire", "promote", "fill"} :
        call' = [call EXCEPT ![r] = [call[r] EXCEPT !.key = k, !.pc = pc]]
  BY <1>2 DEF Lookup, BaseInv, ShapeInv
<1>5. PICK c : c = [call[r] EXCEPT !.key = k, !.pc = pc]
  OBVIOUS
<1>6. pc \in PCs
  BY DEF PCs
<1>7. /\ c \in CallSet /\ c.pc = pc /\ c.missing = call[r].missing /\ c.result = call[r].result
  BY <1>1, <1>3, <1>5, <1>6 DEF CallSet
<1>8. out' = out /\ cache' = cache
  BY DEF Lookup
<1>9. call[r].pc \in Underway \ {"await"} /\ c.pc \in Underway /\ c.pc # "await"
  BY <1>3, <1>7 DEF Underway
<1> QED
  BY <1>3, <1>4, <1>5, <1>7, <1>8, <1>9 DEF Moves

LEMMA PromoteCase ==
    ASSUME BaseInv, NEW r \in Calls, Promote(r)
    PROVE  Moves(r) \/ Hits(r)
<1>1. call[r].pc = "promote" /\ out' = out /\ cache' = Promoted(cache, call[r].key)
  BY DEF Promote
<1>2. CASE call[r].todo = {call[r].key} /\ call[r].missing = {}
  <2>1. call' = [call EXCEPT ![r] = Done("ok", <<>>)]
    BY <1>2 DEF Promote
  <2> QED
    BY <1>1, <1>2, <2>1 DEF Hits
<1>3. CASE ~(call[r].todo = {call[r].key} /\ call[r].missing = {})
  <2>1. call' = [call EXCEPT ![r] = Looked(r, call[r].missing)]
    BY <1>3 DEF Promote
  <2>2. PICK c : c = Looked(r, call[r].missing)
    OBVIOUS
  <2>3. c \in CallSet /\ c.missing = call[r].missing /\ c.pc \in {"lookup", "send"} /\ c.result = "none"
    BY <1>1, <1>3, <2>2, LookedFacts
  <2>4. call[r].pc \in Underway \ {"await"} /\ c.pc \in Underway /\ c.pc # "await"
    BY <1>1, <2>3 DEF Underway
  <2> QED
    BY <1>1, <2>1, <2>2, <2>3, <2>4 DEF Moves
<1> QED
  BY <1>2, <1>3

LEMMA ExpireCase ==
    ASSUME BaseInv, NEW r \in Calls, Expire(r)
    PROVE  Moves(r)
<1>1. call[r] \in CallSet /\ CallOK(scenario, r, call[r]) /\ call[r].pc = "expire" /\ out' = out
      /\ cache' = remove_if_expired(cache, call[r].key)
  BY DEF BaseInv, ShapeInv, CallInv, Expire
<1>2. PICK c : c = [call[r] EXCEPT !.pc = "fill"]
  OBVIOUS
<1>3. c \in CallSet /\ c.pc = "fill" /\ c.missing = call[r].missing /\ c.result = call[r].result
  BY <1>1, <1>2 DEF CallSet, PCs
<1>4. call' = [call EXCEPT ![r] = c] /\ call[r].result = "none"
  BY <1>1, <1>2 DEF Expire, CallOK
<1>5. call[r].pc \in Underway \ {"await"} /\ c.pc \in Underway /\ c.pc # "await"
  BY <1>1, <1>3 DEF Underway
<1> QED
  BY <1>1, <1>3, <1>4, <1>5 DEF Moves

LEMMA BeginFillCase ==
    ASSUME BaseInv, NEW r \in Calls, BeginFill(r)
    PROVE  Moves(r)
<1>1. call[r].pc = "fill" /\ out' = out /\ cache' = WithFill(cache, call[r].key, r)
  BY DEF BeginFill
<1>2. PICK missing : missing = call[r].missing \cup {call[r].key}
  OBVIOUS
<1>3. PICK c : c = Looked(r, missing)
  OBVIOUS
<1>4. c \in CallSet /\ c.missing = missing /\ c.pc \in {"lookup", "send"} /\ c.result = "none"
  BY <1>1, <1>2, <1>3, LookedFacts
<1>5. call' = [call EXCEPT ![r] = c]
  BY <1>2, <1>3 DEF BeginFill
<1>6. call[r].key \in Keys
  BY <1>1 DEF BaseInv, ShapeInv, CallInv, CallOK, CallSet
<1>7. call[r].pc \in Underway \ {"await"} /\ c.pc \in Underway /\ c.pc # "await"
  BY <1>1, <1>4 DEF Underway
<1> QED
  BY <1>1, <1>2, <1>4, <1>5, <1>6, <1>7 DEF Moves

LEMMA SendCase ==
    ASSUME BaseInv, NEW r \in Calls, Send(r)
    PROVE  Moves(r) \/ Ends(r)
<1>1. call[r] \in CallSet /\ CallOK(scenario, r, call[r])
  BY DEF BaseInv, ShapeInv, CallInv
<1>2. call[r].pc \in {"send", "full"} /\ out' = out /\ call[r].result = "none"
  BY <1>1 DEF Send, CallOK
<1>3. CASE Finish(r, "FatalSendError", <<>>)
  <2>1. "FatalSendError" \in Results /\ <<>> \in Seq(ItemSet)
    BY EmptySeqs DEF Results
  <2> QED
    BY <1>2, <1>3, <2>1, Zenon DEF Ends
<1>4. CASE Enqueue(r)
  <2>1. PICK c : c = [call[r] EXCEPT !.pc = "await", !.ticks = 0, !.moved = FALSE]
    OBVIOUS
  <2>2. c \in CallSet /\ c.pc = "await" /\ c.missing = call[r].missing /\ c.result = call[r].result
    <3>1. 0 \in 0..1 /\ "await" \in PCs
      BY DEF PCs
    <3>2. PICK zero \in 0..1 : zero = 0
      BY <3>1
    <3>3. c = [call[r] EXCEPT !.pc = "await", !.ticks = zero, !.moved = FALSE]
      BY <2>1, <3>2
    <3> QED
      BY <1>1, <3>1, <3>3 DEF CallSet
  <2>3. call' = [call EXCEPT ![r] = c] /\ cache' = cache
    BY <1>4, <2>1 DEF Enqueue
  <2>4. call[r].pc \in Underway \ {"await"} /\ c.pc \in Underway
    BY <1>2, <2>2 DEF Underway
  <2> QED
    BY <1>2, <2>2, <2>3, <2>4 DEF Moves
<1>5. CASE call[r].pc = "send" /\ call' = [call EXCEPT ![r].pc = "full"] /\ UNCHANGED cache
  <2>1. PICK c : c = [call[r] EXCEPT !.pc = "full"]
    OBVIOUS
  <2>2. c \in CallSet /\ c.pc = "full" /\ c.missing = call[r].missing /\ c.result = call[r].result
    BY <1>1, <2>1 DEF CallSet, PCs
  <2>3. call' = [call EXCEPT ![r] = c]
    BY <1>5, <2>1
  <2>4. call[r].pc \in Underway \ {"await"} /\ c.pc \in Underway
    BY <1>2, <2>2 DEF Underway
  <2> QED
    BY <1>2, <1>5, <2>2, <2>3, <2>4 DEF Moves
<1> QED
  BY <1>3, <1>4, <1>5 DEF Send

LEMMA TickCase ==
    ASSUME BaseInv, NEW r \in Calls, Tick(r)
    PROVE  Moves(r) \/ Ends(r)
<1>1. call[r] \in CallSet /\ CallOK(scenario, r, call[r])
  BY DEF BaseInv, ShapeInv, CallInv
<1>2. call[r].pc = "full" /\ out' = out /\ call[r].result = "none"
  BY <1>1 DEF Tick, CallOK
<1>3. CASE Finish(r, "FatalSendError", <<>>)
  <2>1. "FatalSendError" \in Results /\ <<>> \in Seq(ItemSet) /\ call[r].pc \in {"send", "full", "await"}
    BY <1>2, EmptySeqs DEF Results
  <2> QED
    BY <1>2, <1>3, <2>1, Zenon DEF Ends
<1>4. CASE ~Finish(r, "FatalSendError", <<>>)
  <2>1. PICK ticks \in 0..1 : call' = [call EXCEPT ![r] = [call[r] EXCEPT !.ticks = ticks, !.moved = FALSE]]
    <3>1. call[r].ticks \in 0..1
      BY <1>1 DEF CallSet
    <3>2. PICK ticks : ticks = IF call[r].moved THEN 0 ELSE call[r].ticks + 1
      OBVIOUS
    <3>3. ~(ticks >= DEAD_TICKS) /\ call' = [call EXCEPT ![r] = [call[r] EXCEPT !.ticks = ticks, !.moved = FALSE]]
      BY <1>4, <3>2 DEF Tick, BaseInv, ShapeInv
    <3>4. ticks \in 0..1
      BY <3>1, <3>2, <3>3 DEF DEAD_TICKS
    <3> QED
      BY <3>3, <3>4
  <2>2. cache' = cache
    BY <1>4 DEF Tick
  <2>3. PICK c : c = [call[r] EXCEPT !.ticks = ticks, !.moved = FALSE]
    OBVIOUS
  <2>4. c \in CallSet /\ c.pc = "full" /\ c.missing = call[r].missing /\ c.result = call[r].result
    BY <1>1, <1>2, <2>3 DEF CallSet
  <2>5. call[r].pc \in Underway \ {"await"} /\ c.pc \in Underway
    BY <1>2, <2>4 DEF Underway
  <2> QED
    BY <1>2, <2>1, <2>2, <2>3, <2>4, <2>5 DEF Moves
<1> QED
  BY <1>3, <1>4

LEMMA ReceiveCase ==
    ASSUME BaseInv, NEW r \in Calls, Receive(r)
    PROVE  Ends(r) \/ Answered(r)
<1>1. call[r] \in CallSet /\ CallOK(scenario, r, call[r]) /\ out[r].items \in Seq(ItemSet)
  BY DEF BaseInv, ShapeInv, CallInv, OneshotSet
<1>2. call[r].pc = "await" /\ out' = [out EXCEPT ![r] = Unset] /\ call[r].result = "none"
  BY <1>1 DEF Receive, CallOK
<1>3. LostReplyError \in Results /\ "error" \in Results /\ "ok" \in Results /\ LostReplyError # "ok"
  BY DEF LostReplyError, Results
<1>4. ASSUME NEW result \in Results, NEW items \in Seq(ItemSet), Finish(r, result, items),
             result = "ok" => out[r].ok /\ items = out[r].items
      PROVE  Ends(r)
  <2>1. call[r].pc \in {"send", "full", "await"} /\ out' \in {out, [out EXCEPT ![r] = Unset]}
    BY <1>2
  <2> QED
    BY <1>4, <2>1, Zenon DEF Ends
<1>5. ASSUME out[r].ok, UsesCache(r), cache' = cache,
             call' = [call EXCEPT ![r] = [call[r] EXCEPT !.pc = "complete", !.todo = call[r].missing,
                                                         !.items = out[r].items]]
      PROVE  Answered(r)
  <2>1. PICK c : c = [call[r] EXCEPT !.pc = "complete", !.todo = call[r].missing, !.items = out[r].items]
    OBVIOUS
  <2> DEFINE Q == Seq(ItemSet)
  <2>2. call[r] \in [pc : PCs, key : Keys \cup {NoCall}, todo : SUBSET Keys, missing : SUBSET Keys,
                     ticks : 0..1, moved : BOOLEAN, result : Results, items : Q] /\ out[r].items \in Q
    BY <1>1 DEF CallSet
  <2> HIDE DEF Q
  <2>3. /\ c \in [pc : PCs, key : Keys \cup {NoCall}, todo : SUBSET Keys, missing : SUBSET Keys,
                  ticks : 0..1, moved : BOOLEAN, result : Results, items : Q]
        /\ c.pc = "complete" /\ c.todo = call[r].missing /\ c.items = out[r].items
        /\ c.missing = call[r].missing /\ c.result = call[r].result
    BY <2>1, <2>2 DEF PCs
  <2>4. c \in CallSet
    BY <2>3 DEF CallSet, Q
  <2>5. call' = [call EXCEPT ![r] = c]
    BY <1>5, <2>1
  <2> QED
    BY <1>2, <1>5, <2>3, <2>4, <2>5 DEF Answered
<1>6. CASE out[r] = SenderDropped
  <2>1. Finish(r, LostReplyError, <<>>)
    BY <1>6 DEF Receive
  <2> QED
    BY <1>3, <1>4, <2>1, EmptySeqs
<1>7. CASE out[r] # SenderDropped /\ ~out[r].ok
  <2>1. Finish(r, "error", out[r].items)
    BY <1>7 DEF Receive
  <2> QED
    BY <1>1, <1>3, <1>4, <2>1
<1>8. CASE out[r] # SenderDropped /\ out[r].ok /\ UsesCache(r)
  BY <1>5, <1>8 DEF Receive, BaseInv, ShapeInv
<1>9. CASE out[r] # SenderDropped /\ out[r].ok /\ ~UsesCache(r)
  <2>1. Finish(r, "ok", out[r].items)
    BY <1>9 DEF Receive
  <2> QED
    BY <1>1, <1>3, <1>4, <1>9, <2>1
<1> QED
  BY <1>6, <1>7, <1>8, <1>9

LEMMA CompleteCase ==
    ASSUME BaseInv, NEW r \in Calls, Complete(r)
    PROVE  Offers(r)
<1>1. call[r] \in CallSet /\ CallOK(scenario, r, call[r])
  BY DEF BaseInv, ShapeInv, CallInv
<1>2. PICK k : k = CHOOSE key \in call[r].todo : TRUE
  OBVIOUS
<1>3. call[r].pc = "complete" /\ k \in call[r].todo /\ out' = out /\ call[r].result = "none"
  BY <1>1, <1>2 DEF Complete, CallOK
<1>4. cache' = IF call[r].items[1].vals[k] = Nil THEN WithoutFill(cache, k, r)
               ELSE insert_if_active_fill(cache, k, call[r].items[1].vals[k], r)
  BY <1>2 DEF Complete
<1>5. CASE call[r].todo = {k}
  <2>1. call' = [call EXCEPT ![r] = Done("ok", call[r].items)]
    BY <1>2, <1>5 DEF Complete
  <2> QED
    BY <1>3, <1>4, <1>5, <2>1 DEF Offers
<1>6. CASE call[r].todo # {k}
  <2>1. PICK todo \in SUBSET Keys : todo = call[r].todo \ {k}
    BY <1>1 DEF CallSet
  <2>2. PICK c : c = [call[r] EXCEPT !.todo = todo]
    OBVIOUS
  <2>3. /\ c \in CallSet /\ c.pc = call[r].pc /\ c.todo = todo /\ c.items = call[r].items
        /\ c.missing = call[r].missing /\ c.result = call[r].result
    BY <1>1, <2>2 DEF CallSet
  <2>4. call' = [call EXCEPT ![r] = c]
    <3>1. call' = [call EXCEPT ![r] = IF call[r].todo = {k} THEN Done("ok", call[r].items)
                                      ELSE [call[r] EXCEPT !.todo = call[r].todo \ {k}]]
      BY <1>2 DEF Complete
    <3> QED
      BY <1>6, <2>1, <2>2, <3>1
  <2> QED
    BY <1>3, <1>4, <1>6, <2>1, <2>3, <2>4 DEF Offers
<1> QED
  BY <1>5, <1>6

LEMMA CallerCases ==
    ASSUME BaseInv, NEW r \in Calls, CallStep(r) \/ Tick(r) \/ TimeOut(r)
    PROVE  /\ Moves(r) \/ Hits(r) \/ Ends(r) \/ Answered(r) \/ Offers(r)
           /\ UNCHANGED <<scenario, in_flight, sync_lost, ended, serverVars, sent, lost>>
<1>1. ASSUME TimeOut(r) PROVE Ends(r)
  <2>1. Finish(r, "TimedOut", <<>>) /\ call[r].pc \in {"send", "full", "await"} /\ out' = out
    BY <1>1 DEF TimeOut
  <2>2. "TimedOut" \in Results /\ <<>> \in Seq(ItemSet)
    BY EmptySeqs DEF Results
  <2> QED
    BY <2>1, <2>2, Zenon DEF Ends
<1>2. Moves(r) \/ Hits(r) \/ Ends(r) \/ Answered(r) \/ Offers(r)
  BY <1>1, LookupCase, PromoteCase, ExpireCase, BeginFillCase, SendCase, TickCase, ReceiveCase,
     CompleteCase DEF CallStep
<1> QED
  BY <1>2 DEF CallStep, Lookup, Promote, Expire, BeginFill, Send, Receive, Complete, Tick, TimeOut, connVars

-----------------------------------------------------------------------------
(* Every command that succeeds is given its own replies *)

\* What the counts rest on.  A command that is no pipeline has one reply: a SUBSCRIBE of
\* several channels has more.
RepliesCounted ==
    \A s \in Scenarios : \A r \in Calls :
        s.command[r].kind \notin {"pipeline", "transaction"} => s.command[r].width <= 1

\* Between a lost fence and the next connection nothing is matched at all.
AlignInv == ~sync_lost /\ ~ended => Aligned(scenario.command, in_flight, wire, stream)

\* What precedes the PONG of a fence, or stands for it, is an error.
ItemOK(cmds, x) ==
    HasReply(x) =>
        /\ x.of \in Calls
        /\ IsFence(cmds, x.of) => IF x.kind = "pong" THEN x.nth # 1 ELSE ~x.ok

ItemInv == ~sync_lost => \A p \in DOMAIN stream : ItemOK(scenario.command, stream[p])

\* What an entry has gathered so far.
EntryOK(cmds, e) ==
    IF IsFence(cmds, e.of)
      THEN e.fenced_result # <<>> => e.fenced_result[1].nth \in {1, 2} /\ ~e.fenced_result[1].ok
      ELSE /\ Len(e.buffer) = cmds[e.of].width - e.left
           /\ \A j \in DOMAIN e.buffer : e.buffer[j].of = e.of /\ e.buffer[j].nth = j

EntryInv == ~sync_lost => \A i \in DOMAIN in_flight : EntryOK(scenario.command, in_flight[i])

Own(cmds, r, items) ==
    /\ \A i \in DOMAIN items : items[i].of = r
    /\ IsFence(cmds, r) \/ \A i \in DOMAIN items : items[i].nth = i

OwnInv ==
    \A r \in Calls :
        /\ out[r].ok => r \in sent /\ Own(scenario.command, r, out[r].items)
        /\ call[r].pc = "complete" \/ call[r].result = "ok" => Own(scenario.command, r, call[r].items)

MatchInv == AlignInv /\ ItemInv /\ EntryInv /\ OwnInv

LEMMA OwnNothing ==
    ASSUME NEW cmds, NEW r
    PROVE  Own(cmds, r, <<>>)
<1>1. DOMAIN <<>> = {}
  OBVIOUS
<1> QED
  BY <1>1 DEF Own

LEMMA InitMatch ==
    ASSUME Init
    PROVE  MatchInv
<1>1. AlignInv
  BY AlignedEmpty DEF AlignInv, Init
<1>2. ItemInv /\ EntryInv
  BY DEF ItemInv, EntryInv, Init
<1>3. ASSUME NEW r \in Calls PROVE ~out[r].ok
  BY UnsetFacts DEF Init
<1>4. ASSUME NEW r \in Calls PROVE call[r].pc # "complete" /\ call[r].result # "ok"
  <2>1. call[r] = NewCall(r)
    BY DEF Init
  <2>2. PICK keys : keys = Command(r).keys
    OBVIOUS
  <2>3. PICK d : d = Done("unused", <<>>)
    OBVIOUS
  <2>4. d.pc = "done" /\ d.result = "unused"
    <3>1. "unused" \in Results
      BY DEF Results
    <3> QED
      BY <2>3, <3>1, DoneEmpty
  <2>5. call[r] \in {d, [Idle EXCEPT !.pc = "lookup", !.todo = keys], [Idle EXCEPT !.missing = keys]}
    BY <2>1, <2>2, <2>3 DEF NewCall
  <2> QED
    BY <2>4, <2>5 DEF Idle
<1>5. OwnInv
  BY <1>3, <1>4 DEF OwnInv
<1> QED
  BY <1>1, <1>2, <1>5 DEF MatchInv

LEMMA CallerMatch ==
    ASSUME BaseInv, MatchInv, NEW r \in Calls, CallStep(r) \/ Tick(r) \/ TimeOut(r)
    PROVE  MatchInv'
<1>1. UNCHANGED <<scenario, in_flight, sync_lost, ended, wire, stream, sent>>
  BY CallerCases DEF serverVars
<1>2. AlignInv' /\ ItemInv' /\ EntryInv'
  BY <1>1 DEF MatchInv, AlignInv, ItemInv, EntryInv
<1>3. call \in [Calls -> CallSet] /\ out \in [Calls -> OneshotSet]
  BY DEF BaseInv, ShapeInv
<1>4. ASSUME NEW c, call' = [call EXCEPT ![r] = c], out' \in {out, [out EXCEPT ![r] = Unset]},
             c.pc = "complete" \/ c.result = "ok" => Own(scenario.command, r, c.items)
      PROVE  OwnInv'
  <2>1. \A q \in Calls : out'[q] = out[q] \/ ~out'[q].ok
    BY <1>3, <1>4, UnsetFacts
  <2>2. \A q \in Calls : q # r => call'[q] = call[q]
    BY <1>3, <1>4
  <2>3. call'[r] = c
    BY <1>3, <1>4
  <2> QED
    BY <1>1, <1>4, <2>1, <2>2, <2>3 DEF MatchInv, OwnInv
<1>5. ASSUME Moves(r) PROVE OwnInv'
  <2>1. PICK c \in CallSet : /\ call' = [call EXCEPT ![r] = c] /\ out' = out
                             /\ c.pc \in Underway /\ c.result = "none"
    BY <1>5 DEF Moves
  <2> QED
    BY <1>4, <2>1 DEF Underway
<1>6. ASSUME NEW result \in Results, NEW items \in Seq(ItemSet), call' = [call EXCEPT ![r] = Done(result, items)],
             out' \in {out, [out EXCEPT ![r] = Unset]},
             result = "ok" => Own(scenario.command, r, items)
      PROVE  OwnInv'
  <2>1. PICK c : c = Done(result, items)
    OBVIOUS
  <2>2. c.pc = "done" /\ c.result = result /\ c.items = items
    BY <2>1, DoneFacts
  <2> QED
    BY <1>4, <1>6, <2>1, <2>2
<1>7. "ok" \in Results
  BY DEF Results
<1>8. ASSUME Hits(r) PROVE OwnInv'
  BY <1>6, <1>7, <1>8, OwnNothing, EmptySeqs DEF Hits
<1>9. ASSUME Ends(r) PROVE OwnInv'
  <2>1. PICK result \in Results : \E items \in Seq(ItemSet) :
          /\ Finish(r, result, items)
          /\ result = "ok" => out[r].ok /\ items = out[r].items
          /\ out' \in {out, [out EXCEPT ![r] = Unset]}
    BY <1>9, Zenon DEF Ends
  <2>2. PICK items \in Seq(ItemSet) :
          /\ Finish(r, result, items)
          /\ result = "ok" => out[r].ok /\ items = out[r].items
          /\ out' \in {out, [out EXCEPT ![r] = Unset]}
    BY <2>1
  <2>3. result = "ok" => Own(scenario.command, r, items)
    BY <2>2 DEF MatchInv, OwnInv
  <2> QED
    BY <1>6, <2>2, <2>3 DEF Finish
<1>10. ASSUME Answered(r) PROVE OwnInv'
  <2>1. PICK c \in CallSet : /\ call' = [call EXCEPT ![r] = c] /\ out[r].ok /\ c.items = out[r].items
                             /\ out' = [out EXCEPT ![r] = Unset]
    BY <1>10 DEF Answered
  <2> QED
    BY <1>4, <2>1 DEF MatchInv, OwnInv
<1>11. ASSUME Offers(r) PROVE OwnInv'
  <2>1. call[r].pc = "complete" /\ out' = out
    BY <1>11 DEF Offers
  <2>2. Own(scenario.command, r, call[r].items) /\ call[r].items \in Seq(ItemSet)
    BY <1>3, <2>1 DEF MatchInv, OwnInv, CallSet
  <2>3. CASE call' = [call EXCEPT ![r] = Done("ok", call[r].items)]
    BY <1>6, <1>7, <2>1, <2>2, <2>3
  <2>4. CASE \E c \in CallSet : call' = [call EXCEPT ![r] = c] /\ c.items = call[r].items
    BY <1>4, <2>1, <2>2, <2>4
  <2> QED
    BY <1>11, <2>3, <2>4 DEF Offers
<1> QED
  BY <1>2, <1>5, <1>8, <1>9, <1>10, <1>11, CallerCases DEF MatchInv

\* The state's lines are lines.
LEMMA LineFacts ==
    ASSUME BaseInv
    PROVE  IsLine(in_flight, wire, stream)
BY DEF BaseInv, ShapeInv, LineInv, IsLine

LEMMA EntryForFacts ==
    ASSUME RepliesCounted, BaseInv, NEW r \in Calls, scenario.command[r].width # 0
    PROVE  /\ EntryFor(scenario.command, r).of = r
           /\ EntryFor(scenario.command, r).left = scenario.command[r].width
           /\ EntryFor(scenario.command, r).buffer = <<>>
           /\ EntryFor(scenario.command, r).fenced_result = <<>>
           /\ EntryOK(scenario.command, EntryFor(scenario.command, r))
<1>1. PICK w \in Nat : w = scenario.command[r].width /\ w # 0
  BY ScenarioFacts DEF BaseInv, ShapeInv
<1>2. scenario.command[r].kind \notin {"pipeline", "transaction"} => w <= 1
  BY <1>1 DEF RepliesCounted, BaseInv, ShapeInv
<1>3. PICK left : left = IF scenario.command[r].kind \in {"pipeline", "transaction"} THEN scenario.command[r].width ELSE 1
  OBVIOUS
<1>4. left = w
  BY <1>1, <1>2, <1>3
<1>5. PICK e : e = [of |-> r, left |-> left, buffer |-> <<>>, failed |-> FALSE, fenced_result |-> <<>>]
  OBVIOUS
<1>6. e = EntryFor(scenario.command, r)
  BY <1>3, <1>5 DEF EntryFor
<1>7. e.of = r /\ e.left = w /\ e.buffer = <<>> /\ e.fenced_result = <<>>
  BY <1>4, <1>5
<1>8. Len(<<>>) = w - w /\ DOMAIN <<>> = {}
  BY <1>1
<1>9. EntryOK(scenario.command, e)
  BY <1>1, <1>7, <1>8 DEF EntryOK
<1> QED
  BY <1>1, <1>6, <1>7, <1>9

\* Calls and oneshots change in nothing that matters but by what send_result outputs.
LEMMA OwnKept ==
    ASSUME BaseInv, OwnInv, \A r \in Calls : Alike(call'[r], call[r]), sent \subseteq sent', scenario' = scenario,
           \A r \in Calls : \/ out'[r] = out[r] \/ ~out'[r].ok
                            \/ r \in sent /\ Own(scenario.command, r, out'[r].items)
    PROVE  OwnInv'
BY DEF OwnInv, Alike

LEMMA RefusedFacts ==
    ASSUME BaseInv, NEW r \in Calls
    PROVE  /\ Output(r, FALSE, <<>>) \in [Calls -> OneshotSet]
           /\ \A q \in Calls : Output(r, FALSE, <<>>)[q] = out[q] \/ ~Output(r, FALSE, <<>>)[q].ok
<1>1. PICK no \in BOOLEAN : no = FALSE
  OBVIOUS
<1>2. PICK items \in Seq(ItemSet) : items = <<>>
  BY EmptySeqs
<1>3. PICK o : o = Output(r, no, items)
  OBVIOUS
<1>4. o \in [Calls -> OneshotSet] /\ \A q \in Calls : o[q] = out[q] \/ o[q].ok = no
  BY <1>3, OutputFacts
<1> QED
  BY <1>1, <1>2, <1>3, <1>4

LEMMA EndMatch ==
    ASSUME BaseInv, MatchInv, NEW o \in [Calls -> OneshotSet], NEW queued, End(o, queued),
           \A r \in Calls : o[r] = out[r] \/ ~o[r].ok,
           \A r \in Calls : Alike(call'[r], call[r]), UNCHANGED <<scenario, sent, sync_lost>>
    PROVE  MatchInv'
<1>1. ended' = TRUE /\ in_flight' = <<>> /\ stream' = <<>> /\ out' = Orphaned(o, queued, in_flight)
  BY DEF End
<1>2. \A r \in Calls : out'[r] = out[r] \/ ~out'[r].ok
  BY <1>1, OrphanedFacts, UnsetFacts
<1>3. OwnInv'
  BY <1>2, OwnKept DEF MatchInv
<1>4. DOMAIN <<>> = {}
  OBVIOUS
<1>5. AlignInv' /\ ItemInv' /\ EntryInv'
  BY <1>1, <1>4 DEF AlignInv, ItemInv, EntryInv
<1> QED
  BY <1>3, <1>5 DEF MatchInv

LEMMA PullMatch ==
    ASSUME RepliesCounted, BaseInv, MatchInv, Pull
    PROVE  MatchInv'
<1>1. \A r \in Calls : Alike(call'[r], call[r])
  BY ProgressedFacts DEF Pull
<1>2. ~ended /\ channel # <<>> /\ UNCHANGED <<scenario, sync_lost>>
  BY DEF Pull
<1>3. PICK r \in Calls : r = Head(channel) /\ 1 \in DOMAIN channel /\ r = channel[1]
  BY <1>2 DEF BaseInv, ShapeInv
<1>4. ASSUME StartSend(r), Closed(r) \/ ~sync_lost, UNCHANGED <<out, ended, stream>>
      PROVE  MatchInv'
  <2>1. CASE Closed(r)
    <3>1. UNCHANGED <<wire, in_flight, sent>>
      BY <1>4, <2>1 DEF StartSend
    <3>2. OwnInv'
      BY <1>1, <1>2, <1>4, <3>1, OwnKept DEF MatchInv
    <3> QED
      BY <1>2, <1>4, <3>1, <3>2 DEF MatchInv, AlignInv, ItemInv, EntryInv
  <2>2. CASE ~Closed(r)
    <3>1. wire' = Append(wire, r) /\ in_flight' = Append(in_flight, NewEntry(r)) /\ sent' = sent \cup {r}
      BY <1>4, <2>2 DEF StartSend
    <3>2. OwnInv'
      BY <1>1, <1>2, <1>4, <3>1, OwnKept DEF MatchInv
    <3>3. PICK e \in EntrySet : e = NewEntry(r) /\ e = EntryFor(scenario.command, r)
      BY <2>2, NewEntryFacts DEF Closed, NewEntry, EntryFor, Command
    <3>4. scenario.command[r].width # 0
      BY <2>2 DEF Closed, BaseInv, CallInv, CallOK
    <3>5. \A i \in DOMAIN in_flight : in_flight[i].of # r
      BY <1>3 DEF BaseInv, LineInv
    <3>6. Aligned(scenario.command, in_flight, wire, stream)
      BY <1>2, <1>4, <2>2 DEF MatchInv, AlignInv
    <3>7. Aligned(scenario.command, in_flight', wire', stream)
      BY <3>1, <3>3, <3>5, <3>6, AlignedSend, LineFacts
    <3>8. AlignInv' /\ ItemInv'
      BY <1>2, <1>4, <3>7 DEF MatchInv, AlignInv, ItemInv
    <3>9. EntryOK(scenario.command, e)
      BY <3>3, <3>4, EntryForFacts
    <3>10. EntryInv'
      <4> DEFINE E == EntrySet
      <4>1. in_flight \in Seq(E) /\ e \in E
        BY DEF BaseInv, ShapeInv
      <4>2. \A i \in DOMAIN in_flight : EntryOK(scenario.command, in_flight[i])
        BY <1>4, <2>2 DEF MatchInv, EntryInv
      <4> HIDE DEF E
      <4>3. in_flight' = Append(in_flight, e)
        BY <3>1, <3>3
      <4>4. \A i \in DOMAIN in_flight' : in_flight'[i] = e \/ (i \in DOMAIN in_flight /\ in_flight'[i] = in_flight[i])
        BY <4>1, <4>3
      <4> QED
        BY <1>2, <3>9, <4>2, <4>4 DEF EntryInv
    <3> QED
      BY <3>2, <3>8, <3>10 DEF MatchInv
  <2> QED
    BY <2>1, <2>2
<1>5. ASSUME End(Output(r, FALSE, <<>>), Tail(channel)), UNCHANGED sent
      PROVE  MatchInv'
  BY <1>1, <1>2, <1>5, EndMatch, RefusedFacts
<1> QED
  BY <1>3, <1>4, <1>5 DEF Pull

LEMMA BreakMatch ==
    ASSUME BaseInv, MatchInv, Break
    PROVE  MatchInv'
<1>1. UNCHANGED <<scenario, call, sync_lost, sent>>
  BY DEF Break
<1>2. \A r \in Calls : Alike(call'[r], call[r])
  BY <1>1 DEF Alike
<1>3. PICK o \in [Calls -> OneshotSet] : End(o, channel) /\ \A r \in Calls : o[r] = out[r] \/ ~o[r].ok
  <2>1. out \in [Calls -> OneshotSet]
    BY DEF BaseInv, ShapeInv
  <2>2. CASE End(out, channel)
    BY <2>1, <2>2
  <2>3. CASE ~End(out, channel)
    <3>1. in_flight # <<>> /\ End(Output(First.of, FALSE, <<>>), channel)
      BY <2>3 DEF Break, First
    <3>2. First.of \in Calls
      BY <3>1, FirstFacts
    <3> QED
      BY <3>1, <3>2, RefusedFacts
  <2> QED
    BY <2>2, <2>3
<1> QED
  BY <1>1, <1>2, <1>3, EndMatch

LEMMA AnswerMatches ==
    ASSUME RepliesCounted, BaseInv, NEW r \in Calls, scenario.command[r].width # 0, NEW items \in Answers(r)
    PROVE  /\ AnswerTo(scenario.command, r, items)
           /\ \A p \in DOMAIN items : ItemOK(scenario.command, items[p])
<1>1. PICK w \in Nat : w = scenario.command[r].width /\ w # 0
  BY ScenarioFacts DEF BaseInv, ShapeInv
<1>2. PICK e : e = EntryFor(scenario.command, r) /\ e.of = r /\ e.left = w /\ e.fenced_result = <<>>
  BY <1>1, EntryForFacts
<1>3. PICK o \in Nat : o = Len(items) /\ DOMAIN items = 1..o
  <2> DEFINE I == ItemSet
  <2>1. items \in Seq(I)
    BY AnswerTypes
  <2> HIDE DEF I
  <2> QED
    BY <2>1
<1>4. CASE Fenced(r)
  <2>1. FencedAnswer(r, items)
    BY <1>4, FencedFacts DEF Answers
  <2>2. IsFence(scenario.command, r)
    BY <1>4 DEF IsFence, Fenced, Command
  <2>3. MayDue(scenario.command, e) = {1, 2} /\ MustDue(scenario.command, e) = {2}
    BY <1>2, <2>2 DEF MayDue, MustDue, Due
  <2>4. o = 2 /\ DOMAIN items = {1, 2}
    BY <1>3, <2>1 DEF FencedAnswer
  <2>5. AnswerTo(scenario.command, r, items)
    <3>1. \A p \in DOMAIN items : HasReply(items[p]) => items[p].of = r /\ items[p].nth \in MayDue(scenario.command, e)
      BY <2>1, <2>3, <2>4 DEF FencedAnswer
    <3>2. \A n \in MustDue(scenario.command, e) : \E p \in DOMAIN items : HasReply(items[p]) /\ items[p].nth = n
      BY <2>1, <2>3, <2>4 DEF FencedAnswer
    <3>3. ASSUME NEW p \in DOMAIN items, NEW q \in DOMAIN items, p < q, HasReply(items[p]), HasReply(items[q])
          PROVE  items[p].nth < items[q].nth
      <4>1. p = 1 /\ q = 2
        BY <2>4, <3>3
      <4> QED
        BY <2>1, <3>3, <4>1 DEF FencedAnswer
    <3> QED
      BY <1>2, <2>1, <3>1, <3>2, <3>3 DEF AnswerTo, FencedAnswer
  <2>6. ASSUME NEW p \in DOMAIN items PROVE ItemOK(scenario.command, items[p])
    BY <2>1, <2>2, <2>4 DEF FencedAnswer, ItemOK
  <2> QED
    BY <2>5, <2>6
<1>5. CASE ~Fenced(r)
  <2>1. PlainAnswer(r, items, w)
    BY <1>1, <1>5, PlainFacts
  <2>2. ~IsFence(scenario.command, r)
    BY <1>5 DEF IsFence, Fenced, Command
  <2>3. w - w + 1 = 1
    BY <1>1
  <2>4. MayDue(scenario.command, e) = 1..w /\ MustDue(scenario.command, e) = 1..w
    BY <1>1, <1>2, <2>2, <2>3 DEF MayDue, MustDue, Due
  <2>5. DOMAIN items = 1..w
    BY <1>3, <2>1 DEF PlainAnswer
  <2>6. AnswerTo(scenario.command, r, items)
    <3>1. \A p \in DOMAIN items : HasReply(items[p]) => items[p].of = r /\ items[p].nth \in MayDue(scenario.command, e)
      BY <2>1, <2>4, <2>5 DEF PlainAnswer
    <3>2. \A n \in MustDue(scenario.command, e) : \E p \in DOMAIN items : HasReply(items[p]) /\ items[p].nth = n
      BY <2>1, <2>4, <2>5 DEF PlainAnswer
    <3>3. \A p, q \in DOMAIN items : p < q => items[p].nth < items[q].nth
      BY <2>1, <2>5 DEF PlainAnswer
    <3> QED
      BY <1>2, <2>1, <3>1, <3>2, <3>3 DEF AnswerTo, PlainAnswer
  <2>7. ASSUME NEW p \in DOMAIN items PROVE ItemOK(scenario.command, items[p])
    BY <2>1, <2>2, <2>5 DEF PlainAnswer, ItemOK
  <2> QED
    BY <2>6, <2>7
<1> QED
  BY <1>4, <1>5

\* The first command on the wire waits for its replies.
LEMMA WireFacts ==
    ASSUME BaseInv, AlignInv, ~sync_lost, ~ended, wire # <<>>
    PROVE  /\ Head(wire) \in Calls /\ scenario.command[Head(wire)].width # 0
           /\ \E i \in DOMAIN in_flight : in_flight[i].of = Head(wire)
<1>1. Head(wire) \in Calls /\ wire[1] = Head(wire)
  BY DEF BaseInv, ShapeInv
<1>2. PICK n \in Nat : n = Len(in_flight) /\ DOMAIN in_flight = 1..n
  BY Lengths, LineFacts
<1>3. PICK m \in Nat : m = Len(wire) /\ m # 0 /\ m <= n
  <2>1. wire \in Seq(Calls)
    BY DEF BaseInv, ShapeInv
  <2>2. Len(wire) \in Nat /\ Len(wire) # 0
    BY <2>1
  <2>3. Len(wire) <= Len(in_flight)
    BY DEF AlignInv, Aligned, Suffix
  <2> QED
    BY <1>2, <2>2, <2>3
<1>4. PICK i \in 1..n : i = n - m + 1
  <2>1. n - m + 1 \in 1..n
    BY <1>3
  <2> QED
    BY <2>1
<1>5. 1 \in 1..m
  BY <1>3
<1>6. in_flight[i] = EntryFor(scenario.command, wire[1])
  BY <1>2, <1>3, <1>4, <1>5 DEF AlignInv, Aligned, Suffix
<1>7. in_flight[i].of = Head(wire)
  BY <1>1, <1>6 DEF EntryFor
<1>8. in_flight[i].left \in 1..scenario.command[Head(wire)].width
  BY <1>2, <1>7 DEF BaseInv, LineInv
<1>9. scenario.command[Head(wire)].width # 0
  BY <1>8
<1> QED
  BY <1>1, <1>2, <1>7, <1>9

\* The server says something more.
LEMMA ServerMatch ==
    ASSUME BaseInv, MatchInv, UNCHANGED <<scenario, call, out, in_flight, sync_lost, ended, sent>>,
           ~sync_lost /\ ~ended => Aligned(scenario.command, in_flight, wire', stream'),
           ~sync_lost => \A p \in DOMAIN stream' : ItemOK(scenario.command, stream'[p])
    PROVE  MatchInv'
BY DEF MatchInv, AlignInv, ItemInv, EntryInv, OwnInv

LEMMA ExecuteMatch ==
    ASSUME RepliesCounted, BaseInv, MatchInv, Execute
    PROVE  MatchInv'
<1>1. /\ wire # <<>> /\ ~ended /\ wire' = Tail(wire)
      /\ UNCHANGED <<scenario, call, out, in_flight, sync_lost, ended, sent>>
  BY DEF Execute, connVars
<1>2. PICK items \in Answers(Head(wire)) : stream' = stream \o items
  BY DEF Execute
<1>3. ASSUME ~sync_lost
      PROVE  /\ Aligned(scenario.command, in_flight, wire', stream')
             /\ \A p \in DOMAIN stream' : ItemOK(scenario.command, stream'[p])
  <2>1. Head(wire) \in Calls /\ scenario.command[Head(wire)].width # 0
    BY <1>1, <1>3, WireFacts DEF MatchInv
  <2>2. /\ AnswerTo(scenario.command, Head(wire), items)
        /\ \A p \in DOMAIN items : ItemOK(scenario.command, items[p])
    BY <2>1, AnswerMatches
  <2>3. Aligned(scenario.command, in_flight, wire, stream)
    BY <1>1, <1>3 DEF MatchInv, AlignInv
  <2>4. Aligned(scenario.command, in_flight, wire', stream')
    BY <1>1, <1>2, <2>2, <2>3, AlignedExecute, LineFacts
  <2>5. \A p \in DOMAIN stream : ItemOK(scenario.command, stream[p])
    BY <1>3 DEF MatchInv, ItemInv
  <2>6. \A p \in DOMAIN stream' : \/ p \in DOMAIN stream /\ stream'[p] = stream[p]
                                  \/ \E q \in DOMAIN items : stream'[p] = items[q]
    <3> DEFINE I == ItemSet
    <3>1. stream \in Seq(I) /\ items \in Seq(I)
      BY <2>1, AnswerTypes DEF BaseInv, ShapeInv
    <3> HIDE DEF I
    <3>2. PICK l \in Nat : l = Len(stream) /\ DOMAIN stream = 1..l
      BY <3>1
    <3>3. PICK o \in Nat : o = Len(items) /\ DOMAIN items = 1..o
      BY <3>1
    <3>4. /\ DOMAIN stream' = 1..(l + o) /\ \A p \in 1..l : stream'[p] = stream[p]
          /\ \A p \in 1..o : stream'[l + p] = items[p]
      BY <1>2, <3>1, <3>2, <3>3
    <3>5. ASSUME NEW p \in 1..(l + o), p \notin 1..l PROVE p - l \in 1..o /\ l + (p - l) = p
      BY <3>2, <3>3, <3>5
    <3>6. ASSUME NEW p \in 1..(l + o), p \notin 1..l PROVE \E q \in DOMAIN items : stream'[p] = items[q]
      BY <3>3, <3>4, <3>5, <3>6
    <3> QED
      BY <3>2, <3>4, <3>6
  <2> QED
    BY <2>2, <2>4, <2>5, <2>6
<1> QED
  BY <1>1, <1>3, ServerMatch

LEMMA PushedMatch ==
    ASSUME BaseInv, MatchInv, NEW x \in ItemSet, ~HasReply(x), stream' = Append(stream, x), wire' = wire,
           UNCHANGED <<scenario, call, out, in_flight, sync_lost, ended, sent>>
    PROVE  MatchInv'
<1>1. ASSUME ~sync_lost, ~ended PROVE Aligned(scenario.command, in_flight, wire', stream')
  BY <1>1, AlignedPush, LineFacts DEF MatchInv, AlignInv
<1>2. \A p \in DOMAIN stream' : stream'[p] = x \/ (p \in DOMAIN stream /\ stream'[p] = stream[p])
  <2> DEFINE I == ItemSet
  <2>1. stream \in Seq(I) /\ x \in I
    BY DEF BaseInv, ShapeInv
  <2> HIDE DEF I
  <2> QED
    BY <2>1
<1>3. ASSUME ~sync_lost, NEW p \in DOMAIN stream' PROVE ItemOK(scenario.command, stream'[p])
  <2>1. ItemOK(scenario.command, x)
    BY DEF ItemOK
  <2> QED
    BY <1>2, <1>3, <2>1 DEF MatchInv, ItemInv
<1> QED
  BY <1>1, <1>3, ServerMatch

LEMMA PushMatch ==
    ASSUME BaseInv, MatchInv, UnpromptedPush \/ Broadcast \/ Write \/ Age \/ UNCHANGED vars
    PROVE  MatchInv'
<1>1. UNCHANGED <<scenario, call, out, in_flight, sync_lost, ended, sent, wire>>
  BY DEF UnpromptedPush, Broadcast, Write, Age, vars, connVars, serverVars
<1>2. CASE stream' = stream
  BY <1>1, <1>2 DEF MatchInv, AlignInv, ItemInv, EntryInv, OwnInv
<1>3. CASE stream' # stream
  <2>1. dirty \in SUBSET Keys
    BY DEF BaseInv, ShapeInv
  <2>2. /\ Push("sunsubscribe", {}) \in ItemSet /\ ~HasReply(Push("sunsubscribe", {}))
        /\ Push("invalidate", dirty) \in ItemSet /\ ~HasReply(Push("invalidate", dirty))
        /\ Push("flush", {}) \in ItemSet /\ ~HasReply(Push("flush", {}))
    BY <2>1, PushFacts
  <2>3. PICK x \in ItemSet : ~HasReply(x) /\ stream' = Append(stream, x)
    BY <1>3, <2>2 DEF UnpromptedPush, Broadcast, Write, Age, vars, serverVars
  <2> QED
    BY <1>1, <2>3, PushedMatch
<1> QED
  BY <1>2, <1>3

LEMMA ReopenMatch ==
    ASSUME BaseInv, MatchInv, Reopen
    PROVE  MatchInv'
<1>1. ended /\ wire' = <<>> /\ UNCHANGED <<scenario, call, out, in_flight, stream, sent>>
  BY DEF Reopen
<1>2. in_flight = <<>> /\ stream = <<>>
  BY <1>1 DEF BaseInv, LineInv
<1>3. AlignInv'
  BY <1>1, <1>2, AlignedEmpty DEF AlignInv
<1>4. DOMAIN <<>> = {}
  OBVIOUS
<1>5. ItemInv' /\ EntryInv'
  BY <1>1, <1>2, <1>4 DEF ItemInv, EntryInv
<1>6. OwnInv'
  BY <1>1 DEF MatchInv, OwnInv
<1> QED
  BY <1>3, <1>5, <1>6 DEF MatchInv

\* The number of the reply at the front, for an entry that is no fence.
LEMMA NextNumber ==
    ASSUME NEW cmds, NEW e, ~IsFence(cmds, e.of), NEW w \in Nat, w = cmds[e.of].width, NEW l \in Nat \ {0},
           l = e.left, l <= w, NEW k \in Nat, k \in MayDue(cmds, e), \A n \in MustDue(cmds, e) : n = k \/ k < n
    PROVE  k = w - l + 1
<1>1. MayDue(cmds, e) = (w - l + 1)..w /\ MustDue(cmds, e) = (w - l + 1)..w
  BY DEF MayDue, MustDue, Due
<1>2. w - l + 1 \in (w - l + 1)..w
  OBVIOUS
<1>3. w - l + 1 = k \/ k < w - l + 1
  BY <1>1, <1>2
<1>4. k >= w - l + 1
  BY <1>1
<1> QED
  BY <1>3, <1>4

\* The item at the front of the stream is for the entry at the front of in_flight.
LEMMA FrontFacts ==
    ASSUME BaseInv, MatchInv, ~sync_lost, ~ended, stream # <<>>, HasReply(Head(stream))
    PROVE  /\ in_flight # <<>> /\ 1 \in 1..(Len(in_flight) - Len(wire)) /\ First = in_flight[1]
           /\ Aligned(scenario.command, in_flight, wire, stream)
           /\ ItemOK(scenario.command, Head(stream)) /\ EntryOK(scenario.command, First)
           /\ \/ MustDue(scenario.command, First) = {} /\ \E i \in DOMAIN in_flight : in_flight[i].of = Head(stream).of
              \/ /\ First.of = Head(stream).of /\ Head(stream).nth \in MayDue(scenario.command, First)
                 /\ \A n \in MustDue(scenario.command, First) : n = Head(stream).nth \/ Head(stream).nth < n
<1>1. Aligned(scenario.command, in_flight, wire, stream)
  BY DEF MatchInv, AlignInv
<1>2. /\ 1 \in 1..(Len(in_flight) - Len(wire))
      /\ \/ MustDue(scenario.command, in_flight[1]) = {} /\ \E i \in DOMAIN in_flight : in_flight[i].of = Head(stream).of
         \/ /\ in_flight[1].of = Head(stream).of /\ Head(stream).nth \in MayDue(scenario.command, in_flight[1])
            /\ \A n \in MustDue(scenario.command, in_flight[1]) : n = Head(stream).nth \/ Head(stream).nth < n
  BY <1>1, HeadOwn, LineFacts
<1>3. in_flight # <<>>
  <2>1. Len(in_flight) \in Nat /\ Len(wire) \in Nat
    BY Lengths, LineFacts
  <2>2. Len(in_flight) # 0
    BY <1>2, <2>1
  <2>3. Len(<<>>) = 0
    OBVIOUS
  <2> QED
    BY <2>2, <2>3
<1>4. First = in_flight[1] /\ 1 \in DOMAIN in_flight
  BY <1>3, FirstFacts
<1>5. Head(stream) = stream[1] /\ 1 \in DOMAIN stream
  BY StreamTail, LineFacts
<1> QED
  BY <1>1, <1>2, <1>3, <1>4, <1>5 DEF MatchInv, ItemInv, EntryInv

\* in_flight without its first entry, or with another one for the same call.
LEMMA EntriesKept ==
    ASSUME BaseInv, MatchInv, ~sync_lost, in_flight # <<>>,
           \/ in_flight' = Tail(in_flight)
           \/ \E e \in EntrySet : EntryOK(scenario.command, e) /\ in_flight' = <<e>> \o Tail(in_flight)
    PROVE  \A i \in DOMAIN in_flight' : EntryOK(scenario.command, in_flight'[i])
<1> DEFINE E == EntrySet
<1>1. in_flight \in Seq(E) /\ \A i \in DOMAIN in_flight : EntryOK(scenario.command, in_flight[i])
  BY DEF BaseInv, ShapeInv, MatchInv, EntryInv
<1>2. CASE in_flight' = Tail(in_flight)
  <2>1. \A i \in DOMAIN in_flight' : i + 1 \in DOMAIN in_flight /\ in_flight'[i] = in_flight[i + 1]
    <3> HIDE DEF E
    <3> QED
      BY <1>1, <1>2, TailFacts
  <2> QED
    BY <1>1, <2>1
<1>3. ASSUME NEW e \in EntrySet, EntryOK(scenario.command, e), in_flight' = <<e>> \o Tail(in_flight)
      PROVE  \A i \in DOMAIN in_flight' : EntryOK(scenario.command, in_flight'[i])
  <2>1. e \in E
    OBVIOUS
  <2>2. /\ DOMAIN in_flight' = DOMAIN in_flight /\ in_flight'[1] = e
        /\ \A i \in DOMAIN in_flight : i # 1 => in_flight'[i] = in_flight[i]
    <3> HIDE DEF E
    <3> QED
      BY <1>1, <1>3, <2>1, PutFirst
  <2> QED
    BY <1>1, <1>3, <2>2
<1> QED
  BY <1>2, <1>3

\* The other invariants when the item at the front was read.
LEMMA ReadRest ==
    ASSUME BaseInv, MatchInv, Read, ~sync_lost,
           ~sync_lost' => Aligned(scenario.command, in_flight, wire, stream)',
           ~sync_lost' => \A i \in DOMAIN in_flight' : EntryOK(scenario.command, in_flight'[i]),
           \A r \in Calls : \/ out'[r] = out[r] \/ ~out'[r].ok
                            \/ r \in sent /\ Own(scenario.command, r, out'[r].items)
    PROVE  MatchInv'
<1>1. /\ ~ended /\ stream # <<>> /\ stream' = Tail(stream)
      /\ UNCHANGED <<scenario, ended, wire, sent>>
  BY DEF Read
<1>2. \A r \in Calls : Alike(call'[r], call[r])
  BY ProgressedFacts DEF Read
<1>3. OwnInv'
  BY <1>1, <1>2, OwnKept DEF MatchInv
<1>4. ItemInv'
  <2>1. \A p \in DOMAIN stream' : p + 1 \in DOMAIN stream /\ stream'[p] = stream[p + 1]
    BY <1>1, StreamTail, LineFacts
  <2> QED
    BY <1>1, <2>1 DEF MatchInv, ItemInv
<1>5. AlignInv' /\ EntryInv'
  BY <1>1 DEF AlignInv, EntryInv
<1> QED
  BY <1>3, <1>4, <1>5 DEF MatchInv

\* What the first entry is given makes it wait for less, and it keeps what is its own.
LEMMA GatherMatch ==
    ASSUME BaseInv, MatchInv, ~sync_lost, ~ended, stream # <<>>, NEW x \in ItemSet, x = Head(stream),
           HasReply(x), ~Fenced(First.of)
    PROVE  /\ First.of = x.of /\ EntryOK(scenario.command, Gathered(First, x))
           /\ \A n \in MayDue(scenario.command, First) : x.nth < n => n \in MayDue(scenario.command, Gathered(First, x))
           /\ \A n \in MustDue(scenario.command, Gathered(First, x)) : n \in MustDue(scenario.command, First) /\ n # x.nth
           /\ First.left = 1 => \A n \in MayDue(scenario.command, First) : ~(x.nth < n)
<1>1. in_flight # <<>>
  BY FrontFacts
<1>2. First \in EntrySet /\ First.of \in Calls
  BY <1>1, FirstFacts
<1>3. PICK w \in Nat : w = scenario.command[First.of].width
  BY <1>2, ScenarioFacts DEF BaseInv, ShapeInv
<1>4. PICK l \in Nat \ {0} : l = First.left /\ l <= w
  BY <1>1, <1>3, FirstFacts
<1>5. ~IsFence(scenario.command, First.of)
  BY DEF IsFence, Fenced, Command
<1>6. PICK g \in EntrySet : /\ g = Gathered(First, x) /\ g.of = First.of /\ g.left = l - 1
                            /\ g.buffer = Append(First.buffer, x)
  BY <1>2, <1>4, GatheredFacts
<1>7. MayDue(scenario.command, First) = (w - l + 1)..w /\ MustDue(scenario.command, First) = (w - l + 1)..w
  BY <1>3, <1>4, <1>5 DEF MayDue, MustDue, Due
<1>8. w - (l - 1) + 1 = w - l + 2
  OBVIOUS
<1>9. MayDue(scenario.command, g) = (w - l + 2)..w /\ MustDue(scenario.command, g) = (w - l + 2)..w
  BY <1>3, <1>5, <1>6, <1>8 DEF MayDue, MustDue, Due
<1>10. MustDue(scenario.command, First) # {}
  <2>1. w \in (w - l + 1)..w
    BY <1>4
  <2> QED
    BY <1>7, <2>1
<1>11. /\ First.of = x.of /\ x.nth \in MayDue(scenario.command, First)
       /\ \A n \in MustDue(scenario.command, First) : n = x.nth \/ x.nth < n
  BY <1>10, FrontFacts
<1>12. PICK k \in Nat : k = x.nth
  BY DEF ItemSet
<1>13. k = w - l + 1
  BY <1>3, <1>4, <1>5, <1>11, <1>12, NextNumber
<1>14. EntryOK(scenario.command, g)
  <2>1. /\ Len(First.buffer) = w - l
        /\ \A j \in DOMAIN First.buffer : First.buffer[j].of = First.of /\ First.buffer[j].nth = j
    BY <1>1, <1>3, <1>4, <1>5, FrontFacts DEF EntryOK
  <2> DEFINE I == ItemSet
  <2>2. First.buffer \in Seq(I) /\ x \in I
    BY <1>2 DEF EntrySet
  <2> HIDE DEF I
  <2>3. PICK m \in Nat : m = Len(First.buffer) /\ m = w - l
    BY <2>1, <2>2
  <2>4. /\ Len(g.buffer) = m + 1 /\ DOMAIN g.buffer = 1..(m + 1) /\ g.buffer[m + 1] = x
        /\ \A j \in 1..m : g.buffer[j] = First.buffer[j] /\ j \in DOMAIN First.buffer
    <3>1. PICK b \in Seq(I) : b = First.buffer /\ g.buffer = Append(b, x) /\ Len(b) = m
      BY <1>6, <2>2, <2>3
    <3>2. PICK c : c = Append(b, x)
      OBVIOUS
    <3>3. /\ Len(c) = m + 1 /\ DOMAIN c = 1..(m + 1) /\ c[m + 1] = x
          /\ \A j \in 1..m : c[j] = b[j] /\ j \in DOMAIN b
      BY <2>2, <3>1, <3>2
    <3> QED
      BY <3>1, <3>2, <3>3
  <2>5. \A j \in DOMAIN g.buffer : j \in 1..m \/ j = m + 1
    BY <2>3, <2>4
  <2>6. k = m + 1 /\ Len(g.buffer) = w - (l - 1)
    BY <1>4, <1>13, <2>3, <2>4
  <2>7. \A j \in DOMAIN g.buffer : g.buffer[j].of = g.of /\ g.buffer[j].nth = j
    BY <1>6, <1>11, <1>12, <2>1, <2>4, <2>5, <2>6
  <2> QED
    BY <1>3, <1>5, <1>6, <2>6, <2>7 DEF EntryOK
<1>15. \A n \in (w - l + 1)..w : k < n => n \in (w - l + 2)..w
  BY <1>4, <1>13
<1>16. \A n \in (w - l + 2)..w : n \in (w - l + 1)..w /\ n # k
  BY <1>4, <1>13
<1>17. ASSUME l = 1, NEW n \in (w - l + 1)..w PROVE ~(k < n)
  BY <1>13, <1>17
<1> QED
  BY <1>4, <1>6, <1>7, <1>9, <1>11, <1>12, <1>14, <1>15, <1>16, <1>17

LEMMA OutputOwn ==
    ASSUME BaseInv, NEW r \in Calls, r \in sent, NEW ok \in BOOLEAN, NEW items \in Seq(ItemSet),
           ok => Own(scenario.command, r, items), out' = Output(r, ok, items)
    PROVE  \A q \in Calls : \/ out'[q] = out[q] \/ ~out'[q].ok
                            \/ q \in sent /\ Own(scenario.command, q, out'[q].items)
<1>1. PICK o : o = Output(r, ok, items)
  OBVIOUS
<1>2. \A q \in Calls : o[q] = out[q] \/ (q = r /\ o[q].ok = ok /\ o[q].items = items)
  BY <1>1, OutputFacts
<1> QED
  BY <1>1, <1>2

LEMMA ReadMatch ==
    ASSUME BaseInv, MatchInv, Read, ~mistaken'
    PROVE  MatchInv'
<1>1. ~ended /\ stream # <<>> /\ stream' = Tail(stream) /\ UNCHANGED <<scenario, ended, wire, sent>>
  BY DEF Read
<1>2. PICK x \in ItemSet : x = Head(stream) /\ SendResult(x)
  <2> DEFINE I == ItemSet
  <2>1. stream \in Seq(I)
    BY DEF BaseInv, ShapeInv
  <2>2. Head(stream) \in I
    <3> HIDE DEF I
    <3> QED
      BY <1>1, <2>1, TailFacts
  <2> QED
    BY <2>2 DEF Read
<1>3. CASE sync_lost
  <2>1. sync_lost' = sync_lost
    BY <1>2, <1>3 DEF SendResult
  <2>2. \A r \in Calls : Alike(call'[r], call[r])
    BY ProgressedFacts DEF Read
  <2>3. \A r \in Calls : out'[r] = out[r] \/ ~out'[r].ok
    <3>1. CASE in_flight = <<>>
      BY <1>2, <3>1 DEF SendResult
    <3>2. CASE in_flight # <<>>
      <4>1. out' = Output(First.of, FALSE, <<>>) /\ First.of \in Calls
        BY <1>2, <1>3, <3>2, FirstFacts DEF SendResult, First
      <4> QED
        BY <4>1, RefusedFacts
    <3> QED
      BY <3>1, <3>2
  <2>4. OwnInv'
    BY <1>1, <2>2, <2>3, OwnKept DEF MatchInv
  <2> QED
    BY <1>3, <2>1, <2>4 DEF MatchInv, AlignInv, ItemInv, EntryInv
<1>4. CASE ~sync_lost /\ ~HasReply(x)
  <2>1. UNCHANGED <<in_flight, out, sync_lost>>
    BY <1>2, <1>4 DEF SendResult
  <2>2. Aligned(scenario.command, in_flight, wire, stream')
    BY <1>1, <1>2, <1>4, AlignedSkip, LineFacts DEF MatchInv, AlignInv
  <2> QED
    BY <1>1, <1>4, <2>1, <2>2, ReadRest DEF MatchInv, EntryInv
<1>5. ASSUME ~sync_lost, HasReply(x)
      PROVE  MatchInv'
  <2>1. /\ in_flight # <<>> /\ 1 \in 1..(Len(in_flight) - Len(wire)) /\ First = in_flight[1]
        /\ Aligned(scenario.command, in_flight, wire, stream)
        /\ ItemOK(scenario.command, x) /\ EntryOK(scenario.command, First)
        /\ \/ MustDue(scenario.command, First) = {} /\ \E i \in DOMAIN in_flight : in_flight[i].of = x.of
           \/ /\ First.of = x.of /\ x.nth \in MayDue(scenario.command, First)
              /\ \A n \in MustDue(scenario.command, First) : n = x.nth \/ x.nth < n
    BY <1>1, <1>2, <1>5, FrontFacts
  <2>2. First \in EntrySet /\ First.of \in Calls /\ First.of \in sent
    BY <2>1, FirstFacts DEF BaseInv, LineInv
  <2>3. ASSUME First.of = x.of, in_flight' = Tail(in_flight),
               \A n \in MayDue(scenario.command, First) : ~(x.nth < n)
        PROVE  Aligned(scenario.command, in_flight, wire, stream)'
    BY <1>1, <1>2, <1>5, <2>1, <2>3, AlignedPop, LineFacts
  <2>4. ASSUME NEW e \in EntrySet, First.of = x.of, e.of = First.of, in_flight' = <<e>> \o Tail(in_flight),
               \A n \in MayDue(scenario.command, First) : x.nth < n => n \in MayDue(scenario.command, e),
               \A n \in MustDue(scenario.command, e) : n \in MustDue(scenario.command, First) /\ n # x.nth
        PROVE  Aligned(scenario.command, in_flight, wire, stream)'
    <3> DEFINE E == EntrySet
    <3>1. in_flight \in Seq(E) /\ e \in E
      BY DEF BaseInv, ShapeInv
    <3>2. /\ Len(in_flight') = Len(in_flight) /\ DOMAIN in_flight' = DOMAIN in_flight /\ in_flight'[1] = e
          /\ \A i \in DOMAIN in_flight : i # 1 => in_flight'[i] = in_flight[i]
      <4> HIDE DEF E
      <4> QED
        BY <2>1, <2>4, <3>1, PutFirst
    <3>3. Aligned(scenario.command, in_flight', wire, Tail(stream))
      BY <1>1, <1>2, <1>5, <2>1, <2>4, <3>2, AlignedKeep, LineFacts
    <3> QED
      BY <1>1, <3>3
  <2>5. ASSUME Gathers(x) PROVE MatchInv'
    <3>1. PICK g \in EntrySet : g = Gathered(First, x) /\ g.of = First.of
      BY <2>1, <2>2, FirstFacts, GatheredFacts
    <3>2. in_flight' = <<g>> \o Tail(in_flight) /\ UNCHANGED <<out, sync_lost>> /\ ~Fenced(First.of)
      BY <2>5, <3>1 DEF Gathers
    <3>3. /\ First.of = x.of /\ EntryOK(scenario.command, g)
          /\ \A n \in MayDue(scenario.command, First) : x.nth < n => n \in MayDue(scenario.command, g)
          /\ \A n \in MustDue(scenario.command, g) : n \in MustDue(scenario.command, First) /\ n # x.nth
      BY <1>1, <1>2, <1>5, <3>1, <3>2, GatherMatch
    <3>4. Aligned(scenario.command, in_flight, wire, stream)'
      BY <2>4, <3>1, <3>2, <3>3
    <3>5. \A i \in DOMAIN in_flight' : EntryOK(scenario.command, in_flight'[i])
      BY <1>5, <2>1, <3>2, <3>3, EntriesKept
    <3> QED
      BY <1>5, <3>2, <3>4, <3>5, ReadRest
  <2>6. ASSUME Replies(x) PROVE MatchInv'
    <3>1. First.left \in Nat \ {0}
      BY <2>1, FirstFacts
    <3>2. PICK g \in EntrySet : /\ g = Gathered(First, x) /\ g.of = First.of /\ g.left = First.left - 1
      BY <2>2, <3>1, GatheredFacts
    <3>3. /\ in_flight' = Tail(in_flight) /\ out' = Output(First.of, ~g.failed, g.buffer)
          /\ UNCHANGED sync_lost /\ ~Fenced(First.of) /\ ~(g.left > 0)
      BY <2>6, <3>2 DEF Replies
    <3>4. First.left = 1 /\ g.left = 0
      BY <3>1, <3>2, <3>3
    <3>5. /\ First.of = x.of /\ EntryOK(scenario.command, g)
          /\ \A n \in MayDue(scenario.command, First) : ~(x.nth < n)
      BY <1>1, <1>2, <1>5, <3>2, <3>3, <3>4, GatherMatch
    <3>6. Aligned(scenario.command, in_flight, wire, stream)'
      BY <2>3, <3>3, <3>5
    <3>7. \A i \in DOMAIN in_flight' : EntryOK(scenario.command, in_flight'[i])
      BY <1>5, <2>1, <3>3, EntriesKept
    <3>8. Own(scenario.command, First.of, g.buffer)
      <4>1. ~IsFence(scenario.command, First.of)
        BY <3>3 DEF IsFence, Fenced, Command
      <4> QED
        BY <3>2, <3>5, <4>1 DEF EntryOK, Own
    <3>9. PICK ok \in BOOLEAN : ok = ~g.failed
      BY <3>2 DEF EntrySet
    <3>10. PICK b \in Seq(ItemSet) : b = g.buffer
      BY <3>2 DEF EntrySet
    <3>11. \A q \in Calls : \/ out'[q] = out[q] \/ ~out'[q].ok
                            \/ q \in sent /\ Own(scenario.command, q, out'[q].items)
      BY <2>2, <3>3, <3>8, <3>9, <3>10, OutputOwn
    <3> QED
      BY <1>5, <3>3, <3>6, <3>7, <3>11, ReadRest
  <2>7. ASSUME Fenced(First.of), First.fenced_result = <<>>
        PROVE  /\ First.of = x.of /\ x.nth \in {1, 2}
               /\ MayDue(scenario.command, First) = {1, 2} /\ MustDue(scenario.command, First) = {2}
    <3>1. IsFence(scenario.command, First.of)
      BY <2>7 DEF IsFence, Fenced, Command
    <3>2. MayDue(scenario.command, First) = {1, 2} /\ MustDue(scenario.command, First) = {2}
      BY <2>7, <3>1 DEF MayDue, MustDue, Due
    <3> QED
      BY <2>1, <3>2
  <2>8. ASSUME Pongs(x) PROVE MatchInv'
    <3>1. /\ Fenced(First.of) /\ First.fenced_result = <<>> /\ x.kind = "pong"
          /\ in_flight' = Tail(in_flight) /\ out' = Output(First.of, TRUE, <<x>>) /\ UNCHANGED sync_lost
      BY <2>8 DEF Pongs
    <3>2. x.nth = 2 /\ First.of = x.of /\ \A n \in MayDue(scenario.command, First) : ~(x.nth < n)
      <4>1. IsFence(scenario.command, First.of)
        BY <3>1 DEF IsFence, Fenced, Command
      <4>2. First.of = x.of /\ x.nth \in {1, 2} /\ MayDue(scenario.command, First) = {1, 2}
        BY <2>7, <3>1
      <4>3. x.nth # 1
        BY <1>5, <2>1, <3>1, <4>1, <4>2 DEF ItemOK
      <4> QED
        BY <4>2, <4>3
    <3>3. Aligned(scenario.command, in_flight, wire, stream)'
      BY <2>3, <3>1, <3>2
    <3>4. \A i \in DOMAIN in_flight' : EntryOK(scenario.command, in_flight'[i])
      BY <1>5, <2>1, <3>1, EntriesKept
    <3>5. PICK items \in Seq(ItemSet) : items = <<x>>
      BY EmptySeqs
    <3>6. Own(scenario.command, First.of, items)
      <4>1. \A i \in DOMAIN <<x>> : <<x>>[i] = x
        OBVIOUS
      <4> QED
        BY <3>1, <3>2, <3>5, <4>1 DEF Own, IsFence, Fenced, Command
    <3>7. PICK ok \in BOOLEAN : ok = TRUE
      OBVIOUS
    <3>8. \A q \in Calls : \/ out'[q] = out[q] \/ ~out'[q].ok
                           \/ q \in sent /\ Own(scenario.command, q, out'[q].items)
      BY <2>2, <3>1, <3>5, <3>6, <3>7, OutputOwn
    <3> QED
      BY <1>5, <3>1, <3>3, <3>4, <3>8, ReadRest
  <2>9. ASSUME Keeps(x) PROVE MatchInv'
    <3>1. PICK e \in EntrySet : /\ e = [First EXCEPT !.fenced_result = <<x>>] /\ e.of = First.of
                                /\ e.fenced_result = <<x>>
      BY <2>2, KeptFacts
    <3>2. /\ Fenced(First.of) /\ First.fenced_result = <<>> /\ x.kind # "pong"
          /\ in_flight' = <<e>> \o Tail(in_flight) /\ UNCHANGED <<out, sync_lost>>
      BY <2>9, <3>1 DEF Keeps
    <3>3. IsFence(scenario.command, First.of) /\ IsFence(scenario.command, e.of)
      BY <3>1, <3>2 DEF IsFence, Fenced, Command
    <3>4. /\ First.of = x.of /\ x.nth \in {1, 2} /\ MayDue(scenario.command, First) = {1, 2}
          /\ MustDue(scenario.command, First) = {2}
      BY <2>7, <3>2
    <3>5. ~x.ok
      BY <1>5, <2>1, <3>2, <3>3, <3>4 DEF ItemOK
    <3>6. e.fenced_result # <<>> /\ e.fenced_result[1] = x
      BY <3>1
    <3>7. EntryOK(scenario.command, e)
      BY <3>3, <3>4, <3>5, <3>6 DEF EntryOK
    <3>8. /\ MayDue(scenario.command, e) = (IF x.nth = 1 THEN {2} ELSE {})
          /\ MustDue(scenario.command, e) = (IF x.nth = 1 THEN {2} ELSE {})
      BY <3>3, <3>6 DEF MayDue, MustDue, Due
    <3>9. /\ \A n \in MayDue(scenario.command, First) : x.nth < n => n \in MayDue(scenario.command, e)
          /\ \A n \in MustDue(scenario.command, e) : n \in MustDue(scenario.command, First) /\ n # x.nth
      BY <3>4, <3>8
    <3>10. Aligned(scenario.command, in_flight, wire, stream)'
      BY <2>4, <3>1, <3>2, <3>4, <3>9
    <3>11. \A i \in DOMAIN in_flight' : EntryOK(scenario.command, in_flight'[i])
      BY <1>5, <2>1, <3>2, <3>7, EntriesKept
    <3> QED
      BY <1>5, <3>2, <3>10, <3>11, ReadRest
  <2>10. ASSUME Closes(x) PROVE MatchInv'
    <3>1. /\ Fenced(First.of) /\ First.fenced_result # <<>> /\ in_flight' = Tail(in_flight)
          /\ sync_lost' = (x.kind # "pong")
          /\ out' = Output(First.of, x.kind = "pong" /\ First.fenced_result[1].ok, First.fenced_result)
      BY <2>10 DEF Closes
    <3>2. IsFence(scenario.command, First.of)
      BY <3>1 DEF IsFence, Fenced, Command
    <3>3. First.fenced_result[1].nth \in {1, 2} /\ ~First.fenced_result[1].ok
      BY <2>1, <3>1, <3>2 DEF EntryOK
    <3>4. PICK ok \in BOOLEAN : ok = (x.kind = "pong" /\ First.fenced_result[1].ok) /\ ~ok
      BY <3>3
    <3>5. PICK items \in Seq(ItemSet) : items = First.fenced_result
      BY <2>2 DEF EntrySet
    <3>6. \A q \in Calls : \/ out'[q] = out[q] \/ ~out'[q].ok
                           \/ q \in sent /\ Own(scenario.command, q, out'[q].items)
      BY <2>2, <3>1, <3>4, <3>5, OutputOwn
    <3>7. \A i \in DOMAIN in_flight' : EntryOK(scenario.command, in_flight'[i])
      BY <1>5, <2>1, <3>1, EntriesKept
    <3>8. ASSUME ~sync_lost' PROVE Aligned(scenario.command, in_flight, wire, stream)'
      <4>1. x.kind = "pong"
        BY <3>1, <3>8
      <4>2. First.of = x.of
        <5>1. ~TakesOthersPong(x)
          BY <1>2 DEF Read
        <5> QED
          BY <1>5, <2>1, <3>1, <4>1, <5>1 DEF TakesOthersPong, First
      <4>3. MayDue(scenario.command, First) = (IF First.fenced_result[1].nth = 1 THEN {2} ELSE {})
            /\ MustDue(scenario.command, First) = (IF First.fenced_result[1].nth = 1 THEN {2} ELSE {})
        BY <3>1, <3>2 DEF MayDue, MustDue, Due
      <4>4. \A n \in MayDue(scenario.command, First) : ~(x.nth < n)
        BY <2>1, <4>3
      <4> QED
        BY <2>3, <3>1, <4>2, <4>4
    <3> QED
      BY <1>5, <3>6, <3>7, <3>8, ReadRest
  <2> QED
    BY <1>2, <1>5, <2>1, <2>5, <2>6, <2>8, <2>9, <2>10, ReadCases DEF Skips, Refuses
<1> QED
  BY <1>3, <1>4, <1>5 DEF BaseInv, ShapeInv

\* A fence once mistaken stays on record.
LEMMA MistakenStays ==
    ASSUME BaseInv, [Next]_vars, ~mistaken'
    PROVE  ~mistaken
<1>1. ASSUME NEW r \in Calls, CallStep(r) \/ Tick(r) \/ TimeOut(r) PROVE mistaken' = mistaken
  BY <1>1 DEF CallStep, Lookup, Promote, Expire, BeginFill, Send, Receive, Complete, Tick, TimeOut, connVars
<1>2. ASSUME Pull \/ Break \/ Execute \/ UnpromptedPush \/ Write \/ Broadcast \/ Age \/ Reopen \/ UNCHANGED vars
      PROVE  mistaken' = mistaken
  BY <1>2 DEF Pull, Break, Execute, UnpromptedPush, Write, Broadcast, Age, Reopen, vars, connVars
<1>3. ASSUME Read PROVE ~mistaken
  BY <1>3 DEF Read
<1> QED
  BY <1>1, <1>2, <1>3 DEF Next

LEMMA NextMatch ==
    ASSUME RepliesCounted, BaseInv, MatchInv, [Next]_vars, ~mistaken'
    PROVE  MatchInv'
<1>1. ASSUME NEW r \in Calls, CallStep(r) \/ Tick(r) \/ TimeOut(r)
      PROVE  MatchInv'
  BY <1>1, CallerMatch
<1> QED
  BY <1>1, PullMatch, ReadMatch, BreakMatch, ExecuteMatch, PushMatch, ReopenMatch DEF Next

\* However callers time out, pushes arrive, commands fail and connections break, a
\* command that succeeds was given its own replies, all in their order (send_result),
\* as long as each command has as many replies as are counted for it and no fence takes
\* the PONG of another command for its own (the exception OwnReplies states).
THEOREM RepliesMatched ==
    ASSUME RepliesCounted
    PROVE  Spec => []OwnReplies
<1>1. BaseInv /\ (mistaken \/ MatchInv) /\ [Next]_vars => BaseInv' /\ (mistaken' \/ MatchInv')
  BY NextBase, NextMatch, MistakenStays
<1>2. Init => BaseInv /\ MatchInv
  BY InitBase, InitMatch
<1>3. mistaken \/ MatchInv => OwnReplies
  BY DEF MatchInv, OwnInv, Own, OwnReplies, IsFence, Fenced, Command
<1> QED
  BY <1>1, <1>2, <1>3, PTL DEF Spec

-----------------------------------------------------------------------------
(* The loops of the cache: eviction, and the invalidation of several keys *)

\* One turn of evict_until_space_available.
Evicted(size, d) ==
    IF NeedsEviction(d, size) /\ Cached(d) # {} THEN Removed(d, Victim(d)) ELSE d

IsEviction(c, size, n, g) == g = [i \in 0..n |-> IF i = 0 THEN c ELSE Evicted(size, g[i - 1])]

LEMMA EvictionExists ==
    ASSUME NEW c, NEW size, NEW n \in Nat
    PROVE  \E g : IsEviction(c, size, n, g)
<1> DEFINE D == {i \in Nat : ~\E g : IsEviction(c, size, i, g)}
<1> SUFFICES ASSUME D # {} PROVE FALSE
  OBVIOUS
<1>1. PICK m \in D : \A k \in D : m <= k
  <2>1. D \in SUBSET Nat
    OBVIOUS
  <2> HIDE DEF D
  <2> QED
    BY <2>1, Minimum
<1>2. CASE m = 0
  <2>1. PICK g : g = [i \in 0..0 |-> c]
    OBVIOUS
  <2>2. g = [i \in 0..0 |-> IF i = 0 THEN c ELSE Evicted(size, g[i - 1])]
    <3>1. \A i \in 0..0 : i = 0
      OBVIOUS
    <3> QED
      BY <2>1, <3>1
  <2> QED
    BY <1>1, <1>2, <2>2 DEF IsEviction
<1>3. CASE m # 0
  <2>1. PICK j \in Nat : m = j + 1
    <3>1. m - 1 \in Nat /\ m = (m - 1) + 1
      BY <1>3
    <3> QED
      BY <3>1
  <2>2. j \notin D
    BY <1>1, <2>1
  <2>3. PICK g : IsEviction(c, size, j, g)
    BY <2>2
  <2>4. PICK h : h = [i \in 0..m |-> IF i = m THEN Evicted(size, g[j]) ELSE g[i]]
    OBVIOUS
  <2>5. ASSUME NEW i \in 0..m PROVE h[i] = IF i = 0 THEN c ELSE Evicted(size, h[i - 1])
    <3>1. CASE i = 0
      <4>1. i # m /\ 0 \in 0..j /\ h[0] = g[0]
        BY <1>3, <2>4, <3>1
      <4> QED
        BY <2>3, <3>1, <4>1 DEF IsEviction
    <3>2. CASE i # 0
      <4>1. i - 1 \in 0..j /\ i - 1 \in 0..m /\ i - 1 # m
        BY <2>1, <3>2
      <4>2. h[i - 1] = g[i - 1]
        BY <2>4, <4>1
      <4>3. CASE i = m
        <5>1. i - 1 = j
          BY <2>1, <4>3
        <5> QED
          BY <2>4, <3>2, <4>2, <4>3, <5>1
      <4>4. CASE i # m
        <5>1. i \in 0..j
          BY <2>1, <4>4
        <5>2. g[i] = Evicted(size, g[i - 1])
          BY <2>3, <3>2, <5>1 DEF IsEviction
        <5> QED
          BY <2>4, <3>2, <4>2, <4>4, <5>2
      <4> QED
        BY <4>3, <4>4
    <3> QED
      BY <3>1, <3>2
  <2>6. h = [i \in 0..m |-> h[i]]
    BY <2>4
  <2>7. h = [i \in 0..m |-> IF i = 0 THEN c ELSE Evicted(size, h[i - 1])]
    BY <2>5, <2>6
  <2> QED
    BY <1>1, <2>7 DEF IsEviction
<1> QED
  BY <1>2, <1>3

LEMMA EvictionLoop ==
    ASSUME NEW c, NEW size
    PROVE  \E g : /\ IsEviction(c, size, Cardinality(Keys), g)
                  /\ evict_until_space_available(c, size) = g[Cardinality(Keys)]
<1>0. Cardinality(Keys) \in Nat
  BY MemoryAssumption, FS_CardinalityType
<1>1. PICK h : IsEviction(c, size, Cardinality(Keys), h)
  BY <1>0, EvictionExists
<1>2. \E after : after = [n \in 0..Cardinality(Keys) |->
            IF n = 0 THEN c
            ELSE IF NeedsEviction(after[n - 1], size) /\ Cached(after[n - 1]) # {}
                    THEN Removed(after[n - 1], Victim(after[n - 1]))
                    ELSE after[n - 1]]
  BY <1>1 DEF IsEviction, Evicted
<1> DEFINE g == CHOOSE after : after = [n \in 0..Cardinality(Keys) |->
            IF n = 0 THEN c
            ELSE IF NeedsEviction(after[n - 1], size) /\ Cached(after[n - 1]) # {}
                    THEN Removed(after[n - 1], Victim(after[n - 1]))
                    ELSE after[n - 1]]
<1>3. IsEviction(c, size, Cardinality(Keys), g)
  BY <1>2, Zenon DEF IsEviction, Evicted
<1>4. evict_until_space_available(c, size) = g[Cardinality(Keys)]
  BY Zenon DEF evict_until_space_available
<1> QED
  BY <1>3, <1>4

LEMMA EvictionFacts ==
    ASSUME NEW c, IsCache(c), NEW size
    PROVE  /\ Within(evict_until_space_available(c, size), c)
           /\ evict_until_space_available(c, size).fills = c.fills
<1>1. PICK n \in Nat : n = Cardinality(Keys)
  BY MemoryAssumption, FS_CardinalityType
<1>2. PICK g : IsEviction(c, size, n, g) /\ evict_until_space_available(c, size) = g[n]
  BY <1>1, EvictionLoop
<1> DEFINE D == {i \in 0..n : ~(Within(g[i], c) /\ g[i].fills = c.fills)}
<1>3. D = {}
  <2> SUFFICES ASSUME D # {} PROVE FALSE
    OBVIOUS
  <2>1. PICK m \in D : \A k \in D : m <= k
    <3>1. D \in SUBSET Nat
      OBVIOUS
    <3> HIDE DEF D
    <3> QED
      BY <3>1, Minimum
  <2>2. CASE m = 0
    <3>1. 0 \in 0..n
      OBVIOUS
    <3>2. g[0] = c
      BY <1>2, <3>1 DEF IsEviction
    <3> QED
      BY <2>1, <2>2, <3>2 DEF Within
  <2>3. CASE m # 0
    <3>1. m - 1 \in 0..n /\ m \in 0..n /\ ~(m <= m - 1)
      BY <2>3
    <3>2. PICK d : d = g[m - 1]
      OBVIOUS
    <3>3. Within(d, c) /\ d.fills = c.fills
      BY <2>1, <3>1, <3>2
    <3>4. g[m] = Evicted(size, d)
      BY <1>2, <2>3, <3>1, <3>2 DEF IsEviction
    <3>5. g[m] = d \/ g[m] = Removed(d, Victim(d))
      BY <3>4 DEF Evicted
    <3>6. PICK v : v = Victim(d)
      OBVIOUS
    <3>7. Within(Removed(d, v), d) /\ Removed(d, v).fills = d.fills
      BY <3>3, RemovedFacts DEF Within
    <3>8. Within(Removed(d, v), c) /\ Removed(d, v).fills = c.fills
      BY <3>3, <3>7 DEF Within
    <3> QED
      BY <2>1, <3>3, <3>5, <3>6, <3>8
  <2> QED
    BY <2>2, <2>3
<1>4. n \in 0..n
  BY <1>1
<1> QED
  BY <1>2, <1>3, <1>4

LEMMA WithoutFillFacts ==
    ASSUME NEW c, IsCache(c), NEW k, NEW r
    PROVE  /\ IsCache(WithoutFill(c, k, r)) /\ WithoutFill(c, k, r).entries = c.entries
           /\ WithoutFill(c, k, r).policy = c.policy
           /\ WithoutFill(c, k, r).fills = c.fills \ {<<k, r>>}
<1>1. PICK fills \in SUBSET (Keys \X Calls) : fills = c.fills \ {<<k, r>>}
  BY DEF IsCache
<1>2. PICK memory \in Nat : memory = c.memory
  BY DEF IsCache
<1>3. PICK d : d = [c EXCEPT !.fills = fills]
  OBVIOUS
<1>4. d = WithoutFill(c, k, r)
  BY <1>1, <1>3 DEF WithoutFill
<1> QED
  BY <1>1, <1>2, <1>3, <1>4, RebookedFacts

\* What insert_if_active_fill makes of a cache.
InsertGives(c, d, k, v, r) ==
    /\ IsCache(d) /\ d.fills = c.fills \ {<<k, r>>}
    /\ \A other \in Cached(d) :
         \/ other \in Cached(c) /\ d.entries[other].version = c.entries[other].version
         \/ other = k /\ d.entries[other].version = v /\ <<k, r>> \in c.fills

LEMMA InsertFacts ==
    ASSUME NEW c, IsCache(c), NEW k \in Keys, NEW v \in Nat, NEW r
    PROVE  InsertGives(c, insert_if_active_fill(c, k, v, r), k, v, r)
<1>1. PICK b : b = WithoutFill(c, k, r)
  OBVIOUS
<1>2. IsCache(b) /\ b.entries = c.entries /\ b.policy = c.policy /\ b.fills = c.fills \ {<<k, r>>}
  BY <1>1, WithoutFillFacts
<1>3. PICK d : d = insert_if_active_fill(c, k, v, r)
  OBVIOUS
<1>4. ASSUME EntrySize(v) > MaxMemory \/ ~ActiveFill(c, k, r) PROVE InsertGives(c, d, k, v, r)
  <2>1. d = b
    BY <1>1, <1>3, <1>4 DEF insert_if_active_fill
  <2> QED
    BY <1>2, <2>1 DEF Cached, InsertGives
<1>5. ASSUME ~(EntrySize(v) > MaxMemory \/ ~ActiveFill(c, k, r)) PROVE InsertGives(c, d, k, v, r)
  <2>1. d = insert_with_lock(b, k, v) /\ <<k, r>> \in c.fills
    BY <1>1, <1>3, <1>5 DEF insert_if_active_fill, ActiveFill
  <2>2. PICK size \in Nat : size = EntrySize(v)
    BY SizeNat
  <2>3. PICK a : a = Removed(b, k)
    OBVIOUS
  <2>4. Within(a, b) /\ a.fills = b.fills
    BY <1>2, <2>3, RemovedFacts
  <2>5. PICK room : room = evict_until_space_available(a, size)
    OBVIOUS
  <2>6. Within(room, a) /\ room.fills = a.fills
    BY <2>4, <2>5, EvictionFacts DEF Within
  <2>7. PICK entry : entry = [version |-> v, expired |-> FALSE, frequency |-> 1]
    OBVIOUS
  <2>8. entry \in Entry /\ entry.version = v
    <3>1. 1 \in Nat \ {0}
      OBVIOUS
    <3> QED
      BY <2>7, <3>1 DEF Entry
  <2>9. PICK s : s = Stored(room, k, entry)
    OBVIOUS
  <2>10. /\ IsCache(s) /\ s.policy = room.policy /\ s.fills = room.fills
         /\ Cached(s) = Cached(room) \cup {k} /\ s.entries[k] = entry
         /\ \A other \in Cached(room) \ {k} : s.entries[other] = room.entries[other]
    BY <2>6, <2>8, <2>9, StoredFacts DEF Within
  <2>11. d = [s EXCEPT !.memory = @ + size]
    BY <2>1, <2>2, <2>3, <2>5, <2>7, <2>9 DEF insert_with_lock
  <2>12. PICK memory \in Nat : memory = s.memory + size
    BY <2>10 DEF IsCache
  <2>13. PICK fills \in SUBSET (Keys \X Calls) : fills = s.fills
    BY <2>10 DEF IsCache
  <2>14. d = [s EXCEPT !.memory = memory]
    BY <2>11, <2>12
  <2>15. IsCache(d) /\ d.entries = s.entries /\ d.policy = s.policy /\ d.fills = s.fills
    BY <2>10, <2>13, <2>14, RebookedFacts
  <2>16. ASSUME NEW other \in Cached(d)
         PROVE  \/ other \in Cached(c) /\ d.entries[other].version = c.entries[other].version
                \/ other = k /\ d.entries[other].version = v /\ <<k, r>> \in c.fills
    <3>1. CASE other = k
      BY <2>1, <2>8, <2>10, <2>15, <3>1
    <3>2. CASE other # k
      <4>1. other \in Cached(room) /\ d.entries[other] = room.entries[other]
        BY <2>10, <2>15, <3>2 DEF Cached
      <4> QED
        BY <1>2, <2>4, <2>6, <4>1 DEF Within, Cached
    <3> QED
      BY <3>1, <3>2
  <2>17. d.fills = c.fills \ {<<k, r>>}
    BY <1>2, <2>4, <2>6, <2>10, <2>15
  <2> QED
    BY <2>15, <2>16, <2>17 DEF InsertGives
<1> QED
  BY <1>3, <1>4, <1>5

\* The keys of an invalidation go one by one, in some order.
Chosen(t) == CHOOSE x \in t : TRUE

IsSweep(c, D, g) ==
    g = [t \in D |-> IF t = {} THEN c ELSE invalidate_server_assisted(g[t \ {Chosen(t)}], Chosen(t))]

UpTo(S, n) == {t \in SUBSET S : Cardinality(t) <= n}

LEMMA SmallerFacts ==
    ASSUME NEW S, IsFiniteSet(S), NEW t \in SUBSET S, t # {}
    PROVE  /\ Chosen(t) \in t /\ t \ {Chosen(t)} \in SUBSET S
           /\ Cardinality(t) \in Nat /\ Cardinality(t \ {Chosen(t)}) = Cardinality(t) - 1
           /\ Cardinality(t) - 1 \in Nat
<1>1. IsFiniteSet(t)
  BY FS_Subset
<1>2. Cardinality(t) \in Nat /\ Cardinality(t) # 0
  BY <1>1, FS_CardinalityType, FS_EmptySet
<1>3. Chosen(t) \in t
  BY DEF Chosen
<1>4. Cardinality(t \ {Chosen(t)}) = Cardinality(t) - 1
  BY <1>1, <1>3, FS_RemoveElement
<1> QED
  BY <1>2, <1>3, <1>4

LEMMA SweepExists ==
    ASSUME NEW c, NEW S, IsFiniteSet(S), NEW n \in Nat
    PROVE  \E g : IsSweep(c, UpTo(S, n), g)
<1> DEFINE D == {i \in Nat : ~\E g : IsSweep(c, UpTo(S, i), g)}
<1> SUFFICES ASSUME D # {} PROVE FALSE
  OBVIOUS
<1>1. PICK m \in D : \A k \in D : m <= k
  <2>1. D \in SUBSET Nat
    OBVIOUS
  <2> HIDE DEF D
  <2> QED
    BY <2>1, Minimum
<1>2. CASE m = 0
  <2>1. PICK g : g = [t \in UpTo(S, 0) |-> c]
    OBVIOUS
  <2>2. ASSUME NEW t \in UpTo(S, 0) PROVE t = {}
    <3>1. t \in SUBSET S /\ Cardinality(t) <= 0
      BY DEF UpTo
    <3>2. IsFiniteSet(t) /\ Cardinality(t) \in Nat
      BY <3>1, FS_Subset, FS_CardinalityType
    <3>3. Cardinality(t) = 0
      BY <3>1, <3>2
    <3> QED
      BY <3>2, <3>3, FS_EmptySet
  <2>3. IsSweep(c, UpTo(S, 0), g)
    BY <2>1, <2>2 DEF IsSweep
  <2> QED
    BY <1>1, <1>2, <2>3
<1>3. CASE m # 0
  <2>1. PICK j \in Nat : m = j + 1
    <3>1. m - 1 \in Nat /\ m = (m - 1) + 1
      BY <1>3
    <3> QED
      BY <3>1
  <2>2. j \notin D
    BY <1>1, <2>1
  <2>3. PICK g : IsSweep(c, UpTo(S, j), g)
    BY <2>2
  <2>4. PICK h : h = [t \in UpTo(S, m) |->
            IF t \in UpTo(S, j) THEN g[t] ELSE invalidate_server_assisted(g[t \ {Chosen(t)}], Chosen(t))]
    OBVIOUS
  <2>5. ASSUME NEW t \in UpTo(S, m)
        PROVE  h[t] = IF t = {} THEN c ELSE invalidate_server_assisted(h[t \ {Chosen(t)}], Chosen(t))
    <3>1. t \in SUBSET S /\ Cardinality(t) <= m
      BY DEF UpTo
    <3>2. CASE t = {}
      <4>1. t \in UpTo(S, j)
        <5>1. Cardinality({}) = 0
          BY FS_EmptySet
        <5>2. 0 <= j
          OBVIOUS
        <5> QED
          BY <3>2, <5>1, <5>2 DEF UpTo
      <4>2. h[t] = g[t]
        BY <2>4, <4>1
      <4>3. g[t] = c
        BY <2>3, <3>2, <4>1 DEF IsSweep
      <4> QED
        BY <3>2, <4>2, <4>3
    <3>3. CASE t # {}
      <4>1. PICK x : x = Chosen(t)
        OBVIOUS
      <4>2. PICK u : u = t \ {x}
        OBVIOUS
      <4>3. u \in SUBSET S /\ Cardinality(t) \in Nat /\ Cardinality(u) = Cardinality(t) - 1
        BY <3>1, <3>3, <4>1, <4>2, SmallerFacts
      <4>4. Cardinality(u) <= j /\ Cardinality(u) <= m
        BY <2>1, <3>1, <4>3
      <4>5. u \in UpTo(S, j) /\ u \in UpTo(S, m)
        BY <4>3, <4>4 DEF UpTo
      <4>6. h[u] = g[u]
        BY <2>4, <4>5
      <4>7. CASE t \in UpTo(S, j)
        <5>1. g[t] = invalidate_server_assisted(g[u], x)
          BY <2>3, <3>3, <4>1, <4>2, <4>7 DEF IsSweep
        <5> QED
          BY <2>4, <3>3, <4>1, <4>2, <4>6, <4>7, <5>1
      <4>8. CASE t \notin UpTo(S, j)
        <5>1. h[t] = invalidate_server_assisted(g[u], x)
          BY <2>4, <4>1, <4>2, <4>8
        <5> QED
          BY <3>3, <4>1, <4>2, <4>6, <5>1
      <4> QED
        BY <4>7, <4>8
    <3> QED
      BY <3>2, <3>3
  <2>6. h = [t \in UpTo(S, m) |-> h[t]]
    BY <2>4
  <2>7. IsSweep(c, UpTo(S, m), h)
    BY <2>5, <2>6 DEF IsSweep
  <2> QED
    BY <1>1, <2>7
<1> QED
  BY <1>2, <1>3

LEMMA SweepLoop ==
    ASSUME NEW c, NEW S, IsFiniteSet(S)
    PROVE  \E g : /\ IsSweep(c, SUBSET S, g)
                  /\ FoldSet(LAMBDA k, d : invalidate_server_assisted(d, k), c, S) = g[S]
<1>1. PICK h : IsSweep(c, SUBSET S, h)
  <2>1. Cardinality(S) \in Nat
    BY FS_CardinalityType
  <2>2. UpTo(S, Cardinality(S)) = SUBSET S
    BY FS_Subset DEF UpTo
  <2>3. PICK n \in Nat : n = Cardinality(S)
    BY <2>1
  <2>4. PICK h : IsSweep(c, UpTo(S, n), h)
    BY SweepExists
  <2> QED
    BY <2>2, <2>3, <2>4
<1> DEFINE g == CHOOSE iter : iter = [s \in SUBSET S |->
            IF s = {} THEN c
            ELSE invalidate_server_assisted(iter[s \ {CHOOSE x \in s : TRUE}], CHOOSE x \in s : TRUE)]
<1>2. IsSweep(c, SUBSET S, g)
  BY <1>1, Zenon DEF IsSweep, Chosen
<1>3. FoldSet(LAMBDA k, d : invalidate_server_assisted(d, k), c, S) = g[S]
  BY Zenon DEF FoldSet, MapThenFoldSet
<1> QED
  BY <1>2, <1>3

LEMMA InvalidateFacts ==
    ASSUME NEW c, IsCache(c), NEW k
    PROVE  LET d == invalidate_server_assisted(c, k)
           IN  /\ Within(d, c) /\ Cached(d) = Cached(c) \ {k}
               /\ d.fills = {f \in c.fills : f[1] # k}
<1>1. PICK fills \in SUBSET (Keys \X Calls) : fills = {f \in c.fills : f[1] # k}
  BY DEF IsCache
<1>2. PICK memory \in Nat : memory = c.memory
  BY DEF IsCache
<1>3. PICK b : b = [c EXCEPT !.fills = fills]
  OBVIOUS
<1>4. IsCache(b) /\ b.entries = c.entries /\ b.policy = c.policy /\ b.fills = fills
  BY <1>2, <1>3, RebookedFacts
<1>5. invalidate_server_assisted(c, k) = Removed(b, k)
  BY <1>1, <1>3 DEF invalidate_server_assisted
<1>6. PICK d : d = Removed(b, k)
  OBVIOUS
<1>7. Within(d, b) /\ d.fills = b.fills /\ Cached(d) = Cached(b) \ {k}
  BY <1>4, <1>6, RemovedFacts
<1> QED
  BY <1>1, <1>4, <1>5, <1>6, <1>7 DEF Within, Cached

\* An invalidation takes the keys' entries, and what is being filled for them.
LEMMA SweepFacts ==
    ASSUME NEW c, IsCache(c), NEW S \in SUBSET Keys
    PROVE  LET d == FoldSet(LAMBDA k, e : invalidate_server_assisted(e, k), c, S)
           IN  /\ Within(d, c) /\ Cached(d) = Cached(c) \ S
               /\ d.fills = {f \in c.fills : f[1] \notin S}
<1>0. IsFiniteSet(S)
  BY MemoryAssumption, FS_Subset
<1>1. PICK g : /\ IsSweep(c, SUBSET S, g)
               /\ FoldSet(LAMBDA k, d : invalidate_server_assisted(d, k), c, S) = g[S]
  BY <1>0, SweepLoop
<1> DEFINE Swept(t) == /\ Within(g[t], c) /\ Cached(g[t]) = Cached(c) \ t
                       /\ g[t].fills = {f \in c.fills : f[1] \notin t}
           D == {n \in Nat : \E t \in SUBSET S : Cardinality(t) = n /\ ~Swept(t)}
<1>2. D = {}
  <2> SUFFICES ASSUME D # {} PROVE FALSE
    OBVIOUS
  <2>1. PICK m \in D : \A k \in D : m <= k
    <3>1. D \in SUBSET Nat
      OBVIOUS
    <3> HIDE DEF D
    <3> QED
      BY <3>1, Minimum
  <2>2. PICK t \in SUBSET S : Cardinality(t) = m /\ ~Swept(t)
    BY <2>1
  <2>3. CASE t = {}
    <3>1. g[t] = c
      BY <1>1, <2>3 DEF IsSweep
    <3>2. Within(c, c)
      BY DEF Within
    <3> QED
      BY <2>2, <2>3, <3>1, <3>2
  <2>4. CASE t # {}
    <3>1. PICK x : x = Chosen(t)
      OBVIOUS
    <3>2. PICK u : u = t \ {x}
      OBVIOUS
    <3>3. x \in t /\ u \in SUBSET S /\ Cardinality(u) = m - 1 /\ m - 1 \in Nat
      BY <1>0, <2>2, <2>4, <3>1, <3>2, SmallerFacts
    <3>4. m - 1 \notin D
      BY <2>1, <3>3
    <3>5. Swept(u)
      BY <3>3, <3>4
    <3>6. PICK e : e = g[u]
      OBVIOUS
    <3>7. Within(e, c) /\ Cached(e) = Cached(c) \ u /\ e.fills = {f \in c.fills : f[1] \notin u}
      BY <3>5, <3>6
    <3>8. PICK d : d = invalidate_server_assisted(e, x)
      OBVIOUS
    <3>9. g[t] = d
      BY <1>1, <2>4, <3>1, <3>2, <3>6, <3>8 DEF IsSweep
    <3>10. Within(d, e) /\ Cached(d) = Cached(e) \ {x} /\ d.fills = {f \in e.fills : f[1] # x}
      BY <3>7, <3>8, InvalidateFacts DEF Within
    <3>11. Within(d, c)
      BY <3>7, <3>10 DEF Within
    <3>12. Cached(d) = Cached(c) \ t /\ d.fills = {f \in c.fills : f[1] \notin t}
      BY <3>2, <3>3, <3>7, <3>10
    <3> QED
      BY <2>2, <3>9, <3>11, <3>12
  <2> QED
    BY <2>3, <2>4
<1>3. Swept(S)
  <2>1. Cardinality(S) \in Nat
    BY <1>0, FS_CardinalityType
  <2> QED
    BY <1>2, <2>1
<1> QED
  BY <1>1, <1>3

-----------------------------------------------------------------------------
(* What a call that fills the cache is given *)

Valued(c, x) == x.vals \in [c.missing -> 1..Nil]

\* The first item is a reply with a value for every key that call r asked for.
Usable(r, items) == items # <<>> /\ Valued(call[r], items[1])

\* Only what was sent is executed and answered, and an invalidation names keys.
SeenInv ==
    /\ \A i \in DOMAIN wire : wire[i] \in sent
    /\ \A p \in DOMAIN stream :
         /\ HasReply(stream[p]) => stream[p].of \in sent
         /\ stream[p].kind = "invalidate" => stream[p].vals \in SUBSET Keys

ValueInv ==
    \A r \in Calls : Caches(scenario, r) =>
        /\ call[r].pc = "await" => \A p \in DOMAIN stream :
             HasReply(stream[p]) /\ stream[p].of = r => Valued(call[r], stream[p])
        /\ call[r].pc = "await" /\ out[r].ok => Usable(r, out[r].items)
        /\ call[r].pc = "complete" => Usable(r, call[r].items)

ReplyInv == SeenInv /\ ValueInv

LEMMA InitReply ==
    ASSUME Init
    PROVE  ReplyInv
<1>1. wire = <<>> /\ stream = <<>> /\ DOMAIN <<>> = {}
  BY DEF Init
<1>2. SeenInv
  BY <1>1 DEF SeenInv
<1>3. ASSUME NEW r \in Calls PROVE ~out[r].ok /\ call[r].pc # "complete"
  <2>1. ~out[r].ok
    BY UnsetFacts DEF Init
  <2>2. call[r].pc # "complete"
    <3>1. call[r] = NewCall(r)
      BY DEF Init
    <3>2. PICK d : d = Done("unused", <<>>)
      OBVIOUS
    <3>3. "unused" \in Results
      BY DEF Results
    <3>4. d.pc = "done"
      BY <3>2, <3>3, DoneEmpty
    <3>5. PICK keys : keys = Command(r).keys
      OBVIOUS
    <3>6. call[r] \in {d, [Idle EXCEPT !.pc = "lookup", !.todo = keys], [Idle EXCEPT !.missing = keys]}
      BY <3>1, <3>2, <3>5 DEF NewCall
    <3> QED
      BY <3>4, <3>6 DEF Idle
  <2> QED
    BY <2>1, <2>2
<1>4. ValueInv
  BY <1>1, <1>3 DEF ValueInv
<1> QED
  BY <1>2, <1>4 DEF ReplyInv

LEMMA CallerReply ==
    ASSUME BaseInv, MatchInv, ReplyInv, NEW r \in Calls, CallStep(r) \/ Tick(r) \/ TimeOut(r)
    PROVE  ReplyInv'
<1>1. UNCHANGED <<scenario, wire, stream, sent>>
  BY CallerCases DEF serverVars
<1>2. SeenInv'
  BY <1>1 DEF ReplyInv, SeenInv
<1>3. call \in [Calls -> CallSet] /\ out \in [Calls -> OneshotSet]
  BY DEF BaseInv, ShapeInv
<1>4. ASSUME NEW c, call' = [call EXCEPT ![r] = c], out' \in {out, [out EXCEPT ![r] = Unset]},
             c.pc = "await" => r \notin sent /\ out' = out,
             Caches(scenario, r) /\ c.pc = "complete" =>
                 c.items # <<>> /\ c.items[1].vals \in [c.missing -> 1..Nil]
      PROVE  ValueInv'
  <2>1. ASSUME NEW q \in Calls, q # r, Caches(scenario, q)
        PROVE  /\ call'[q].pc = "await" => \A p \in DOMAIN stream :
                    HasReply(stream[p]) /\ stream[p].of = q => Valued(call'[q], stream[p])
               /\ call'[q].pc = "await" /\ out'[q].ok => out'[q].items # <<>> /\ Valued(call'[q], out'[q].items[1])
               /\ call'[q].pc = "complete" => call'[q].items # <<>> /\ Valued(call'[q], call'[q].items[1])
    <3>1. call'[q] = call[q] /\ out'[q] = out[q]
      BY <1>3, <1>4, <2>1
    <3> QED
      BY <2>1, <3>1 DEF ReplyInv, ValueInv, Usable
  <2>2. ASSUME Caches(scenario, r)
        PROVE  /\ call'[r].pc = "await" => \A p \in DOMAIN stream :
                    HasReply(stream[p]) /\ stream[p].of = r => Valued(call'[r], stream[p])
               /\ call'[r].pc = "await" /\ out'[r].ok => out'[r].items # <<>> /\ Valued(call'[r], out'[r].items[1])
               /\ call'[r].pc = "complete" => call'[r].items # <<>> /\ Valued(call'[r], call'[r].items[1])
    <3>1. call'[r] = c
      BY <1>3, <1>4
    <3>2. c.pc = "await" => ~out'[r].ok /\ \A p \in DOMAIN stream : ~(HasReply(stream[p]) /\ stream[p].of = r)
      BY <1>4 DEF ReplyInv, SeenInv, MatchInv, OwnInv
    <3> QED
      BY <1>4, <2>2, <3>1, <3>2 DEF Valued
  <2> QED
    BY <1>1, <2>1, <2>2 DEF ValueInv, Usable
<1>5. ASSUME Moves(r) PROVE ValueInv'
  <2>1. PICK c \in CallSet : /\ call' = [call EXCEPT ![r] = c] /\ out' = out
                             /\ c.pc \in Underway /\ (c.pc = "await" => call[r].pc \in {"send", "full"})
    BY <1>5 DEF Moves
  <2>2. c.pc # "complete" /\ (c.pc = "await" => r \notin sent)
    BY <2>1 DEF Underway, BaseInv, LineInv, Begun
  <2> QED
    BY <1>4, <2>1, <2>2
<1>6. ASSUME NEW result \in Results, NEW items \in Seq(ItemSet), call' = [call EXCEPT ![r] = Done(result, items)],
             out' \in {out, [out EXCEPT ![r] = Unset]}
      PROVE  ValueInv'
  <2>1. PICK c : c = Done(result, items)
    OBVIOUS
  <2>2. c.pc = "done"
    BY <2>1, DoneFacts
  <2> QED
    BY <1>4, <1>6, <2>1, <2>2
<1>7. "ok" \in Results
  BY DEF Results
<1>8. ASSUME Hits(r) PROVE ValueInv'
  BY <1>6, <1>7, <1>8, EmptySeqs DEF Hits
<1>9. ASSUME Ends(r) PROVE ValueInv'
  <2>1. PICK result \in Results : \E items \in Seq(ItemSet) :
          Finish(r, result, items) /\ out' \in {out, [out EXCEPT ![r] = Unset]}
    BY <1>9, Zenon DEF Ends
  <2>2. PICK items \in Seq(ItemSet) : Finish(r, result, items) /\ out' \in {out, [out EXCEPT ![r] = Unset]}
    BY <2>1
  <2> QED
    BY <1>6, <2>2 DEF Finish
<1>10. ASSUME Answered(r) PROVE ValueInv'
  <2>1. PICK c \in CallSet : /\ call' = [call EXCEPT ![r] = c] /\ out[r].ok /\ c.items = out[r].items
                             /\ out' = [out EXCEPT ![r] = Unset] /\ c.pc = "complete"
                             /\ c.missing = call[r].missing /\ call[r].pc = "await"
    BY <1>10 DEF Answered
  <2>2. Caches(scenario, r) => c.items # <<>> /\ c.items[1].vals \in [c.missing -> 1..Nil]
    BY <2>1 DEF ReplyInv, ValueInv, Usable, Valued
  <2> QED
    BY <1>4, <2>1, <2>2
<1>11. ASSUME Offers(r) PROVE ValueInv'
  <2>1. call[r].pc = "complete" /\ out' = out
    BY <1>11 DEF Offers
  <2>2. call[r].items \in Seq(ItemSet)
    BY <1>3 DEF CallSet
  <2>3. CASE call' = [call EXCEPT ![r] = Done("ok", call[r].items)]
    BY <1>6, <1>7, <2>1, <2>2, <2>3
  <2>4. ASSUME NEW c \in CallSet, call' = [call EXCEPT ![r] = c], c.items = call[r].items,
               c.missing = call[r].missing, c.pc = "complete"
        PROVE  ValueInv'
    <3>1. Caches(scenario, r) => c.items # <<>> /\ c.items[1].vals \in [c.missing -> 1..Nil]
      BY <2>1, <2>4 DEF ReplyInv, ValueInv, Usable, Valued
    <3> QED
      BY <1>4, <2>1, <2>4, <3>1
  <2> QED
    BY <1>11, <2>3, <2>4 DEF Offers
<1> QED
  BY <1>2, <1>5, <1>8, <1>9, <1>10, <1>11, CallerCases DEF ReplyInv

\* A new item: an answer to a call that was sent, or a push.
Fresh(x) ==
    /\ HasReply(x) => x.of \in sent /\ \A r \in Calls : Caches(scenario, r) /\ x.of = r => Valued(call[r], x)
    /\ x.kind = "invalidate" => x.vals \in SUBSET Keys

\* Steps of others: what r is given was on the stream as its reply.
LEMMA OtherReply ==
    ASSUME ReplyInv, \A r \in Calls : Alike(call'[r], call[r]), scenario' = scenario, sent \subseteq sent',
           \A i \in DOMAIN wire' : wire'[i] \in sent',
           \A p \in DOMAIN stream' : Fresh(stream'[p]) \/ \E q \in DOMAIN stream : stream'[p] = stream[q],
           \A r \in Calls : Caches(scenario, r) =>
               \/ out'[r] = out[r] \/ ~out'[r].ok
               \/ \E q \in DOMAIN stream : HasReply(stream[q]) /\ stream[q].of = r /\ out'[r].items = <<stream[q]>>
    PROVE  ReplyInv'
<1>1. \A p \in DOMAIN stream' : Fresh(stream'[p]) /\ HasReply(stream'[p]) => stream'[p].of \in sent'
  BY DEF Fresh
<1>2. SeenInv'
  BY <1>1 DEF ReplyInv, SeenInv, Fresh
<1>3. ASSUME NEW r \in Calls, Caches(scenario, r), NEW x, Valued(call[r], x) PROVE Valued(call'[r], x)
  BY <1>3 DEF Valued, Alike
<1>4. ASSUME NEW r \in Calls, Caches(scenario, r), call[r].pc = "await", NEW p \in DOMAIN stream',
             HasReply(stream'[p]), stream'[p].of = r
      PROVE  Valued(call'[r], stream'[p])
  <2>1. Valued(call[r], stream'[p])
    BY <1>4 DEF ReplyInv, ValueInv, Fresh
  <2> QED
    BY <1>3, <1>4, <2>1
<1>5. ASSUME NEW r \in Calls, Caches(scenario, r), call[r].pc = "await", out'[r].ok
      PROVE  out'[r].items # <<>> /\ Valued(call'[r], out'[r].items[1])
  <2>1. CASE out'[r] = out[r]
    BY <1>3, <1>5, <2>1 DEF ReplyInv, ValueInv, Usable
  <2>2. ASSUME NEW q \in DOMAIN stream, HasReply(stream[q]), stream[q].of = r, out'[r].items = <<stream[q]>>
        PROVE  out'[r].items # <<>> /\ Valued(call'[r], out'[r].items[1])
    <3>1. out'[r].items # <<>> /\ out'[r].items[1] = stream[q]
      BY <2>2
    <3>2. Valued(call[r], stream[q])
      BY <1>5, <2>2 DEF ReplyInv, ValueInv
    <3> QED
      BY <1>3, <1>5, <3>1, <3>2
  <2> QED
    BY <1>5, <2>1, <2>2
<1>6. ASSUME NEW r \in Calls, Caches(scenario, r), call[r].pc = "complete"
      PROVE  call'[r].items # <<>> /\ Valued(call'[r], call'[r].items[1])
  BY <1>3, <1>6 DEF ReplyInv, ValueInv, Usable, Alike
<1>7. \A r \in Calls : call'[r].pc = call[r].pc
  BY DEF Alike
<1>8. ValueInv'
  BY <1>4, <1>5, <1>6, <1>7 DEF ValueInv, Usable
<1> QED
  BY <1>2, <1>8 DEF ReplyInv

LEMMA EndReply ==
    ASSUME ReplyInv, NEW o \in [Calls -> OneshotSet], NEW queued, End(o, queued),
           \A r \in Calls : o[r] = out[r] \/ ~o[r].ok,
           \A r \in Calls : Alike(call'[r], call[r]), UNCHANGED <<scenario, sent, wire>>
    PROVE  ReplyInv'
<1>1. stream' = <<>> /\ out' = Orphaned(o, queued, in_flight)
  BY DEF End
<1>2. \A r \in Calls : out'[r] = out[r] \/ ~out'[r].ok
  BY <1>1, OrphanedFacts, UnsetFacts
<1>3. \A i \in DOMAIN wire' : wire'[i] \in sent'
  BY DEF ReplyInv, SeenInv
<1>4. DOMAIN stream' = {}
  BY <1>1
<1> QED
  BY <1>2, <1>3, <1>4, OtherReply

LEMMA PullReply ==
    ASSUME BaseInv, ReplyInv, Pull
    PROVE  ReplyInv'
<1>1. \A r \in Calls : Alike(call'[r], call[r])
  BY ProgressedFacts DEF Pull
<1>2. ~ended /\ channel # <<>> /\ UNCHANGED scenario
  BY DEF Pull
<1>3. PICK r \in Calls : r = Head(channel)
  BY <1>2 DEF BaseInv, ShapeInv
<1>4. ASSUME StartSend(r), UNCHANGED <<out, stream>> PROVE ReplyInv'
  <2>1. sent \subseteq sent' /\ \A i \in DOMAIN wire' : wire'[i] \in sent'
    <3>1. CASE UNCHANGED <<wire, sent>>
      BY <3>1 DEF ReplyInv, SeenInv
    <3>2. CASE wire' = Append(wire, r) /\ sent' = sent \cup {r}
      <4>1. wire \in Seq(Calls)
        BY DEF BaseInv, ShapeInv
      <4>2. \A i \in DOMAIN wire' : wire'[i] = r \/ (i \in DOMAIN wire /\ wire'[i] = wire[i])
        BY <3>2, <4>1
      <4> QED
        BY <3>2, <4>2 DEF ReplyInv, SeenInv
    <3> QED
      BY <1>4, <3>1, <3>2 DEF StartSend
  <2> QED
    BY <1>1, <1>2, <1>4, <2>1, OtherReply
<1>5. ASSUME End(Output(r, FALSE, <<>>), Tail(channel)), UNCHANGED <<wire, sent>>
      PROVE  ReplyInv'
  BY <1>1, <1>2, <1>5, EndReply, RefusedFacts
<1> QED
  BY <1>3, <1>4, <1>5 DEF Pull

LEMMA BreakReply ==
    ASSUME BaseInv, ReplyInv, Break
    PROVE  ReplyInv'
<1>1. UNCHANGED <<scenario, call, sent, wire>>
  BY DEF Break
<1>2. \A r \in Calls : Alike(call'[r], call[r])
  BY <1>1 DEF Alike
<1>3. PICK o \in [Calls -> OneshotSet] : End(o, channel) /\ \A r \in Calls : o[r] = out[r] \/ ~o[r].ok
  <2>1. out \in [Calls -> OneshotSet]
    BY DEF BaseInv, ShapeInv
  <2>2. CASE End(out, channel)
    BY <2>1, <2>2
  <2>3. CASE ~End(out, channel)
    <3>1. in_flight # <<>> /\ End(Output(First.of, FALSE, <<>>), channel)
      BY <2>3 DEF Break, First
    <3>2. First.of \in Calls
      BY <3>1, FirstFacts
    <3> QED
      BY <3>1, <3>2, RefusedFacts
  <2> QED
    BY <2>2, <2>3
<1> QED
  BY <1>1, <1>2, <1>3, EndReply

\* A call that fills the cache is given the item at the front, which is its own reply.
LEMMA ReadOutput ==
    ASSUME BaseInv, MatchInv, Read, NEW r \in Calls, Caches(scenario, r)
    PROVE  \/ out'[r] = out[r] \/ ~out'[r].ok
           \/ HasReply(Head(stream)) /\ Head(stream).of = r /\ out'[r].items = <<Head(stream)>>
<1>1. ~ended /\ stream # <<>>
  BY DEF Read
<1>2. PICK x \in ItemSet : x = Head(stream) /\ SendResult(x)
  <2> DEFINE I == ItemSet
  <2>1. stream \in Seq(I)
    BY DEF BaseInv, ShapeInv
  <2>2. Head(stream) \in I
    <3> HIDE DEF I
    <3> QED
      BY <1>1, <2>1, TailFacts
  <2> QED
    BY <2>2 DEF Read
<1>3. ~Fenced(r) /\ scenario.command[r].width = 1
  BY ScenarioFacts DEF Caches, Fenced, Command, BaseInv, ShapeInv
<1>4. CASE Skips(x) \/ Gathers(x) \/ Keeps(x)
  BY <1>4 DEF Skips, Gathers, Keeps
<1>5. CASE in_flight # <<>> /\ Refuses
  <2>1. out' = Output(First.of, FALSE, <<>>) /\ First.of \in Calls
    BY <1>5, FirstFacts DEF Refuses
  <2> QED
    BY <2>1, RefusedFacts
<1>6. ASSUME in_flight # <<>>, NEW ok \in BOOLEAN, NEW items \in Seq(ItemSet),
             out' = Output(First.of, ok, items), First.of # r
      PROVE  out'[r] = out[r]
  <2>1. First.of \in Calls
    BY <1>6, FirstFacts
  <2>2. PICK o : o = Output(First.of, ok, items)
    OBVIOUS
  <2>3. o[r] = out[r]
    BY <1>6, <2>1, <2>2, OutputFacts
  <2> QED
    BY <1>6, <2>2, <2>3
<1>7. ASSUME in_flight # <<>>, Pongs(x) PROVE out'[r] = out[r]
  <2>1. out' = Output(First.of, TRUE, <<x>>) /\ First.of # r
    BY <1>3, <1>7 DEF Pongs
  <2>2. PICK ok \in BOOLEAN : ok = TRUE
    OBVIOUS
  <2>3. PICK items \in Seq(ItemSet) : items = <<x>>
    BY EmptySeqs
  <2> QED
    BY <1>6, <1>7, <2>1, <2>2, <2>3
<1>8. ASSUME in_flight # <<>>, Closes(x) PROVE out'[r] = out[r]
  <2>1. /\ out' = Output(First.of, x.kind = "pong" /\ First.fenced_result[1].ok, First.fenced_result)
        /\ First.of # r /\ First.fenced_result # <<>>
    BY <1>3, <1>8 DEF Closes
  <2>2. PICK items \in Seq(ItemSet) : items = First.fenced_result
    BY <1>8, FirstFacts DEF EntrySet
  <2>3. PICK ok \in BOOLEAN : ok = (x.kind = "pong" /\ First.fenced_result[1].ok)
    <3>1. First.fenced_result[1] \in ItemSet
      <4> DEFINE I == ItemSet
      <4>1. items \in Seq(I) /\ items # <<>>
        BY <2>1, <2>2
      <4>2. items[1] \in I
        <5> HIDE DEF I
        <5> QED
          BY <4>1
      <4> QED
        BY <2>2, <4>2
    <3>2. First.fenced_result[1].ok \in BOOLEAN
      BY <3>1 DEF ItemSet
    <3>3. (x.kind = "pong" /\ First.fenced_result[1].ok) \in BOOLEAN
      OBVIOUS
    <3> QED
      BY <3>3
  <2> QED
    BY <1>6, <1>8, <2>1, <2>2, <2>3
<1>9. ASSUME in_flight # <<>>, ~sync_lost, HasReply(x), Replies(x)
      PROVE  out'[r] = out[r] \/ (x.of = r /\ out'[r].items = <<x>>)
  <2>1. First \in EntrySet /\ First.of \in Calls /\ First.left \in Nat \ {0}
        /\ First.left <= scenario.command[First.of].width
    BY <1>9, FirstFacts
  <2>2. PICK g \in EntrySet : g = Gathered(First, x) /\ g.of = First.of
    BY <2>1, GatheredFacts
  <2>3. out' = Output(First.of, ~g.failed, g.buffer) /\ ~Fenced(First.of)
    BY <1>9, <2>2 DEF Replies
  <2>4. PICK ok \in BOOLEAN : ok = ~g.failed
    BY <2>2 DEF EntrySet
  <2>5. PICK items \in Seq(ItemSet) : items = g.buffer
    BY <2>2 DEF EntrySet
  <2>6. CASE First.of # r
    BY <1>6, <1>9, <2>3, <2>4, <2>5, <2>6
  <2>7. CASE First.of = r
    <3>1. x.of = r
      BY <1>1, <1>2, <1>9, <2>3, <2>7, GatherMatch
    <3>2. First.left = 1
      BY <1>3, <2>1, <2>7
    <3>3. EntryOK(scenario.command, First)
      BY <1>1, <1>2, <1>9, FrontFacts
    <3>4. Len(First.buffer) = 0
      <4>1. ~IsFence(scenario.command, First.of)
        BY <2>3 DEF IsFence, Fenced, Command
      <4>2. Len(First.buffer) = 1 - 1
        BY <1>3, <2>7, <3>2, <3>3, <4>1 DEF EntryOK
      <4> QED
        BY <4>2
    <3>5. First.buffer = <<>>
      <4> DEFINE I == ItemSet
      <4>1. First.buffer \in Seq(I)
        BY <2>1 DEF EntrySet
      <4> HIDE DEF I
      <4> QED
        BY <3>4, <4>1
    <3>6. g.buffer = <<x>>
      <4>1. g.buffer = Append(First.buffer, x)
        BY <2>1, <2>2 DEF Gathered, EntrySet
      <4> QED
        BY <3>5, <4>1
    <3>7. PICK o : o = Output(First.of, ok, items)
      OBVIOUS
    <3>8. o[r] = out[r] \/ o[r].items = items
      BY <2>1, <3>7, OutputFacts
    <3> QED
      BY <2>3, <2>4, <2>5, <3>1, <3>6, <3>7, <3>8
  <2> QED
    BY <2>6, <2>7
<1> QED
  BY <1>2, <1>4, <1>5, <1>7, <1>8, <1>9, ReadCases

LEMMA ReadReply ==
    ASSUME BaseInv, MatchInv, ReplyInv, Read
    PROVE  ReplyInv'
<1>1. ~ended /\ stream # <<>> /\ stream' = Tail(stream) /\ UNCHANGED <<scenario, wire, sent>>
  BY DEF Read
<1>2. \A r \in Calls : Alike(call'[r], call[r])
  BY ProgressedFacts DEF Read
<1>3. /\ Head(stream) = stream[1] /\ 1 \in DOMAIN stream
      /\ \A p \in DOMAIN stream' : p + 1 \in DOMAIN stream /\ stream'[p] = stream[p + 1]
  BY <1>1, StreamTail, LineFacts
<1>4. \A i \in DOMAIN wire' : wire'[i] \in sent'
  BY <1>1 DEF ReplyInv, SeenInv
<1>5. ASSUME NEW r \in Calls, Caches(scenario, r)
      PROVE  \/ out'[r] = out[r] \/ ~out'[r].ok
             \/ \E q \in DOMAIN stream : HasReply(stream[q]) /\ stream[q].of = r /\ out'[r].items = <<stream[q]>>
  BY <1>3, <1>5, ReadOutput
<1> QED
  BY <1>1, <1>2, <1>3, <1>4, <1>5, OtherReply

\* The stream with more items at its end.
Lengthened(S, T, items) ==
    /\ \A p \in DOMAIN T : p \in DOMAIN S /\ S[p] = T[p]
    /\ \A p \in DOMAIN S : p \notin DOMAIN T => \E j \in DOMAIN items : S[p] = items[j]

LEMMA Longer ==
    ASSUME BaseInv, NEW items \in Seq(ItemSet)
    PROVE  Lengthened(stream \o items, stream, items)
<1>0. PICK S : S = stream \o items
  OBVIOUS
<1> DEFINE I == ItemSet
<1>1. stream \in Seq(I) /\ items \in Seq(I)
  BY DEF BaseInv, ShapeInv
<1> HIDE DEF I
<1>2. PICK l \in Nat : l = Len(stream) /\ DOMAIN stream = 1..l
  BY <1>1
<1>3. PICK o \in Nat : o = Len(items) /\ DOMAIN items = 1..o
  BY <1>1
<1>4. /\ DOMAIN S = 1..(l + o) /\ \A p \in 1..l : S[p] = stream[p]
      /\ \A p \in 1..o : S[l + p] = items[p]
  BY <1>0, <1>1, <1>2, <1>3
<1>5. ASSUME NEW p \in 1..l PROVE p \in 1..(l + o)
  BY <1>2, <1>3
<1>6. ASSUME NEW p \in 1..(l + o), p \notin 1..l PROVE p - l \in 1..o /\ l + (p - l) = p
  BY <1>2, <1>3, <1>6
<1>7. ASSUME NEW p \in 1..(l + o), p \notin 1..l PROVE \E j \in DOMAIN items : S[p] = items[j]
  BY <1>3, <1>4, <1>6, <1>7
<1> QED
  BY <1>0, <1>2, <1>4, <1>5, <1>7 DEF Lengthened

\* What the answer to r says, for a call that fills the cache.
LEMMA AnswerFresh ==
    ASSUME BaseInv, NEW r \in Calls, NEW items \in Answers(r), NEW p \in DOMAIN items
    PROVE  /\ items[p].kind # "invalidate"
           /\ HasReply(items[p]) => items[p].of = r
           /\ Caches(scenario, r) => items[p] = ReadItem(r) /\ Valued(call[r], items[p])
<1>0. PICK o \in Nat : o = Len(items) /\ DOMAIN items = 1..o
  <2> DEFINE I == ItemSet
  <2>1. items \in Seq(I)
    BY AnswerTypes
  <2> HIDE DEF I
  <2> QED
    BY <2>1
<1>1. CASE Fenced(r)
  <2>1. FencedAnswer(r, items)
    BY <1>1, FencedFacts DEF Answers
  <2>2. ~Caches(scenario, r)
    BY <1>1, ScenarioFacts DEF Caches, Fenced, Command, BaseInv, ShapeInv
  <2>3. p = 1 \/ p = 2
    BY <1>0, <2>1 DEF FencedAnswer
  <2>4. items[p].kind # "invalidate"
    <3>1. HasReply(items[p]) => items[p].kind # "invalidate"
      BY DEF HasReply
    <3>2. CASE p = 2
      BY <2>1, <3>1, <3>2 DEF FencedAnswer
    <3>3. CASE p = 1
      <4>1. items \in FencedItems(r)
        BY <1>1 DEF Answers
      <4>2. PICK first \in {Push("sunsubscribe", {}), Item("reply", r, 1, FALSE, <<>>)},
                 second \in {Item("pong", r, 2, TRUE, <<>>), Item("reply", r, 2, FALSE, <<>>)} :
                   items = <<first, second>>
        BY <4>1, FencedPair
      <4>3. first.kind # "invalidate"
        BY <4>2 DEF Push, Item
      <4> QED
        BY <3>3, <4>2, <4>3
    <3> QED
      BY <2>3, <3>2, <3>3
  <2> QED
    BY <2>1, <2>2, <2>3, <2>4 DEF FencedAnswer
<1>2. CASE ~Fenced(r)
  <2>1. PlainAnswer(r, items, scenario.command[r].width) /\ (IsRead(r) => items = <<ReadItem(r)>>)
    BY <1>2, PlainFacts
  <2>2. HasReply(items[p]) /\ items[p].of = r
    BY <1>0, <2>1 DEF PlainAnswer
  <2>3. items[p].kind # "invalidate"
    BY <2>2 DEF HasReply
  <2>4. ASSUME Caches(scenario, r) PROVE items[p] = ReadItem(r) /\ Valued(call[r], items[p])
    <3>1. items = <<ReadItem(r)>>
      BY <2>1, <2>4 DEF Caches, IsRead, Command
    <3>2. items[p] = ReadItem(r)
      BY <3>1
    <3> QED
      BY <3>2, ReadItemFacts DEF Valued
  <2> QED
    BY <2>2, <2>3, <2>4
<1> QED
  BY <1>1, <1>2

LEMMA ExecuteReply ==
    ASSUME BaseInv, ReplyInv, Execute
    PROVE  ReplyInv'
<1>1. /\ wire # <<>> /\ wire' = Tail(wire) /\ UNCHANGED <<scenario, call, out, sent>>
  BY DEF Execute
<1>2. wire \in Seq(Calls)
  BY DEF BaseInv, ShapeInv
<1>3. PICK r \in Calls : r = Head(wire) /\ r \in sent
  BY <1>1, <1>2 DEF ReplyInv, SeenInv
<1>4. \A i \in DOMAIN wire' : wire'[i] \in sent'
  <2>1. \A i \in DOMAIN wire' : i + 1 \in DOMAIN wire /\ wire'[i] = wire[i + 1]
    BY <1>1, <1>2
  <2> QED
    BY <1>1, <2>1 DEF ReplyInv, SeenInv
<1>5. PICK items \in Answers(r) : stream' = stream \o items
  BY <1>3 DEF Execute
<1>6. ASSUME NEW p \in DOMAIN stream'
      PROVE  Fresh(stream'[p]) \/ \E q \in DOMAIN stream : stream'[p] = stream[q]
  <2>1. Lengthened(stream', stream, items)
    BY <1>5, AnswerTypes, Longer
  <2>2. CASE p \in DOMAIN stream
    BY <2>1, <2>2 DEF Lengthened
  <2>3. CASE p \notin DOMAIN stream
    <3>1. PICK j \in DOMAIN items : stream'[p] = items[j]
      BY <2>1, <2>3 DEF Lengthened
    <3>2. Fresh(items[j])
      BY <1>3, AnswerFresh DEF Fresh
    <3> QED
      BY <3>1, <3>2
  <2> QED
    BY <2>2, <2>3
<1>7. \A q \in Calls : Alike(call'[q], call[q])
  BY <1>1 DEF Alike
<1> QED
  BY <1>1, <1>4, <1>6, <1>7, OtherReply

LEMMA PushReply ==
    ASSUME BaseInv, ReplyInv, UnpromptedPush \/ Broadcast \/ Write \/ Age \/ UNCHANGED vars
    PROVE  ReplyInv'
<1>1. UNCHANGED <<scenario, call, out, sent, wire>>
  BY DEF UnpromptedPush, Broadcast, Write, Age, vars, connVars, serverVars
<1>2. \A r \in Calls : Alike(call'[r], call[r])
  BY <1>1 DEF Alike
<1>3. \A i \in DOMAIN wire' : wire'[i] \in sent'
  BY <1>1 DEF ReplyInv, SeenInv
<1>4. CASE stream' = stream
  BY <1>1, <1>2, <1>3, <1>4, OtherReply
<1>5. CASE stream' # stream
  <2>1. dirty \in SUBSET Keys
    BY DEF BaseInv, ShapeInv
  <2>2. PICK x \in ItemSet : stream' = Append(stream, x) /\ Fresh(x)
    <3>1. /\ Push("sunsubscribe", {}) \in ItemSet /\ Fresh(Push("sunsubscribe", {}))
          /\ Push("invalidate", dirty) \in ItemSet /\ Fresh(Push("invalidate", dirty))
          /\ Push("flush", {}) \in ItemSet /\ Fresh(Push("flush", {}))
      BY <2>1, PushFacts DEF Fresh
    <3> QED
      BY <1>5, <3>1 DEF UnpromptedPush, Broadcast, Write, Age, vars, serverVars
  <2>3. \A p \in DOMAIN stream' : stream'[p] = x \/ (p \in DOMAIN stream /\ stream'[p] = stream[p])
    <3> DEFINE I == ItemSet
    <3>1. stream \in Seq(I) /\ x \in I
      BY DEF BaseInv, ShapeInv
    <3> HIDE DEF I
    <3> QED
      BY <2>2, <3>1
  <2> QED
    BY <1>1, <1>2, <1>3, <2>2, <2>3, OtherReply
<1> QED
  BY <1>4, <1>5

LEMMA ReopenReply ==
    ASSUME ReplyInv, Reopen
    PROVE  ReplyInv'
<1>1. wire' = <<>> /\ UNCHANGED <<scenario, call, out, stream, sent>>
  BY DEF Reopen
<1>2. \A r \in Calls : Alike(call'[r], call[r])
  BY <1>1 DEF Alike
<1>3. DOMAIN wire' = {}
  BY <1>1
<1> QED
  BY <1>1, <1>2, <1>3, OtherReply

LEMMA NextReply ==
    ASSUME BaseInv, MatchInv, ReplyInv, [Next]_vars
    PROVE  ReplyInv'
<1>1. ASSUME NEW r \in Calls, CallStep(r) \/ Tick(r) \/ TimeOut(r)
      PROVE  ReplyInv'
  BY <1>1, CallerReply
<1> QED
  BY <1>1, PullReply, ReadReply, BreakReply, ExecuteReply, PushReply, ReopenReply DEF Next

-----------------------------------------------------------------------------
(* Who holds a fill *)

Held(f) ==
    /\ call[f[2]].pc # "done"
    /\ f[1] \in IF call[f[2]].pc = "complete" THEN call[f[2]].todo ELSE call[f[2]].missing

CacheInv ==
    /\ IsCache(cache)
    /\ scenario.policy = "none" => cache.fills = {} /\ Cached(cache) = {}
    /\ \A f \in cache.fills : Held(f)

LEMMA EmptyCacheFacts ==
    ASSUME NEW policy
    PROVE  /\ IsCache(EmptyCache(policy)) /\ EmptyCache(policy).policy = policy
           /\ EmptyCache(policy).fills = {} /\ Cached(EmptyCache(policy)) = {}
<1>1. PICK c : c = EmptyCache(policy)
  OBVIOUS
<1>2. /\ c = [entries |-> <<>>, recency |-> <<>>, minFrequency |-> 0, memory |-> 0, fills |-> {}, policy |-> policy]
      /\ c.entries = <<>> /\ c.recency = <<>> /\ c.minFrequency = 0 /\ c.memory = 0 /\ c.fills = {} /\ c.policy = policy
  BY <1>1 DEF EmptyCache
<1>3. Cached(c) = {}
  BY <1>2 DEF Cached
<1>4. c = [entries |-> c.entries, recency |-> c.recency, minFrequency |-> c.minFrequency,
           memory |-> c.memory, fills |-> c.fills, policy |-> c.policy]
  BY <1>2
<1>5. IsCache(c)
  BY <1>2, <1>3, <1>4 DEF IsCache
<1> QED
  BY <1>1, <1>2, <1>3, <1>5

LEMMA WithFillFacts ==
    ASSUME NEW c, IsCache(c), NEW k \in Keys, NEW r \in Calls
    PROVE  /\ IsCache(WithFill(c, k, r)) /\ WithFill(c, k, r).entries = c.entries
           /\ WithFill(c, k, r).policy = c.policy
           /\ WithFill(c, k, r).fills = c.fills \cup {<<k, r>>}
<1>a. c.fills \subseteq Keys \X Calls /\ <<k, r>> \in Keys \X Calls
  BY DEF IsCache
<1>b. c.fills \cup {<<k, r>>} \in SUBSET (Keys \X Calls)
  BY <1>a
<1>1. PICK fills \in SUBSET (Keys \X Calls) : fills = c.fills \cup {<<k, r>>}
  BY <1>b
<1>2. PICK memory \in Nat : memory = c.memory
  BY DEF IsCache
<1>3. PICK d : d = [c EXCEPT !.fills = fills]
  OBVIOUS
<1>4. d = WithFill(c, k, r)
  BY <1>1, <1>3 DEF WithFill
<1> QED
  BY <1>1, <1>2, <1>3, <1>4, RebookedFacts

\* The end of a call takes its fills.
WithoutTokens(r) == [cache EXCEPT !.fills = @ \ Tokens(r)]

LEMMA TokensFacts ==
    ASSUME NEW r, IsCache(cache)
    PROVE  /\ Within(WithoutTokens(r), cache) /\ WithoutTokens(r).entries = cache.entries
           /\ WithoutTokens(r).fills = {f \in cache.fills : f[2] # r}
<1>0. PICK d : d = WithoutTokens(r)
  OBVIOUS
<1>1. PICK fills \in SUBSET (Keys \X Calls) : fills = cache.fills \ Tokens(r)
  BY DEF IsCache
<1>2. PICK memory \in Nat : memory = cache.memory
  BY DEF IsCache
<1>3. PICK b : b = [cache EXCEPT !.fills = fills]
  OBVIOUS
<1>a. b = d
  BY <1>0, <1>1, <1>3 DEF WithoutTokens
<1>b. IsCache(b) /\ b.entries = cache.entries /\ b.policy = cache.policy /\ b.fills = fills
  BY <1>1, <1>2, <1>3, RebookedFacts
<1>4. IsCache(d) /\ d.entries = cache.entries /\ d.policy = cache.policy /\ d.fills = fills
  BY <1>a, <1>b
<1>5. fills = {f \in cache.fills : f[2] # r}
  BY <1>1 DEF Tokens
<1> QED
  BY <1>0, <1>4, <1>5 DEF Within, Cached

\* Equal but for the fills, and for what has expired.
SameBooks(d, c) ==
    /\ d.recency = c.recency /\ d.minFrequency = c.minFrequency /\ d.memory = c.memory
    /\ Cached(d) = Cached(c)
    /\ \A k \in Cached(c) : /\ d.entries[k].frequency = c.entries[k].frequency
                            /\ d.entries[k].version = c.entries[k].version

Aged(c, k) == [c EXCEPT !.entries[k].expired = TRUE]

LEMMA AgedFacts ==
    ASSUME NEW c, IsCache(c), NEW k \in Cached(c)
    PROVE  /\ Within(Aged(c, k), c) /\ Aged(c, k).fills = c.fills /\ Cached(Aged(c, k)) = Cached(c)
           /\ SameBooks(Aged(c, k), c)
<1>0. PICK d : d = Aged(c, k)
  OBVIOUS
<1>1. PICK e : e = [c.entries[k] EXCEPT !.expired = TRUE]
  OBVIOUS
<1>2. e \in Entry /\ e.version = c.entries[k].version /\ e.frequency = c.entries[k].frequency
  BY <1>1 DEF IsCache, Entry
<1>3. PICK entries : entries = [c.entries EXCEPT ![k] = e]
  OBVIOUS
<1>4. DOMAIN entries = Cached(c) /\ entries[k] = e /\ \A j \in Cached(c) : j # k => entries[j] = c.entries[j]
  BY <1>3 DEF Cached
<1>a. PICK rec, min, memory, fills, policy :
        /\ rec = c.recency /\ min = c.minFrequency /\ memory = c.memory /\ fills = c.fills /\ policy = c.policy
  OBVIOUS
<1>5. d = [entries |-> entries, recency |-> rec, minFrequency |-> min,
           memory |-> memory, fills |-> fills, policy |-> policy]
  BY <1>0, <1>1, <1>3, <1>a DEF IsCache, Aged
<1>6. /\ d.entries = entries /\ d.fills = c.fills /\ d.memory = c.memory /\ d.policy = c.policy
      /\ d.recency = c.recency /\ d.minFrequency = c.minFrequency
      /\ d = [entries |-> d.entries, recency |-> d.recency, minFrequency |-> d.minFrequency,
              memory |-> d.memory, fills |-> d.fills, policy |-> d.policy]
  BY <1>5, <1>a
<1>7. Cached(d) = Cached(c)
  BY <1>4, <1>6 DEF Cached
<1>8. \A j \in Cached(d) : d.entries[j] \in Entry /\ d.entries[j].version = c.entries[j].version
  BY <1>2, <1>4, <1>6, <1>7 DEF IsCache
<1>9. IsCache(d)
  BY <1>6, <1>7, <1>8 DEF IsCache
<1>10. SameBooks(d, c)
  <2>1. \A j \in Cached(c) : d.entries[j].frequency = c.entries[j].frequency
    BY <1>2, <1>4, <1>6
  <2> QED
    BY <1>6, <1>7, <1>8, <2>1 DEF SameBooks
<1> QED
  BY <1>0, <1>6, <1>7, <1>8, <1>9, <1>10 DEF Within

\* What an item on the stream does to the cache.
LEMMA InvalidatedFacts ==
    ASSUME IsCache(cache), NEW x, x.kind = "invalidate" => x.vals \in SUBSET Keys
    PROVE  /\ Within(Invalidated(x), cache) /\ Invalidated(x).fills \subseteq cache.fills
           /\ ~sync_lost /\ scenario.policy # "none" =>
                /\ x.kind = "flush" => Cached(Invalidated(x)) = {} /\ Invalidated(x).fills = {}
                /\ x.kind = "invalidate" =>
                     /\ Cached(Invalidated(x)) = Cached(cache) \ x.vals
                     /\ Invalidated(x).fills = {f \in cache.fills : f[1] \notin x.vals}
<1>0. Within(cache, cache)
  BY DEF Within
<1>1. CASE sync_lost \/ scenario.policy = "none"
  BY <1>0, <1>1 DEF Invalidated
<1>2. CASE ~(sync_lost \/ scenario.policy = "none") /\ x.kind = "flush"
  <2>1. PICK policy : policy = cache.policy
    OBVIOUS
  <2>2. PICK d : d = EmptyCache(policy)
    OBVIOUS
  <2>3. Invalidated(x) = d
    BY <1>2, <2>1, <2>2 DEF Invalidated, flush_all_server_assisted
  <2>4. IsCache(d) /\ d.policy = policy /\ d.fills = {} /\ Cached(d) = {}
    BY <2>2, EmptyCacheFacts
  <2> QED
    BY <1>2, <2>1, <2>3, <2>4 DEF Within
<1>3. CASE ~(sync_lost \/ scenario.policy = "none") /\ x.kind = "invalidate"
  <2>1. PICK S \in SUBSET Keys : S = x.vals
    BY <1>3
  <2>2. PICK d : d = FoldSet(LAMBDA k, e : invalidate_server_assisted(e, k), cache, S)
    OBVIOUS
  <2>3. Invalidated(x) = d
    BY <1>3, <2>1, <2>2 DEF Invalidated
  <2>4. Within(d, cache) /\ Cached(d) = Cached(cache) \ S /\ d.fills = {f \in cache.fills : f[1] \notin S}
    BY <2>2, SweepFacts
  <2> QED
    BY <1>3, <2>1, <2>3, <2>4
<1>4. CASE ~(sync_lost \/ scenario.policy = "none") /\ x.kind \notin {"flush", "invalidate"}
  BY <1>0, <1>4 DEF Invalidated
<1> QED
  BY <1>1, <1>2, <1>3, <1>4

LEMMA InitCache ==
    ASSUME Init
    PROVE  CacheInv
BY EmptyCacheFacts DEF Init, CacheInv

\* Steps that leave the calls where they are and give the cache nothing.
LEMMA OtherCache ==
    ASSUME CacheInv, \A r \in Calls : Alike(call'[r], call[r]), scenario' = scenario,
           Within(cache', cache), cache'.fills \subseteq cache.fills
    PROVE  CacheInv'
<1>1. IsCache(cache') /\ Cached(cache') \subseteq Cached(cache)
  BY DEF Within
<1>2. ASSUME NEW f \in cache'.fills PROVE Held(f)'
  <2>1. Held(f) /\ f \in Keys \X Calls
    BY DEF CacheInv, IsCache
  <2>2. f[2] \in Calls
    BY <2>1
  <2>3. Alike(call'[f[2]], call[f[2]])
    BY <2>2
  <2> QED
    BY <2>1, <2>3 DEF Held, Alike
<1>3. scenario.policy = "none" => cache'.fills = {} /\ Cached(cache') = {}
  BY <1>1 DEF CacheInv
<1> QED
  BY <1>1, <1>2, <1>3 DEF CacheInv

\* A step of call r, whose record becomes c.
LEMMA OwnCache ==
    ASSUME BaseInv, CacheInv, NEW r \in Calls, NEW c, call' = [call EXCEPT ![r] = c], scenario' = scenario,
           IsCache(cache'),
           scenario.policy # "none" \/ (Cached(cache') \subseteq Cached(cache) /\ cache'.fills \subseteq cache.fills),
           \A f \in cache'.fills : f[2] # r => f \in cache.fills,
           \A f \in cache'.fills : f[2] = r =>
               c.pc # "done" /\ f[1] \in IF c.pc = "complete" THEN c.todo ELSE c.missing
    PROVE  CacheInv'
<1>1. \A q \in Calls : call'[q] = IF q = r THEN c ELSE call[q]
  BY DEF BaseInv, ShapeInv
<1>2. ASSUME NEW f \in cache'.fills PROVE Held(f)'
  <2>1. f \in Keys \X Calls
    BY DEF IsCache
  <2>2. f[2] \in Calls
    BY <2>1
  <2>3. CASE f[2] = r
    BY <1>1, <2>2, <2>3 DEF Held
  <2>4. CASE f[2] # r
    <3>1. Held(f)
      BY <2>4 DEF CacheInv
    <3>2. call'[f[2]] = call[f[2]]
      BY <1>1, <2>2, <2>4
    <3> QED
      BY <3>1, <3>2 DEF Held
  <2> QED
    BY <2>3, <2>4
<1>3. scenario.policy = "none" => cache'.fills = {} /\ Cached(cache') = {}
  BY DEF CacheInv
<1> QED
  BY <1>2, <1>3 DEF CacheInv

\* The value that call r offers for a key.
LEMMA OfferedFacts ==
    ASSUME BaseInv, ReplyInv, NEW r \in Calls, call[r].pc = "complete", NEW k \in call[r].todo
    PROVE  /\ Caches(scenario, r) /\ k \in Keys /\ k \in call[r].missing
           /\ call[r].items[1].vals[k] \in Nat
<1>1. call[r] \in CallSet /\ CallOK(scenario, r, call[r])
  BY DEF BaseInv, ShapeInv, CallInv
<1>2. Caches(scenario, r) /\ k \in call[r].missing /\ k \in Keys
  BY <1>1 DEF CallOK, CallSet
<1>3. call[r].items[1].vals \in [call[r].missing -> 1..Nil]
  BY <1>2 DEF ReplyInv, ValueInv, Usable, Valued
<1>4. call[r].items[1].vals[k] \in 1..Nil
  BY <1>2, <1>3
<1> QED
  BY <1>2, <1>4 DEF Nil

LEMMA OfferCache ==
    ASSUME BaseInv, ReplyInv, IsCache(cache), NEW r \in Calls, call[r].pc = "complete", NEW k \in call[r].todo,
           cache' = IF call[r].items[1].vals[k] = Nil THEN WithoutFill(cache, k, r)
                    ELSE insert_if_active_fill(cache, k, call[r].items[1].vals[k], r)
    PROVE  /\ IsCache(cache') /\ cache'.fills = cache.fills \ {<<k, r>>}
           /\ \A other \in Cached(cache') :
                \/ other \in Cached(cache) /\ cache'.entries[other].version = cache.entries[other].version
                \/ /\ other = k /\ cache'.entries[other].version = call[r].items[1].vals[k]
                   /\ call[r].items[1].vals[k] # Nil /\ <<k, r>> \in cache.fills
<1>1. PICK v \in Nat : v = call[r].items[1].vals[k] /\ k \in Keys
  BY OfferedFacts
<1>2. CASE v = Nil
  <2>1. PICK d : d = WithoutFill(cache, k, r)
    OBVIOUS
  <2>2. IsCache(d) /\ d.entries = cache.entries /\ d.fills = cache.fills \ {<<k, r>>}
    BY <2>1, WithoutFillFacts
  <2>3. cache' = d
    BY <1>1, <1>2, <2>1
  <2> QED
    BY <2>2, <2>3 DEF Cached
<1>3. CASE v # Nil
  <2>1. PICK d : d = insert_if_active_fill(cache, k, v, r)
    OBVIOUS
  <2>2. InsertGives(cache, d, k, v, r)
    BY <1>1, <2>1, InsertFacts
  <2>3. cache' = d
    BY <1>1, <1>3, <2>1
  <2> QED
    BY <1>1, <1>3, <2>2, <2>3 DEF InsertGives
<1> QED
  BY <1>2, <1>3

\* What a caller that goes on does to the cache.
LEMMA MoveCache ==
    ASSUME BaseInv, IsCache(cache), NEW r \in Calls,
           cache' \in {cache, Promoted(cache, call[r].key), remove_if_expired(cache, call[r].key)}
    PROVE  Within(cache', cache) /\ cache'.fills = cache.fills
<1>1. PICK k : k = call[r].key
  OBVIOUS
<1>2. Within(Promoted(cache, k), cache) /\ Promoted(cache, k).fills = cache.fills
  BY PromotedFacts
<1>3. Within(Removed(cache, k), cache) /\ Removed(cache, k).fills = cache.fills
  BY RemovedFacts
<1>4. remove_if_expired(cache, k) \in {cache, Removed(cache, k)}
  BY DEF remove_if_expired
<1>5. Within(cache, cache)
  BY DEF Within
<1> QED
  BY <1>1, <1>2, <1>3, <1>4, <1>5

LEMMA CallerCache ==
    ASSUME BaseInv, ReplyInv, CacheInv, NEW r \in Calls, CallStep(r) \/ Tick(r) \/ TimeOut(r)
    PROVE  CacheInv'
<1>1. scenario' = scenario
  BY CallerCases
<1>2. IsCache(cache) /\ \A f \in cache.fills : f[2] = r => Held(f)
  BY DEF CacheInv
<1>3. ASSUME Moves(r) PROVE CacheInv'
  <2>1. PICK c \in CallSet :
          /\ call' = [call EXCEPT ![r] = c] /\ call[r].pc \in Underway /\ c.pc \in Underway
          /\ \/ /\ c.missing = call[r].missing
                /\ cache' \in {cache, Promoted(cache, call[r].key), remove_if_expired(cache, call[r].key)}
             \/ /\ c.missing = call[r].missing \cup {call[r].key} /\ call[r].key \in Keys /\ call[r].pc = "fill"
                /\ cache' = WithFill(cache, call[r].key, r)
    BY <1>3 DEF Moves
  <2>2. c.pc \notin {"done", "complete"} /\ \A f \in cache.fills : f[2] = r => f[1] \in call[r].missing
    BY <1>2, <2>1 DEF Underway, Held
  <2>3. CASE /\ c.missing = call[r].missing
             /\ cache' \in {cache, Promoted(cache, call[r].key), remove_if_expired(cache, call[r].key)}
    <3>1. IsCache(cache') /\ Cached(cache') \subseteq Cached(cache) /\ cache'.fills = cache.fills
      BY <1>2, <2>3, MoveCache DEF Within
    <3>2. \A f \in cache'.fills : f[2] # r => f \in cache.fills
      BY <3>1
    <3>3. \A f \in cache'.fills : f[2] = r => f[1] \in c.missing
      BY <2>2, <2>3, <3>1
    <3> QED
      BY <1>1, <2>1, <2>2, <3>1, <3>2, <3>3, OwnCache
  <2>4. CASE /\ c.missing = call[r].missing \cup {call[r].key} /\ call[r].key \in Keys /\ call[r].pc = "fill"
             /\ cache' = WithFill(cache, call[r].key, r)
    <3>1. PICK k \in Keys : k = call[r].key
      BY <2>4
    <3>2. PICK d : d = WithFill(cache, k, r)
      OBVIOUS
    <3>3. IsCache(d) /\ d.fills = cache.fills \cup {<<k, r>>}
      BY <1>2, <3>2, WithFillFacts
    <3>4. IsCache(cache') /\ cache'.fills = cache.fills \cup {<<k, r>>}
      BY <2>4, <3>1, <3>2, <3>3
    <3>5. scenario.policy # "none"
      BY <2>4 DEF BaseInv, CallInv, CallOK, Caches
    <3>6. \A f \in cache'.fills : f[2] # r => f \in cache.fills
      BY <3>4
    <3>7. \A f \in cache'.fills : f[2] = r => f[1] \in c.missing
      BY <2>2, <2>4, <3>1, <3>4
    <3> QED
      BY <1>1, <2>1, <2>2, <3>4, <3>5, <3>6, <3>7, OwnCache
  <2> QED
    BY <2>1, <2>3, <2>4
<1>4. ASSUME Hits(r) PROVE CacheInv'
  <2>1. /\ call' = [call EXCEPT ![r] = Done("ok", <<>>)] /\ cache' = Promoted(cache, call[r].key)
        /\ call[r].pc = "promote" /\ call[r].missing = {}
    BY <1>4 DEF Hits
  <2>2. \A f \in cache.fills : f[2] # r
    BY <1>2, <2>1 DEF Held
  <2>3. IsCache(cache') /\ Cached(cache') \subseteq Cached(cache) /\ cache'.fills = cache.fills
    BY <1>2, <2>1, MoveCache DEF Within
  <2>4. PICK c : c = Done("ok", <<>>)
    OBVIOUS
  <2> QED
    BY <1>1, <2>1, <2>2, <2>3, <2>4, OwnCache
<1>5. ASSUME Ends(r) PROVE CacheInv'
  <2>1. PICK result \in Results : \E items \in Seq(ItemSet) : Finish(r, result, items)
    BY <1>5, Zenon DEF Ends
  <2>2. PICK items \in Seq(ItemSet) : Finish(r, result, items)
    BY <2>1
  <2>3. call' = [call EXCEPT ![r] = Done(result, items)] /\ cache' = WithoutTokens(r)
    BY <2>2 DEF Finish, WithoutTokens
  <2>4. IsCache(cache') /\ Cached(cache') = Cached(cache) /\ cache'.fills = {f \in cache.fills : f[2] # r}
    BY <1>2, <2>3, TokensFacts DEF Within, Cached
  <2>5. PICK c : c = Done(result, items)
    OBVIOUS
  <2> QED
    BY <1>1, <2>3, <2>4, <2>5, OwnCache
<1>6. ASSUME Answered(r) PROVE CacheInv'
  <2>1. PICK c \in CallSet : /\ call' = [call EXCEPT ![r] = c] /\ cache' = cache /\ c.pc = "complete"
                             /\ c.todo = call[r].missing /\ call[r].pc = "await"
    BY <1>6 DEF Answered
  <2>2. \A f \in cache.fills : f[2] = r => f[1] \in c.todo
    BY <1>2, <2>1 DEF Held
  <2>3. \A f \in cache'.fills : f[2] = r => c.pc # "done" /\ f[1] \in IF c.pc = "complete" THEN c.todo ELSE c.missing
    BY <2>1, <2>2
  <2>4. call' = [call EXCEPT ![r] = c] /\ cache' = cache
    BY <2>1
  <2> QED
    BY <1>1, <1>2, <2>3, <2>4, OwnCache
<1>7. ASSUME Offers(r) PROVE CacheInv'
  <2>1. PICK k \in call[r].todo :
          /\ call[r].pc = "complete"
          /\ cache' = IF call[r].items[1].vals[k] = Nil THEN WithoutFill(cache, k, r)
                      ELSE insert_if_active_fill(cache, k, call[r].items[1].vals[k], r)
          /\ IF call[r].todo = {k} THEN call' = [call EXCEPT ![r] = Done("ok", call[r].items)]
             ELSE \E c \in CallSet : /\ call' = [call EXCEPT ![r] = c] /\ c.pc = "complete"
                                     /\ c.todo = call[r].todo \ {k}
    BY <1>7 DEF Offers
  <2>2. IsCache(cache') /\ cache'.fills = cache.fills \ {<<k, r>>}
    BY <1>2, <2>1, OfferCache
  <2>3. scenario.policy # "none"
    BY <2>1, OfferedFacts DEF Caches
  <2>4. \A f \in cache'.fills : f[2] = r => f[1] \in call[r].todo \ {k}
    <3>1. ASSUME NEW f \in cache'.fills, f[2] = r PROVE f[1] \in call[r].todo \ {k}
      <4>1. f \in cache.fills /\ f # <<k, r>>
        BY <2>2
      <4>2. f \in Keys \X Calls
        BY <1>2, <4>1 DEF IsCache
      <4>3. f = <<f[1], f[2]>>
        BY <4>2
      <4>4. f[1] # k
        BY <3>1, <4>1, <4>3
      <4> QED
        BY <1>2, <2>1, <3>1, <4>1, <4>4 DEF Held
    <3> QED
      BY <3>1
  <2>5. \A f \in cache'.fills : f[2] # r => f \in cache.fills
    BY <2>2
  <2>6. CASE call[r].todo = {k}
    <3>1. PICK c : c = Done("ok", call[r].items)
      OBVIOUS
    <3>2. call' = [call EXCEPT ![r] = c] /\ \A f \in cache'.fills : f[2] # r
      BY <2>1, <2>4, <2>6, <3>1
    <3> QED
      BY <1>1, <2>2, <2>3, <3>2, OwnCache
  <2>7. CASE call[r].todo # {k}
    <3>1. PICK c \in CallSet : call' = [call EXCEPT ![r] = c] /\ c.pc = "complete" /\ c.todo = call[r].todo \ {k}
      BY <2>1, <2>7
    <3>2. \A f \in cache'.fills : f[2] = r => c.pc # "done" /\ f[1] \in IF c.pc = "complete" THEN c.todo ELSE c.missing
      BY <2>4, <3>1
    <3>3. call' = [call EXCEPT ![r] = c]
      BY <3>1
    <3> QED
      BY <1>1, <2>2, <2>3, <2>5, <3>2, <3>3, OwnCache
  <2> QED
    BY <2>6, <2>7
<1> QED
  BY <1>3, <1>4, <1>5, <1>6, <1>7, CallerCases

LEMMA NextCache ==
    ASSUME BaseInv, ReplyInv, CacheInv, [Next]_vars
    PROVE  CacheInv'
<1>1. ASSUME NEW r \in Calls, CallStep(r) \/ Tick(r) \/ TimeOut(r)
      PROVE  CacheInv'
  BY <1>1, CallerCache
<1>2. IsCache(cache) /\ Within(cache, cache)
  BY DEF CacheInv, Within
<1>3. ASSUME UNCHANGED <<scenario, call, cache>> PROVE CacheInv'
  BY <1>2, <1>3, OtherCache DEF Alike
<1>4. ASSUME Break \/ Execute \/ UnpromptedPush \/ Write \/ Broadcast \/ Reopen \/ UNCHANGED vars
      PROVE  CacheInv'
  BY <1>3, <1>4 DEF Break, Execute, UnpromptedPush, Write, Broadcast, Reopen, vars
<1>5. ASSUME Pull PROVE CacheInv'
  <2>1. cache' = cache /\ scenario' = scenario /\ \A r \in Calls : Alike(call'[r], call[r])
    BY <1>5, ProgressedFacts DEF Pull
  <2> QED
    BY <1>2, <2>1, OtherCache
<1>6. ASSUME Read PROVE CacheInv'
  <2>1. /\ scenario' = scenario /\ stream # <<>> /\ cache' = Invalidated(Head(stream))
        /\ \A r \in Calls : Alike(call'[r], call[r])
    BY <1>6, ProgressedFacts DEF Read
  <2>2. PICK x : x = Head(stream)
    OBVIOUS
  <2>3. x.kind = "invalidate" => x.vals \in SUBSET Keys
    BY <2>1, <2>2, StreamTail, LineFacts DEF ReplyInv, SeenInv
  <2>4. Within(Invalidated(x), cache) /\ Invalidated(x).fills \subseteq cache.fills
    BY <1>2, <2>3, InvalidatedFacts
  <2> QED
    BY <2>1, <2>2, <2>4, OtherCache
<1>7. ASSUME Age PROVE CacheInv'
  <2>1. PICK k \in Cached(cache) : cache' = Aged(cache, k)
    BY <1>7 DEF Age, Aged
  <2>2. scenario' = scenario /\ \A r \in Calls : Alike(call'[r], call[r])
    BY <1>7 DEF Age, Alike
  <2>3. Within(cache', cache) /\ cache'.fills = cache.fills
    BY <1>2, <2>1, AgedFacts
  <2> QED
    BY <2>2, <2>3, OtherCache
<1> QED
  BY <1>1, <1>4, <1>5, <1>6, <1>7 DEF Next

\* With a reply that is another command's nothing is known of what is offered to the cache.
GivenInv == MatchInv /\ ReplyInv /\ CacheInv

AllInv == BaseInv /\ (mistaken \/ GivenInv)

LEMMA CachedAlways ==
    ASSUME RepliesCounted
    PROVE  Spec => []AllInv
<1>1. ASSUME AllInv, [Next]_vars PROVE AllInv'
  <2>1. BaseInv'
    BY <1>1, NextBase DEF AllInv
  <2>2. ASSUME ~mistaken' PROVE GivenInv'
    <3>1. BaseInv /\ MatchInv /\ ReplyInv /\ CacheInv
      BY <1>1, <2>2, MistakenStays DEF AllInv, GivenInv
    <3> QED
      BY <1>1, <2>2, <3>1, NextMatch, NextReply, NextCache DEF GivenInv
  <2> QED
    BY <2>1, <2>2 DEF AllInv
<1>2. Init => AllInv
  BY InitBase, InitMatch, InitReply, InitCache DEF AllInv, GivenInv
<1> QED
  BY <1>1, <1>2, PTL DEF Spec

\* A registered fill belongs to a call that has not ended and has yet to offer or to drop
\* it, however the call ends (CacheFillToken), and the state keeps its types and limits,
\* unless a fence took the PONG of another command for its own.
THEOREM FillsAlwaysHeld ==
    ASSUME RepliesCounted
    PROVE  Spec => [](mistaken \/ FillsHeld)
<1>1. ASSUME AllInv, ~mistaken PROVE TypeOK
  <2>1. CacheOK(Calls)
    BY <1>1 DEF AllInv, GivenInv, CacheInv, IsCache, CacheOK, Entry
  <2>2. ASSUME NEW r \in Calls PROVE call[r].ticks < DEAD_TICKS /\ call[r].missing \subseteq Command(r).keys
    <3>1. call[r].ticks \in 0..1 /\ CallOK(scenario, r, call[r])
      BY <1>1 DEF AllInv, BaseInv, ShapeInv, CallInv, CallSet
    <3>2. call[r].ticks < DEAD_TICKS
      BY <3>1 DEF DEAD_TICKS
    <3> QED
      BY <3>1, <3>2 DEF CallOK, Command
  <2> QED
    BY <1>1, <2>1, <2>2 DEF TypeOK, AllInv, BaseInv, LineInv, Command
<1>2. AllInv => mistaken \/ FillsHeld
  BY <1>1 DEF AllInv, GivenInv, CacheInv, Held, FillsHeld
<1> QED
  BY <1>2, CachedAlways, PTL

-----------------------------------------------------------------------------
(* A stale value is announced *)

\* Item x of the stream invalidates k.
About(x, k) == x.kind = "flush" \/ (x.kind = "invalidate" /\ k \in x.vals)

Later(S, p, k) == \E i \in DOMAIN S : i > p /\ About(S[i], k)

\* An invalidation of k is on its way behind item p of the stream, or was never processed.
Coming(p, k) == k \in lost \/ k \in dirty \/ Later(stream, p, k)

\* Item x gives a value of k that is not the one of database d.
Old(d, x, k) == x.vals[k] \notin {Nil, d[k]}

EntryStale(k) == cache.entries[k].version # db[k] => Coming(0, k)

\* Wherever the reply to call r is, an old value in it comes before its invalidation.
FillStale(k, r) ==
    /\ call[r].pc = "await" => \A p \in DOMAIN stream :
         HasReply(stream[p]) /\ stream[p].of = r /\ Old(db, stream[p], k) => Coming(p, k)
    /\ call[r].pc = "await" /\ out[r].ok /\ Old(db, out[r].items[1], k) => Coming(0, k)
    /\ call[r].pc = "complete" /\ Old(db, call[r].items[1], k) => Coming(0, k)

StaleInv ==
    /\ \A k \in Cached(cache) : EntryStale(k)
    /\ \A f \in cache.fills : FillStale(f[1], f[2])

LEMMA FillFacts ==
    ASSUME NEW c, IsCache(c), NEW f \in c.fills
    PROVE  f[1] \in Keys /\ f[2] \in Calls
<1>1. f \in Keys \X Calls
  BY DEF IsCache
<1> QED
  BY <1>1

LEMMA InitStale ==
    ASSUME Init
    PROVE  StaleInv
BY EmptyCacheFacts DEF Init, StaleInv

\* What is on its way stays so, and what changes is.
Announcing ==
    \A k \in Keys : \A p \in {0} \cup DOMAIN stream : Coming(p, k) \/ db'[k] # db[k] => Coming(p, k)'

\* A new reply gives what the server has now.
UpToDate(x) == \A f \in cache.fills : HasReply(x) /\ x.of = f[2] => ~Old(db', x, f[1])

\* Steps after which the stream is what it was, with more at its end.
LEMMA GrowStale ==
    ASSUME CacheInv, StaleInv, \A r \in Calls : Alike(call'[r], call[r]), out' = out,
           Within(cache', cache), cache'.fills \subseteq cache.fills, Announcing,
           \A p \in DOMAIN stream' : \/ p \in DOMAIN stream /\ stream'[p] = stream[p]
                                     \/ UpToDate(stream'[p])
    PROVE  StaleInv'
<1>1. IsCache(cache)
  BY DEF CacheInv
<1>2. ASSUME NEW k \in Cached(cache') PROVE EntryStale(k)'
  <2>1. k \in Cached(cache) /\ cache'.entries[k].version = cache.entries[k].version /\ k \in Keys
    BY <1>1 DEF Within, IsCache
  <2>2. 0 \in {0} \cup DOMAIN stream /\ EntryStale(k)
    BY <2>1 DEF StaleInv
  <2>3. Coming(0, k) \/ db'[k] # db[k] => Coming(0, k)'
    BY <2>1, <2>2 DEF Announcing
  <2> QED
    BY <2>1, <2>2, <2>3 DEF EntryStale
<1>3. ASSUME NEW f \in cache'.fills PROVE FillStale(f[1], f[2])'
  <2>1. PICK k \in Keys, r \in Calls : k = f[1] /\ r = f[2]
    BY <1>1, FillFacts
  <2>2. FillStale(k, r) /\ f \in cache.fills
    BY <2>1 DEF StaleInv
  <2>3. call'[r].pc = call[r].pc /\ call'[r].items = call[r].items
    BY DEF Alike
  <2>4. \A p \in {0} \cup DOMAIN stream : Coming(p, k) \/ db'[k] # db[k] => Coming(p, k)'
    BY DEF Announcing
  <2>5. ASSUME NEW x, Old(db', x, k) PROVE Old(db, x, k) \/ db'[k] # db[k]
    BY <2>5 DEF Old
  <2>6. ASSUME call[r].pc = "await", NEW p \in DOMAIN stream', HasReply(stream'[p]), stream'[p].of = r,
               Old(db', stream'[p], k)
        PROVE  Coming(p, k)'
    <3>1. p \in DOMAIN stream /\ stream'[p] = stream[p]
      BY <2>1, <2>2, <2>6 DEF UpToDate
    <3>2. Old(db, stream[p], k) => Coming(p, k)
      BY <2>2, <2>6, <3>1 DEF FillStale
    <3>3. Old(db, stream'[p], k) \/ db'[k] # db[k]
      BY <2>5, <2>6
    <3> QED
      BY <2>4, <3>1, <3>2, <3>3
  <2>7. Coming(0, k) \/ db'[k] # db[k] => Coming(0, k)'
    BY <2>4
  <2>8. ASSUME call[r].pc = "await", out[r].ok, Old(db', out[r].items[1], k) PROVE Coming(0, k)'
    BY <2>2, <2>5, <2>7, <2>8 DEF FillStale
  <2>9. ASSUME call[r].pc = "complete", Old(db', call[r].items[1], k) PROVE Coming(0, k)'
    BY <2>2, <2>5, <2>7, <2>9 DEF FillStale
  <2>10. FillStale(k, r)'
    <3>1. PICK o : o = out[r]
      OBVIOUS
    <3>2. out'[r] = o
      BY <3>1
    <3>3. ASSUME call'[r].pc = "await", NEW p \in DOMAIN stream', HasReply(stream'[p]), stream'[p].of = r,
                 Old(db', stream'[p], k)
          PROVE  Coming(p, k)'
      BY <2>3, <2>6, <3>3
    <3>4. call'[r].pc = "await" /\ o.ok /\ Old(db', o.items[1], k) => Coming(0, k)'
      BY <2>3, <2>8, <3>1
    <3>5. call'[r].pc = "complete" /\ Old(db', call'[r].items[1], k) => Coming(0, k)'
      BY <2>3, <2>9
    <3> QED
      BY <3>2, <3>3, <3>4, <3>5 DEF FillStale, Old
  <2> QED
    BY <2>1, <2>10
<1> QED
  BY <1>2, <1>3 DEF StaleInv

\* The connection ends and nothing of what was on its way is processed.
LEMMA EndStale ==
    ASSUME BaseInv, CacheInv, StaleInv, NEW o \in [Calls -> OneshotSet], NEW queued, End(o, queued),
           \A r \in Calls : o[r] = out[r] \/ ~o[r].ok,
           \A r \in Calls : Alike(call'[r], call[r]), cache' = cache, db' = db
    PROVE  StaleInv'
<1>1. stream' = <<>> /\ lost' = lost \cup dirty \cup Announced(stream) /\ out' = Orphaned(o, queued, in_flight)
  BY DEF End
<1>2. ASSUME NEW p \in Nat, NEW k \in Keys, Coming(p, k) PROVE Coming(0, k)'
  <2>1. Later(stream, p, k) => k \in Announced(stream)
    BY DEF Later, Announced, About
  <2> QED
    BY <1>1, <1>2, <2>1 DEF Coming
<1>3. IsCache(cache)
  BY DEF CacheInv
<1>4. ASSUME NEW k \in Cached(cache') PROVE EntryStale(k)'
  <2>1. k \in Cached(cache) /\ k \in Keys
    BY <1>3 DEF IsCache
  <2>2. EntryStale(k)
    BY <2>1 DEF StaleInv
  <2> QED
    BY <1>2, <2>1, <2>2 DEF EntryStale
<1>5. ASSUME NEW f \in cache'.fills PROVE FillStale(f[1], f[2])'
  <2>1. PICK k \in Keys, r \in Calls : k = f[1] /\ r = f[2]
    BY <1>3, FillFacts
  <2>2. FillStale(k, r)
    BY <2>1 DEF StaleInv
  <2>3. call'[r].pc = call[r].pc /\ call'[r].items = call[r].items
    BY DEF Alike
  <2>4. out'[r] = out[r] \/ ~out'[r].ok
    BY <1>1, OrphanedFacts, UnsetFacts
  <2>5. \A x : Old(db', x, k) <=> Old(db, x, k)
    BY DEF Old
  <2>6. DOMAIN stream' = {}
    BY <1>1
  <2>7. Coming(0, k) => Coming(0, k)'
    BY <1>2
  <2>8. PICK out1 : out1 = out'[r]
    OBVIOUS
  <2>9. call[r].pc = "await" /\ out1.ok /\ Old(db, out1.items[1], k) => Coming(0, k)'
    BY <2>2, <2>4, <2>7, <2>8 DEF FillStale
  <2>10. call[r].pc = "complete" /\ Old(db, call[r].items[1], k) => Coming(0, k)'
    BY <2>2, <2>7 DEF FillStale
  <2>11. FillStale(k, r)'
    BY <2>3, <2>6, <2>8, <2>9, <2>10 DEF FillStale, Old
  <2> QED
    BY <2>1, <2>11
<1> QED
  BY <1>4, <1>5 DEF StaleInv

\* An item was read: it has invalidated what it is about, or was not processed.
LEMMA ReadStale ==
    ASSUME BaseInv, MatchInv, ReplyInv, CacheInv, StaleInv, Read
    PROVE  StaleInv'
<1>1. /\ stream # <<>> /\ stream' = Tail(stream) /\ UNCHANGED <<scenario, db, dirty>>
      /\ cache' = Invalidated(Head(stream))
      /\ lost' = IF sync_lost THEN lost \cup Announced(<<Head(stream)>>) ELSE lost
      /\ \A r \in Calls : Alike(call'[r], call[r])
  BY ProgressedFacts DEF Read
<1>2. PICK x : x = Head(stream)
  OBVIOUS
<1>3. /\ x = stream[1] /\ 1 \in DOMAIN stream
      /\ \A p \in DOMAIN stream' : p + 1 \in DOMAIN stream /\ stream'[p] = stream[p + 1]
      /\ \A p \in DOMAIN stream : p = 1 \/ (p - 1 \in DOMAIN stream' /\ stream'[p - 1] = stream[p])
  BY <1>1, <1>2, StreamTail, LineFacts
<1>4. DOMAIN stream \subseteq Nat \ {0} /\ DOMAIN stream' \subseteq Nat \ {0}
  <2> DEFINE I == ItemSet
  <2>1. stream \in Seq(I) /\ stream # <<>>
    BY <1>1 DEF BaseInv, ShapeInv
  <2>2. stream' \in Seq(I)
    <3> HIDE DEF I
    <3> QED
      BY <1>1, <2>1
  <2> HIDE DEF I
  <2> QED
    BY <2>1, <2>2
<1>5. IsCache(cache)
  BY DEF CacheInv
<1>6. x.kind = "invalidate" => x.vals \in SUBSET Keys
  BY <1>3 DEF ReplyInv, SeenInv
<1>7. /\ Within(cache', cache) /\ cache'.fills \subseteq cache.fills
      /\ ~sync_lost /\ scenario.policy # "none" =>
           /\ x.kind = "flush" => Cached(cache') = {} /\ cache'.fills = {}
           /\ x.kind = "invalidate" =>
                /\ Cached(cache') = Cached(cache) \ x.vals
                /\ cache'.fills = {f \in cache.fills : f[1] \notin x.vals}
  <2>1. PICK d : d = Invalidated(x)
    OBVIOUS
  <2>2. /\ Within(d, cache) /\ d.fills \subseteq cache.fills
        /\ ~sync_lost /\ scenario.policy # "none" =>
             /\ x.kind = "flush" => Cached(d) = {} /\ d.fills = {}
             /\ x.kind = "invalidate" =>
                  /\ Cached(d) = Cached(cache) \ x.vals
                  /\ d.fills = {f \in cache.fills : f[1] \notin x.vals}
    BY <1>5, <1>6, <2>1, InvalidatedFacts
  <2>3. cache' = d
    BY <1>1, <1>2, <2>1
  <2> QED
    BY <2>2, <2>3
<1> DEFINE Used(k) == k \in Cached(cache') \/ \E f \in cache'.fills : f[1] = k
<1>8. ASSUME NEW k \in Keys, Used(k), About(x, k) PROVE k \in lost'
  <2>1. scenario.policy # "none"
    BY <1>7, <1>8 DEF CacheInv, Within
  <2>2. sync_lost
    BY <1>7, <1>8, <2>1 DEF About
  <2>3. PICK one : one = <<x>>
    OBVIOUS
  <2>4. 1 \in DOMAIN one /\ one[1] = x
    BY <2>3
  <2>5. k \in Announced(one)
    BY <1>8, <2>4 DEF Announced, About
  <2> QED
    BY <1>1, <1>2, <2>2, <2>3, <2>5
<1>9. ASSUME NEW k \in Keys, NEW p \in Nat, Coming(p + 1, k) PROVE Coming(p, k)'
  <2>1. lost \subseteq lost' /\ dirty' = dirty
    BY <1>1
  <2>2. CASE Later(stream, p + 1, k)
    <3>1. PICK i \in DOMAIN stream : i > p + 1 /\ About(stream[i], k)
      BY <2>2 DEF Later
    <3>2. i \in Nat /\ i # 1 /\ i - 1 > p
      BY <1>4, <3>1
    <3>3. i - 1 \in DOMAIN stream' /\ stream'[i - 1] = stream[i]
      BY <1>3, <3>2
    <3>4. Later(stream', p, k)
      BY <3>1, <3>2, <3>3 DEF Later
    <3> QED
      BY <3>4 DEF Coming
  <2>3. CASE k \in lost \/ k \in dirty
    BY <2>1, <2>3 DEF Coming
  <2> QED
    BY <1>9, <2>2, <2>3 DEF Coming
<1>10. ASSUME NEW k \in Keys, Coming(1, k) PROVE Coming(0, k)'
  <2>1. PICK p \in Nat : p = 0
    OBVIOUS
  <2>2. Coming(p + 1, k)
    BY <1>10, <2>1
  <2> QED
    BY <1>9, <2>1, <2>2
<1>11. ASSUME NEW k \in Keys, Used(k), Coming(0, k) PROVE Coming(0, k)'
  <2>1. CASE About(x, k)
    BY <1>8, <1>11, <2>1 DEF Coming
  <2>2. CASE ~About(x, k)
    <3>1. Later(stream, 0, k) => Later(stream, 1, k)
      <4>1. ASSUME NEW i \in DOMAIN stream, About(stream[i], k) PROVE i > 1
        BY <1>3, <1>4, <2>2, <4>1
      <4> QED
        BY <4>1 DEF Later
    <3> QED
      BY <1>10, <1>11, <3>1 DEF Coming
  <2> QED
    BY <2>1, <2>2
<1>12. ASSUME NEW k \in Cached(cache') PROVE EntryStale(k)'
  <2>1. k \in Cached(cache) /\ cache'.entries[k].version = cache.entries[k].version /\ k \in Keys
    BY <1>5, <1>7 DEF Within, IsCache
  <2>2. EntryStale(k)
    BY <2>1 DEF StaleInv
  <2>3. Coming(0, k) => Coming(0, k)'
    BY <1>11, <2>1
  <2> QED
    BY <1>1, <2>1, <2>2, <2>3 DEF EntryStale
<1>13. ASSUME NEW f \in cache'.fills PROVE FillStale(f[1], f[2])'
  <2>1. PICK k \in Keys, r \in Calls : k = f[1] /\ r = f[2]
    BY <1>5, <1>7, FillFacts
  <2>2. FillStale(k, r) /\ f \in cache.fills
    BY <1>7, <2>1 DEF StaleInv
  <2>3. call'[r].pc = call[r].pc /\ call'[r].items = call[r].items
    BY <1>1 DEF Alike
  <2>4. Coming(0, k) => Coming(0, k)'
    BY <1>11, <2>1
  <2>5. Caches(scenario, r)
    <3>1. scenario.policy # "none" /\ Held(f)
      BY <2>2 DEF CacheInv
    <3>2. call[r].todo \subseteq scenario.command[r].keys /\ call[r].missing \subseteq scenario.command[r].keys
      BY DEF BaseInv, CallInv, CallOK
    <3> QED
      BY <2>1, <3>1, <3>2 DEF Caches, Held
  <2>6. ASSUME call[r].pc = "await", NEW p \in DOMAIN stream', HasReply(stream'[p]), stream'[p].of = r,
               Old(db, stream'[p], k)
        PROVE  Coming(p, k)'
    <3>1. p \in Nat /\ p + 1 \in DOMAIN stream /\ stream'[p] = stream[p + 1]
      BY <1>3, <1>4
    <3>2. Coming(p + 1, k)
      BY <2>2, <2>6, <3>1 DEF FillStale
    <3> QED
      BY <1>9, <3>1, <3>2
  <2>7. PICK o : o = out'[r]
    OBVIOUS
  <2>8. ASSUME call[r].pc = "await", o.ok, Old(db, o.items[1], k) PROVE Coming(0, k)'
    <3>1. o = out[r] \/ (HasReply(x) /\ x.of = r /\ o.items = <<x>>)
      BY <1>2, <2>5, <2>7, <2>8, ReadOutput
    <3>2. CASE o = out[r]
      BY <2>2, <2>4, <2>8, <3>2 DEF FillStale
    <3>3. CASE HasReply(x) /\ x.of = r /\ o.items = <<x>>
      <4>1. Old(db, x, k)
        BY <2>8, <3>3
      <4>2. Coming(1, k)
        BY <1>3, <2>2, <2>8, <3>3, <4>1 DEF FillStale
      <4> QED
        BY <1>10, <4>2
    <3> QED
      BY <3>1, <3>2, <3>3
  <2>9. ASSUME call[r].pc = "complete", Old(db, call[r].items[1], k) PROVE Coming(0, k)'
    BY <2>2, <2>4, <2>9 DEF FillStale
  <2>10. FillStale(k, r)'
    <3>1. ASSUME call'[r].pc = "await", NEW p \in DOMAIN stream', HasReply(stream'[p]), stream'[p].of = r,
                 Old(db', stream'[p], k)
          PROVE  Coming(p, k)'
      BY <1>1, <2>3, <2>6, <3>1
    <3>2. call'[r].pc = "await" /\ out'[r].ok /\ Old(db', out'[r].items[1], k) => Coming(0, k)'
      BY <1>1, <2>3, <2>7, <2>8
    <3>3. call'[r].pc = "complete" /\ Old(db', call'[r].items[1], k) => Coming(0, k)'
      BY <1>1, <2>3, <2>9
    <3> QED
      BY <3>1, <3>2, <3>3 DEF FillStale
  <2> QED
    BY <2>1, <2>10
<1> QED
  BY <1>12, <1>13 DEF StaleInv

\* A step of call r, whose record becomes c.
LEMMA OwnStale ==
    ASSUME BaseInv, StaleInv, NEW r \in Calls, NEW c, call' = [call EXCEPT ![r] = c],
           out' \in {out, [out EXCEPT ![r] = Unset]}, UNCHANGED <<stream, db, dirty, lost>>, IsCache(cache'),
           \A k \in Cached(cache') :
               \/ k \in Cached(cache) /\ cache'.entries[k].version = cache.entries[k].version
               \/ cache'.entries[k].version # db[k] => Coming(0, k),
           \A f \in cache'.fills : f[2] # r => f \in cache.fills,
           c.pc = "await" => r \notin sent /\ out' = out /\ ~out[r].ok /\
               \A p \in DOMAIN stream : ~(HasReply(stream[p]) /\ stream[p].of = r),
           \A f \in cache'.fills : f[2] = r /\ c.pc = "complete" /\ Old(db, c.items[1], f[1]) => Coming(0, f[1])
    PROVE  StaleInv'
<1>1. \A p, k : Coming(p, k)' <=> Coming(p, k)
  BY DEF Coming
<1>2. ASSUME NEW k \in Cached(cache') PROVE EntryStale(k)'
  <2>1. cache'.entries[k].version # db[k] => Coming(0, k)
    BY DEF StaleInv, EntryStale
  <2> QED
    BY <1>1, <2>1 DEF EntryStale
<1>3. \A q \in Calls : call'[q] = (IF q = r THEN c ELSE call[q]) /\ (q # r => out'[q] = out[q])
  BY DEF BaseInv, ShapeInv
<1>4. ASSUME NEW f \in cache'.fills PROVE FillStale(f[1], f[2])'
  <2>1. PICK k \in Keys, q \in Calls : k = f[1] /\ q = f[2]
    BY FillFacts
  <2>2. CASE q # r
    <3>1. FillStale(k, q)
      BY <2>1, <2>2 DEF StaleInv
    <3>2. call'[q] = call[q] /\ out'[q] = out[q]
      BY <1>3, <2>2
    <3> QED
      BY <1>1, <2>1, <3>1, <3>2 DEF FillStale
  <2>3. CASE q = r
    <3>1. call'[r] = c
      BY <1>3
    <3>2. c.pc = "await" => ~out'[r].ok /\ \A p \in DOMAIN stream : ~(HasReply(stream[p]) /\ stream[p].of = r)
      OBVIOUS
    <3>3. c.pc = "complete" /\ Old(db, c.items[1], k) => Coming(0, k)
      BY <2>1, <2>3
    <3> QED
      BY <1>1, <2>1, <2>3, <3>1, <3>2, <3>3 DEF FillStale
  <2> QED
    BY <2>2, <2>3
<1> QED
  BY <1>2, <1>4 DEF StaleInv

LEMMA CallerStale ==
    ASSUME BaseInv, MatchInv, ReplyInv, CacheInv, StaleInv, NEW r \in Calls, CallStep(r) \/ Tick(r) \/ TimeOut(r)
    PROVE  StaleInv'
<1>1. UNCHANGED <<stream, db, dirty, lost>>
  BY CallerCases DEF serverVars
<1>2. IsCache(cache)
  BY DEF CacheInv
<1>3. IsCache(cache')
  BY CallerCache DEF CacheInv
<1>4. ASSUME NEW c, call' = [call EXCEPT ![r] = c], out' \in {out, [out EXCEPT ![r] = Unset]},
             c.pc \notin {"await", "complete"}, Within(cache', cache),
             \A f \in cache'.fills : f[2] # r => f \in cache.fills
      PROVE  StaleInv'
  <2>1. \A k \in Cached(cache') : k \in Cached(cache) /\ cache'.entries[k].version = cache.entries[k].version
    BY <1>4 DEF Within
  <2> QED
    BY <1>1, <1>3, <1>4, <2>1, OwnStale
<1>5. ASSUME Moves(r) PROVE StaleInv'
  <2>1. PICK c \in CallSet :
          /\ call' = [call EXCEPT ![r] = c] /\ out' = out
          /\ c.pc \in Underway /\ (c.pc = "await" => call[r].pc \in {"send", "full"})
          /\ \/ cache' \in {cache, Promoted(cache, call[r].key), remove_if_expired(cache, call[r].key)}
             \/ call[r].key \in Keys /\ cache' = WithFill(cache, call[r].key, r)
    BY <1>5 DEF Moves
  <2>2. c.pc # "complete" /\ (c.pc = "await" => r \notin sent)
    BY <2>1 DEF Underway, BaseInv, LineInv, Begun
  <2>3. c.pc = "await" => /\ r \notin sent /\ out' = out /\ ~out[r].ok
                          /\ \A p \in DOMAIN stream : ~(HasReply(stream[p]) /\ stream[p].of = r)
    BY <2>1, <2>2 DEF ReplyInv, SeenInv, MatchInv, OwnInv
  <2>4. /\ \A k \in Cached(cache') : k \in Cached(cache) /\ cache'.entries[k].version = cache.entries[k].version
        /\ \A f \in cache'.fills : f[2] # r => f \in cache.fills
    <3>1. CASE cache' \in {cache, Promoted(cache, call[r].key), remove_if_expired(cache, call[r].key)}
      BY <1>2, <3>1, MoveCache DEF Within
    <3>2. CASE call[r].key \in Keys /\ cache' = WithFill(cache, call[r].key, r)
      <4>1. PICK k \in Keys : k = call[r].key
        BY <3>2
      <4>2. PICK d : d = WithFill(cache, k, r)
        OBVIOUS
      <4>3. d.entries = cache.entries /\ d.fills = cache.fills \cup {<<k, r>>}
        BY <1>2, <4>2, WithFillFacts
      <4>4. cache'.entries = cache.entries /\ cache'.fills = cache.fills \cup {<<k, r>>}
        BY <3>2, <4>1, <4>2, <4>3
      <4> QED
        BY <4>4 DEF Cached
    <3> QED
      BY <2>1, <3>1, <3>2
  <2>5. call' = [call EXCEPT ![r] = c] /\ out' \in {out, [out EXCEPT ![r] = Unset]} /\ c.pc # "complete"
    BY <2>1, <2>2
  <2> QED
    BY <1>1, <1>3, <2>3, <2>4, <2>5, OwnStale
<1>6. ASSUME Hits(r) PROVE StaleInv'
  <2>1. PICK c : c = Done("ok", <<>>)
    OBVIOUS
  <2>2. "ok" \in Results
    BY DEF Results
  <2>3. c.pc = "done" /\ call' = [call EXCEPT ![r] = c] /\ out' = out
    BY <1>6, <2>1, <2>2, DoneEmpty DEF Hits
  <2>4. Within(cache', cache) /\ cache'.fills = cache.fills
    BY <1>2, <1>6, MoveCache DEF Hits
  <2> QED
    BY <1>4, <2>3, <2>4
<1>7. ASSUME Ends(r) PROVE StaleInv'
  <2>1. PICK result \in Results : \E items \in Seq(ItemSet) :
          Finish(r, result, items) /\ out' \in {out, [out EXCEPT ![r] = Unset]}
    BY <1>7, Zenon DEF Ends
  <2>2. PICK items \in Seq(ItemSet) : Finish(r, result, items) /\ out' \in {out, [out EXCEPT ![r] = Unset]}
    BY <2>1
  <2>3. PICK c : c = Done(result, items)
    OBVIOUS
  <2>4. c.pc = "done" /\ call' = [call EXCEPT ![r] = c] /\ cache' = WithoutTokens(r)
    BY <2>2, <2>3, DoneFacts DEF Finish, WithoutTokens
  <2>5. Within(cache', cache) /\ cache'.fills \subseteq cache.fills
    BY <1>2, <2>4, TokensFacts
  <2> QED
    BY <1>4, <2>2, <2>4, <2>5
<1>8. ASSUME Answered(r) PROVE StaleInv'
  <2>1. PICK c \in CallSet : /\ call' = [call EXCEPT ![r] = c] /\ cache' = cache /\ out' = [out EXCEPT ![r] = Unset]
                             /\ c.pc = "complete" /\ c.items = out[r].items /\ call[r].pc = "await" /\ out[r].ok
    BY <1>8 DEF Answered
  <2>2. \A f \in cache.fills : f[2] = r /\ Old(db, c.items[1], f[1]) => Coming(0, f[1])
    BY <2>1 DEF StaleInv, FillStale
  <2> QED
    BY <1>1, <1>3, <2>1, <2>2, OwnStale
<1>9. ASSUME Offers(r) PROVE StaleInv'
  <2>1. PICK k \in call[r].todo :
          /\ call[r].pc = "complete" /\ out' = out
          /\ cache' = IF call[r].items[1].vals[k] = Nil THEN WithoutFill(cache, k, r)
                      ELSE insert_if_active_fill(cache, k, call[r].items[1].vals[k], r)
          /\ IF call[r].todo = {k} THEN call' = [call EXCEPT ![r] = Done("ok", call[r].items)]
             ELSE \E c \in CallSet : call' = [call EXCEPT ![r] = c] /\ c.pc = "complete" /\ c.items = call[r].items
    BY <1>9 DEF Offers
  <2>2. /\ cache'.fills = cache.fills \ {<<k, r>>}
        /\ \A other \in Cached(cache') :
             \/ other \in Cached(cache) /\ cache'.entries[other].version = cache.entries[other].version
             \/ /\ other = k /\ cache'.entries[other].version = call[r].items[1].vals[k]
                /\ call[r].items[1].vals[k] # Nil /\ <<k, r>> \in cache.fills
    BY <1>2, <2>1, OfferCache
  <2>3. \A f \in cache.fills : f[2] = r /\ Old(db, call[r].items[1], f[1]) => Coming(0, f[1])
    BY <2>1 DEF StaleInv, FillStale
  <2>4. ASSUME NEW other \in Cached(cache')
        PROVE  \/ other \in Cached(cache) /\ cache'.entries[other].version = cache.entries[other].version
               \/ cache'.entries[other].version # db[other] => Coming(0, other)
    <3>1. CASE /\ other = k /\ cache'.entries[other].version = call[r].items[1].vals[k]
               /\ call[r].items[1].vals[k] # Nil /\ <<k, r>> \in cache.fills
      <4>1. PICK f \in cache.fills : f[1] = k /\ f[2] = r
        BY <3>1
      <4>2. Old(db, call[r].items[1], k) => Coming(0, k)
        BY <2>3, <4>1
      <4>3. cache'.entries[other].version # db[other] => Old(db, call[r].items[1], k)
        BY <3>1 DEF Old
      <4> QED
        BY <3>1, <4>2, <4>3
    <3> QED
      BY <2>2, <3>1
  <2>5. PICK c : /\ call' = [call EXCEPT ![r] = c] /\ c.pc # "await"
                 /\ c.pc = "complete" => c.items = call[r].items
    <3>1. CASE call[r].todo = {k}
      <4>1. PICK c : c = Done("ok", call[r].items)
        OBVIOUS
      <4>2. "ok" \in Results /\ call[r].items \in Seq(ItemSet)
        <5>1. call[r] \in CallSet
          BY DEF BaseInv, ShapeInv
        <5> QED
          BY <5>1 DEF CallSet, Results
      <4>3. c.pc = "done"
        BY <4>1, <4>2, DoneFacts
      <4> QED
        BY <2>1, <3>1, <4>1, <4>3
    <3>2. CASE call[r].todo # {k}
      BY <2>1, <3>2
    <3> QED
      BY <3>1, <3>2
  <2>6. \A f \in cache'.fills : f[2] = r /\ c.pc = "complete" /\ Old(db, c.items[1], f[1]) => Coming(0, f[1])
    BY <2>2, <2>3, <2>5
  <2>7. \A f \in cache'.fills : f[2] # r => f \in cache.fills
    BY <2>2
  <2>8. call' = [call EXCEPT ![r] = c] /\ c.pc # "await" /\ out' \in {out, [out EXCEPT ![r] = Unset]}
    BY <2>1, <2>5
  <2> QED
    BY <1>1, <1>3, <2>4, <2>6, <2>7, <2>8, OwnStale
<1> QED
  BY <1>5, <1>6, <1>7, <1>8, <1>9, CallerCases

\* The steps of the server.
LEMMA LaterLengthened ==
    ASSUME NEW S, NEW T, NEW items, Lengthened(S, T, items), NEW p, NEW k, Later(T, p, k)
    PROVE  Later(S, p, k)
BY DEF Lengthened, Later

LEMMA ExecuteStale ==
    ASSUME BaseInv, CacheInv, StaleInv, Execute
    PROVE  StaleInv'
<1>1. /\ wire # <<>> /\ UNCHANGED <<scenario, call, out, cache, db, dirty, lost>>
  BY DEF Execute
<1>2. PICK r \in Calls : r = Head(wire)
  BY <1>1 DEF BaseInv, ShapeInv
<1>3. PICK items \in Answers(r) : stream' = stream \o items
  BY <1>2 DEF Execute
<1>4. Lengthened(stream', stream, items)
  BY <1>3, AnswerTypes, Longer
<1>5. Announcing
  <2>1. ASSUME NEW k \in Keys, NEW p \in {0} \cup DOMAIN stream, Coming(p, k) PROVE Coming(p, k)'
    BY <1>1, <1>4, <2>1, LaterLengthened DEF Coming
  <2> QED
    BY <1>1, <2>1 DEF Announcing
<1>6. ASSUME NEW p \in DOMAIN stream'
      PROVE  (p \in DOMAIN stream /\ stream'[p] = stream[p]) \/ UpToDate(stream'[p])
  <2>1. CASE p \in DOMAIN stream
    BY <1>4, <2>1 DEF Lengthened
  <2>2. CASE p \notin DOMAIN stream
    <3>1. PICK j \in DOMAIN items : stream'[p] = items[j]
      BY <1>4, <2>2 DEF Lengthened
    <3>2. PICK x : x = items[j]
      OBVIOUS
    <3>3. ASSUME NEW f \in cache.fills, HasReply(x), x.of = f[2] PROVE ~Old(db', x, f[1])
      <4>1. f[2] = r
        BY <3>2, <3>3, AnswerFresh
      <4>2. scenario.policy # "none" /\ Held(f)
        BY DEF CacheInv
      <4>3. /\ call[r].todo \subseteq scenario.command[r].keys /\ call[r].missing \subseteq scenario.command[r].keys
            /\ call[r].pc = "complete" => call[r].todo \subseteq call[r].missing
        BY DEF BaseInv, CallInv, CallOK
      <4>4. f[1] \in call[r].missing /\ Caches(scenario, r)
        BY <4>1, <4>2, <4>3 DEF Held, Caches
      <4>5. x = ReadItem(r)
        BY <3>2, <4>4, AnswerFresh
      <4>6. x.vals[f[1]] \in {db[f[1]], Nil}
        BY <4>4, <4>5, ReadItemFacts
      <4> QED
        BY <1>1, <4>6 DEF Old
    <3> QED
      BY <3>1, <3>2, <3>3 DEF UpToDate
  <2> QED
    BY <2>1, <2>2
<1>7. Within(cache', cache) /\ \A q \in Calls : Alike(call'[q], call[q])
  BY <1>1 DEF CacheInv, Within, Alike
<1> QED
  BY <1>1, <1>5, <1>6, <1>7, GrowStale

\* The stream with one more push.
LEMMA PushedFacts ==
    ASSUME BaseInv, NEW x \in ItemSet
    PROVE  /\ Lengthened(Append(stream, x), stream, <<x>>)
           /\ \A p \in DOMAIN Append(stream, x) : p \in DOMAIN stream \/ Append(stream, x)[p] = x
           /\ \A k \in Keys : About(x, k) => \A p \in {0} \cup DOMAIN stream : Later(Append(stream, x), p, k)
<1> DEFINE I == ItemSet
<1>1. stream \in Seq(I) /\ x \in I
  BY DEF BaseInv, ShapeInv
<1>2. PICK S : S = Append(stream, x)
  OBVIOUS
<1>3. PICK n \in Nat : n = Len(stream) /\ DOMAIN stream = 1..n
  <2> HIDE DEF I
  <2> QED
    BY <1>1
<1>4. DOMAIN S = 1..(n + 1) /\ S[n + 1] = x /\ \A p \in 1..n : S[p] = stream[p]
  <2> HIDE DEF I
  <2> QED
    BY <1>1, <1>2, <1>3
<1>5. \A p \in DOMAIN S : p \in DOMAIN stream \/ S[p] = x
  BY <1>3, <1>4
<1>6. \A p \in DOMAIN stream : p \in DOMAIN S /\ S[p] = stream[p]
  BY <1>3, <1>4
<1>7. Lengthened(S, stream, <<x>>)
  <2>1. PICK one : one = <<x>>
    OBVIOUS
  <2>2. 1 \in DOMAIN one /\ one[1] = x
    BY <2>1
  <2> QED
    BY <1>5, <1>6, <2>1, <2>2 DEF Lengthened
<1>8. ASSUME NEW k \in Keys, About(x, k), NEW p \in {0} \cup DOMAIN stream PROVE Later(S, p, k)
  <2>1. n + 1 \in DOMAIN S /\ n + 1 > p
    BY <1>3, <1>4
  <2> QED
    BY <1>4, <1>8, <2>1 DEF Later
<1> QED
  BY <1>2, <1>5, <1>7, <1>8

LEMMA WriteStale ==
    ASSUME BaseInv, CacheInv, StaleInv, Write \/ Broadcast \/ UnpromptedPush
    PROVE  StaleInv'
<1>1. UNCHANGED <<call, out, cache>>
  BY DEF Write, Broadcast, UnpromptedPush
<1>2. Within(cache', cache) /\ \A q \in Calls : Alike(call'[q], call[q])
  BY <1>1 DEF CacheInv, Within, Alike
<1>3. dirty \in SUBSET Keys /\ db \in [Keys -> 1..Nil]
  BY DEF BaseInv, ShapeInv
<1>4. ASSUME stream' = stream, Announcing PROVE StaleInv'
  BY <1>1, <1>2, <1>4, GrowStale
<1>5. ASSUME NEW x \in ItemSet, stream' = Append(stream, x), ~HasReply(x), Announcing PROVE StaleInv'
  <2>1. ASSUME NEW p \in DOMAIN stream'
        PROVE  (p \in DOMAIN stream /\ stream'[p] = stream[p]) \/ UpToDate(stream'[p])
    <3>1. CASE p \in DOMAIN stream
      BY <1>5, <3>1, PushedFacts DEF Lengthened
    <3>2. CASE stream'[p] = x
      BY <1>5, <3>2 DEF UpToDate
    <3> QED
      BY <1>5, <3>1, <3>2, PushedFacts
  <2> QED
    BY <1>1, <1>2, <1>5, <2>1, GrowStale
<1>6. ASSUME NEW x \in ItemSet, stream' = Append(stream, x), NEW p, NEW k \in Keys, Later(stream, p, k)
      PROVE  Later(stream', p, k)
  BY <1>6, PushedFacts, LaterLengthened
<1>7. ASSUME NEW k \in Keys, NEW v, db' = [db EXCEPT ![k] = v],
             IF ended THEN lost' = lost \cup {k} /\ UNCHANGED <<dirty, stream>>
                      ELSE dirty' = dirty \cup {k} /\ UNCHANGED <<lost, stream>>
      PROVE  StaleInv'
  <2>1. stream' = stream /\ lost \subseteq lost' /\ dirty \subseteq dirty' /\ (k \in lost' \/ k \in dirty')
    BY <1>7
  <2>2. \A j \in Keys : j # k => db'[j] = db[j]
    BY <1>3, <1>7
  <2>3. Announcing
    BY <2>1, <2>2 DEF Announcing, Coming
  <2> QED
    BY <1>4, <2>1, <2>3
<1>8. ASSUME IF ended THEN lost' = Keys /\ UNCHANGED stream
                      ELSE stream' = Append(stream, Push("flush", {})) /\ UNCHANGED lost
      PROVE  StaleInv'
  <2>1. CASE ended
    <3>1. Announcing
      BY <1>8, <2>1 DEF Announcing, Coming
    <3> QED
      BY <1>4, <1>8, <2>1, <3>1
  <2>2. CASE ~ended
    <3>1. PICK x \in ItemSet : x = Push("flush", {}) /\ x.kind = "flush" /\ ~HasReply(x)
      BY PushFacts
    <3>2. stream' = Append(stream, x)
      BY <1>8, <2>2, <3>1
    <3>3. \A k \in Keys : \A p \in {0} \cup DOMAIN stream : Later(stream', p, k)
      BY <3>1, <3>2, PushedFacts DEF About
    <3>4. Announcing
      BY <3>3 DEF Announcing, Coming
    <3> QED
      BY <1>5, <3>1, <3>2, <3>4
  <2> QED
    BY <2>1, <2>2
<1>9. ASSUME Broadcast PROVE StaleInv'
  <2>1. PICK x \in ItemSet : x = Push("invalidate", dirty) /\ x.kind = "invalidate" /\ x.vals = dirty /\ ~HasReply(x)
    BY <1>3, PushFacts
  <2>2. stream' = Append(stream, x) /\ db' = db /\ lost' = lost
    BY <1>9, <2>1 DEF Broadcast
  <2>3. \A k \in Keys : k \in dirty => \A p \in {0} \cup DOMAIN stream : Later(stream', p, k)
    BY <2>1, <2>2, PushedFacts DEF About
  <2>4. Announcing
    <3>1. ASSUME NEW k \in Keys, NEW p \in {0} \cup DOMAIN stream, Coming(p, k) PROVE Coming(p, k)'
      BY <1>6, <2>2, <2>3, <3>1 DEF Coming
    <3> QED
      BY <2>2, <3>1 DEF Announcing
  <2> QED
    BY <1>5, <2>1, <2>2, <2>4
<1>10. ASSUME UnpromptedPush PROVE StaleInv'
  <2>1. PICK x \in ItemSet : x = Push("sunsubscribe", {}) /\ ~HasReply(x)
    BY PushFacts
  <2>2. stream' = Append(stream, x) /\ db' = db /\ lost' = lost /\ dirty' = dirty
    BY <1>10, <2>1 DEF UnpromptedPush
  <2>3. Announcing
    <3>1. ASSUME NEW k \in Keys, NEW p \in {0} \cup DOMAIN stream, Coming(p, k) PROVE Coming(p, k)'
      BY <1>6, <2>2, <3>1 DEF Coming
    <3> QED
      BY <2>2, <3>1 DEF Announcing
  <2> QED
    BY <1>5, <2>1, <2>2, <2>3
<1>11. ASSUME Write PROVE StaleInv'
  BY <1>7, <1>8, <1>11 DEF Write
<1> QED
  BY <1>9, <1>10, <1>11

LEMMA NextStale ==
    ASSUME BaseInv, MatchInv, ReplyInv, CacheInv, StaleInv, [Next]_vars
    PROVE  StaleInv'
<1>1. ASSUME NEW r \in Calls, CallStep(r) \/ Tick(r) \/ TimeOut(r)
      PROVE  StaleInv'
  BY <1>1, CallerStale
<1>2. IsCache(cache) /\ Within(cache, cache)
  BY DEF CacheInv, Within
<1>3. ASSUME UNCHANGED <<out, db, dirty, stream, lost>>, \A r \in Calls : Alike(call'[r], call[r]),
             Within(cache', cache), cache'.fills \subseteq cache.fills
      PROVE  StaleInv'
  <2>1. Announcing
    BY <1>3 DEF Announcing, Coming
  <2> QED
    BY <1>3, <2>1, GrowStale
<1>4. ASSUME Reopen \/ UNCHANGED vars PROVE StaleInv'
  <2>1. UNCHANGED <<out, db, dirty, stream, lost, call, cache>>
    BY <1>4 DEF Reopen, vars, serverVars
  <2> QED
    BY <1>2, <1>3, <2>1 DEF Alike
<1>5. ASSUME Pull PROVE StaleInv'
  <2>1. UNCHANGED <<cache, db>> /\ \A r \in Calls : Alike(call'[r], call[r])
    BY <1>5, ProgressedFacts DEF Pull
  <2>2. PICK r \in Calls : r = Head(channel)
    BY <1>5 DEF Pull, BaseInv, ShapeInv
  <2>3. ASSUME UNCHANGED <<out, dirty, stream, lost>> PROVE StaleInv'
    BY <1>2, <1>3, <2>1, <2>3
  <2>4. ASSUME End(Output(r, FALSE, <<>>), Tail(channel)) PROVE StaleInv'
    BY <2>1, <2>4, EndStale, RefusedFacts
  <2> QED
    BY <1>5, <2>2, <2>3, <2>4 DEF Pull
<1>6. ASSUME Break PROVE StaleInv'
  <2>1. UNCHANGED <<cache, db>> /\ \A r \in Calls : Alike(call'[r], call[r])
    BY <1>6 DEF Break, Alike
  <2>2. PICK o \in [Calls -> OneshotSet] : End(o, channel) /\ \A r \in Calls : o[r] = out[r] \/ ~o[r].ok
    <3>1. out \in [Calls -> OneshotSet]
      BY DEF BaseInv, ShapeInv
    <3>2. CASE End(out, channel)
      BY <3>1, <3>2
    <3>3. CASE ~End(out, channel)
      <4>1. in_flight # <<>> /\ End(Output(First.of, FALSE, <<>>), channel)
        BY <1>6, <3>3 DEF Break, First
      <4>2. First.of \in Calls
        BY <4>1, FirstFacts
      <4> QED
        BY <4>1, <4>2, RefusedFacts
    <3> QED
      BY <3>2, <3>3
  <2> QED
    BY <2>1, <2>2, EndStale
<1>7. ASSUME Age PROVE StaleInv'
  <2>1. PICK k \in Cached(cache) : cache' = Aged(cache, k)
    BY <1>7 DEF Age, Aged
  <2>2. UNCHANGED <<out, db, dirty, stream, lost>> /\ \A r \in Calls : Alike(call'[r], call[r])
    BY <1>7 DEF Age, Alike, serverVars
  <2>3. Within(cache', cache) /\ cache'.fills = cache.fills
    BY <1>2, <2>1, AgedFacts
  <2> QED
    BY <1>3, <2>2, <2>3
<1> QED
  BY <1>1, <1>4, <1>5, <1>6, <1>7, ReadStale, ExecuteStale, WriteStale DEF Next

\* No reply read before a key changed outlives the key's invalidation in the cache: a cached
\* value that is not the server's has its invalidation on the way, or it was never processed,
\* or a fence took the PONG of another command for its own.
THEOREM StaleAlwaysAnnounced ==
    ASSUME RepliesCounted
    PROVE  Spec => [](mistaken \/ StaleIsAnnounced)
<1>1. AllInv /\ (mistaken \/ StaleInv) /\ [Next]_vars => (mistaken' \/ StaleInv')
  BY NextStale, MistakenStays DEF AllInv, GivenInv
<1>2. Init => StaleInv
  BY InitStale
<1>3. AllInv /\ (mistaken \/ StaleInv) => mistaken \/ StaleIsAnnounced
  <2>1. ASSUME AllInv, ~mistaken, StaleInv, NEW k \in Cached(cache), cache.entries[k].version # db[k]
        PROVE  k \in lost \cup dirty \cup Announced(stream)
    <3>1. k \in Keys /\ Coming(0, k)
      BY <2>1 DEF AllInv, GivenInv, CacheInv, IsCache, StaleInv, EntryStale
    <3>2. Later(stream, 0, k) => k \in Announced(stream)
      BY <3>1 DEF Later, Announced, About
    <3> QED
      BY <3>1, <3>2 DEF Coming
  <2> QED
    BY <2>1 DEF StaleIsAnnounced
<1> QED
  BY <1>1, <1>2, <1>3, CachedAlways, PTL DEF Spec

-----------------------------------------------------------------------------
(* The order that eviction follows *)

LEMMA MinFacts ==
    ASSUME NEW D \in SUBSET Nat, D # {}
    PROVE  Min(D) \in D /\ \A k \in D : Min(D) <= k
<1>1. \E m \in D : \A k \in D : m <= k
  BY Minimum
<1> QED
  BY <1>1 DEF Min

\* A position of k is taken out of the order.
LEMMA WithoutAt ==
    ASSUME NEW S, NEW s \in Seq(S), NEW j \in 1..Len(s)
    PROVE  \E m \in 1..Len(s) : s[m] = s[j] /\ Without(s, s[j]) = SubSeq(s, 1, m - 1) \o SubSeq(s, m + 1, Len(s))
<1> DEFINE I == {i \in 1..Len(s) : s[i] = s[j]}
<1>1. I \in SUBSET Nat /\ j \in I
  OBVIOUS
<1>2. Min(I) \in I
  <2> HIDE DEF I
  <2> QED
    BY <1>1, MinFacts
<1>3. SelectInSeq(s, LAMBDA v : v = s[j]) = Min(I)
  BY <1>1, Zenon DEF SelectInSeq
<1>4. Without(s, s[j]) = RemoveAt(s, SelectInSeq(s, LAMBDA v : v = s[j]))
  BY Zenon DEF Without, RemoveFirst
<1>5. PICK m \in 1..Len(s) : m = Min(I) /\ s[m] = s[j]
  BY <1>2
<1> QED
  BY <1>3, <1>4, <1>5 DEF RemoveAt

\* t is s without its m-th element.
LacksOne(S, s, m, t) ==
    /\ t \in Seq(S) /\ Len(t) = Len(s) - 1
    /\ \A i \in 1..(Len(s) - 1) : t[i] = IF i < m THEN s[i] ELSE s[i + 1]

LEMMA RemoveAtFacts ==
    ASSUME NEW S, NEW s \in Seq(S), NEW m \in 1..Len(s)
    PROVE  LacksOne(S, s, m, SubSeq(s, 1, m - 1) \o SubSeq(s, m + 1, Len(s)))
<1>0. PICK t : t = SubSeq(s, 1, m - 1) \o SubSeq(s, m + 1, Len(s))
  OBVIOUS
<1>1. PICK n \in Nat : n = Len(s)
  OBVIOUS
<1>2. PICK a : a = SubSeq(s, 1, m - 1)
  OBVIOUS
<1>3. PICK b : b = SubSeq(s, m + 1, n)
  OBVIOUS
<1>4. m \in 1..n /\ m - 1 \in Int /\ m + 1 \in Int /\ 1 \in Int
  BY <1>1
<1>5. \A i \in 1..n : s[i] \in S
  BY <1>1
<1>6. a \in Seq(S) /\ Len(a) = m - 1 /\ \A i \in 1..(m - 1) : a[i] = s[i]
  <2>1. \A i \in 1..(m - 1) : s[i] \in S
    BY <1>4, <1>5
  <2>2. /\ a \in Seq(S) /\ Len(a) = IF 1 <= m - 1 THEN (m - 1) - 1 + 1 ELSE 0
        /\ \A i \in 1..((m - 1) - 1 + 1) : a[i] = s[1 + i - 1]
    BY <1>2, <1>4, <2>1, SubSeqProperties
  <2>3. (m - 1) - 1 + 1 = m - 1 /\ \A i \in 1..(m - 1) : 1 + i - 1 = i
    BY <1>4
  <2> QED
    BY <1>4, <2>2, <2>3
<1>7. b \in Seq(S) /\ Len(b) = n - m /\ \A i \in 1..(n - m) : b[i] = s[m + i]
  <2>1. \A i \in (m + 1)..n : s[i] \in S
    BY <1>4, <1>5
  <2>2. /\ b \in Seq(S) /\ Len(b) = IF m + 1 <= n THEN n - (m + 1) + 1 ELSE 0
        /\ \A i \in 1..(n - (m + 1) + 1) : b[i] = s[(m + 1) + i - 1]
    <3>1. PICK p \in Int : p = m + 1
      BY <1>4
    <3>2. b = SubSeq(s, p, n) /\ n \in Int /\ \A i \in p..n : s[i] \in S
      BY <1>3, <2>1, <3>1
    <3>3. /\ b \in Seq(S) /\ Len(b) = IF p <= n THEN n - p + 1 ELSE 0
          /\ \A i \in 1..(n - p + 1) : b[i] = s[p + i - 1]
      BY <3>2, SubSeqProperties
    <3> QED
      BY <3>1, <3>3
  <2>3. n - (m + 1) + 1 = n - m /\ \A i \in 1..(n - m) : (m + 1) + i - 1 = m + i
    BY <1>4
  <2> QED
    BY <1>4, <2>2, <2>3
<1>8. t = a \o b
  BY <1>0, <1>1, <1>2, <1>3
<1>9. /\ t \in Seq(S) /\ Len(t) = (m - 1) + (n - m)
      /\ \A i \in 1..((m - 1) + (n - m)) : t[i] = IF i <= m - 1 THEN a[i] ELSE b[i - (m - 1)]
  <2>1. /\ a \o b \in Seq(S) /\ Len(a \o b) = Len(a) + Len(b)
        /\ \A i \in 1..Len(a) + Len(b) : (a \o b)[i] = IF i <= Len(a) THEN a[i] ELSE b[i - Len(a)]
    BY <1>6, <1>7, ConcatProperties
  <2>2. Len(a) = m - 1 /\ Len(b) = n - m
    BY <1>6, <1>7
  <2> QED
    BY <1>8, <2>1, <2>2, Zenon
<1>10. (m - 1) + (n - m) = n - 1
  BY <1>4
<1>11. ASSUME NEW i \in 1..(n - 1) PROVE t[i] = IF i < m THEN s[i] ELSE s[i + 1]
  <2>1. CASE i < m
    <3>1. i <= m - 1 /\ i \in 1..(m - 1)
      BY <1>4, <2>1
    <3> QED
      BY <1>6, <1>9, <1>10, <2>1, <3>1
  <2>2. CASE ~(i < m)
    <3>1. ~(i <= m - 1) /\ i - (m - 1) \in 1..(n - m) /\ m + (i - (m - 1)) = i + 1
      BY <1>4, <2>2
    <3> QED
      BY <1>7, <1>9, <1>10, <2>2, <3>1
  <2> QED
    BY <2>1, <2>2
<1> QED
  BY <1>0, <1>1, <1>9, <1>10, <1>11 DEF LacksOne

LEMMA WithoutFacts ==
    ASSUME NEW S, NEW s \in Seq(S), IsInjective(s), NEW k \in Range(s)
    PROVE  /\ Without(s, k) \in Seq(S) /\ IsInjective(Without(s, k))
           /\ Range(Without(s, k)) = Range(s) \ {k}
<1>1. PICK n \in Nat : n = Len(s) /\ DOMAIN s = 1..n
  OBVIOUS
<1>2. PICK j \in 1..n : s[j] = k
  BY <1>1 DEF Range
<1>3. PICK m \in 1..n : s[m] = k /\ Without(s, k) = SubSeq(s, 1, m - 1) \o SubSeq(s, m + 1, n)
  BY <1>1, <1>2, WithoutAt
<1>4. PICK t : t = Without(s, k)
  OBVIOUS
<1>5. /\ t \in Seq(S) /\ Len(t) = n - 1
      /\ \A i \in 1..(n - 1) : t[i] = IF i < m THEN s[i] ELSE s[i + 1]
  <2>1. LacksOne(S, s, m, t)
    BY <1>1, <1>3, <1>4, RemoveAtFacts
  <2> QED
    BY <1>1, <2>1 DEF LacksOne
<1>6. DOMAIN t = 1..(n - 1)
  BY <1>5
<1>7. \A a, b \in 1..n : s[a] = s[b] => a = b
  BY <1>1 DEF IsInjective
<1>8. ASSUME NEW a \in 1..(n - 1), NEW b \in 1..(n - 1), t[a] = t[b] PROVE a = b
  <2> DEFINE at(i) == IF i < m THEN i ELSE i + 1
  <2>1. at(a) \in 1..n /\ at(b) \in 1..n /\ (at(a) = at(b) => a = b)
    BY <1>3
  <2>2. t[a] = s[at(a)] /\ t[b] = s[at(b)]
    BY <1>5
  <2> HIDE DEF at
  <2> QED
    BY <1>7, <1>8, <2>1, <2>2
<1>9. ASSUME NEW x, x \in Range(t) PROVE x \in Range(s) \ {k}
  <2>1. PICK i \in 1..(n - 1) : t[i] = x
    BY <1>6, <1>9 DEF Range
  <2>2. PICK j2 \in 1..n : s[j2] = x /\ j2 # m
    BY <1>5, <2>1
  <2> QED
    BY <1>1, <1>3, <1>7, <2>2 DEF Range
<1>10. ASSUME NEW x, x \in Range(s) \ {k} PROVE x \in Range(t)
  <2>1. PICK i \in 1..n : s[i] = x /\ i # m
    BY <1>1, <1>3, <1>10 DEF Range
  <2>2. CASE i < m
    <3>1. i \in 1..(n - 1) /\ t[i] = x
      BY <1>5, <2>1, <2>2
    <3> QED
      BY <1>6, <3>1 DEF Range
  <2>3. CASE ~(i < m)
    <3>1. i - 1 \in 1..(n - 1) /\ ~(i - 1 < m) /\ i - 1 + 1 = i
      BY <2>1, <2>3
    <3>2. t[i - 1] = x
      BY <1>5, <2>1, <3>1
    <3> QED
      BY <1>6, <3>1, <3>2 DEF Range
  <2> QED
    BY <2>2, <2>3
<1>11. IsInjective(t)
  BY <1>6, <1>8 DEF IsInjective
<1> QED
  BY <1>4, <1>5, <1>9, <1>10, <1>11

LEMMA AppendOrder ==
    ASSUME NEW S, NEW s \in Seq(S), IsInjective(s), NEW k \in S, k \notin Range(s)
    PROVE  /\ Append(s, k) \in Seq(S) /\ IsInjective(Append(s, k))
           /\ Range(Append(s, k)) = Range(s) \cup {k}
<1>1. PICK n \in Nat : n = Len(s) /\ DOMAIN s = 1..n
  OBVIOUS
<1>2. PICK t : t = Append(s, k)
  OBVIOUS
<1>3. /\ t \in Seq(S) /\ DOMAIN t = 1..(n + 1) /\ t[n + 1] = k
      /\ \A i \in 1..n : t[i] = s[i]
  BY <1>1, <1>2
<1>4. \A i \in 1..(n + 1) : i = n + 1 \/ i \in 1..n
  OBVIOUS
<1>5. \A i \in 1..n : s[i] # k
  BY <1>1 DEF Range
<1>6. \A a, b \in 1..n : s[a] = s[b] => a = b
  BY <1>1 DEF IsInjective
<1>7. ASSUME NEW a \in 1..(n + 1), NEW b \in 1..(n + 1), t[a] = t[b] PROVE a = b
  BY <1>3, <1>4, <1>5, <1>6, <1>7
<1>8. Range(t) = Range(s) \cup {k}
  <2>1. \A i \in 1..n : i \in 1..(n + 1)
    OBVIOUS
  <2>2. n + 1 \in 1..(n + 1)
    OBVIOUS
  <2> QED
    BY <1>1, <1>3, <1>4, <2>1, <2>2 DEF Range
<1>9. IsInjective(t)
  BY <1>3, <1>7 DEF IsInjective
<1> QED
  BY <1>2, <1>3, <1>8, <1>9

-----------------------------------------------------------------------------
(* The memory that a set of entries takes *)

Weight(e, k) == EntrySize(e[k].version)

\* The sum that the charged memory is compared with.
Memory(e, S) == MapThenSumSet(LAMBDA k : Weight(e, k), S)

IsTotal(e, D, g) ==
    g = [t \in D |-> IF t = {} THEN 0 ELSE Weight(e, Chosen(t)) + g[t \ {Chosen(t)}]]

LEMMA TotalExists ==
    ASSUME NEW e, NEW S, IsFiniteSet(S), NEW n \in Nat
    PROVE  \E g : IsTotal(e, UpTo(S, n), g)
<1> DEFINE D == {i \in Nat : ~\E g : IsTotal(e, UpTo(S, i), g)}
<1> SUFFICES ASSUME D # {} PROVE FALSE
  OBVIOUS
<1>1. PICK m \in D : \A k \in D : m <= k
  <2>1. D \in SUBSET Nat
    OBVIOUS
  <2> HIDE DEF D
  <2> QED
    BY <2>1, Minimum
<1>2. CASE m = 0
  <2>1. PICK g : g = [t \in UpTo(S, 0) |-> 0]
    OBVIOUS
  <2>2. ASSUME NEW t \in UpTo(S, 0) PROVE t = {}
    <3>1. t \in SUBSET S /\ Cardinality(t) <= 0
      BY DEF UpTo
    <3>2. IsFiniteSet(t) /\ Cardinality(t) \in Nat
      BY <3>1, FS_Subset, FS_CardinalityType
    <3>3. Cardinality(t) = 0
      BY <3>1, <3>2
    <3> QED
      BY <3>2, <3>3, FS_EmptySet
  <2>3. IsTotal(e, UpTo(S, 0), g)
    BY <2>1, <2>2 DEF IsTotal
  <2> QED
    BY <1>1, <1>2, <2>3
<1>3. CASE m # 0
  <2>1. PICK j \in Nat : m = j + 1
    <3>1. m - 1 \in Nat /\ m = (m - 1) + 1
      BY <1>3
    <3> QED
      BY <3>1
  <2>2. j \notin D
    BY <1>1, <2>1
  <2>3. PICK g : IsTotal(e, UpTo(S, j), g)
    BY <2>2
  <2>4. PICK h : h = [t \in UpTo(S, m) |->
            IF t \in UpTo(S, j) THEN g[t] ELSE Weight(e, Chosen(t)) + g[t \ {Chosen(t)}]]
    OBVIOUS
  <2>5. ASSUME NEW t \in UpTo(S, m)
        PROVE  h[t] = IF t = {} THEN 0 ELSE Weight(e, Chosen(t)) + h[t \ {Chosen(t)}]
    <3>1. t \in SUBSET S /\ Cardinality(t) <= m
      BY DEF UpTo
    <3>2. CASE t = {}
      <4>1. t \in UpTo(S, j)
        <5>1. Cardinality({}) = 0
          BY FS_EmptySet
        <5>2. 0 <= j
          OBVIOUS
        <5> QED
          BY <3>2, <5>1, <5>2 DEF UpTo
      <4>2. h[t] = g[t]
        BY <2>4, <4>1
      <4>3. g[t] = 0
        BY <2>3, <3>2, <4>1 DEF IsTotal
      <4> QED
        BY <3>2, <4>2, <4>3
    <3>3. CASE t # {}
      <4>1. PICK x : x = Chosen(t)
        OBVIOUS
      <4>2. PICK u : u = t \ {x}
        OBVIOUS
      <4>3. u \in SUBSET S /\ Cardinality(t) \in Nat /\ Cardinality(u) = Cardinality(t) - 1
        BY <3>1, <3>3, <4>1, <4>2, SmallerFacts
      <4>4. Cardinality(u) <= j /\ Cardinality(u) <= m
        BY <2>1, <3>1, <4>3
      <4>5. u \in UpTo(S, j) /\ u \in UpTo(S, m)
        BY <4>3, <4>4 DEF UpTo
      <4>6. h[u] = g[u]
        BY <2>4, <4>5
      <4>7. CASE t \in UpTo(S, j)
        <5>1. g[t] = Weight(e, x) + g[u]
          BY <2>3, <3>3, <4>1, <4>2, <4>7 DEF IsTotal
        <5> QED
          BY <2>4, <3>3, <4>1, <4>2, <4>6, <4>7, <5>1
      <4>8. CASE t \notin UpTo(S, j)
        <5>1. h[t] = Weight(e, x) + g[u]
          BY <2>4, <4>1, <4>2, <4>8
        <5> QED
          BY <3>3, <4>1, <4>2, <4>6, <5>1
      <4> QED
        BY <4>7, <4>8
    <3> QED
      BY <3>2, <3>3
  <2>6. h = [t \in UpTo(S, m) |-> h[t]]
    BY <2>4
  <2>7. IsTotal(e, UpTo(S, m), h)
    BY <2>5, <2>6 DEF IsTotal
  <2> QED
    BY <1>1, <2>7
<1> QED
  BY <1>2, <1>3

LEMMA TotalLoop ==
    ASSUME NEW e, NEW S, IsFiniteSet(S)
    PROVE  \E g : IsTotal(e, SUBSET S, g) /\ Memory(e, S) = g[S]
<1>1. PICK h : IsTotal(e, SUBSET S, h)
  <2>1. Cardinality(S) \in Nat
    BY FS_CardinalityType
  <2>2. UpTo(S, Cardinality(S)) = SUBSET S
    BY FS_Subset DEF UpTo
  <2>3. PICK n \in Nat : n = Cardinality(S)
    BY <2>1
  <2>4. PICK h : IsTotal(e, UpTo(S, n), h)
    BY TotalExists
  <2> QED
    BY <2>2, <2>3, <2>4
<1> DEFINE g == CHOOSE iter : iter = [s \in SUBSET S |->
            IF s = {} THEN 0
            ELSE Weight(e, CHOOSE x \in s : TRUE) + iter[s \ {CHOOSE x \in s : TRUE}]]
<1>2. IsTotal(e, SUBSET S, g)
  BY <1>1, Zenon DEF IsTotal, Chosen
<1>3. Memory(e, S) = g[S]
  BY Zenon DEF Memory, MapThenSumSet, MapThenFoldSet
<1> QED
  BY <1>2, <1>3

\* One element less.
LEMMA LessFacts ==
    ASSUME NEW S, IsFiniteSet(S), NEW t \in SUBSET S, NEW x \in t
    PROVE  /\ t \ {x} \in SUBSET S /\ Cardinality(t) \in Nat
           /\ Cardinality(t \ {x}) = Cardinality(t) - 1 /\ Cardinality(t) - 1 \in Nat
<1>1. IsFiniteSet(t)
  BY FS_Subset
<1>2. Cardinality(t) \in Nat /\ Cardinality(t) # 0
  BY <1>1, FS_CardinalityType, FS_EmptySet
<1>3. Cardinality(t \ {x}) = Cardinality(t) - 1
  BY <1>1, FS_RemoveElement
<1> QED
  BY <1>2, <1>3

NatWeights(e, S) == \A k \in S : Weight(e, k) \in Nat

LEMMA TotalNat ==
    ASSUME NEW e, NEW S, IsFiniteSet(S), NatWeights(e, S),
           NEW g, IsTotal(e, SUBSET S, g), NEW s \in SUBSET S
    PROVE  g[s] \in Nat
<1> DEFINE D == {n \in Nat : \E t \in SUBSET S : Cardinality(t) = n /\ g[t] \notin Nat}
<1>1. D = {}
  <2> SUFFICES ASSUME D # {} PROVE FALSE
    OBVIOUS
  <2>1. PICK m \in D : \A k \in D : m <= k
    <3>1. D \in SUBSET Nat
      OBVIOUS
    <3> HIDE DEF D
    <3> QED
      BY <3>1, Minimum
  <2>2. PICK t \in SUBSET S : Cardinality(t) = m /\ g[t] \notin Nat
    BY <2>1
  <2>3. g[t] = IF t = {} THEN 0 ELSE Weight(e, Chosen(t)) + g[t \ {Chosen(t)}]
    BY DEF IsTotal
  <2>4. t # {}
    BY <2>2, <2>3
  <2>5. Chosen(t) \in t
    BY <2>4 DEF Chosen
  <2>6. PICK x \in t : x = Chosen(t)
    BY <2>5
  <2>7. PICK u \in SUBSET S : u = t \ {x} /\ Cardinality(u) = m - 1 /\ m - 1 \in Nat
    <3>1. /\ t \ {x} \in SUBSET S /\ Cardinality(t) \in Nat
          /\ Cardinality(t \ {x}) = Cardinality(t) - 1 /\ Cardinality(t) - 1 \in Nat
      BY LessFacts
    <3> QED
      BY <2>2, <3>1
  <2>8. m - 1 \notin D
    <3>1. ~(m <= m - 1)
      BY <2>7
    <3> HIDE DEF D
    <3> QED
      BY <2>1, <3>1
  <2>9. g[u] \in Nat /\ Weight(e, x) \in Nat
    BY <2>7, <2>8 DEF NatWeights
  <2> QED
    BY <2>2, <2>3, <2>4, <2>6, <2>7, <2>9
<1>2. Cardinality(s) \in Nat
  BY FS_Subset, FS_CardinalityType
<1> QED
  BY <1>1, <1>2

\* Equal entries take equal memory, whatever else is cached.
SameWeights(d, e, S) == \A k \in S : Weight(d, k) = Weight(e, k)

LEMMA TotalSame ==
    ASSUME NEW d, NEW e, NEW T, IsFiniteSet(T), NEW S \in SUBSET T, SameWeights(d, e, S),
           NEW g, IsTotal(d, SUBSET S, g), NEW h, IsTotal(e, SUBSET T, h), NEW s \in SUBSET S
    PROVE  g[s] = h[s]
<1>0. IsFiniteSet(S)
  BY FS_Subset
<1> DEFINE D == {n \in Nat : \E t \in SUBSET S : Cardinality(t) = n /\ g[t] # h[t]}
<1>1. D = {}
  <2> SUFFICES ASSUME D # {} PROVE FALSE
    OBVIOUS
  <2>1. PICK m \in D : \A k \in D : m <= k
    <3>1. D \in SUBSET Nat
      OBVIOUS
    <3> HIDE DEF D
    <3> QED
      BY <3>1, Minimum
  <2>2. PICK t \in SUBSET S : Cardinality(t) = m /\ g[t] # h[t]
    BY <2>1
  <2>3. g[t] = IF t = {} THEN 0 ELSE Weight(d, Chosen(t)) + g[t \ {Chosen(t)}]
    BY DEF IsTotal
  <2>4. h[t] = IF t = {} THEN 0 ELSE Weight(e, Chosen(t)) + h[t \ {Chosen(t)}]
    BY DEF IsTotal
  <2>5. t # {}
    BY <2>2, <2>3, <2>4
  <2>6. Chosen(t) \in t
    BY <2>5 DEF Chosen
  <2>7. PICK x \in t : x = Chosen(t)
    BY <2>6
  <2>8. PICK u \in SUBSET S : u = t \ {x} /\ Cardinality(u) = m - 1 /\ m - 1 \in Nat
    <3>1. /\ t \ {x} \in SUBSET S /\ Cardinality(t) \in Nat
          /\ Cardinality(t \ {x}) = Cardinality(t) - 1 /\ Cardinality(t) - 1 \in Nat
      BY <1>0, LessFacts
    <3> QED
      BY <2>2, <3>1
  <2>9. m - 1 \notin D
    <3>1. ~(m <= m - 1)
      BY <2>8
    <3> HIDE DEF D
    <3> QED
      BY <2>1, <3>1
  <2>10. g[u] = h[u] /\ Weight(d, x) = Weight(e, x)
    BY <2>8, <2>9 DEF SameWeights
  <2> QED
    BY <2>2, <2>3, <2>4, <2>5, <2>7, <2>8, <2>10
<1>2. Cardinality(s) \in Nat
  BY <1>0, FS_Subset, FS_CardinalityType
<1> QED
  BY <1>1, <1>2

Splits(e, g, s, y) == g[s] = Weight(e, y) + g[s \ {y}]

\* The sum does not depend on the order in which it is taken.
LEMMA TotalRemove ==
    ASSUME NEW e, NEW S, IsFiniteSet(S), NatWeights(e, S),
           NEW g, IsTotal(e, SUBSET S, g), NEW y \in S
    PROVE  Splits(e, g, S, y)
<1> DEFINE D == {n \in Nat : \E t \in SUBSET S : Cardinality(t) = n /\ \E x \in t : g[t] # Weight(e, x) + g[t \ {x}]}
<1>1. D = {}
  <2> SUFFICES ASSUME D # {} PROVE FALSE
    OBVIOUS
  <2>1. PICK m \in D : \A k \in D : m <= k
    <3>1. D \in SUBSET Nat
      OBVIOUS
    <3> HIDE DEF D
    <3> QED
      BY <3>1, Minimum
  <2>2. PICK t \in SUBSET S : Cardinality(t) = m /\ \E x \in t : g[t] # Weight(e, x) + g[t \ {x}]
    BY <2>1
  <2>3. PICK x \in t : g[t] # Weight(e, x) + g[t \ {x}]
    BY <2>2
  <2>4. PICK y1 \in t : y1 = Chosen(t)
    BY <2>3 DEF Chosen
  <2>5. g[t] = Weight(e, y1) + g[t \ {y1}]
    BY <2>3, <2>4 DEF IsTotal
  <2>6. x # y1
    BY <2>3, <2>5
  <2>7. PICK u \in SUBSET S : u = t \ {y1} /\ Cardinality(u) = m - 1 /\ m - 1 \in Nat
    <3>1. /\ t \ {y1} \in SUBSET S /\ Cardinality(t) \in Nat
          /\ Cardinality(t \ {y1}) = Cardinality(t) - 1 /\ Cardinality(t) - 1 \in Nat
      BY LessFacts
    <3> QED
      BY <2>2, <3>1
  <2>8. PICK v \in SUBSET S : v = t \ {x} /\ Cardinality(v) = m - 1
    <3>1. t \ {x} \in SUBSET S /\ Cardinality(t \ {x}) = Cardinality(t) - 1
      BY LessFacts
    <3> QED
      BY <2>2, <3>1
  <2>9. m - 1 \notin D
    <3>1. ~(m <= m - 1)
      BY <2>7
    <3> HIDE DEF D
    <3> QED
      BY <2>1, <3>1
  <2>10. PICK w \in SUBSET S : w = u \ {x} /\ w = v \ {y1}
    BY <2>7, <2>8
  <2>11. ASSUME NEW a \in SUBSET S, Cardinality(a) = m - 1, NEW z \in a PROVE g[a] = Weight(e, z) + g[a \ {z}]
    BY <2>7, <2>9, <2>11
  <2>12. g[u] = Weight(e, x) + g[w] /\ g[v] = Weight(e, y1) + g[w]
    <3>1. x \in u /\ y1 \in v
      BY <2>6, <2>7, <2>8
    <3>2. g[u] = Weight(e, x) + g[u \ {x}]
      BY <2>7, <2>11, <3>1
    <3>3. g[v] = Weight(e, y1) + g[v \ {y1}]
      BY <2>8, <2>11, <3>1
    <3> QED
      BY <2>10, <3>2, <3>3
  <2>13. g[w] \in Nat
    BY TotalNat
  <2>14. Weight(e, x) \in Nat /\ Weight(e, y1) \in Nat
    BY DEF NatWeights
  <2>15. Weight(e, y1) + (Weight(e, x) + g[w]) = Weight(e, x) + (Weight(e, y1) + g[w])
    BY <2>13, <2>14
  <2> QED
    BY <2>3, <2>5, <2>7, <2>8, <2>12, <2>15
<1>2. Cardinality(S) \in Nat /\ S \in SUBSET S
  BY FS_CardinalityType
<1> QED
  BY <1>1, <1>2 DEF Splits

LEMMA MemoryEmpty ==
    ASSUME NEW e
    PROVE  Memory(e, {}) = 0
<1>1. IsFiniteSet({})
  BY FS_EmptySet
<1>2. PICK g : IsTotal(e, SUBSET {}, g) /\ Memory(e, {}) = g[{}]
  BY <1>1, TotalLoop
<1>3. {} \in SUBSET {}
  OBVIOUS
<1> QED
  BY <1>2, <1>3 DEF IsTotal

LEMMA MemoryNat ==
    ASSUME NEW e, NEW S, IsFiniteSet(S), NatWeights(e, S)
    PROVE  Memory(e, S) \in Nat
<1>1. PICK g : IsTotal(e, SUBSET S, g) /\ Memory(e, S) = g[S]
  BY TotalLoop
<1>2. \A s \in SUBSET S : g[s] \in Nat
  BY <1>1, TotalNat
<1> QED
  BY <1>1, <1>2

LEMMA MemorySame ==
    ASSUME NEW d, NEW e, NEW S, IsFiniteSet(S), SameWeights(d, e, S)
    PROVE  Memory(d, S) = Memory(e, S)
<1>1. PICK g : IsTotal(d, SUBSET S, g) /\ Memory(d, S) = g[S]
  BY TotalLoop
<1>2. PICK h : IsTotal(e, SUBSET S, h) /\ Memory(e, S) = h[S]
  BY TotalLoop
<1>3. PICK T : T = S
  OBVIOUS
<1>4. SameWeights(d, e, S) /\ S \in SUBSET T /\ IsFiniteSet(T) /\ IsTotal(e, SUBSET T, h)
  BY <1>2, <1>3
<1>5. g[S] = h[S]
  <2>1. ASSUME NEW s \in SUBSET S PROVE g[s] = h[s]
    BY <1>1, <1>4, TotalSame
  <2> QED
    BY <2>1
<1> QED
  BY <1>1, <1>2, <1>5

\* The entry of x among those of S, the others as in d.
LEMMA MemorySplit ==
    ASSUME NEW d, NEW e, NEW S, IsFiniteSet(S), NatWeights(e, S), NEW x \in S,
           SameWeights(d, e, S \ {x})
    PROVE  Memory(e, S) = Weight(e, x) + Memory(d, S \ {x})
<1>1. PICK h : IsTotal(e, SUBSET S, h) /\ Memory(e, S) = h[S]
  BY TotalLoop
<1>2. PICK R : R = S \ {x}
  OBVIOUS
<1>3. IsFiniteSet(R) /\ R \subseteq S /\ R \in SUBSET R /\ S \in SUBSET S
  BY <1>2, FS_Subset
<1>4. PICK g : IsTotal(d, SUBSET R, g) /\ Memory(d, R) = g[R]
  BY <1>3, TotalLoop
<1>5. SameWeights(d, e, R) /\ R \in SUBSET S
  BY <1>2
<1>6. ASSUME NEW s \in SUBSET R PROVE g[s] = h[s]
  BY <1>1, <1>4, <1>5, TotalSame
<1>7. h[S] = Weight(e, x) + h[S \ {x}]
  <2>1. Splits(e, h, S, x)
    BY <1>1, TotalRemove
  <2> QED
    BY <2>1 DEF Splits
<1>8. h[S] = Weight(e, x) + h[R] /\ g[R] = h[R]
  BY <1>2, <1>3, <1>6, <1>7
<1> QED
  BY <1>1, <1>2, <1>4, <1>8

-----------------------------------------------------------------------------
(* The books of the cache: the order, the least frequency and the memory *)

InOrder(c) == c.recency \in Seq(Keys) /\ IsInjective(c.recency) /\ Range(c.recency) = Cached(c)

Lowest(c) ==
    /\ c.minFrequency \in Nat
    /\ \A k \in Cached(c) : c.minFrequency <= c.entries[k].frequency
    /\ Cached(c) # {} => \E k \in Cached(c) : c.entries[k].frequency = c.minFrequency

Orderly(c) == IsCache(c) /\ InOrder(c) /\ Lowest(c)

Charged(c) == c.memory = Memory(c.entries, Cached(c))

\* The inductive form of CacheExact.
Books(c) == Orderly(c) /\ Charged(c) /\ c.memory <= MaxMemory

LEMMA EntryFacts ==
    ASSUME NEW c, IsCache(c), NEW k \in Cached(c)
    PROVE  /\ k \in Keys /\ c.entries[k].frequency \in Nat \ {0} /\ c.entries[k].version \in Nat
           /\ Weight(c.entries, k) \in Nat
<1>1. k \in Keys /\ c.entries[k] \in Entry
  BY DEF IsCache
<1>2. c.entries[k].frequency \in Nat \ {0} /\ c.entries[k].version \in Nat
  BY <1>1 DEF Entry
<1> QED
  BY <1>1, <1>2, SizeNat DEF Weight

LEMMA CachedFinite ==
    ASSUME NEW c, IsCache(c)
    PROVE  IsFiniteSet(Cached(c)) /\ NatWeights(c.entries, Cached(c))
<1>1. IsFiniteSet(Cached(c))
  BY MemoryAssumption, FS_Subset DEF IsCache
<1> QED
  BY <1>1, EntryFacts DEF NatWeights

Rest(c, k) == [other \in Cached(c) \ {k} |-> c.entries[other]]

\* The least frequency once an entry of frequency f is gone.
LowestOf(f, min, rest) ==
    IF f \in Frequencies(rest) \/ f # min THEN min
    ELSE IF DOMAIN rest = {} THEN 0 ELSE Min(Frequencies(rest))

LEMMA DroppedFields ==
    ASSUME NEW c, IsCache(c), NEW k \in Cached(c)
    PROVE  /\ Dropped(c, k).recency = Without(c.recency, k)
           /\ Dropped(c, k).minFrequency = LowestOf(c.entries[k].frequency, c.minFrequency, Rest(c, k))
<1>1. PICK g : g = LowestOf(c.entries[k].frequency, c.minFrequency, Rest(c, k))
  OBVIOUS
<1>2. PICK s : s = Without(c.recency, k)
  OBVIOUS
<1>3. PICK d : d = Dropped(c, k)
  OBVIOUS
<1>4. PICK rest : rest = Rest(c, k)
  OBVIOUS
<1>5. d = [c EXCEPT !.entries = rest, !.recency = s, !.minFrequency = g]
  BY <1>1, <1>2, <1>3, <1>4 DEF Dropped, LowestOf, Rest
<1>6. d = [entries |-> rest, recency |-> s, minFrequency |-> g, memory |-> c.memory,
           fills |-> c.fills, policy |-> c.policy]
  BY <1>5 DEF IsCache
<1>7. d.recency = s /\ d.minFrequency = g
  BY <1>6
<1> QED
  BY <1>1, <1>2, <1>3, <1>7

LEMMA DroppedOrder ==
    ASSUME NEW c, Orderly(c), NEW k \in Cached(c)
    PROVE  Orderly(Dropped(c, k))
<1>1. IsCache(c) /\ InOrder(c) /\ Lowest(c)
  BY DEF Orderly
<1>2. PICK d : d = Dropped(c, k)
  OBVIOUS
<1>3. /\ IsCache(d) /\ Cached(d) = Cached(c) \ {k}
      /\ \A other \in Cached(d) : d.entries[other] = c.entries[other]
  BY <1>1, <1>2, DroppedFacts DEF Within
<1>4. PICK rest : rest = Rest(c, k)
  OBVIOUS
<1>5. PICK f \in Nat : f = c.entries[k].frequency
  BY <1>1, EntryFacts
<1>6. PICK min \in Nat : min = c.minFrequency
  BY <1>1 DEF Lowest
<1>7. /\ d.recency = Without(c.recency, k)
      /\ d.minFrequency = IF f \in Frequencies(rest) \/ f # min THEN min
                          ELSE IF DOMAIN rest = {} THEN 0 ELSE Min(Frequencies(rest))
  <2>1. d.recency = Without(c.recency, k) /\ d.minFrequency = LowestOf(f, min, rest)
    BY <1>1, <1>2, <1>4, <1>5, <1>6, DroppedFields
  <2> QED
    BY <2>1 DEF LowestOf
<1>8. InOrder(d)
  <2>1. c.recency \in Seq(Keys) /\ IsInjective(c.recency) /\ Range(c.recency) = Cached(c)
    BY <1>1 DEF InOrder
  <2>2. /\ Without(c.recency, k) \in Seq(Keys) /\ IsInjective(Without(c.recency, k))
        /\ Range(Without(c.recency, k)) = Range(c.recency) \ {k}
    BY <2>1, WithoutFacts
  <2> QED
    BY <1>3, <1>7, <2>1, <2>2 DEF InOrder
<1>9. /\ DOMAIN rest = Cached(d)
      /\ \A x : x \in Frequencies(rest) <=> \E j \in Cached(d) : x = d.entries[j].frequency
      /\ Frequencies(rest) \in SUBSET Nat
  <2>1. DOMAIN rest = Cached(d) /\ \A j \in Cached(d) : rest[j] = d.entries[j]
    BY <1>3, <1>4 DEF Rest
  <2>2. \A j \in Cached(d) : d.entries[j].frequency \in Nat
    BY <1>3, EntryFacts
  <2> QED
    BY <2>1, <2>2 DEF Frequencies
<1>10. \A j \in Cached(c) : min <= c.entries[j].frequency
  BY <1>1, <1>6 DEF Lowest
<1>11. CASE f \in Frequencies(rest) \/ f # min
  <2>1. d.minFrequency = min
    BY <1>7, <1>11
  <2>2. \A j \in Cached(d) : min <= d.entries[j].frequency
    BY <1>3, <1>10
  <2>3. \E j \in Cached(d) : d.entries[j].frequency = min
    <3>1. CASE f # min
      <4>1. PICK j \in Cached(c) : c.entries[j].frequency = min
        BY <1>1, <1>6 DEF Lowest
      <4>2. j # k
        BY <1>5, <3>1, <4>1
      <4> QED
        BY <1>3, <4>1, <4>2
    <3>2. CASE f = min
      <4>1. f \in Frequencies(rest)
        BY <1>11, <3>2
      <4> QED
        BY <1>9, <3>2, <4>1
    <3> QED
      BY <3>1, <3>2
  <2> QED
    BY <1>2, <1>3, <1>8, <2>1, <2>2, <2>3 DEF Orderly, Lowest
<1>12. CASE ~(f \in Frequencies(rest) \/ f # min) /\ DOMAIN rest = {}
  <2>1. d.minFrequency = 0 /\ Cached(d) = {}
    BY <1>7, <1>9, <1>12
  <2> QED
    BY <1>2, <1>3, <1>8, <2>1 DEF Orderly, Lowest
<1>13. CASE ~(f \in Frequencies(rest) \/ f # min) /\ DOMAIN rest # {}
  <2>1. PICK F \in SUBSET Nat : F = Frequencies(rest)
    BY <1>9
  <2>2. d.minFrequency = Min(F)
    BY <1>7, <1>13, <2>1
  <2>3. F # {}
    BY <1>9, <1>13, <2>1
  <2>4. Min(F) \in F /\ \A x \in F : Min(F) <= x
    BY <2>3, MinFacts
  <2>5. d.minFrequency \in Nat /\ \A j \in Cached(d) : d.minFrequency <= d.entries[j].frequency
    BY <1>9, <2>1, <2>2, <2>4
  <2>6. \E j \in Cached(d) : d.entries[j].frequency = d.minFrequency
    BY <1>9, <2>1, <2>2, <2>4
  <2> QED
    BY <1>2, <1>3, <1>8, <2>5, <2>6 DEF Orderly, Lowest
<1> QED
  BY <1>11, <1>12, <1>13

LEMMA StoredOrder ==
    ASSUME NEW c, Orderly(c), NEW k \in Keys, k \notin Cached(c), NEW entry \in Entry
    PROVE  Orderly(Stored(c, k, entry))
<1>1. IsCache(c) /\ InOrder(c) /\ Lowest(c)
  BY DEF Orderly
<1>2. PICK f \in Nat : f = entry.frequency
  BY DEF Entry
<1>3. PICK min \in Nat : min = c.minFrequency
  BY <1>1 DEF Lowest
<1>4. PICK g : g = IF Cached(c) = {} \/ f < min THEN f ELSE min
  OBVIOUS
<1>5. PICK d : d = Stored(c, k, entry)
  OBVIOUS
<1>6. /\ IsCache(d) /\ Cached(d) = Cached(c) \cup {k} /\ d.entries[k] = entry
      /\ \A other \in Cached(c) \ {k} : d.entries[other] = c.entries[other]
  BY <1>1, <1>5, StoredFacts
<1>7. d.recency = Append(c.recency, k) /\ d.minFrequency = g
  <2>1. WithMinimum(c, f) = [c EXCEPT !.minFrequency = g]
    BY <1>3, <1>4 DEF WithMinimum
  <2>2. PICK w : w = [entries |-> c.entries, recency |-> c.recency, minFrequency |-> g,
                      memory |-> c.memory, fills |-> c.fills, policy |-> c.policy]
    OBVIOUS
  <2>3. WithMinimum(c, f) = w
    BY <1>1, <2>1, <2>2 DEF IsCache
  <2>4. PICK all : all = [other \in Cached(c) \cup {k} |-> IF other = k THEN entry ELSE c.entries[other]]
    OBVIOUS
  <2>5. d = [w EXCEPT !.entries = all, !.recency = Append(c.recency, k)]
    BY <1>2, <1>5, <2>2, <2>3, <2>4 DEF Stored
  <2> QED
    BY <2>2, <2>5
<1>8. InOrder(d)
  <2>1. c.recency \in Seq(Keys) /\ IsInjective(c.recency) /\ Range(c.recency) = Cached(c)
    BY <1>1 DEF InOrder
  <2>2. /\ Append(c.recency, k) \in Seq(Keys) /\ IsInjective(Append(c.recency, k))
        /\ Range(Append(c.recency, k)) = Range(c.recency) \cup {k}
    BY <2>1, AppendOrder
  <2> QED
    BY <1>6, <1>7, <2>1, <2>2 DEF InOrder
<1>9. /\ g \in Nat /\ g <= f
      /\ \A j \in Cached(c) : g <= c.entries[j].frequency
  <2>1. ASSUME NEW j \in Cached(c) PROVE g <= c.entries[j].frequency
    <3>1. c.entries[j].frequency \in Nat /\ min <= c.entries[j].frequency
      BY <1>1, <1>3, EntryFacts DEF Lowest
    <3> QED
      BY <1>4, <3>1
  <2> QED
    BY <1>4, <2>1
<1>10. \A j \in Cached(d) : g <= d.entries[j].frequency
  BY <1>2, <1>6, <1>9
<1>11. \E j \in Cached(d) : d.entries[j].frequency = g
  <2>1. CASE g = f
    BY <1>2, <1>6, <2>1
  <2>2. CASE g # f
    <3>1. g = min /\ Cached(c) # {}
      BY <1>4, <2>2
    <3>2. PICK j \in Cached(c) : c.entries[j].frequency = min
      BY <1>1, <1>3, <3>1 DEF Lowest
    <3> QED
      BY <1>6, <3>1, <3>2
  <2> QED
    BY <2>1, <2>2
<1> QED
  BY <1>5, <1>6, <1>7, <1>8, <1>9, <1>10, <1>11 DEF Orderly, Lowest

\* evict_one finds a key.
LEMMA VictimFacts ==
    ASSUME NEW c, Orderly(c), Cached(c) # {}
    PROVE  Victim(c) \in Cached(c)
<1>1. /\ c.recency \in Seq(Keys) /\ Range(c.recency) = Cached(c)
      /\ \E k \in Cached(c) : c.entries[k].frequency = c.minFrequency
  BY DEF Orderly, InOrder, Lowest
<1>2. PICK s \in Seq(Keys) : s = c.recency
  BY <1>1
<1> DEFINE I == {i \in 1..Len(s) : c.policy = "LFU" => c.entries[s[i]].frequency = c.minFrequency}
<1>3. I \in SUBSET Nat /\ I # {}
  <2>1. PICK k \in Cached(c) : c.entries[k].frequency = c.minFrequency
    BY <1>1
  <2>2. PICK i \in 1..Len(s) : s[i] = k
    BY <1>1, <1>2 DEF Range
  <2>3. i \in I
    BY <2>1, <2>2
  <2> QED
    BY <2>3
<1>4. Min(I) \in I
  <2> HIDE DEF I
  <2> QED
    BY <1>3, MinFacts
<1>5. Victim(c) = s[Min(I)]
  BY <1>2, <1>3, Zenon DEF Victim, SelectInSeq
<1>6. PICK i \in 1..Len(s) : i = Min(I)
  BY <1>4
<1> HIDE DEF I
<1>7. s[i] \in Range(s)
  BY DEF Range
<1> QED
  BY <1>1, <1>2, <1>5, <1>6, <1>7

-----------------------------------------------------------------------------
(* What each operation does to the books *)

LEMMA ChargedSame ==
    ASSUME NEW c, IsCache(c), Charged(c), NEW d, Cached(d) = Cached(c), d.memory = c.memory,
           \A k \in Cached(c) : d.entries[k].version = c.entries[k].version
    PROVE  Charged(d)
<1>1. SameWeights(d.entries, c.entries, Cached(c))
  BY DEF SameWeights, Weight
<1>2. Memory(d.entries, Cached(c)) = Memory(c.entries, Cached(c))
  BY <1>1, CachedFinite, MemorySame
<1> QED
  BY <1>2 DEF Charged

LEMMA SameKeepsBooks ==
    ASSUME NEW c, Books(c), NEW d, IsCache(d), SameBooks(d, c)
    PROVE  Books(d)
<1>1. Charged(d)
  BY ChargedSame DEF Books, Orderly, SameBooks
<1>2. InOrder(d)
  BY DEF Books, Orderly, InOrder, SameBooks
<1>3. Lowest(d)
  BY DEF Books, Orderly, Lowest, SameBooks
<1>4. d.memory <= MaxMemory
  BY DEF Books, SameBooks
<1> QED
  BY <1>1, <1>2, <1>3, <1>4 DEF Books, Orderly

LEMMA FillsKeepBooks ==
    ASSUME NEW c, Books(c), NEW fills \in SUBSET (Keys \X Calls), NEW d, d = [c EXCEPT !.fills = fills]
    PROVE  Books(d) /\ d.memory = c.memory /\ d.entries = c.entries
<1>1. IsCache(c)
  BY DEF Books, Orderly
<1>2. PICK memory \in Nat : memory = c.memory
  BY <1>1 DEF IsCache
<1>3. /\ IsCache(d) /\ d.entries = c.entries /\ d.memory = memory
      /\ d.recency = c.recency /\ d.minFrequency = c.minFrequency
  BY <1>1, <1>2, RebookedFacts
<1>4. SameBooks(d, c)
  BY <1>2, <1>3 DEF SameBooks, Cached
<1> QED
  BY <1>2, <1>3, <1>4, SameKeepsBooks

\* The order does not depend on the memory.
LEMMA ChargeKeepsOrder ==
    ASSUME NEW c, Orderly(c), NEW memory \in Nat, NEW d, d = [c EXCEPT !.memory = memory]
    PROVE  Orderly(d) /\ d.memory = memory /\ d.entries = c.entries /\ Cached(d) = Cached(c)
<1>1. IsCache(c)
  BY DEF Orderly
<1>2. PICK fills \in SUBSET (Keys \X Calls) : fills = c.fills
  BY <1>1 DEF IsCache
<1>3. /\ IsCache(d) /\ d.entries = c.entries /\ d.memory = memory
      /\ d.recency = c.recency /\ d.minFrequency = c.minFrequency
  BY <1>1, <1>2, RebookedFacts
<1>4. Cached(d) = Cached(c)
  BY <1>3 DEF Cached
<1>5. InOrder(d) /\ Lowest(d)
  BY <1>3, <1>4 DEF Orderly, InOrder, Lowest
<1> QED
  BY <1>3, <1>4, <1>5 DEF Orderly

LEMMA RemovedBooks ==
    ASSUME NEW c, Books(c), NEW k
    PROVE  Books(Removed(c, k))
<1>0. IsCache(c) /\ Orderly(c) /\ Charged(c) /\ c.memory <= MaxMemory
  BY DEF Books, Orderly
<1>1. CASE k \notin Cached(c)
  BY <1>1 DEF Removed
<1>2. CASE k \in Cached(c)
  <2>1. PICK d : d = Dropped(c, k)
    OBVIOUS
  <2>2. /\ Cached(d) = Cached(c) \ {k} /\ d.memory = c.memory /\ IsCache(d)
        /\ \A other \in Cached(c) \ {k} : d.entries[other] = c.entries[other]
    BY <1>0, <1>2, <2>1, DroppedFacts DEF Within
  <2>3. Orderly(d)
    BY <1>0, <1>2, <2>1, DroppedOrder
  <2>4. PICK size \in Nat : size = Weight(c.entries, k)
    BY <1>0, <1>2, EntryFacts
  <2>5. PICK rest \in Nat : rest = Memory(d.entries, Cached(d))
    BY <2>2, CachedFinite, MemoryNat
  <2>6. Memory(c.entries, Cached(c)) = Weight(c.entries, k) + Memory(d.entries, Cached(c) \ {k})
    <3>1. SameWeights(d.entries, c.entries, Cached(c) \ {k})
      BY <2>2 DEF SameWeights, Weight
    <3> QED
      BY <1>0, <1>2, <3>1, CachedFinite, MemorySplit
  <2>7. c.memory = size + rest
    BY <1>0, <2>2, <2>4, <2>5, <2>6 DEF Charged
  <2>8. rest = IF size > d.memory THEN 0 ELSE d.memory - size
    BY <2>2, <2>7
  <2>9. Removed(c, k) = [d EXCEPT !.memory = rest]
    BY <1>2, <2>1, <2>4, <2>8 DEF Removed, Weight
  <2>10. PICK x : x = Removed(c, k)
    OBVIOUS
  <2>11. Orderly(x) /\ x.memory = rest /\ x.entries = d.entries /\ Cached(x) = Cached(d)
    BY <2>3, <2>9, <2>10, ChargeKeepsOrder
  <2>12. Charged(x)
    BY <2>5, <2>11 DEF Charged
  <2>13. x.memory <= MaxMemory
    BY <1>0, <2>7, <2>11, MemoryAssumption
  <2> QED
    BY <2>10, <2>11, <2>12, <2>13 DEF Books
<1> QED
  BY <1>1, <1>2

LEMMA PromotedBooks ==
    ASSUME NEW c, Books(c), NEW k
    PROVE  Books(Promoted(c, k))
<1>0. IsCache(c) /\ Orderly(c) /\ Charged(c) /\ c.memory <= MaxMemory
  BY DEF Books, Orderly
<1>1. CASE k \notin Cached(c)
  BY <1>1 DEF Promoted
<1>2. CASE k \in Cached(c)
  <2>1. PICK d : d = Dropped(c, k)
    OBVIOUS
  <2>2. Cached(d) = Cached(c) \ {k} /\ d.memory = c.memory /\ IsCache(d)
    BY <1>0, <1>2, <2>1, DroppedFacts DEF Within
  <2>3. Orderly(d) /\ k \in Keys /\ k \notin Cached(d)
    BY <1>0, <1>2, <2>1, <2>2, DroppedOrder, EntryFacts
  <2>4. PICK entry : entry = [c.entries[k] EXCEPT !.frequency = @ + 1]
    OBVIOUS
  <2>5. entry \in Entry
    <3>1. c.entries[k] \in Entry
      BY <1>0, <1>2 DEF IsCache
    <3>2. PICK f \in Nat \ {0} : f = c.entries[k].frequency
      BY <3>1 DEF Entry
    <3>3. PICK h \in Nat \ {0} : h = f + 1
      BY <3>2
    <3>4. entry = [c.entries[k] EXCEPT !.frequency = h]
      BY <2>4, <3>2, <3>3
    <3> QED
      BY <3>1, <3>4 DEF Entry
  <2>6. Promoted(c, k) = Stored(d, k, entry)
    BY <1>2, <2>1, <2>4 DEF Promoted
  <2>7. PICK x : x = Stored(d, k, entry)
    OBVIOUS
  <2>8. Orderly(x)
    BY <2>3, <2>5, <2>7, StoredOrder
  <2>9. x.memory = d.memory
    BY <2>2, <2>3, <2>5, <2>7, StoredFacts
  <2>10. Cached(x) = Cached(c) /\ \A other \in Cached(c) : x.entries[other].version = c.entries[other].version
    BY <1>0, <2>6, <2>7, PromotedFacts DEF Within
  <2>11. Charged(x)
    BY <1>0, <2>2, <2>9, <2>10, ChargedSame
  <2> QED
    BY <1>0, <2>2, <2>6, <2>7, <2>8, <2>9, <2>11 DEF Books
<1> QED
  BY <1>1, <1>2

\* Room is made: the loop ends with what fits, or with an empty cache, which is room enough.
LEMMA EvictionBooks ==
    ASSUME NEW c, Books(c), NEW size \in Nat, size <= MaxMemory
    PROVE  /\ Books(evict_until_space_available(c, size))
           /\ evict_until_space_available(c, size).memory + size <= MaxMemory
<1>0. MaxMemory \in Nat /\ IsFiniteSet(Keys)
  BY MemoryAssumption
<1>1. PICK n \in Nat : n = Cardinality(Keys)
  BY <1>0, FS_CardinalityType
<1>2. PICK g : IsEviction(c, size, n, g) /\ evict_until_space_available(c, size) = g[n]
  BY <1>1, EvictionLoop
<1> DEFINE Made(d, i) == Books(d) /\ (~NeedsEviction(d, size) \/ Cardinality(Cached(d)) <= n - i)
           D == {i \in 0..n : ~Made(g[i], i)}
<1>3. ASSUME NEW d, Books(d)
      PROVE  IsFiniteSet(Cached(d)) /\ Cardinality(Cached(d)) \in Nat /\ Cardinality(Cached(d)) <= n
  <2>1. Cached(d) \subseteq Keys
    BY <1>3 DEF Books, Orderly, IsCache
  <2> QED
    BY <1>0, <1>1, <2>1, FS_Subset, FS_CardinalityType
<1>4. ASSUME NEW d, NEW m \in 1..n, Made(d, m - 1) PROVE Made(Evicted(size, d), m)
  <2>0. Books(d) /\ Cardinality(Cached(d)) \in Nat /\ IsFiniteSet(Cached(d))
    BY <1>3, <1>4
  <2>1. CASE ~NeedsEviction(d, size)
    BY <2>0, <2>1 DEF Evicted
  <2>2. CASE NeedsEviction(d, size) /\ Cached(d) = {}
    <3>1. Evicted(size, d) = d
      BY <2>2 DEF Evicted
    <3>2. Cardinality(Cached(d)) = 0
      BY <2>2, FS_EmptySet
    <3>3. 0 <= n - m
      OBVIOUS
    <3> QED
      BY <2>0, <3>1, <3>2, <3>3
  <2>3. CASE NeedsEviction(d, size) /\ Cached(d) # {}
    <3>1. PICK v : v = Victim(d)
      OBVIOUS
    <3>2. PICK x : x = Removed(d, v)
      OBVIOUS
    <3>3. Evicted(size, d) = x
      BY <2>3, <3>1, <3>2 DEF Evicted
    <3>4. v \in Cached(d) /\ IsCache(d)
      BY <2>0, <2>3, <3>1, VictimFacts DEF Books, Orderly
    <3>5. Books(x)
      BY <2>0, <3>2, RemovedBooks
    <3>6. Cached(x) = Cached(d) \ {v}
      BY <3>2, <3>4, RemovedFacts
    <3>7. Cardinality(Cached(x)) = Cardinality(Cached(d)) - 1
      BY <2>0, <3>4, <3>6, FS_RemoveElement
    <3>8. Cardinality(Cached(d)) <= n - (m - 1)
      BY <1>4, <2>3
    <3>9. Cardinality(Cached(x)) <= n - m
      BY <2>0, <3>7, <3>8
    <3> QED
      BY <3>3, <3>5, <3>9
  <2> QED
    BY <2>1, <2>2, <2>3
<1>5. D = {}
  <2> SUFFICES ASSUME D # {} PROVE FALSE
    OBVIOUS
  <2>1. PICK m \in D : \A k \in D : m <= k
    <3>1. D \in SUBSET Nat
      OBVIOUS
    <3> HIDE DEF D
    <3> QED
      BY <3>1, Minimum
  <2>2. CASE m = 0
    <3>1. 0 \in 0..n /\ n - 0 = n
      OBVIOUS
    <3>2. g[0] = c
      BY <1>2, <3>1 DEF IsEviction
    <3>3. Made(c, 0)
      BY <1>3, <3>1
    <3> QED
      BY <2>1, <2>2, <3>2, <3>3
  <2>3. CASE m # 0
    <3>1. m - 1 \in 0..n /\ m \in 1..n /\ m \in 0..n /\ ~(m <= m - 1)
      BY <2>3
    <3>2. PICK d : d = g[m - 1]
      OBVIOUS
    <3>3. Made(d, m - 1)
      <4>1. m - 1 \notin D
        <5> HIDE DEF D
        <5> QED
          BY <2>1, <3>1
      <4> HIDE DEF Made
      <4> QED
        BY <3>1, <3>2, <4>1
    <3>4. g[m] = Evicted(size, d)
      BY <1>2, <2>3, <3>1, <3>2 DEF IsEviction
    <3>5. Made(Evicted(size, d), m)
      BY <1>4, <3>1, <3>3
    <3> HIDE DEF Made
    <3> QED
      BY <2>1, <3>4, <3>5
  <2> QED
    BY <2>2, <2>3
<1>6. n \in 0..n
  OBVIOUS
<1>7. PICK room : room = g[n]
  OBVIOUS
<1>8. Made(room, n)
  <2> HIDE DEF Made
  <2> QED
    BY <1>5, <1>6, <1>7
<1>9. Books(room) /\ room.memory \in Nat /\ room.memory <= MaxMemory
  BY <1>8 DEF Books, Orderly, IsCache
<1>10. room.memory + size <= MaxMemory
  <2>1. CASE ~NeedsEviction(room, size)
    BY <1>0, <1>9, <2>1 DEF NeedsEviction
  <2>2. CASE NeedsEviction(room, size)
    <3>1. Cardinality(Cached(room)) <= n - n
      BY <1>8, <2>2
    <3>2. Cardinality(Cached(room)) = 0
      BY <1>3, <1>9, <3>1
    <3>3. Cached(room) = {}
      BY <1>3, <1>9, <3>2, FS_EmptySet
    <3>4. room.memory = 0
      BY <1>9, <3>3, MemoryEmpty DEF Books, Charged
    <3> QED
      BY <1>0, <3>4
  <2> QED
    BY <2>1, <2>2
<1> QED
  BY <1>2, <1>7, <1>9, <1>10

LEMMA WithoutFillBooks ==
    ASSUME NEW c, Books(c), NEW k, NEW r
    PROVE  Books(WithoutFill(c, k, r)) /\ WithoutFill(c, k, r).entries = c.entries
<1>1. PICK fills \in SUBSET (Keys \X Calls) : fills = c.fills \ {<<k, r>>}
  BY DEF Books, Orderly, IsCache
<1>2. PICK d : d = [c EXCEPT !.fills = fills]
  OBVIOUS
<1>3. WithoutFill(c, k, r) = d
  BY <1>1, <1>2 DEF WithoutFill
<1> QED
  BY <1>2, <1>3, FillsKeepBooks

LEMMA WithFillBooks ==
    ASSUME NEW c, Books(c), NEW k \in Keys, NEW r \in Calls
    PROVE  Books(WithFill(c, k, r))
<1>1. c.fills \subseteq Keys \X Calls /\ <<k, r>> \in Keys \X Calls
  BY DEF Books, Orderly, IsCache
<1>2. PICK fills \in SUBSET (Keys \X Calls) : fills = c.fills \cup {<<k, r>>}
  BY <1>1
<1>3. PICK d : d = [c EXCEPT !.fills = fills]
  OBVIOUS
<1>4. WithFill(c, k, r) = d
  BY <1>2, <1>3 DEF WithFill
<1> QED
  BY <1>3, <1>4, FillsKeepBooks

LEMMA InsertBooks ==
    ASSUME NEW c, Books(c), NEW k \in Keys, NEW v \in Nat, NEW r
    PROVE  Books(insert_if_active_fill(c, k, v, r))
<1>1. PICK b : b = WithoutFill(c, k, r)
  OBVIOUS
<1>2. Books(b)
  BY <1>1, WithoutFillBooks
<1>3. PICK d : d = insert_if_active_fill(c, k, v, r)
  OBVIOUS
<1>4. CASE EntrySize(v) > MaxMemory \/ ~ActiveFill(c, k, r)
  BY <1>1, <1>2, <1>4 DEF insert_if_active_fill
<1>5. CASE ~(EntrySize(v) > MaxMemory \/ ~ActiveFill(c, k, r))
  <2>1. d = insert_with_lock(b, k, v)
    BY <1>1, <1>3, <1>5 DEF insert_if_active_fill
  <2>2. PICK size \in Nat : size = EntrySize(v)
    BY SizeNat
  <2>3. MaxMemory \in Nat /\ size <= MaxMemory
    BY <1>5, <2>2, MemoryAssumption
  <2>4. PICK a : a = Removed(b, k)
    OBVIOUS
  <2>5. Books(a) /\ k \notin Cached(a) /\ IsCache(a)
    <3>1. IsCache(b)
      BY <1>2 DEF Books, Orderly
    <3>2. Cached(a) = Cached(b) \ {k}
      BY <2>4, <3>1, RemovedFacts
    <3>3. Books(a)
      BY <1>2, <2>4, RemovedBooks
    <3> QED
      BY <3>2, <3>3 DEF Books, Orderly
  <2>6. PICK room : room = evict_until_space_available(a, size)
    OBVIOUS
  <2>7. Books(room) /\ room.memory + size <= MaxMemory
    BY <2>3, <2>5, <2>6, EvictionBooks
  <2>8. k \notin Cached(room)
    BY <2>5, <2>6, EvictionFacts DEF Within
  <2>9. IsCache(room) /\ Orderly(room) /\ Charged(room) /\ room.memory \in Nat
    BY <2>7 DEF Books, Orderly, IsCache
  <2>10. PICK entry : entry = [version |-> v, expired |-> FALSE, frequency |-> 1]
    OBVIOUS
  <2>11. entry \in Entry /\ entry.version = v
    <3>1. 1 \in Nat \ {0}
      OBVIOUS
    <3> QED
      BY <2>10, <3>1 DEF Entry
  <2>12. PICK s : s = Stored(room, k, entry)
    OBVIOUS
  <2>13. Orderly(s)
    BY <2>8, <2>9, <2>11, <2>12, StoredOrder
  <2>14. /\ IsCache(s) /\ s.memory = room.memory
         /\ Cached(s) = Cached(room) \cup {k} /\ s.entries[k] = entry
         /\ \A other \in Cached(room) \ {k} : s.entries[other] = room.entries[other]
    BY <2>9, <2>11, <2>12, StoredFacts
  <2>15. PICK memory \in Nat : memory = room.memory + size
    BY <2>9
  <2>16. d = [s EXCEPT !.memory = memory]
    BY <2>1, <2>2, <2>4, <2>6, <2>10, <2>12, <2>14, <2>15 DEF insert_with_lock
  <2>17. Orderly(d) /\ d.memory = memory /\ d.entries = s.entries /\ Cached(d) = Cached(s)
    BY <2>13, <2>16, ChargeKeepsOrder
  <2>18. Memory(s.entries, Cached(s)) = Weight(s.entries, k) + Memory(room.entries, Cached(s) \ {k})
    <3>1. SameWeights(room.entries, s.entries, Cached(s) \ {k})
      BY <2>14 DEF SameWeights, Weight
    <3>2. k \in Cached(s)
      BY <2>14
    <3> QED
      BY <2>14, <3>1, <3>2, CachedFinite, MemorySplit
  <2>19. Weight(s.entries, k) = size /\ Cached(s) \ {k} = Cached(room)
    BY <2>2, <2>8, <2>11, <2>14 DEF Weight
  <2>20. Memory(s.entries, Cached(s)) = size + room.memory
    BY <2>9, <2>18, <2>19 DEF Charged
  <2>21. Charged(d)
    BY <2>9, <2>15, <2>17, <2>20 DEF Charged
  <2>22. d.memory <= MaxMemory
    BY <2>7, <2>15, <2>17
  <2> QED
    BY <1>3, <2>17, <2>21, <2>22 DEF Books
<1> QED
  BY <1>4, <1>5

LEMMA InvalidateBooks ==
    ASSUME NEW c, Books(c), NEW k
    PROVE  Books(invalidate_server_assisted(c, k))
<1>1. PICK fills \in SUBSET (Keys \X Calls) : fills = {f \in c.fills : f[1] # k}
  BY DEF Books, Orderly, IsCache
<1>2. PICK b : b = [c EXCEPT !.fills = fills]
  OBVIOUS
<1>3. Books(b)
  BY <1>2, FillsKeepBooks
<1>4. invalidate_server_assisted(c, k) = Removed(b, k)
  BY <1>1, <1>2 DEF invalidate_server_assisted
<1> QED
  BY <1>3, <1>4, RemovedBooks

LEMMA SweepBooks ==
    ASSUME NEW c, Books(c), NEW S \in SUBSET Keys
    PROVE  Books(FoldSet(LAMBDA k, e : invalidate_server_assisted(e, k), c, S))
<1>0. IsFiniteSet(S)
  BY MemoryAssumption, FS_Subset
<1>1. PICK g : /\ IsSweep(c, SUBSET S, g)
               /\ FoldSet(LAMBDA k, d : invalidate_server_assisted(d, k), c, S) = g[S]
  BY <1>0, SweepLoop
<1> DEFINE D == {n \in Nat : \E t \in SUBSET S : Cardinality(t) = n /\ ~Books(g[t])}
<1>2. D = {}
  <2> SUFFICES ASSUME D # {} PROVE FALSE
    OBVIOUS
  <2>1. PICK m \in D : \A k \in D : m <= k
    <3>1. D \in SUBSET Nat
      OBVIOUS
    <3> HIDE DEF D
    <3> QED
      BY <3>1, Minimum
  <2>2. PICK t \in SUBSET S : Cardinality(t) = m /\ ~Books(g[t])
    BY <2>1
  <2>3. t # {}
    BY <1>1, <2>2 DEF IsSweep
  <2>4. PICK x : x = Chosen(t)
    OBVIOUS
  <2>5. PICK u : u = t \ {x}
    OBVIOUS
  <2>6. u \in SUBSET S /\ Cardinality(u) = m - 1 /\ m - 1 \in Nat
    BY <1>0, <2>2, <2>3, <2>4, <2>5, SmallerFacts
  <2>7. m - 1 \notin D
    <3>1. ~(m <= m - 1)
      BY <2>6
    <3> HIDE DEF D
    <3> QED
      BY <2>1, <3>1
  <2>8. PICK e : e = g[u]
    OBVIOUS
  <2>9. Books(e)
    BY <2>6, <2>7, <2>8
  <2>10. g[t] = invalidate_server_assisted(e, x)
    BY <1>1, <2>3, <2>4, <2>5, <2>8 DEF IsSweep
  <2> QED
    BY <2>2, <2>9, <2>10, InvalidateBooks
<1>3. Cardinality(S) \in Nat /\ S \in SUBSET S
  BY <1>0, FS_CardinalityType
<1> QED
  BY <1>1, <1>2, <1>3

LEMMA EmptyBooks ==
    ASSUME NEW policy
    PROVE  Books(EmptyCache(policy))
<1>1. PICK c : c = EmptyCache(policy)
  OBVIOUS
<1>2. c.entries = <<>> /\ c.recency = <<>> /\ c.minFrequency = 0 /\ c.memory = 0
  BY <1>1 DEF EmptyCache
<1>3. IsCache(c) /\ Cached(c) = {}
  BY <1>1, EmptyCacheFacts
<1>4. InOrder(c)
  <2>1. <<>> \in Seq(Keys) /\ DOMAIN <<>> = {}
    OBVIOUS
  <2> QED
    BY <1>2, <1>3, <2>1 DEF InOrder, IsInjective, Range
<1>5. Lowest(c)
  BY <1>2, <1>3 DEF Lowest
<1>6. Charged(c)
  BY <1>2, <1>3, MemoryEmpty DEF Charged
<1>7. c.memory <= MaxMemory
  BY <1>2, MemoryAssumption
<1> QED
  BY <1>1, <1>3, <1>4, <1>5, <1>6, <1>7 DEF Books, Orderly

LEMMA TokensBooks ==
    ASSUME NEW r, Books(cache)
    PROVE  Books(WithoutTokens(r))
<1>1. PICK fills \in SUBSET (Keys \X Calls) : fills = cache.fills \ Tokens(r)
  BY DEF Books, Orderly, IsCache
<1>2. PICK d : d = [cache EXCEPT !.fills = fills]
  OBVIOUS
<1>3. WithoutTokens(r) = d
  BY <1>1, <1>2 DEF WithoutTokens
<1> QED
  BY <1>2, <1>3, FillsKeepBooks

LEMMA MoveBooks ==
    ASSUME Books(cache), NEW k, NEW d, d \in {cache, Promoted(cache, k), remove_if_expired(cache, k)}
    PROVE  Books(d)
<1>1. remove_if_expired(cache, k) \in {cache, Removed(cache, k)}
  BY DEF remove_if_expired
<1>2. Books(Promoted(cache, k)) /\ Books(Removed(cache, k))
  BY PromotedBooks, RemovedBooks
<1> QED
  BY <1>1, <1>2

LEMMA CallerBooks ==
    ASSUME BaseInv, ReplyInv, Books(cache), NEW r \in Calls, CallStep(r) \/ Tick(r) \/ TimeOut(r)
    PROVE  Books(cache')
<1>1. PICK key : key = call[r].key
  OBVIOUS
<1>2. PICK d : d = cache'
  OBVIOUS
<1>3. ASSUME Moves(r) PROVE Books(d)
  <2>1. \/ d \in {cache, Promoted(cache, key), remove_if_expired(cache, key)}
        \/ key \in Keys /\ d = WithFill(cache, key, r)
    BY <1>1, <1>2, <1>3 DEF Moves
  <2> QED
    BY <2>1, MoveBooks, WithFillBooks
<1>4. ASSUME Hits(r) PROVE Books(d)
  <2>1. d = Promoted(cache, key)
    BY <1>1, <1>2, <1>4 DEF Hits
  <2> QED
    BY <2>1, PromotedBooks
<1>5. ASSUME Ends(r) PROVE Books(d)
  <2>1. PICK result \in Results : \E items \in Seq(ItemSet) : Finish(r, result, items)
    BY <1>5, Zenon DEF Ends
  <2>2. PICK items \in Seq(ItemSet) : Finish(r, result, items)
    BY <2>1
  <2>3. d = WithoutTokens(r)
    BY <1>2, <2>2 DEF Finish, WithoutTokens
  <2> QED
    BY <2>3, TokensBooks
<1>6. ASSUME Answered(r) PROVE Books(d)
  <2>1. d = cache
    BY <1>2, <1>6 DEF Answered
  <2> QED
    BY <2>1
<1>7. ASSUME Offers(r) PROVE Books(d)
  <2>1. PICK k \in call[r].todo :
          /\ call[r].pc = "complete"
          /\ cache' = IF call[r].items[1].vals[k] = Nil THEN WithoutFill(cache, k, r)
                      ELSE insert_if_active_fill(cache, k, call[r].items[1].vals[k], r)
    BY <1>7 DEF Offers
  <2>2. PICK v \in Nat : v = call[r].items[1].vals[k] /\ k \in Keys
    BY <2>1, OfferedFacts
  <2>3. d \in {WithoutFill(cache, k, r), insert_if_active_fill(cache, k, v, r)}
    BY <1>2, <2>1, <2>2
  <2>4. Books(WithoutFill(cache, k, r))
    BY WithoutFillBooks
  <2>5. Books(insert_if_active_fill(cache, k, v, r))
    BY <2>2, InsertBooks
  <2> QED
    BY <2>3, <2>4, <2>5
<1> QED
  BY <1>2, <1>3, <1>4, <1>5, <1>6, <1>7, CallerCases

LEMMA InvalidatedBooks ==
    ASSUME Books(cache), NEW x, x.kind = "invalidate" => x.vals \in SUBSET Keys
    PROVE  Books(Invalidated(x))
<1>1. PICK d : d = Invalidated(x)
  OBVIOUS
<1>2. CASE sync_lost \/ scenario.policy = "none" \/ x.kind \notin {"flush", "invalidate"}
  BY <1>2 DEF Invalidated
<1>3. CASE ~(sync_lost \/ scenario.policy = "none") /\ x.kind = "flush"
  <2>1. PICK policy : policy = cache.policy
    OBVIOUS
  <2>2. d = EmptyCache(policy)
    BY <1>1, <1>3, <2>1 DEF Invalidated, flush_all_server_assisted
  <2> QED
    BY <1>1, <2>2, EmptyBooks
<1>4. CASE ~(sync_lost \/ scenario.policy = "none") /\ x.kind = "invalidate"
  <2>1. PICK S \in SUBSET Keys : S = x.vals
    BY <1>4
  <2>2. d = FoldSet(LAMBDA k, e : invalidate_server_assisted(e, k), cache, S)
    BY <1>1, <1>4, <2>1 DEF Invalidated
  <2> QED
    BY <1>1, <2>2, SweepBooks
<1> QED
  BY <1>2, <1>3, <1>4

LEMMA NextBooks ==
    ASSUME BaseInv, ReplyInv, Books(cache), [Next]_vars
    PROVE  Books(cache')
<1>1. ASSUME NEW r \in Calls, CallStep(r) \/ Tick(r) \/ TimeOut(r)
      PROVE  Books(cache')
  BY <1>1, CallerBooks
<1>2. ASSUME Pull \/ Break \/ Execute \/ UnpromptedPush \/ Write \/ Broadcast \/ Reopen \/ UNCHANGED vars
      PROVE  Books(cache')
  <2>1. cache' = cache
    BY <1>2 DEF Pull, Break, Execute, UnpromptedPush, Write, Broadcast, Reopen, vars
  <2> QED
    BY <2>1
<1>3. ASSUME Read PROVE Books(cache')
  <2>1. stream # <<>> /\ cache' = Invalidated(Head(stream))
    BY <1>3 DEF Read
  <2>2. PICK x : x = Head(stream)
    OBVIOUS
  <2>3. x.kind = "invalidate" => x.vals \in SUBSET Keys
    BY <1>3, <2>1, <2>2, StreamTail, LineFacts DEF Read, ReplyInv, SeenInv
  <2>4. Books(Invalidated(x))
    BY <2>3, InvalidatedBooks
  <2> QED
    BY <2>1, <2>2, <2>4
<1>4. ASSUME Age PROVE Books(cache')
  <2>1. PICK k \in Cached(cache) : cache' = Aged(cache, k)
    BY <1>4 DEF Age, Aged
  <2>2. IsCache(cache)
    BY DEF Books, Orderly
  <2>3. PICK d : d = Aged(cache, k)
    OBVIOUS
  <2>4. IsCache(d) /\ SameBooks(d, cache)
    BY <2>2, <2>3, AgedFacts DEF Within
  <2>5. Books(d)
    BY <2>4, SameKeepsBooks
  <2> QED
    BY <2>1, <2>3, <2>5
<1> QED
  BY <1>1, <1>2, <1>3, <1>4 DEF Next

LEMMA BooksExact ==
    ASSUME Books(cache)
    PROVE  CacheExact
<1>1. IsCache(cache) /\ InOrder(cache) /\ Lowest(cache) /\ Charged(cache) /\ cache.memory <= MaxMemory
  BY DEF Books, Orderly
<1>2. PICK e : e = cache.entries
  OBVIOUS
<1>3. MapThenSumSet(LAMBDA k : EntrySize(cache.entries[k].version), Cached(cache)) = Memory(cache.entries, Cached(cache))
  BY Zenon DEF Memory, Weight, MapThenSumSet, MapThenFoldSet
<1>4. cache.memory = MapThenSumSet(LAMBDA k : EntrySize(cache.entries[k].version), Cached(cache))
  BY <1>1, <1>3 DEF Charged
<1>5. MemoryAccounted
  BY <1>1, <1>4, Zenon DEF MemoryAccounted
<1>6. Cached(cache) # {} => cache.minFrequency = Min(Frequencies(cache.entries))
  <2> SUFFICES ASSUME Cached(cache) # {} PROVE cache.minFrequency = Min(Frequencies(cache.entries))
    OBVIOUS
  <2>1. PICK min \in Nat : min = cache.minFrequency
    BY <1>1 DEF Lowest
  <2>2. PICK F : F = Frequencies(cache.entries)
    OBVIOUS
  <2>3. F \in SUBSET Nat
    BY <1>1, <2>2, EntryFacts DEF Frequencies, Cached
  <2>4. min \in F /\ \A f \in F : min <= f
    BY <1>1, <2>1, <2>2 DEF Lowest, Frequencies, Cached
  <2>5. Min(F) \in F /\ \A f \in F : Min(F) <= f
    BY <2>3, <2>4, MinFacts
  <2>6. PICK other \in Nat : other = Min(F)
    BY <2>3, <2>5
  <2>7. min <= other /\ other <= min
    BY <2>4, <2>5, <2>6
  <2> QED
    BY <2>1, <2>2, <2>6, <2>7
<1>7. EvictionOrderExact
  BY <1>1, <1>6 DEF EvictionOrderExact, InOrder
<1> QED
  BY <1>5, <1>7 DEF CacheExact

\* Over any insertions, replacements, promotions, evictions, expiries and invalidations the
\* charged memory is the size of what is cached and within max_memory_bytes, every cached key
\* has its place in the order once, and LFU evicts at the smallest frequency there is, unless
\* a fence took the PONG of another command for its own.
THEOREM CacheAlwaysExact ==
    ASSUME RepliesCounted
    PROVE  Spec => [](mistaken \/ CacheExact)
<1>1. AllInv /\ (mistaken \/ Books(cache)) /\ [Next]_vars => (mistaken' \/ Books(cache)')
  BY NextBooks, MistakenStays DEF AllInv, GivenInv
<1>2. Init => Books(cache)
  BY EmptyBooks DEF Init
<1>3. mistaken \/ Books(cache) => mistaken \/ CacheExact
  BY BooksExact
<1> QED
  BY <1>1, <1>2, <1>3, CachedAlways, PTL DEF Spec
=============================================================================
