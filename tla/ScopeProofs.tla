---------------------------- MODULE ScopeProofs -----------------------------
(***************************************************************************)
(* Proofs about ScopePool, for any number of connections, users, creation  *)
(* tasks, nodes and databases: slots are accounted for and no sleeper is   *)
(* forgotten, a connection has one owner and a scope one holder, and what  *)
(* is idle carries nothing of its last borrowers on the server unless it   *)
(* went astray.                                                            *)
(***************************************************************************)
EXTENDS ScopePool, FiniteSetTheorems, SequenceTheorems, WellFoundedInduction, TLAPS

-----------------------------------------------------------------------------
(* The inductive invariant *)

Idle == ToSet(idle)

\* The attempt under the pool mutex has its target and database, and room for the
\* resync it may ask for.
AcqInv ==
    \A u \in Users :
        /\ acq[u].phase # "off" => acq[u].target \in Targets
        /\ acq[u].phase = "resolved" =>
              /\ lock = u
              /\ acq[u].db \in Dbs
              /\ resyncReq[<<acq[u].target, acq[u].db>>] < MaxResync

\* A command carries the scope id it was issued on.
CmdIdInv == \A u \in Users : cmd[u].phase # "none" => cmd[u].id \in Conns

DialInv ==
    \A d \in Dials :
        /\ dial[d].phase # "free" => dial[d].target \in Targets
        /\ dial[d].phase = "connected" => dial[d].db \in Dbs

\* A creation reports to the one attempt that waits for it.
OwnerInv ==
    \A d \in Dials : dial[d].owner # NoUser =>
        /\ acq[dial[d].owner].phase = "creating"
        /\ \A e \in Dials : dial[e].owner = dial[d].owner => e = d

LoopInv == AcqInv /\ CmdIdInv /\ DialInv /\ OwnerInv

\* Whatever the pool knows is a live connection.
OpenInv == \A c \in Conns : c \in Idle \cup in_use \cup Cleaning \cup Resyncing => IsOpen(c)

\* The pool leaves the map when the parent closes, and the registry is swept after that.
CloseInv ==
    /\ closing \in {"open", "unregistered"} <=> mapped = "pool"
    /\ closing # "swept" => in_use \subseteq registry
    /\ registry \subseteq in_use
    /\ mapped = "pool" => \A c \in Cleaning : cleanup[c].pool

\* While nobody releases twice, a scope is held, or waits for its release, once.
HoldInv ==
    ~scenario.twice =>
        /\ \A u \in Users : released[u] = NoConn
        /\ \A u \in Users : holds[u] # NoConn =>
              /\ holds[u] \in in_use
              /\ \A v \in Users : holds[v] = holds[u] => v = u
        /\ \A u \in Users, c \in Conns : <<u, c>> \in toRelease =>
              /\ c \in in_use
              /\ \A v \in Users : holds[v] # c
              /\ \A v \in Users : <<v, c>> \in toRelease => v = u

\* What the record claims, the server has at most.
Tracks(st, s) ==
    /\ s.watching => st.watch_active
    /\ s.multi <=> st.multi_active
    /\ s.tracking => st.tracking_enabled
    /\ s.altered => st.altered
    /\ s.waiter => st.blocking_in_flight
    /\ s.db = st.selected_db
    /\ s.queued = NothingQueued

RunningOn(c) == {u \in Users : cmd[u].phase = "running" /\ cmd[u].id = c}

\* The record is updated before the command is sent: it tracks the server's next state,
\* and one that only marks covers the present one too, in case the command is refused.
Ahead(u) ==
    LET k == conn[cmd[u].id] IN
    /\ \A s \in ServerAfter(k.server, cmd[u].c) : Tracks(Unmarked(u, k.st), s)
    /\ OnlyMarks(cmd[u].c) => Tracks(Unmarked(u, k.st), k.server)
    /\ IsBlocking(cmd[u].c) => k.st.blocking_in_flight /\ Tracks(k.st, k.server)

\* A command on a connection that did not go astray has the wrapper of its borrow.
CmdOk(u) ==
    cmd[u].phase # "none" /\ cmd[u].id \notin astray =>
        cmd[u].id \in in_use /\ ~cmd[u].stale

Spotless(c) ==
    /\ Pristine(conn[c].server, Db(c))
    /\ conn[c].server.queued = NothingQueued

\* What is known of a connection where it is, unless it went astray: spotless in the
\* pool, tracked while it is lent, fit for the pipeline when it is queued for it.
ConnOk(c) ==
    c \notin astray =>
        /\ c \in Idle \cup Resyncing => Spotless(c)
        /\ c \in in_use => conn[c].st.must_discard \/ RunningOn(c) # {}
                             \/ Tracks(conn[c].st, conn[c].server)
        /\ cleanup[c].phase = "queued" =>
              /\ Tracks(conn[c].st, conn[c].server)
              /\ ~MustDiscard(conn[c].st)
        /\ cleanup[c].phase = "cleaned" =>
              /\ Pristine(conn[c].server, conn[c].st.parent_db)
              /\ conn[c].server.queued = NothingQueued

RunOk(u) ==
    cmd[u].phase = "running" /\ cmd[u].id \notin astray =>
        conn[cmd[u].id].st.must_discard \/ Ahead(u)

\* The lock of the wrapper.
Sole(u, id) == \A v \in Users : v # u /\ cmd[v].phase = "running" => cmd[v].id # id

BorrowInv ==
    /\ \A u \in Users : CmdOk(u)
    /\ \A c \in Conns : ConnOk(c)
    /\ \A u \in Users : RunOk(u)
    /\ \A u \in Users : cmd[u].phase = "running" /\ cmd[u].id \notin astray => Sole(u, cmd[u].id)

\* An acquire is the business of a user that holds no scope.
SeekInv == \A u \in Users : acq[u].phase # "off" => holds[u] = NoConn

PoolInv == OneOwner /\ OpenInv /\ SlotsAccounted /\ CloseInv

Inv ==
    /\ TypeOK /\ LoopInv /\ PoolInv /\ ExhaustedWakes
    /\ SeekInv /\ HoldInv /\ BorrowInv

-----------------------------------------------------------------------------
(* The idle deque *)

Distinct(s) == \A i, j \in 1..Len(s) : s[i] = s[j] => i = j

LEMMA AppendFacts ==
    ASSUME NEW S, NEW s \in Seq(S), NEW e \in S
    PROVE  /\ Append(s, e) \in Seq(S)
           /\ Len(Append(s, e)) = Len(s) + 1
           /\ ToSet(Append(s, e)) = ToSet(s) \cup {e}
           /\ Distinct(s) /\ e \notin ToSet(s) => Distinct(Append(s, e))
<1> DEFINE a == Append(s, e)
<1>1. /\ DOMAIN s = 1..Len(s) /\ Len(s) \in Nat /\ a \in Seq(S)
      /\ DOMAIN a = 1..(Len(s) + 1) /\ Len(a) = Len(s) + 1
      /\ \A i \in 1..Len(s) : a[i] = s[i]
      /\ a[Len(s) + 1] = e
  OBVIOUS
<1> HIDE DEF a
<1>2. ToSet(a) = ToSet(s) \cup {e}
  BY <1>1 DEF ToSet
<1>3. Distinct(s) /\ e \notin ToSet(s) => Distinct(a)
  BY <1>1 DEF ToSet, Distinct
<1> QED
  BY <1>1, <1>2, <1>3 DEF a

\* Taking position i out.
LEMMA RemoveFacts ==
    ASSUME NEW S, NEW s \in Seq(S), NEW i \in 1..Len(s)
    PROVE  /\ RemoveAt(s, i) \in Seq(S)
           /\ Len(RemoveAt(s, i)) = Len(s) - 1
           /\ s[i] \in S /\ s[i] \in ToSet(s)
           /\ Distinct(s) => /\ ToSet(RemoveAt(s, i)) = ToSet(s) \ {s[i]}
                             /\ Distinct(RemoveAt(s, i))
<1> DEFINE p == SubSeq(s, 1, i - 1)
           q == SubSeq(s, i + 1, Len(s))
           r == p \o q
<1>1. /\ DOMAIN s = 1..Len(s) /\ Len(s) \in Nat /\ i \in Nat /\ i <= Len(s) /\ 1 <= i
      /\ \A k \in 1..Len(s) : s[k] \in S
  OBVIOUS
<1>2. p \in Seq(S) /\ Len(p) = i - 1 /\ \A k \in 1..(i - 1) : p[k] = s[k]
  BY <1>1
<1>3. q \in Seq(S) /\ Len(q) = Len(s) - i /\ \A k \in 1..(Len(s) - i) : q[k] = s[k + i]
  <2>1. /\ q \in Seq(S) /\ Len(q) = IF i + 1 <= Len(s) THEN Len(s) - (i + 1) + 1 ELSE 0
        /\ \A k \in 1..(Len(s) - (i + 1) + 1) : q[k] = s[i + 1 + k - 1]
    BY <1>1, SubSeqProperties
  <2> HIDE DEF q
  <2>2. Len(q) = Len(s) - i
    <3>1. Len(q) = IF i + 1 <= Len(s) THEN Len(s) - (i + 1) + 1 ELSE 0
      BY <2>1
    <3>2. Len(s) \in Nat /\ i \in Nat /\ i <= Len(s)
      BY <1>1
    <3> QED
      BY ONLY <3>1, <3>2, SMT
  <2>3. ASSUME NEW k \in 1..(Len(s) - i)
        PROVE  q[k] = s[k + i]
    <3>1. k \in 1..(Len(s) - (i + 1) + 1) /\ i + 1 + k - 1 = k + i
      BY <1>1
    <3> QED
      BY <2>1, <3>1
  <2> QED
    BY <2>1, <2>2, <2>3
<1> HIDE DEF p, q
<1>4. /\ r \in Seq(S) /\ Len(r) = Len(s) - 1
      /\ \A k \in 1..(Len(s) - 1) : r[k] = IF k < i THEN s[k] ELSE s[k + 1]
  <2>1. /\ r \in Seq(S) /\ Len(r) = Len(p) + Len(q)
        /\ \A k \in 1..(Len(p) + Len(q)) : r[k] = IF k <= Len(p) THEN p[k] ELSE q[k - Len(p)]
    BY <1>2, <1>3, ConcatProperties
  <2> HIDE DEF r
  <2>2. Len(r) = Len(s) - 1
    BY <1>1, <1>2, <1>3, <2>1
  <2>3. ASSUME NEW k \in 1..(Len(s) - 1)
        PROVE  r[k] = IF k < i THEN s[k] ELSE s[k + 1]
    <3>1. k \in 1..(Len(p) + Len(q))
      BY <1>1, <1>2, <1>3
    <3>2. CASE k < i
      <4>1. k <= Len(p) /\ k \in 1..(i - 1)
        BY <1>1, <1>2, <3>2
      <4> QED
        BY <1>2, <2>1, <3>1, <3>2, <4>1
    <3>3. CASE ~(k < i)
      <4>1. ~(k <= Len(p)) /\ k - Len(p) \in 1..(Len(s) - i) /\ (k - Len(p)) + i = k + 1
        BY <1>1, <1>2, <3>3
      <4> QED
        BY <1>3, <2>1, <3>1, <3>3, <4>1
    <3> QED
      BY <3>2, <3>3
  <2> QED
    BY <2>1, <2>2, <2>3
<1> HIDE DEF r
<1>5. RemoveAt(s, i) = r
  BY DEF RemoveAt, p, q, r
<1>6. DOMAIN r = 1..(Len(s) - 1)
  BY <1>4
<1>7. s[i] \in ToSet(s)
  BY <1>1 DEF ToSet
<1>8. ASSUME Distinct(s)
      PROVE  ToSet(r) = ToSet(s) \ {s[i]}
  <2>1. ASSUME NEW k \in 1..(Len(s) - 1)
        PROVE  r[k] \in ToSet(s) /\ r[k] # s[i]
    <3>1. CASE k < i
      BY <1>1, <1>4, <1>8, <3>1 DEF ToSet, Distinct
    <3>2. CASE ~(k < i)
      <4>1. k + 1 \in 1..Len(s) /\ k + 1 # i /\ r[k] = s[k + 1]
        BY <1>1, <1>4, <3>2
      <4> QED
        BY <1>1, <1>8, <4>1 DEF ToSet, Distinct
    <3> QED
      BY <3>1, <3>2
  <2>2. ASSUME NEW k \in 1..Len(s), k # i
        PROVE  \E m \in 1..(Len(s) - 1) : r[m] = s[k]
    <3>1. CASE k < i
      BY <1>1, <1>4, <3>1
    <3>2. CASE ~(k < i)
      <4>1. k - 1 \in 1..(Len(s) - 1) /\ ~(k - 1 < i) /\ (k - 1) + 1 = k
        BY <1>1, <2>2, <3>2
      <4>2. r[k - 1] = s[k]
        BY <1>4, <4>1
      <4> QED
        BY <4>1, <4>2
    <3> QED
      BY <3>1, <3>2
  <2>3. ToSet(r) \subseteq ToSet(s) \ {s[i]}
    BY <1>6, <2>1 DEF ToSet
  <2>4. ToSet(s) \ {s[i]} \subseteq ToSet(r)
    BY <1>1, <1>6, <2>2 DEF ToSet
  <2> QED
    BY <2>3, <2>4
<1>9. ASSUME Distinct(s)
      PROVE  Distinct(r)
  <2> SUFFICES ASSUME NEW k \in 1..(Len(s) - 1), NEW m \in 1..(Len(s) - 1), r[k] = r[m]
               PROVE  k = m
    BY <1>4 DEF Distinct
  <2> DEFINE up(x) == IF x < i THEN x ELSE x + 1
  <2>1. up(k) \in 1..Len(s) /\ up(m) \in 1..Len(s) /\ r[k] = s[up(k)] /\ r[m] = s[up(m)]
    BY <1>1, <1>4
  <2>2. up(k) = up(m)
    BY <1>9, <2>1 DEF Distinct
  <2> QED
    BY <1>1, <2>2
<1> QED
  BY <1>1, <1>4, <1>5, <1>7, <1>8, <1>9

\* Dropping the first n.
LEMMA PruneFacts ==
    ASSUME NEW S, NEW s \in Seq(S), NEW n \in 0..Len(s)
    PROVE  /\ SubSeq(s, n + 1, Len(s)) \in Seq(S)
           /\ Len(SubSeq(s, n + 1, Len(s))) = Len(s) - n
           /\ ToSet(SubSeq(s, n + 1, Len(s))) \subseteq ToSet(s)
           /\ ToSet(SubSeq(s, 1, n)) \subseteq ToSet(s)
           /\ Distinct(s) => /\ ToSet(SubSeq(s, n + 1, Len(s))) = ToSet(s) \ ToSet(SubSeq(s, 1, n))
                             /\ Distinct(SubSeq(s, n + 1, Len(s)))
<1> DEFINE r == SubSeq(s, n + 1, Len(s))
           h == SubSeq(s, 1, n)
<1>1. /\ DOMAIN s = 1..Len(s) /\ Len(s) \in Nat /\ n \in Nat /\ n <= Len(s)
  OBVIOUS
<1>2. r \in Seq(S) /\ Len(r) = Len(s) - n /\ \A k \in 1..(Len(s) - n) : r[k] = s[k + n]
  <2>1. \A k \in (n + 1)..Len(s) : s[k] \in S
    BY <1>1
  <2>2. /\ r \in Seq(S) /\ Len(r) = IF n + 1 <= Len(s) THEN Len(s) - (n + 1) + 1 ELSE 0
        /\ \A k \in 1..(Len(s) - (n + 1) + 1) : r[k] = s[n + 1 + k - 1]
    BY <1>1, <2>1, SubSeqProperties
  <2> HIDE DEF r
  <2>3. Len(r) = Len(s) - n
    <3>1. Len(r) = IF n + 1 <= Len(s) THEN Len(s) - (n + 1) + 1 ELSE 0
      BY <2>2
    <3>2. Len(s) \in Nat /\ n \in Nat /\ n <= Len(s)
      BY <1>1
    <3> QED
      BY ONLY <3>1, <3>2, SMT
  <2>4. ASSUME NEW k \in 1..(Len(s) - n)
        PROVE  r[k] = s[k + n]
    <3>1. k \in 1..(Len(s) - (n + 1) + 1) /\ n + 1 + k - 1 = k + n
      BY <1>1
    <3> QED
      BY <2>2, <3>1
  <2> QED
    BY <2>2, <2>3, <2>4
<1>3. h \in Seq(S) /\ Len(h) = n /\ \A k \in 1..n : h[k] = s[k]
  BY <1>1
<1> HIDE DEF r, h
<1>4. DOMAIN r = 1..(Len(s) - n) /\ DOMAIN h = 1..n
  BY <1>2, <1>3
<1>5. ASSUME NEW k \in 1..(Len(s) - n)
      PROVE  k + n \in 1..Len(s) /\ r[k] = s[k + n]
  BY <1>1, <1>2
<1>6. ASSUME NEW k \in 1..n
      PROVE  k \in 1..Len(s) /\ h[k] = s[k]
  BY <1>1, <1>3
<1>7. ToSet(r) \subseteq ToSet(s)
  BY <1>1, <1>4, <1>5 DEF ToSet
<1>8. ToSet(h) \subseteq ToSet(s)
  BY <1>1, <1>4, <1>6 DEF ToSet
<1>9. ASSUME Distinct(s)
      PROVE  Distinct(r)
  <2> SUFFICES ASSUME NEW k \in 1..(Len(s) - n), NEW m \in 1..(Len(s) - n), r[k] = r[m]
               PROVE  k = m
    BY <1>2 DEF Distinct
  <2>1. k + n = m + n
    BY <1>5, <1>9 DEF Distinct
  <2> QED
    BY <1>1, <2>1
<1>10. ASSUME Distinct(s)
       PROVE  ToSet(r) \cap ToSet(h) = {}
  <2> SUFFICES ASSUME NEW k \in 1..(Len(s) - n), NEW m \in 1..n, r[k] = h[m]
               PROVE  FALSE
    BY <1>4 DEF ToSet
  <2>1. k + n = m
    BY <1>5, <1>6, <1>10 DEF Distinct
  <2> QED
    BY <1>1, <2>1
<1>11. ToSet(s) \subseteq ToSet(r) \cup ToSet(h)
  <2> SUFFICES ASSUME NEW k \in 1..Len(s)
               PROVE  s[k] \in ToSet(r) \cup ToSet(h)
    BY <1>1 DEF ToSet
  <2>1. CASE k <= n
    BY <1>1, <1>4, <1>6, <2>1 DEF ToSet
  <2>2. CASE ~(k <= n)
    <3>1. k - n \in 1..(Len(s) - n) /\ (k - n) + n = k
      BY <1>1, <2>2
    <3> QED
      BY <1>4, <1>5, <3>1 DEF ToSet
  <2> QED
    BY <2>1, <2>2
<1> QED
  BY <1>2, <1>7, <1>8, <1>9, <1>10, <1>11 DEF r, h

\* A non-empty set of positions has a last one.
LEMMA NewestFacts ==
    ASSUME NEW n \in Nat, NEW P \in SUBSET (1..n), P # {}
    PROVE  Newest(P) \in P
<1> DEFINE D == {k \in Nat : \E i \in P : k = n - i}
<1>0. \A i \in P : i \in Nat /\ n - i \in Nat
  OBVIOUS
<1>1. D \subseteq Nat /\ D # {} /\ \A i \in P : n - i \in D
  BY <1>0
<1> HIDE DEF D
<1>2. PICK m \in D : \A k \in D : ~(<<k, m>> \in OpToRel(<, Nat))
  BY <1>1, NatLessThanWellFounded, WFMin
<1>3. \A k \in D : m <= k
  <2>1. ASSUME NEW k \in Nat, NEW j \in Nat, k < j
        PROVE  <<k, j>> \in OpToRel(<, Nat)
    BY <2>1, Zenon DEF OpToRel
  <2>2. m \in Nat /\ \A k \in D : k \in Nat /\ ~(k < m)
    BY <1>1, <1>2, <2>1
  <2> QED
    BY <2>2
<1>4. PICK i \in P : m = n - i
  BY <1>2 DEF D
<1>5. \A j \in P : j <= i
  <2> SUFFICES ASSUME NEW j \in P
               PROVE  j <= i
    OBVIOUS
  <2>1. n - i <= n - j
    BY <1>1, <1>3, <1>4
  <2> QED
    BY <1>0, <2>1
<1> QED
  BY <1>5 DEF Newest

-----------------------------------------------------------------------------
(* Types of the record and of the server's side *)

\* Every command names its database if it is a SELECT.
LEMMA CommandDb ==
    ASSUME NEW c \in Command
    PROVE  c.op = "SELECT" => c.db \in Dbs
BY DEF Command, Op, Ops, Select

LEMMA BorrowType ==
    ASSUME NEW a \in Dbs, NEW b \in Dbs
    PROVE  begin_borrow(a, b) \in ConnectionState
BY DEF begin_borrow, ConnectionState

LEMMA UpdateType ==
    ASSUME NEW st \in ConnectionState, NEW c, c.op = "SELECT" => c.db \in Dbs
    PROVE  update_state_for_command(st, c) \in ConnectionState
<1>1. CASE c.op = "SELECT"
  BY <1>1 DEF update_state_for_command, ConnectionState
<1>2. CASE c.op # "SELECT"
  BY <1>2 DEF update_state_for_command, ConnectionState
<1> QED
  BY <1>1, <1>2

LEMMA TrackedType ==
    ASSUME NEW st \in ConnectionState, NEW c, c.op = "SELECT" => c.db \in Dbs
    PROVE  Tracked(st, c) \in ConnectionState
<1> DEFINE t == update_state_for_command(st, c)
<1>1. t \in ConnectionState
  BY UpdateType
<1> HIDE DEF t
<1>2. [t EXCEPT !.blocking_in_flight = TRUE] \in ConnectionState
  BY <1>1 DEF ConnectionState
<1> QED
  BY <1>1, <1>2 DEF Tracked, t

QueueType == [db : Dbs \cup {NoDb}, tracking : {"ON", "OFF", "NONE"}, altered : BOOLEAN]

LEMMA QueueTypes ==
    /\ NothingQueued \in QueueType
    /\ ServerState = [db : Dbs, watching : BOOLEAN, multi : BOOLEAN, tracking : BOOLEAN,
                      altered : BOOLEAN, waiter : BOOLEAN, queued : QueueType]
BY DEF NothingQueued, QueueType, ServerState

LEMMA FreshType ==
    ASSUME NEW d \in Dbs
    PROVE  FreshServer(d) \in ServerState
BY QueueTypes DEF FreshServer

LEMMA RunDirectType ==
    ASSUME NEW s \in ServerState, NEW c, c.op = "SELECT" => c.db \in Dbs
    PROVE  RunDirect(s, c) \in ServerState
<1>1. CASE c.op = "SELECT"
  BY <1>1, QueueTypes DEF RunDirect
<1>2. CASE c.op # "SELECT"
  BY <1>2, QueueTypes DEF RunDirect
<1> QED
  BY <1>1, <1>2

LEMMA EnqueueType ==
    ASSUME NEW s \in ServerState, NEW c, c.op = "SELECT" => c.db \in Dbs
    PROVE  Enqueue(s, c) \in ServerState
<1> DEFINE q == CASE c.op = "SELECT"       -> [s.queued EXCEPT !.db = c.db]
                  [] c.op = "TRACKING_ON"  -> [s.queued EXCEPT !.tracking = "ON"]
                  [] c.op = "TRACKING_OFF" -> [s.queued EXCEPT !.tracking = "OFF"]
                  [] c.op = "ALTER"        -> [s.queued EXCEPT !.altered = TRUE]
                  [] OTHER                 -> s.queued
<1>1. s.queued \in QueueType
  BY QueueTypes
<1>2. q \in QueueType
  <2>1. CASE c.op = "SELECT"
    BY <1>1, <2>1 DEF QueueType
  <2>2. CASE c.op # "SELECT"
    BY <1>1, <2>2 DEF QueueType
  <2> QED
    BY <2>1, <2>2
<1>3. Enqueue(s, c) = [s EXCEPT !.queued = q]
  BY DEF Enqueue
<1> HIDE DEF q
<1> QED
  BY <1>2, <1>3, QueueTypes

LEMMA EndTypes ==
    ASSUME NEW s \in ServerState
    PROVE  EndTransaction(s) \in ServerState /\ Commit(s) \in ServerState
<1>1. EndTransaction(s) \in ServerState
  BY QueueTypes DEF EndTransaction
<1> DEFINE b == CASE s.queued.tracking = "ON"  -> TRUE
                  [] s.queued.tracking = "OFF" -> FALSE
                  [] OTHER                     -> s.tracking
           d == IF s.queued.db = NoDb THEN s.db ELSE s.queued.db
           e == EndTransaction(s)
           a == s.altered \/ s.queued.altered
<1>2. s.queued \in QueueType
  BY QueueTypes
<1>3. b \in BOOLEAN /\ d \in Dbs /\ a \in BOOLEAN
  <2>1. s.tracking \in BOOLEAN /\ s.db \in Dbs /\ s.queued.db \in Dbs \cup {NoDb}
    BY <1>2, QueueTypes DEF QueueType
  <2> QED
    BY <2>1
<1>4. Commit(s) = [e EXCEPT !.db = d, !.tracking = b, !.altered = a]
  BY DEF Commit
<1> HIDE DEF b, d, e, a
<1>5. e \in ServerState
  BY <1>1 DEF e
<1>6. Commit(s) \in ServerState
  BY <1>3, <1>4, <1>5, QueueTypes
<1> QED
  BY <1>1, <1>6

LEMMA ServerAfterType ==
    ASSUME NEW s \in ServerState, NEW c, c.op = "SELECT" => c.db \in Dbs
    PROVE  ServerAfter(s, c) \subseteq ServerState
<1>1. CASE ~s.multi
  BY <1>1, RunDirectType DEF ServerAfter
<1>2. CASE s.multi
  BY <1>2, EnqueueType, EndTypes DEF ServerAfter
<1> QED
  BY <1>1, <1>2

LEMMA CleanupStepType ==
    ASSUME NEW s \in ServerState, NEW n, NEW c, c.op = "SELECT" => c.db \in Dbs
    PROVE  CleanupStep(s, n, c) \in ServerState
BY RunDirectType, EnqueueType DEF CleanupStep

LEMMA CleanedType ==
    ASSUME NEW s \in ServerState, NEW st \in ConnectionState
    PROVE  Cleaned(st, s) \in ServerState
<1> DEFINE s1 == IF st.multi_active THEN EndTransaction(s)
                 ELSE CleanupStep(s, st.watch_active, Op("UNWATCH"))
           s2 == CleanupStep(s1, st.altered, Op("RESET_ALTER"))
           s3 == CleanupStep(s2, st.tracking_enabled, Op("TRACKING_OFF"))
<1>1. s1 \in ServerState
  BY EndTypes, CleanupStepType DEF Op
<1>2. s2 \in ServerState
  <2> HIDE DEF s1
  <2> QED
    BY <1>1, CleanupStepType DEF Op
<1>3. s3 \in ServerState
  <2> HIDE DEF s2
  <2> QED
    BY <1>2, CleanupStepType DEF Op
<1>4. Cleaned(st, s) = CleanupStep(s3, st.selected_db # st.parent_db, Select(st.parent_db))
  BY DEF Cleaned
<1>5. st.parent_db \in Dbs
  BY DEF ConnectionState
<1> HIDE DEF s3
<1> QED
  BY <1>3, <1>4, <1>5, CleanupStepType DEF Select

\* Every blank value has the type of its variable.
LEMMA BlankTypes ==
    ASSUME runtimeDb \in Dbs
    PROVE  /\ NoCmd \in CmdType /\ NoAcq \in AcqType /\ NoDial \in DialType
           /\ NoCleanup \in CleanupType
           /\ Closed \in ConnType /\ Closed.target = NoTarget
           /\ \A t \in Targets, d \in Dbs : Opened(t, d) \in ConnType /\ Opened(t, d).target = t
<1>1. Op("GET") \in Command
  BY DEF Op, Ops, Command
<1>2. NoCmd \in CmdType
  BY <1>1 DEF NoCmd, CmdType
<1>3. NoAcq \in AcqType /\ NoDial \in DialType /\ NoCleanup \in CleanupType
  BY DEF NoAcq, AcqType, NoDial, DialType, NoCleanup, CleanupType
<1>4. \A t \in Targets \cup {NoTarget}, d \in Dbs : Opened(t, d) \in ConnType /\ Opened(t, d).target = t
  BY BorrowType, FreshType DEF Opened, ConnType
<1>5. (CHOOSE d \in Dbs : TRUE) \in Dbs
  OBVIOUS
<1>6. Closed \in ConnType /\ Closed.target = NoTarget
  BY <1>4, <1>5 DEF Closed
<1> QED
  BY <1>2, <1>3, <1>4, <1>6

LEMMA Blanks ==
    ASSUME TypeOK
    PROVE  /\ NoCmd \in CmdType /\ NoAcq \in AcqType /\ NoDial \in DialType
           /\ NoCleanup \in CleanupType
           /\ Closed \in ConnType /\ Closed.target = NoTarget
           /\ \A t \in Targets, d \in Dbs : Opened(t, d) \in ConnType /\ Opened(t, d).target = t
BY BlankTypes DEF TypeOK

-----------------------------------------------------------------------------
(* Types are kept *)

LEMMA NotifyFacts ==
    ASSUME NEW a \in [Users -> AcqType]
    PROVE  /\ NotifyAll(a) \in [Users -> AcqType]
           /\ \A u \in Users :
                /\ NotifyAll(a)[u].phase = a[u].phase /\ NotifyAll(a)[u].target = a[u].target
                /\ NotifyAll(a)[u].db = a[u].db /\ NotifyAll(a)[u].cause = a[u].cause
                /\ a[u].phase = "sleeping" => NotifyAll(a)[u].notified
<1>1. ASSUME NEW u \in Users
      PROVE  /\ NotifyAll(a)[u] \in AcqType
             /\ NotifyAll(a)[u].phase = a[u].phase /\ NotifyAll(a)[u].target = a[u].target
             /\ NotifyAll(a)[u].db = a[u].db /\ NotifyAll(a)[u].cause = a[u].cause
             /\ a[u].phase = "sleeping" => NotifyAll(a)[u].notified
  BY DEF NotifyAll, AcqType
<1>2. NotifyAll(a) = [u \in Users |-> NotifyAll(a)[u]]
  BY DEF NotifyAll
<1> QED
  BY <1>1, <1>2

LEMMA ArmFacts ==
    ASSUME NEW a \in [Users -> AcqType], NEW u \in Users
    PROVE  /\ Arm(a, u) \in [Users -> AcqType]
           /\ Arm(a, u)[u].phase = "armed" /\ Arm(a, u)[u].target = a[u].target
           /\ \A v \in Users : v # u => Arm(a, u)[v] = a[v]
BY ZenonT(60) DEF Arm, AcqType

LEMMA DiscardFacts ==
    ASSUME TypeOK, NEW ids, Discard(ids)
    PROVE  /\ conn' \in [Conns -> ConnType]
           /\ \A c \in Conns : c \notin ids => conn'[c] = conn[c]
           /\ \A c \in Conns : c \in ids => conn'[c].target = NoTarget
BY Blanks DEF Discard, TypeOK

LEMMA OrphanedFacts ==
    ASSUME TypeOK, NEW id
    PROVE  /\ Orphaned(id) \in [Users -> CmdType]
           /\ \A u \in Users :
                /\ Orphaned(id)[u].phase = cmd[u].phase /\ Orphaned(id)[u].id = cmd[u].id
                /\ cmd[u].id # id => Orphaned(id)[u] = cmd[u]
<1>1. ASSUME NEW u \in Users
      PROVE  /\ Orphaned(id)[u] \in CmdType
             /\ Orphaned(id)[u].phase = cmd[u].phase /\ Orphaned(id)[u].id = cmd[u].id
             /\ cmd[u].id # id => Orphaned(id)[u] = cmd[u]
  BY DEF Orphaned, CmdType, TypeOK
<1>2. Orphaned(id) = [u \in Users |-> Orphaned(id)[u]]
  BY DEF Orphaned
<1> QED
  BY <1>1, <1>2

LEMMA RecordFacts ==
    ASSUME TypeOK, NEW u \in Users, cmd[u].id \in Conns, NEW st \in ConnectionState
    PROVE  /\ Record(u, st) \in [Conns -> ConnType]
           /\ \A c \in Conns : /\ Record(u, st)[c].target = conn[c].target
                               /\ Record(u, st)[c].server = conn[c].server
                               /\ c # cmd[u].id => Record(u, st)[c] = conn[c]
           /\ Record(u, st)[cmd[u].id].st = IF cmd[u].stale THEN conn[cmd[u].id].st ELSE st
BY DEF Record, ConnType, TypeOK

\* What try_acquire may find in the deque.
LEMMA PositionFacts ==
    ASSUME TypeOK, NEW t, NEW d, NEW n \in 0..Len(idle)
    PROVE  /\ Reusable(t, d, n) # {} =>
                /\ Newest(Reusable(t, d, n)) \in 1..Len(idle)
                /\ idle[Newest(Reusable(t, d, n))] \in Conns
                /\ Db(idle[Newest(Reusable(t, d, n))]) = d
           /\ WrongDb(t, d, n) # {} =>
                /\ Newest(WrongDb(t, d, n)) \in 1..Len(idle)
                /\ idle[Newest(WrongDb(t, d, n))] \in Conns
<1>1. Len(idle) \in Nat /\ n \in Nat /\ \A i \in 1..Len(idle) : idle[i] \in Conns
  BY DEF TypeOK
<1>2. Reusable(t, d, n) \in SUBSET (1..Len(idle)) /\ WrongDb(t, d, n) \in SUBSET (1..Len(idle))
  BY <1>1 DEF Reusable, WrongDb, OnNode
<1>3. Reusable(t, d, n) # {} => Newest(Reusable(t, d, n)) \in Reusable(t, d, n)
  BY <1>1, <1>2, NewestFacts
<1>4. WrongDb(t, d, n) # {} => Newest(WrongDb(t, d, n)) \in WrongDb(t, d, n)
  BY <1>1, <1>2, NewestFacts
<1>5. \A i \in Reusable(t, d, n) : Db(idle[i]) = d
  BY DEF Reusable
<1> QED
  BY <1>1, <1>2, <1>3, <1>4, <1>5

LEMMA PrunedFacts ==
    ASSUME TypeOK, NEW n \in 0..Len(idle)
    PROVE  /\ Pruned(n) \in Seq(Conns) /\ Len(Pruned(n)) = Len(idle) - n
           /\ ToSet(Pruned(n)) \subseteq Idle /\ Expired(n) \subseteq Idle
           /\ Distinct(idle) => ToSet(Pruned(n)) = Idle \ Expired(n) /\ Distinct(Pruned(n))
           /\ n = 0 => Pruned(n) = idle
           /\ (Pruned(n) = <<>>) <=> (n = Len(idle))
<1>0. idle \in Seq(Conns) /\ Len(idle) \in Nat
  BY DEF TypeOK
<1>1. /\ Pruned(n) \in Seq(Conns) /\ Len(Pruned(n)) = Len(idle) - n
      /\ ToSet(Pruned(n)) \subseteq Idle /\ Expired(n) \subseteq Idle
      /\ Distinct(idle) => ToSet(Pruned(n)) = Idle \ Expired(n) /\ Distinct(Pruned(n))
  BY <1>0, PruneFacts DEF Pruned, Expired, Idle
<1>2. n = 0 => Pruned(n) = idle
  BY <1>0 DEF Pruned
<1>3. (Pruned(n) = <<>>) <=> (n = Len(idle))
  <2>1. (Pruned(n) = <<>>) <=> (Len(Pruned(n)) = 0)
    BY <1>1, EmptySeq
  <2> QED
    BY <1>0, <1>1, <2>1
<1> QED
  BY <1>1, <1>2, <1>3

LEMMA IdleConns == TypeOK => Idle \subseteq Conns
BY DEF TypeOK, Idle, ToSet

\* try_acquire.
LEMMA TryTypes ==
    ASSUME TypeOK, AcqInv, NEW u \in Users, TryAcquire(u)
    PROVE  TypeOK'
<1> USE Blanks
<1>0. /\ acq[u].phase = "resolved" /\ acq[u].target \in Targets /\ acq[u].db \in Dbs
      /\ resyncReq[<<acq[u].target, acq[u].db>>] < MaxResync
      /\ acq[u] \in AcqType /\ idle \in Seq(Conns) /\ MaxResync \in Nat /\ Len(idle) \in Nat
      /\ total_count \in Nat
  BY ScopeAssumption DEF TryAcquire, AcqInv, TypeOK
<1>1. PICK n \in 0..Len(idle) :
          LET t == acq[u].target  d == acq[u].db IN
          IF Reusable(t, d, n) # {} THEN Reuse(u, Newest(Reusable(t, d, n)))
          ELSE IF WrongDb(t, d, n) # {} THEN NeedsResync(u, n)
          ELSE Reserve(u, n) \/ Exhausted(u, n)
  BY DEF TryAcquire
<1>2. /\ UNCHANGED <<prewarm, resyncing, cleanup, envVars, released, toRelease, astray, cmd>>
      /\ lock' = NoUser
  BY DEF TryAcquire
<1> DEFINE t == acq[u].target
           d == acq[u].db
<1>3. CASE Reusable(t, d, n) # {} /\ Reuse(u, Newest(Reusable(t, d, n)))
  <2> DEFINE i == Newest(Reusable(t, d, n))
  <2>1. i \in 1..Len(idle) /\ idle[i] \in Conns
    BY <1>3, PositionFacts
  <2> HIDE DEF i
  <2>2. Reuse(u, i)
    BY <1>3 DEF i
  <2>3. idle' \in Seq(Conns)
    BY <1>0, <2>1, <2>2, RemoveFacts DEF Reuse, Taken
  <2>4. conn' \in [Conns -> ConnType]
    <3>1. conn[idle[i]].st.selected_db \in Dbs
      BY <2>1 DEF TypeOK, ConnType, ConnectionState
    <3>2. begin_borrow(conn[idle[i]].st.selected_db, acq[u].db) \in ConnectionState
      BY <1>0, <3>1, BorrowType
    <3> DEFINE b == begin_borrow(conn[idle[i]].st.selected_db, acq[u].db)
               k == [conn[idle[i]] EXCEPT !.st = b]
    <3>3. conn' = [conn EXCEPT ![idle[i]] = k]
      BY <2>1, <2>2 DEF Reuse, TypeOK
    <3> HIDE DEF b
    <3>4. k \in ConnType
      BY <2>1, <3>2 DEF TypeOK, ConnType, b
    <3> HIDE DEF k
    <3> QED
      BY <2>1, <3>3, <3>4 DEF TypeOK
  <2>5. acq' \in [Users -> AcqType] /\ holds' \in [Users -> Conns \cup {NoConn}]
    BY <2>1, <2>2 DEF Reuse, TypeOK
  <2> QED
    BY <1>2, <2>1, <2>2, <2>3, <2>4, <2>5 DEF Reuse, TypeOK, envVars
<1>4. CASE NeedsResync(u, n)
  <2>1. /\ idle' \in Seq(Conns) /\ conn' \in [Conns -> ConnType]
    BY <1>4, PrunedFacts, DiscardFacts DEF NeedsResync
  <2>2. resyncReq' \in [Targets \X Dbs -> 0..MaxResync]
    BY <1>0, <1>4 DEF NeedsResync, TypeOK
  <2>3. acq' \in [Users -> AcqType]
    BY ZenonT(60), <1>0, <1>4 DEF NeedsResync, TypeOK, AcqType
  <2>4. total_count' \in Nat
    BY <1>0, <1>4 DEF NeedsResync, DecBy
  <2> QED
    BY <1>2, <1>4, <2>1, <2>2, <2>3, <2>4 DEF NeedsResync, TypeOK, envVars
<1>5. CASE Reserve(u, n)
  <2> DEFINE full == DecBy(total_count, n) >= MaxTotal
             k == n + IF full THEN 1 ELSE 0
  <2>0. DecBy(total_count, n) \in Nat
    BY <1>0 DEF DecBy
  <2>1. k \in 0..Len(idle)
    <3>1. full => n # Len(idle)
      BY <1>5, PrunedFacts DEF Reserve
    <3> QED
      BY <1>0, <3>1
  <2>2. idle' = Pruned(k) /\ Discard(Expired(k))
    BY <1>5 DEF Reserve
  <2> HIDE DEF k
  <2>3. idle' \in Seq(Conns) /\ conn' \in [Conns -> ConnType]
    BY <2>1, <2>2, PrunedFacts, DiscardFacts
  <2>4. total_count' \in Nat
    BY <1>5, <2>0 DEF Reserve, Evicted, saturating_dec
  <2>5. acq' \in [Users -> AcqType]
    BY <1>0, <1>5 DEF Reserve, TypeOK, AcqType
  <2>6. dial' \in [Dials -> DialType]
    BY <1>0, <1>5 DEF Reserve, TypeOK, DialType
  <2> QED
    BY <1>2, <1>5, <2>3, <2>4, <2>5, <2>6 DEF Reserve, TypeOK, envVars
<1>6. CASE Exhausted(u, n)
  <2>1. conn' \in [Conns -> ConnType]
    BY <1>6, DiscardFacts DEF Exhausted
  <2>2. acq' \in [Users -> AcqType]
    BY ZenonT(60), <1>0, <1>6 DEF Exhausted, TypeOK, AcqType
  <2>3. total_count' \in Nat
    BY <1>0, <1>6 DEF Exhausted, DecBy
  <2> QED
    BY <1>2, <1>6, <2>1, <2>2, <2>3 DEF Exhausted, TypeOK, envVars
<1> QED
  BY <1>1, <1>3, <1>4, <1>5, <1>6

\* The user's side: acquire loop and commands.
LEMMA LoopTypes ==
    ASSUME TypeOK, NEW u \in Users,
           \/ \E t \in Targets : BeginAcquire(u, t)
           \/ Resolve(u) \/ Wake(u) \/ BackoffElapsed(u) \/ GiveUp(u)
    PROVE  TypeOK'
<1> USE Blanks
<1>0. acq[u] \in AcqType /\ runtimeDb \in Dbs
  BY DEF TypeOK
<1>1. ASSUME NEW t \in Targets, BeginAcquire(u, t)
      PROVE  TypeOK'
  <2> DEFINE b == [NoAcq EXCEPT !.phase = "armed", !.target = t]
  <2>1. b \in AcqType
    BY DEF AcqType, NoAcq
  <2> HIDE DEF b
  <2>2. acq' = [acq EXCEPT ![u] = b] \/ acq' = acq
    BY <1>1 DEF BeginAcquire, b
  <2>3. acq' \in [Users -> AcqType] /\ mapped' \in {"pool", "none", "orphan"}
    BY <1>1, <2>1, <2>2 DEF BeginAcquire, TypeOK
  <2> QED
    BY <1>1, <2>3 DEF BeginAcquire, TypeOK, poolVars, taskVars, userVars
<1>2. CASE Resolve(u)
  <2> DEFINE b == [acq[u] EXCEPT !.phase = "sleeping", !.cause = "unresolved"]
             r == [acq[u] EXCEPT !.phase = "resolved", !.db = runtimeDb]
  <2>1. b \in AcqType /\ r \in AcqType
    BY <1>0 DEF AcqType
  <2>2. \/ acq' = [acq EXCEPT ![u] = NoAcq] \/ acq' = [acq EXCEPT ![u] = b]
        \/ acq' = [acq EXCEPT ![u] = r]
    BY <1>2 DEF Resolve, TypeOK
  <2> HIDE DEF b, r
  <2>3. acq' \in [Users -> AcqType]
    BY <2>1, <2>2 DEF TypeOK
  <2>4. lock' \in Users \cup {NoUser}
    BY <1>2 DEF Resolve, TypeOK
  <2> QED
    BY <1>2, <2>3, <2>4 DEF Resolve, TypeOK, taskVars, userVars, envVars
<1>3. CASE Wake(u) \/ BackoffElapsed(u)
  <2>1. acq' \in [Users -> AcqType]
    BY <1>3, ArmFacts DEF Wake, BackoffElapsed, TypeOK
  <2> QED
    BY <1>3, <2>1 DEF Wake, BackoffElapsed, TypeOK, poolVars, taskVars, userVars, envVars
<1>4. CASE GiveUp(u)
  <2>1. acq' \in [Users -> AcqType]
    BY <1>4 DEF GiveUp, TypeOK
  <2>2. dial' \in [Dials -> DialType]
    <3>1. ASSUME NEW d \in Dials
          PROVE  dial[d] \in DialType /\ [dial[d] EXCEPT !.owner = NoUser] \in DialType
      <4>1. dial[d] \in DialType
        BY DEF TypeOK
      <4> QED
        BY <4>1 DEF DialType
    <3> QED
      BY <1>4, <3>1 DEF GiveUp
  <2> QED
    BY <1>4, <2>1, <2>2 DEF GiveUp, TypeOK, poolVars, userVars, envVars
<1> QED
  BY <1>1, <1>2, <1>3, <1>4

\* What a command may leave behind is a record and a server's state.
LEMMA CommandTypes ==
    ASSUME TypeOK, CmdIdInv, NEW u \in Users,
           \/ \E c \in scenario.cmds : Issue(u, c)
           \/ Dispatch(u) \/ Execute(u) \/ Complete(u)
    PROVE  TypeOK'
<1> USE Blanks
<1>0. /\ cmd[u] \in CmdType /\ cmd[u].c \in Command /\ scenario.cmds \subseteq Command
      /\ cmd[u].c.op = "SELECT" => cmd[u].c.db \in Dbs
  <2>1. cmd[u] \in CmdType /\ cmd[u].c \in Command
    BY DEF TypeOK, CmdType
  <2>2. scenario.cmds \subseteq Command
    BY ScopeAssumption DEF TypeOK
  <2> QED
    BY <2>1, <2>2, CommandDb
<1>1. ASSUME NEW c \in scenario.cmds, Issue(u, c)
      PROVE  TypeOK'
  <2> DEFINE b == [NoCmd EXCEPT !.phase = "sent", !.id = holds[u], !.c = c]
  <2>1. b \in CmdType
    BY <1>0 DEF CmdType, NoCmd, TypeOK
  <2>2. cmd' = [cmd EXCEPT ![u] = b]
    BY <1>1 DEF Issue
  <2> HIDE DEF b
  <2>3. cmd' \in [Users -> CmdType]
    BY <2>1, <2>2 DEF TypeOK
  <2> QED
    BY <1>1, <2>3 DEF Issue, TypeOK, poolVars, taskVars, userVars, envVars
<1>2. CASE Dispatch(u)
  <2>1. cmd' \in [Users -> CmdType]
    <3> DEFINE b == [cmd[u] EXCEPT !.phase = "found"]
    <3>1. b \in CmdType
      BY <1>0 DEF CmdType
    <3>2. cmd' = [cmd EXCEPT ![u] = NoCmd] \/ cmd' = [cmd EXCEPT ![u] = b]
      BY <1>2 DEF Dispatch, TypeOK
    <3> HIDE DEF b
    <3> QED
      BY <3>1, <3>2 DEF TypeOK
  <2> QED
    BY <1>2, <2>1 DEF Dispatch, TypeOK, poolVars, taskVars, userVars, envVars
<1>3. CASE Execute(u)
  <2> DEFINE id == cmd[u].id
             c == cmd[u].c
             st == conn[id].st
  <2>1. id \in Conns /\ st \in ConnectionState
    BY <1>3 DEF Execute, CmdIdInv, TypeOK, ConnType
  <2>2. update_state_for_command(st, c) \in ConnectionState /\ Tracked(st, c) \in ConnectionState
    BY <1>0, <2>1, UpdateType, TrackedType
  <2>3. conn' \in [Conns -> ConnType]
    <3>1. PICK new \in ConnectionState : conn' = Record(u, new)
      BY <1>3, <2>2 DEF Execute
    <3> QED
      BY <2>1, <3>1, RecordFacts
  <2>4. st.blocking_in_flight \in BOOLEAN /\ st.multi_active \in BOOLEAN
    BY <2>1 DEF ConnectionState
  <2>5. cmd' \in [Users -> CmdType]
    <3> HIDE DEF st
    <3> DEFINE b == [cmd[u] EXCEPT !.phase = "running", !.poisoned = st.blocking_in_flight,
                                   !.defer = st.multi_active]
    <3>1. b \in CmdType
      BY <1>0, <2>4 DEF CmdType
    <3>2. cmd' = [cmd EXCEPT ![u] = NoCmd] \/ cmd' = [cmd EXCEPT ![u] = b]
      BY <1>3 DEF Execute, TypeOK, st
    <3> HIDE DEF b
    <3> QED
      BY <3>1, <3>2 DEF TypeOK
  <2>6. astray' \subseteq Conns
    BY <1>3, <2>1 DEF Execute, TypeOK
  <2> QED
    BY <1>3, <2>3, <2>5, <2>6 DEF Execute, TypeOK, poolVars, taskVars, envVars
<1>4. CASE Complete(u)
  <2> DEFINE id == cmd[u].id
             c == cmd[u].c
             st == conn[id].st
             un == Unmarked(u, st)
  <2>1. id \in Conns /\ st \in ConnectionState /\ conn[id].server \in ServerState
    BY <1>4 DEF Complete, CmdIdInv, TypeOK, ConnType
  <2>2. un \in ConnectionState
    <3>1. cmd[u].poisoned \in BOOLEAN
      BY <1>0 DEF CmdType
    <3> QED
      BY <2>1, <3>1 DEF Unmarked, ConnectionState
  <2> HIDE DEF un, st
  <2>3. ASSUME Answered(u)
        PROVE  conn' \in [Conns -> ConnType]
    <3> DEFINE r == Record(u, un)
    <3>1. r \in [Conns -> ConnType] /\ r[id] \in ConnType
      BY <2>1, <2>2, RecordFacts
    <3>2. \/ \E s \in ServerAfter(conn[id].server, cmd[u].c) :
                conn' = IF IsOpen(id) THEN [r EXCEPT ![id].server = s] ELSE conn
          \/ conn' = r \/ conn' = conn
      BY <2>3 DEF Answered, un, st
    <3> HIDE DEF r
    <3>3. CASE conn' = r \/ conn' = conn
      BY <3>1, <3>3 DEF TypeOK
    <3>4. ASSUME NEW s \in ServerAfter(conn[id].server, cmd[u].c),
                 conn' = IF IsOpen(id) THEN [r EXCEPT ![id].server = s] ELSE conn
          PROVE  conn' \in [Conns -> ConnType]
      <4>1. s \in ServerState
        BY <1>0, <2>1, <3>4, ServerAfterType
      <4> DEFINE k == [r[id] EXCEPT !.server = s]
      <4>2. conn' = [r EXCEPT ![id] = k] \/ conn' = conn
        BY <2>1, <3>1, <3>4
      <4>3. k \in ConnType
        BY <3>1, <4>1 DEF ConnType
      <4> HIDE DEF k
      <4> QED
        BY <2>1, <3>1, <4>2, <4>3 DEF TypeOK
    <3> QED
      BY <3>2, <3>3, <3>4
  <2>4. ASSUME Poisoned(u)
        PROVE  conn' \in [Conns -> ConnType]
    <3>1. (conn[id].server.waiter \/ ~conn[id].server.multi) \in BOOLEAN
      OBVIOUS
    <3> DEFINE w == conn[id].server.waiter \/ ~conn[id].server.multi
               sv == [conn[id].server EXCEPT !.waiter = w]
               k == [conn[id] EXCEPT !.server = sv]
    <3>2. conn' = [conn EXCEPT ![id] = k] \/ conn' = conn
      BY <2>1, <2>4 DEF Poisoned, TypeOK
    <3> HIDE DEF w
    <3>3. sv \in ServerState
      BY <2>1, <3>1 DEF ServerState, w
    <3> HIDE DEF sv
    <3>4. k \in ConnType
      BY <2>1, <3>3 DEF TypeOK, ConnType
    <3> HIDE DEF k
    <3> QED
      BY <2>1, <3>2, <3>4 DEF TypeOK
  <2>5. ASSUME AuthFailed(u)
        PROVE  conn' \in [Conns -> ConnType]
    <3>1. [un EXCEPT !.must_discard = TRUE] \in ConnectionState
      BY <2>2 DEF ConnectionState
    <3>2. conn' = Record(u, [un EXCEPT !.must_discard = TRUE]) \/ conn' = conn
      BY <2>5 DEF AuthFailed, un, st
    <3> QED
      BY <2>1, <3>1, <3>2, RecordFacts DEF TypeOK
  <2>6. conn' \in [Conns -> ConnType]
    BY <1>4, <2>3, <2>4, <2>5 DEF Complete, TypeOK
  <2>7. cmd' \in [Users -> CmdType]
    BY <1>4 DEF Complete, TypeOK
  <2>8. astray' \subseteq Conns
    BY <1>4, <2>1 DEF Complete, Answered, Poisoned, AuthFailed, TypeOK
  <2> QED
    BY <1>4, <2>6, <2>7, <2>8 DEF Complete, TypeOK, poolVars, taskVars, envVars
<1> QED
  BY <1>1, <1>2, <1>3, <1>4

\* release_inner and release_scope.
LEMMA ReleaseTypes ==
    ASSUME TypeOK, NEW id \in Conns, DoRelease(id)
    PROVE  /\ idle' \in Seq(Conns) /\ in_use' \subseteq Conns /\ total_count' \in Nat
           /\ registry' \subseteq Conns /\ conn' \in [Conns -> ConnType]
           /\ cleanup' \in [Conns -> CleanupType] /\ acq' \in [Users -> AcqType]
           /\ cmd' \in [Users -> CmdType] /\ astray' \subseteq Conns
<1>0. /\ idle \in Seq(Conns) /\ total_count \in Nat /\ acq \in [Users -> AcqType]
      /\ conn[id] \in ConnType /\ conn[id].st \in ConnectionState
      /\ conn[id].st.selected_db \in Dbs /\ conn[id].st.parent_db \in Dbs
  BY DEF TypeOK, ConnType, ConnectionState
<1>a. astray' \subseteq Conns
  BY DEF DoRelease, TypeOK
<1>1. CASE id \notin in_use \cap registry
  BY <1>1, <1>a DEF DoRelease, TypeOK
<1>2. CASE id \in in_use \cap registry
  <2>1. in_use' \subseteq Conns /\ registry' \subseteq Conns /\ acq' \in [Users -> AcqType]
    BY <1>0, <1>2, NotifyFacts DEF DoRelease, TypeOK, WakeAfterRelease
  <2>2. idle' = idle \/ idle' = Append(idle, id)
    BY <1>2 DEF DoRelease
  <2>3. idle' \in Seq(Conns)
    BY <1>0, <2>2, AppendFacts
  <2>4. total_count' \in Nat
    <3>1. total_count' = total_count \/ total_count' = saturating_dec(total_count)
      BY <1>2 DEF DoRelease
    <3> QED
      BY <1>0, <3>1 DEF saturating_dec
  <2> DEFINE k == [conn[id] EXCEPT !.st = begin_borrow(@.selected_db, @.selected_db)]
             q == [phase |-> "queued", pool |-> mapped = "pool"]
  <2>5. k \in ConnType
    <3> DEFINE b == begin_borrow(conn[id].st.selected_db, conn[id].st.selected_db)
    <3>1. b \in ConnectionState /\ k = [conn[id] EXCEPT !.st = b]
      BY <1>0, BorrowType
    <3> HIDE DEF b
    <3> QED
      BY <1>0, <3>1 DEF ConnType
  <2>6. q \in CleanupType
    BY DEF CleanupType
  <2>7. conn' = conn \/ conn' = [conn EXCEPT ![id] = k] \/ Discard({id})
    BY <1>2 DEF DoRelease, TypeOK
  <2>8. cleanup' = cleanup \/ cleanup' = [cleanup EXCEPT ![id] = q]
    BY <1>2 DEF DoRelease
  <2> HIDE DEF k, q
  <2>9. conn' \in [Conns -> ConnType] /\ cleanup' \in [Conns -> CleanupType]
    BY <2>5, <2>6, <2>7, <2>8, DiscardFacts DEF TypeOK
  <2>10. cmd' = cmd \/ cmd' = Orphaned(id)
    BY <1>2 DEF DoRelease
  <2>11. cmd' \in [Users -> CmdType]
    BY <2>10, OrphanedFacts DEF TypeOK
  <2> QED
    BY <1>a, <2>1, <2>3, <2>4, <2>9, <2>11
<1> QED
  BY <1>1, <1>2

LEMMA ReleaseScopeTypes ==
    ASSUME TypeOK, NEW u \in Users, NEW id \in Conns, ReleaseScope(u, id)
    PROVE  /\ idle' \in Seq(Conns) /\ in_use' \subseteq Conns /\ total_count' \in Nat
           /\ registry' \subseteq Conns /\ conn' \in [Conns -> ConnType]
           /\ cleanup' \in [Conns -> CleanupType] /\ acq' \in [Users -> AcqType]
           /\ cmd' \in [Users -> CmdType] /\ toRelease' \subseteq Users \X Conns
           /\ astray' \subseteq Conns
<1>1. toRelease' = toRelease \/ toRelease' = toRelease \cup {<<u, id>>}
  BY DEF ReleaseScope
<1>2. toRelease' \subseteq Users \X Conns
  BY <1>1 DEF TypeOK
<1>3. \/ DoRelease(id)
      \/ UNCHANGED <<idle, in_use, total_count, registry, conn, cleanup, acq, astray, cmd>>
  BY DEF ReleaseScope
<1> QED
  BY <1>2, <1>3, ReleaseTypes DEF TypeOK

LEMMA GiveBackTypes ==
    ASSUME TypeOK, NEW u \in Users,
           \/ Release(u) \/ ReleaseAgain(u)
           \/ \E id \in Conns : DeferredRelease(u, id)
    PROVE  TypeOK'
<1>0. holds[u] \in Conns \cup {NoConn} /\ released[u] \in Conns \cup {NoConn}
  BY DEF TypeOK
<1>1. CASE Release(u)
  <2>1. holds[u] \in Conns /\ ReleaseScope(u, holds[u])
    BY <1>0, <1>1 DEF Release
  <2>2. /\ holds' \in [Users -> Conns \cup {NoConn}] /\ released' \in [Users -> Conns \cup {NoConn}]
    BY <1>0, <1>1 DEF Release, TypeOK
  <2> QED
    BY <1>1, <2>1, <2>2, ReleaseScopeTypes DEF Release, TypeOK, envVars
<1>2. CASE ReleaseAgain(u)
  <2>1. released[u] \in Conns /\ ReleaseScope(u, released[u])
    BY <1>0, <1>2 DEF ReleaseAgain
  <2>2. released' \in [Users -> Conns \cup {NoConn}]
    BY <1>2 DEF ReleaseAgain, TypeOK
  <2> QED
    BY <1>2, <2>1, <2>2, ReleaseScopeTypes DEF ReleaseAgain, TypeOK, envVars
<1>3. ASSUME NEW id \in Conns, DeferredRelease(u, id)
      PROVE  TypeOK'
  <2>1. DoRelease(id) /\ toRelease' \subseteq Users \X Conns
    BY <1>3 DEF DeferredRelease, TypeOK
  <2> QED
    BY <1>3, <2>1, ReleaseTypes DEF DeferredRelease, TypeOK, envVars
<1> QED
  BY <1>1, <1>2, <1>3

LEMMA DialTypes ==
    ASSUME TypeOK, DialInv,
           PrewarmStart \/ \E d \in Dials : DialConnects(d) \/ DialSeats(d) \/ DialFails(d)
    PROVE  TypeOK'
<1>0. /\ total_count \in Nat /\ runtimeDb \in Dbs /\ acq \in [Users -> AcqType]
      /\ dial \in [Dials -> DialType] /\ conn \in [Conns -> ConnType] /\ prewarm \in Nat
  BY DEF TypeOK
<1>1. CASE PrewarmStart
  <2>1. dial' \in [Dials -> DialType]
    <3>1. ASSUME NEW t \in Targets
          PROVE  [phase |-> "dialing", target |-> t, db |-> NoDb, owner |-> NoUser] \in DialType
      BY DEF DialType
    <3> QED
      BY <1>0, <1>1, <3>1 DEF PrewarmStart
  <2>2. total_count' \in Nat /\ prewarm' \in Nat
    BY <1>0, <1>1 DEF PrewarmStart
  <2> QED
    BY <1>1, <2>1, <2>2 DEF PrewarmStart, TypeOK, envVars, userVars
<1>2. ASSUME NEW d \in Dials, DialConnects(d)
      PROVE  TypeOK'
  <2> DEFINE b == [dial[d] EXCEPT !.phase = "connected", !.db = runtimeDb]
  <2>1. b \in DialType
    <3>1. dial[d] \in DialType
      BY <1>0
    <3> QED
      BY <1>0, <3>1 DEF DialType
  <2>2. dial' = [dial EXCEPT ![d] = b]
    BY <1>0, <1>2 DEF DialConnects
  <2> HIDE DEF b
  <2>3. dial' \in [Dials -> DialType]
    BY <1>0, <2>1, <2>2
  <2> QED
    BY <1>2, <2>3 DEF DialConnects, TypeOK, poolVars, envVars, userVars
<1>3. ASSUME NEW d \in Dials, DialSeats(d)
      PROVE  TypeOK'
  <2>0. dial[d].target \in Targets /\ dial[d].db \in Dbs /\ dial[d].owner \in Users \cup {NoUser}
    BY <1>0, <1>3 DEF DialSeats, DialInv, DialType
  <2>1. PICK c \in Conns :
            /\ idle' = Append(idle, c)
            /\ conn' = [conn EXCEPT ![c] = Opened(dial[d].target, dial[d].db)]
            /\ astray' = astray \ {c}
    BY <1>3 DEF DialSeats
  <2>2. idle' \in Seq(Conns)
    BY <2>1, AppendFacts DEF TypeOK
  <2>3. conn' \in [Conns -> ConnType]
    BY <1>0, <2>0, <2>1, Blanks
  <2>4. acq' \in [Users -> AcqType]
    BY <1>0, <1>3, <2>0, NotifyFacts, ArmFacts DEF DialSeats
  <2>5. dial' \in [Dials -> DialType]
    BY <1>0, <1>3, Blanks DEF DialSeats
  <2> QED
    BY <1>3, <2>1, <2>2, <2>3, <2>4, <2>5 DEF DialSeats, TypeOK, envVars
<1>4. ASSUME NEW d \in Dials, DialFails(d)
      PROVE  TypeOK'
  <2> DEFINE a == NotifyAll(acq)
             u == dial[d].owner
             b == [a[u] EXCEPT !.phase = "backoff"]
  <2>0. u \in Users \cup {NoUser} /\ a \in [Users -> AcqType]
    BY <1>0, NotifyFacts DEF DialType
  <2>1. u \in Users => b \in AcqType
    <3>1. u \in Users => a[u] \in AcqType
      BY <2>0
    <3> QED
      BY <3>1 DEF AcqType
  <2>2. acq' = a \/ acq' = [a EXCEPT ![u] = NoAcq] \/ (acq' = [a EXCEPT ![u].phase = "backoff"] /\ u # NoUser)
    BY <1>4 DEF DialFails
  <2> HIDE DEF a, u
  <2>3. acq' = a \/ acq' = [a EXCEPT ![u] = NoAcq] \/ (acq' = [a EXCEPT ![u] = b] /\ u \in Users)
    BY <2>0, <2>2
  <2> HIDE DEF b
  <2>4. acq' \in [Users -> AcqType]
    BY <2>0, <2>1, <2>3, Blanks
  <2>5. dial' \in [Dials -> DialType]
    BY <1>0, <1>4, Blanks DEF DialFails
  <2>6. total_count' \in Nat
    BY <1>0, <1>4 DEF DialFails, ReservationDropped, saturating_dec
  <2> QED
    BY <1>4, <2>4, <2>5, <2>6 DEF DialFails, TypeOK, envVars, userVars
<1> QED
  BY <1>1, <1>2, <1>3, <1>4

LEMMA ResyncTypes ==
    ASSUME TypeOK,
           \/ \E t \in Targets, d \in Dbs : ResyncTake(t, d)
           \/ \E c \in Conns : ResyncSucceeds(c) \/ ResyncFails(c)
    PROVE  TypeOK'
<1>0. /\ total_count \in Nat /\ idle \in Seq(Conns) /\ Len(idle) \in Nat /\ MaxResync \in Nat
      /\ conn \in [Conns -> ConnType] /\ acq \in [Users -> AcqType]
      /\ resyncing \in [Conns -> Dbs \cup {NoDb}]
      /\ resyncReq \in [Targets \X Dbs -> 0..MaxResync]
  BY ScopeAssumption DEF TypeOK
<1>1. ASSUME NEW t \in Targets, NEW d \in Dbs, ResyncTake(t, d)
      PROVE  TypeOK'
  <2>1. resyncReq' \in [Targets \X Dbs -> 0..MaxResync]
    BY <1>0, <1>1 DEF ResyncTake
  <2> DEFINE W == WrongDb(t, d, 0)
             i == Newest(W)
  <2>2. W # {} => i \in 1..Len(idle) /\ idle[i] \in Conns
    BY <1>0, PositionFacts
  <2>3. \/ UNCHANGED <<idle, resyncing>>
        \/ /\ W # {} /\ idle' = RemoveAt(idle, i)
           /\ resyncing' = [resyncing EXCEPT ![idle[i]] = d]
    BY <1>1 DEF ResyncTake
  <2> HIDE DEF W, i
  <2>4. idle' \in Seq(Conns) /\ resyncing' \in [Conns -> Dbs \cup {NoDb}]
    <3>1. CASE UNCHANGED <<idle, resyncing>>
      BY <1>0, <3>1
    <3>2. CASE /\ W # {} /\ idle' = RemoveAt(idle, i)
               /\ resyncing' = [resyncing EXCEPT ![idle[i]] = d]
      <4>1. i \in 1..Len(idle) /\ idle[i] \in Conns
        BY <2>2, <3>2
      <4>2. idle' \in Seq(Conns)
        BY <1>0, <3>2, <4>1, RemoveFacts
      <4>3. resyncing' \in [Conns -> Dbs \cup {NoDb}]
        BY <1>0, <3>2, <4>1
      <4> QED
        BY <4>2, <4>3
    <3> QED
      BY <2>3, <3>1, <3>2
  <2> QED
    BY <1>1, <2>1, <2>4 DEF ResyncTake, TypeOK, envVars, userVars
<1>2. ASSUME NEW c \in Conns, ResyncSucceeds(c)
      PROVE  TypeOK'
  <2> DEFINE b == begin_borrow(resyncing[c], resyncing[c])
             s == CleanupStep(conn[c].server, TRUE, Select(resyncing[c]))
             k == [conn[c] EXCEPT !.st = b, !.server = s]
  <2>0. resyncing[c] \in Dbs /\ conn[c] \in ConnType /\ conn[c].server \in ServerState
    BY <1>0, <1>2 DEF ResyncSucceeds, ConnType
  <2>1. b \in ConnectionState
    BY <2>0, BorrowType
  <2>2. s \in ServerState
    BY <2>0, CleanupStepType DEF Select
  <2>3. conn' = [conn EXCEPT ![c] = k]
    BY <1>0, <1>2 DEF ResyncSucceeds
  <2> HIDE DEF b, s
  <2>4. k \in ConnType
    BY <2>0, <2>1, <2>2 DEF ConnType
  <2> HIDE DEF k
  <2>5. conn' \in [Conns -> ConnType]
    BY <1>0, <2>3, <2>4
  <2>6. idle' \in Seq(Conns) /\ acq' \in [Users -> AcqType]
    BY <1>0, <1>2, AppendFacts, NotifyFacts DEF ResyncSucceeds
  <2>7. resyncing' \in [Conns -> Dbs \cup {NoDb}]
    BY <1>0, <1>2 DEF ResyncSucceeds
  <2> QED
    BY <1>2, <2>5, <2>6, <2>7 DEF ResyncSucceeds, TypeOK, envVars, userVars
<1>3. ASSUME NEW c \in Conns, ResyncFails(c)
      PROVE  TypeOK'
  <2>1. conn' \in [Conns -> ConnType]
    BY <1>3, DiscardFacts DEF ResyncFails
  <2>2. acq' \in [Users -> AcqType] /\ resyncing' \in [Conns -> Dbs \cup {NoDb}]
    BY <1>0, <1>3, NotifyFacts DEF ResyncFails
  <2>3. total_count' \in Nat
    BY <1>0, <1>3 DEF ResyncFails, ReservationDropped, saturating_dec
  <2> QED
    BY <1>3, <2>1, <2>2, <2>3 DEF ResyncFails, TypeOK, envVars, userVars
<1> QED
  BY <1>1, <1>2, <1>3

LEMMA CleanupTypes ==
    ASSUME TypeOK, \E c \in Conns : CleanupSends(c) \/ CleanupEnds(c)
    PROVE  TypeOK'
<1>0. /\ total_count \in Nat /\ idle \in Seq(Conns) /\ cleanup \in [Conns -> CleanupType]
      /\ conn \in [Conns -> ConnType] /\ acq \in [Users -> AcqType]
  BY DEF TypeOK
<1>1. ASSUME NEW c \in Conns, CleanupSends(c)
      PROVE  TypeOK'
  <2> DEFINE s == Cleaned(conn[c].st, conn[c].server)
             k == [conn[c] EXCEPT !.server = s]
             p == [cleanup[c] EXCEPT !.phase = "cleaned"]
             q == [cleanup[c] EXCEPT !.phase = "failed"]
  <2>0. /\ conn[c] \in ConnType /\ conn[c].server \in ServerState /\ conn[c].st \in ConnectionState
        /\ cleanup[c] \in CleanupType
    BY <1>0 DEF ConnType
  <2>1. s \in ServerState
    BY <2>0, CleanedType
  <2>2. conn' = [conn EXCEPT ![c] = k] \/ conn' = conn
    BY <1>0, <1>1 DEF CleanupSends
  <2>3. cleanup' = [cleanup EXCEPT ![c] = p] \/ cleanup' = [cleanup EXCEPT ![c] = q]
    BY <1>0, <1>1 DEF CleanupSends
  <2> HIDE DEF s
  <2>4. k \in ConnType
    BY <2>0, <2>1 DEF ConnType
  <2>5. p \in CleanupType /\ q \in CleanupType
    BY <2>0 DEF CleanupType
  <2> HIDE DEF k, p, q
  <2>6. conn' \in [Conns -> ConnType] /\ cleanup' \in [Conns -> CleanupType]
    BY <1>0, <2>2, <2>3, <2>4, <2>5
  <2> QED
    BY <1>1, <2>6 DEF CleanupSends, TypeOK, poolVars, envVars, userVars
<1>2. ASSUME NEW c \in Conns, CleanupEnds(c)
      PROVE  TypeOK'
  <2> DEFINE b == begin_borrow(conn[c].st.parent_db, conn[c].st.parent_db)
             k == [conn[c] EXCEPT !.st = b]
  <2>0. conn[c] \in ConnType /\ conn[c].st.parent_db \in Dbs
    BY <1>0 DEF ConnType, ConnectionState
  <2>1. b \in ConnectionState
    BY <2>0, BorrowType
  <2>2. conn' = [conn EXCEPT ![c] = k] \/ Discard({c})
    BY <1>0, <1>2 DEF CleanupEnds
  <2> HIDE DEF b
  <2>3. k \in ConnType
    BY <2>0, <2>1 DEF ConnType
  <2> HIDE DEF k
  <2>4. conn' \in [Conns -> ConnType]
    BY <1>0, <2>2, <2>3, DiscardFacts
  <2>5. idle' \in Seq(Conns)
    <3>1. idle' = idle \/ idle' = Append(idle, c)
      BY <1>2 DEF CleanupEnds
    <3> QED
      BY <1>0, <3>1, AppendFacts
  <2>6. acq' \in [Users -> AcqType]
    <3>1. acq' = acq \/ acq' = NotifyAll(acq)
      BY <1>2 DEF CleanupEnds
    <3> QED
      BY <1>0, <3>1, NotifyFacts
  <2>7. total_count' \in Nat
    <3>1. total_count' = total_count \/ total_count' = saturating_dec(total_count)
      BY <1>2 DEF CleanupEnds, CleanupSlot
    <3> QED
      BY <1>0, <3>1 DEF saturating_dec
  <2>8. cmd' \in [Users -> CmdType] /\ cleanup' \in [Conns -> CleanupType]
    BY <1>0, <1>2, OrphanedFacts, Blanks DEF CleanupEnds
  <2> QED
    BY <1>2, <2>4, <2>5, <2>6, <2>7, <2>8 DEF CleanupEnds, TypeOK, envVars, userVars
<1> QED
  BY <1>1, <1>2

LEMMA ParentTypes ==
    ASSUME TypeOK,
           (\E d \in Dbs : ParentSelects(d)) \/ Unregister \/ DropPool \/ SweepRegistry
    PROVE  TypeOK'
<1>1. CASE \E d \in Dbs : ParentSelects(d)
  BY <1>1 DEF ParentSelects, TypeOK, poolVars, taskVars, userVars
<1>2. CASE Unregister
  BY <1>2 DEF Unregister, TypeOK, poolVars, taskVars, userVars
<1>3. CASE DropPool
  <2>1. acq' \in [Users -> AcqType]
    BY <1>3, NotifyFacts DEF DropPool, TypeOK
  <2> QED
    BY <1>3, <2>1 DEF DropPool, TypeOK, poolVars, taskVars, userVars
<1>4. CASE SweepRegistry
  BY <1>4 DEF SweepRegistry, TypeOK, taskVars, userVars
<1> QED
  BY <1>1, <1>2, <1>3, <1>4

\* The disjuncts of Next, each with its witness.
LEMMA NextCases ==
    ASSUME Next
    PROVE  \/ \E u \in Users :
                 \/ \E t \in Targets : BeginAcquire(u, t)
                 \/ Resolve(u) \/ Wake(u) \/ BackoffElapsed(u) \/ GiveUp(u)
           \/ \E u \in Users : TryAcquire(u)
           \/ \E u \in Users :
                 \/ \E c \in scenario.cmds : Issue(u, c)
                 \/ Dispatch(u) \/ Execute(u) \/ Complete(u)
           \/ \E u \in Users :
                 \/ Release(u) \/ ReleaseAgain(u)
                 \/ \E id \in Conns : DeferredRelease(u, id)
           \/ PrewarmStart \/ \E d \in Dials : DialConnects(d) \/ DialSeats(d) \/ DialFails(d)
           \/ \/ \E t \in Targets, d \in Dbs : ResyncTake(t, d)
              \/ \E c \in Conns : ResyncSucceeds(c) \/ ResyncFails(c)
           \/ \E c \in Conns : CleanupSends(c) \/ CleanupEnds(c)
           \/ (\E d \in Dbs : ParentSelects(d)) \/ Unregister \/ DropPool \/ SweepRegistry
BY DEF Next

LEMMA TypesKept ==
    ASSUME TypeOK, AcqInv, CmdIdInv, DialInv, Next
    PROVE  TypeOK'
BY NextCases, LoopTypes, TryTypes, CommandTypes, GiveBackTypes, DialTypes, ResyncTypes,
   CleanupTypes, ParentTypes

LEMMA TypesStutter ==
    ASSUME TypeOK, UNCHANGED vars
    PROVE  TypeOK'
BY DEF TypeOK, vars, poolVars, taskVars, envVars, userVars

-----------------------------------------------------------------------------
(* Attempts, creations and commands keep their bearings *)

\* Steps that at most wake the acquires, and queue no resync.
LEMMA QuietFrame ==
    ASSUME TypeOK, LoopInv, acq' = acq \/ acq' = NotifyAll(acq), lock' = lock, dial' = dial,
           \A td \in Targets \X Dbs : resyncReq[td] < MaxResync => resyncReq'[td] < MaxResync,
           \A u \in Users : cmd'[u].phase # "none" => cmd'[u].id \in Conns
    PROVE  LoopInv'
<1>1. \A u \in Users : /\ acq'[u].phase = acq[u].phase /\ acq'[u].target = acq[u].target
                       /\ acq'[u].db = acq[u].db
  BY NotifyFacts DEF TypeOK
<1>2. AcqInv'
  <2> SUFFICES ASSUME NEW u \in Users
               PROVE  /\ acq'[u].phase # "off" => acq'[u].target \in Targets
                      /\ acq'[u].phase = "resolved" =>
                            /\ lock' = u /\ acq'[u].db \in Dbs
                            /\ resyncReq'[<<acq'[u].target, acq'[u].db>>] < MaxResync
    BY DEF AcqInv
  <2> QED
    BY <1>1 DEF LoopInv, AcqInv
<1>3. \A d \in Dials : dial[d].owner # NoUser => dial[d].owner \in Users
  BY DEF TypeOK, DialType
<1>4. OwnerInv'
  BY <1>1, <1>3 DEF LoopInv, OwnerInv
<1> QED
  BY <1>2, <1>4 DEF LoopInv, CmdIdInv, DialInv

\* Steps of one user's acquire loop.
LEMMA UserFrame ==
    ASSUME TypeOK, LoopInv, NEW u \in Users,
           \A v \in Users : v # u => acq'[v] = acq[v],
           acq'[u].phase # "off" => acq'[u].target \in Targets,
           acq'[u].phase # "resolved",
           \A d \in Dials : dial[d].owner # u,
           lock' = lock \/ (lock = u /\ lock' = NoUser),
           \A v \in Users : acq[v].phase = "resolved" /\ v # u =>
               resyncReq'[<<acq[v].target, acq[v].db>>] < MaxResync,
           cmd' = cmd
    PROVE  /\ AcqInv' /\ CmdIdInv'
           /\ dial' = dial => DialInv' /\ OwnerInv'
<1>1. AcqInv'
  <2> SUFFICES ASSUME NEW v \in Users
               PROVE  /\ acq'[v].phase # "off" => acq'[v].target \in Targets
                      /\ acq'[v].phase = "resolved" =>
                            /\ lock' = v /\ acq'[v].db \in Dbs
                            /\ resyncReq'[<<acq'[v].target, acq'[v].db>>] < MaxResync
    BY DEF AcqInv
  <2> QED
    BY DEF LoopInv, AcqInv
<1>2. CmdIdInv'
  BY DEF LoopInv, CmdIdInv
<1>3. ASSUME dial' = dial
      PROVE  DialInv' /\ OwnerInv'
  <2>1. \A d \in Dials : dial[d].owner # NoUser => dial[d].owner \in Users
    BY DEF TypeOK, DialType
  <2>2. OwnerInv'
    BY <1>3, <2>1 DEF LoopInv, OwnerInv
  <2> QED
    BY <1>3, <2>2 DEF LoopInv, DialInv
<1> QED
  BY <1>1, <1>2, <1>3

\* An attempt that is not waiting for a creation owns none.
LEMMA OwnsNone ==
    ASSUME LoopInv, NEW u \in Users, acq[u].phase # "creating"
    PROVE  \A d \in Dials : dial[d].owner # u
BY ScopeAssumption DEF LoopInv, OwnerInv

LEMMA LoopStep ==
    ASSUME TypeOK, LoopInv, NEW u \in Users,
           \/ \E t \in Targets : BeginAcquire(u, t)
           \/ Resolve(u) \/ Wake(u) \/ BackoffElapsed(u) \/ GiveUp(u)
    PROVE  LoopInv'
<1>0. acq \in [Users -> AcqType] /\ acq[u] \in AcqType
  BY DEF TypeOK
<1>a. \A v \in Users : acq[v].phase = "resolved" => resyncReq[<<acq[v].target, acq[v].db>>] < MaxResync
  BY DEF LoopInv, AcqInv
<1>1. ASSUME NEW t \in Targets, BeginAcquire(u, t)
      PROVE  LoopInv'
  <2>1. /\ \A v \in Users : v # u => acq'[v] = acq[v]
        /\ acq'[u].phase # "off" => acq'[u].target \in Targets
        /\ acq'[u].phase # "resolved"
    BY <1>0, <1>1 DEF BeginAcquire, NoAcq
  <2>2. UNCHANGED <<lock, resyncReq, cmd, dial>>
    BY <1>1 DEF BeginAcquire, poolVars, taskVars
  <2> QED
    BY <1>1, <1>a, <2>1, <2>2, OwnsNone, UserFrame DEF LoopInv, BeginAcquire
<1>2. CASE Resolve(u)
  <2>0. UNCHANGED <<resyncReq, cmd, dial>> /\ acq[u].phase = "armed" /\ lock = NoUser
    BY <1>2 DEF Resolve, taskVars, Unlocked
  <2>1. CASE lock' = lock /\ acq'[u].phase # "resolved"
    <3>1. /\ \A v \in Users : v # u => acq'[v] = acq[v]
          /\ acq'[u].phase # "off" => acq'[u].target \in Targets
      <4>1. acq[u].target \in Targets
        BY <2>0 DEF LoopInv, AcqInv
      <4>2. \/ acq' = [acq EXCEPT ![u] = NoAcq]
            \/ acq' = [acq EXCEPT ![u].phase = "sleeping", ![u].cause = "unresolved"]
            \/ acq' = [acq EXCEPT ![u].phase = "resolved", ![u].db = runtimeDb]
        BY <1>2 DEF Resolve
      <4> QED
        BY <1>0, <4>1, <4>2 DEF NoAcq, AcqType
    <3> QED
      BY <1>a, <2>0, <2>1, <3>1, OwnsNone, UserFrame DEF LoopInv
  <2>2. CASE /\ resyncReq[<<acq[u].target, runtimeDb>>] < MaxResync
             /\ acq' = [acq EXCEPT ![u].phase = "resolved", ![u].db = runtimeDb]
             /\ lock' = u
    <3>1. /\ \A v \in Users : v # u => acq'[v] = acq[v] /\ acq[v].phase # "resolved"
          /\ acq'[u].phase = "resolved" /\ acq'[u].target = acq[u].target
          /\ acq'[u].db = runtimeDb /\ runtimeDb \in Dbs /\ acq[u].target \in Targets
      <4>1. \A v \in Users : acq[v].phase # "resolved"
        BY <2>0, ScopeAssumption DEF LoopInv, AcqInv
      <4>2. runtimeDb \in Dbs
        BY DEF TypeOK
      <4>3. acq[u].target \in Targets
        BY <2>0 DEF LoopInv, AcqInv
      <4> QED
        BY <1>0, <2>2, <4>1, <4>2, <4>3 DEF AcqType
    <3>2. AcqInv'
      <4> SUFFICES ASSUME NEW v \in Users
                   PROVE  /\ acq'[v].phase # "off" => acq'[v].target \in Targets
                          /\ acq'[v].phase = "resolved" =>
                                /\ lock' = v /\ acq'[v].db \in Dbs
                                /\ resyncReq'[<<acq'[v].target, acq'[v].db>>] < MaxResync
        BY DEF AcqInv
      <4>1. CASE v = u
        BY <2>0, <2>2, <3>1, <4>1
      <4>2. CASE v # u
        BY <3>1, <4>2 DEF LoopInv, AcqInv
      <4> QED
        BY <4>1, <4>2
    <3>3. OwnerInv'
      <4>1. \A d \in Dials : dial[d].owner # u
        BY <2>0, OwnsNone
      <4>2. \A d \in Dials : dial[d].owner # NoUser => dial[d].owner \in Users
        BY DEF TypeOK, DialType
      <4> QED
        BY <2>0, <3>1, <4>1, <4>2 DEF LoopInv, OwnerInv
    <3> QED
      BY <2>0, <3>2, <3>3 DEF LoopInv, CmdIdInv, DialInv
  <2>3. acq' = [acq EXCEPT ![u] = NoAcq] => acq'[u].phase # "resolved"
    BY <1>0 DEF NoAcq
  <2>4. acq' = [acq EXCEPT ![u].phase = "sleeping", ![u].cause = "unresolved"]
           => acq'[u].phase # "resolved"
    BY <1>0 DEF AcqType
  <2> QED
    BY <1>2, <2>1, <2>2, <2>3, <2>4 DEF Resolve
<1>3. CASE Wake(u) \/ BackoffElapsed(u)
  <2>1. acq' = Arm(acq, u) /\ acq[u].phase \in {"sleeping", "backoff"} /\ UNCHANGED <<lock, resyncReq, cmd, dial>>
    BY <1>3 DEF Wake, BackoffElapsed, poolVars, taskVars
  <2>2. /\ \A v \in Users : v # u => acq'[v] = acq[v]
        /\ acq'[u].target = acq[u].target /\ acq'[u].phase = "armed"
    BY <1>0, <2>1, ArmFacts
  <2>3. acq[u].target \in Targets
    BY <2>1 DEF LoopInv, AcqInv
  <2> QED
    BY <1>a, <2>1, <2>2, <2>3, OwnsNone, UserFrame DEF LoopInv
<1>4. CASE GiveUp(u)
  <2>0. UNCHANGED <<lock, resyncReq, cmd>> /\ acq[u].phase \in {"armed", "sleeping", "creating", "backoff"}
    BY <1>4 DEF GiveUp, poolVars
  <2>1. /\ \A v \in Users : v # u => acq'[v] = acq[v]
        /\ acq'[u].phase = "off"
    BY <1>0, <1>4 DEF GiveUp, NoAcq
  <2>2. AcqInv'
    <3> SUFFICES ASSUME NEW v \in Users
                 PROVE  /\ acq'[v].phase # "off" => acq'[v].target \in Targets
                        /\ acq'[v].phase = "resolved" =>
                              /\ lock' = v /\ acq'[v].db \in Dbs
                              /\ resyncReq'[<<acq'[v].target, acq'[v].db>>] < MaxResync
      BY DEF AcqInv
    <3> QED
      BY <2>0, <2>1 DEF LoopInv, AcqInv
  <2>3. \A d \in Dials : /\ dial'[d].phase = dial[d].phase /\ dial'[d].target = dial[d].target
                         /\ dial'[d].db = dial[d].db /\ dial'[d].owner # u
                         /\ dial'[d].owner # NoUser => dial'[d].owner = dial[d].owner
    <3> SUFFICES ASSUME NEW d \in Dials
                 PROVE  /\ dial'[d].phase = dial[d].phase /\ dial'[d].target = dial[d].target
                        /\ dial'[d].db = dial[d].db /\ dial'[d].owner # u
                        /\ dial'[d].owner # NoUser => dial'[d].owner = dial[d].owner
      OBVIOUS
    <3>1. dial[d] \in DialType /\ u # NoUser
      BY ScopeAssumption DEF TypeOK
    <3>2. dial'[d] = IF dial[d].owner = u THEN [dial[d] EXCEPT !.owner = NoUser] ELSE dial[d]
      BY <1>4 DEF GiveUp
    <3> QED
      BY <3>1, <3>2 DEF DialType
  <2>4. DialInv'
    BY <2>3 DEF LoopInv, DialInv
  <2>5. OwnerInv'
    <3>1. \A d \in Dials : dial[d].owner # NoUser => dial[d].owner \in Users
      BY DEF TypeOK, DialType
    <3> QED
      BY <2>1, <2>3, <3>1 DEF LoopInv, OwnerInv
  <2> QED
    BY <2>0, <2>2, <2>4, <2>5 DEF LoopInv, CmdIdInv
<1> QED
  BY <1>1, <1>2, <1>3, <1>4

LEMMA TryStep ==
    ASSUME TypeOK, LoopInv, NEW u \in Users, TryAcquire(u)
    PROVE  LoopInv'
<1>0. /\ acq[u].phase = "resolved" /\ acq[u].target \in Targets /\ lock = u /\ lock' = NoUser
      /\ acq \in [Users -> AcqType] /\ acq[u] \in AcqType /\ UNCHANGED cmd
  BY DEF TryAcquire, LoopInv, AcqInv, TypeOK
<1>1. \A v \in Users : v # u => acq[v].phase # "resolved"
  BY <1>0 DEF LoopInv, AcqInv
<1>2. \A d \in Dials : dial[d].owner # u
  BY <1>0, OwnsNone
<1>3. PICK n \in 0..Len(idle) :
          LET t == acq[u].target  d == acq[u].db IN
          IF Reusable(t, d, n) # {} THEN Reuse(u, Newest(Reusable(t, d, n)))
          ELSE IF WrongDb(t, d, n) # {} THEN NeedsResync(u, n)
          ELSE Reserve(u, n) \/ Exhausted(u, n)
  BY DEF TryAcquire
<1>4. ASSUME \/ \E i : Reuse(u, i)
             \/ NeedsResync(u, n) \/ Exhausted(u, n)
      PROVE  LoopInv'
  <2>1. /\ \A v \in Users : v # u => acq'[v] = acq[v]
        /\ acq'[u].phase # "off" => acq'[u].target \in Targets
        /\ acq'[u].phase # "resolved"
    <3>1. \/ acq' = [acq EXCEPT ![u] = NoAcq]
          \/ acq' = [acq EXCEPT ![u].phase = "sleeping", ![u].cause = "pending"]
          \/ acq' = [acq EXCEPT ![u].phase = "sleeping", ![u].cause = "exhausted"]
      BY <1>4 DEF Reuse, NeedsResync, Exhausted
    <3> QED
      BY <1>0, <3>1 DEF NoAcq, AcqType
  <2>2. dial' = dial
    BY <1>4 DEF Reuse, NeedsResync, Exhausted
  <2> QED
    BY <1>0, <1>1, <1>2, <2>1, <2>2, UserFrame DEF LoopInv
<1>5. ASSUME Reserve(u, n)
      PROVE  LoopInv'
  <2>1. /\ \A v \in Users : v # u => acq'[v] = acq[v]
        /\ acq'[u].target \in Targets /\ acq'[u].phase = "creating"
    BY <1>0, <1>5 DEF Reserve, AcqType
  <2>2. AcqInv' /\ CmdIdInv'
    BY <1>0, <1>1, <1>2, <2>1, UserFrame
  <2> DEFINE b == [phase |-> "dialing", target |-> acq[u].target, db |-> NoDb, owner |-> u]
  <2>3. PICK d \in Dials : dial[d].phase = "free" /\ dial' = [dial EXCEPT ![d] = b]
    BY <1>5 DEF Reserve
  <2>4. b.phase = "dialing" /\ b.target = acq[u].target /\ b.owner = u
    OBVIOUS
  <2> HIDE DEF b
  <2>5. dial'[d] = b /\ \A e \in Dials : e # d => dial'[e] = dial[e]
    BY <2>3 DEF TypeOK
  <2>6. DialInv'
    BY <1>0, <2>4, <2>5 DEF LoopInv, DialInv
  <2>7. OwnerInv'
    <3>1. \A e \in Dials : dial[e].owner # NoUser => dial[e].owner \in Users
      BY DEF TypeOK, DialType
    <3> SUFFICES ASSUME NEW e \in Dials, dial'[e].owner # NoUser
                 PROVE  /\ acq'[dial'[e].owner].phase = "creating"
                        /\ \A f \in Dials : dial'[f].owner = dial'[e].owner => f = e
      BY DEF OwnerInv
    <3>2. CASE e = d
      BY <1>2, <2>1, <2>4, <2>5, <3>2
    <3>3. CASE e # d
      <4>1. dial'[e] = dial[e] /\ dial[e].owner # u /\ dial[e].owner \in Users
        BY <1>2, <2>5, <3>1, <3>3
      <4>2. /\ acq[dial[e].owner].phase = "creating"
            /\ \A f \in Dials : dial[f].owner = dial[e].owner => f = e
        BY <4>1 DEF LoopInv, OwnerInv
      <4> QED
        BY <2>1, <2>4, <2>5, <4>1, <4>2
    <3> QED
      BY <3>2, <3>3
  <2> QED
    BY <2>2, <2>6, <2>7 DEF LoopInv
<1> QED
  BY <1>3, <1>4, <1>5

LEMMA DialStep ==
    ASSUME TypeOK, LoopInv,
           PrewarmStart \/ \E d \in Dials : DialConnects(d) \/ DialSeats(d) \/ DialFails(d)
    PROVE  LoopInv'
<1>0. /\ acq \in [Users -> AcqType] /\ dial \in [Dials -> DialType] /\ runtimeDb \in Dbs
      /\ \A d \in Dials : dial[d].owner \in Users \cup {NoUser}
  BY DEF TypeOK, DialType
<1>1. ASSUME NEW d \in Dials, NEW b, dial' = [dial EXCEPT ![d] = b],
             b.phase # "free" => b.target \in Targets,
             b.phase = "connected" => b.db \in Dbs,
             b.owner = NoUser \/ (b.owner = dial[d].owner),
             UNCHANGED <<acq, lock, resyncReq, cmd>>
      PROVE  LoopInv'
  <2>1. dial'[d] = b /\ \A e \in Dials : e # d => dial'[e] = dial[e]
    BY <1>0, <1>1
  <2>2. DialInv'
    BY <1>1, <2>1 DEF LoopInv, DialInv
  <2>3. OwnerInv'
    BY <1>1, <2>1 DEF LoopInv, OwnerInv
  <2> QED
    BY <1>1, <2>2, <2>3 DEF LoopInv, CmdIdInv, AcqInv
<1>2. CASE PrewarmStart
  <2>1. UNCHANGED <<acq, lock, resyncReq, cmd>>
    BY <1>2 DEF PrewarmStart
  <2>2. CASE dial' = dial
    BY <2>1, <2>2 DEF LoopInv, CmdIdInv, AcqInv, DialInv, OwnerInv
  <2>3. CASE dial' # dial
    <3>1. PICK d \in Dials, t \in Targets :
              dial' = [dial EXCEPT ![d] = [phase |-> "dialing", target |-> t, db |-> NoDb, owner |-> NoUser]]
      BY <1>2, <2>3 DEF PrewarmStart
    <3> QED
      BY <1>1, <2>1, <3>1
  <2> QED
    BY <2>2, <2>3
<1>3. ASSUME NEW d \in Dials, DialConnects(d)
      PROVE  LoopInv'
  <2> DEFINE b == [dial[d] EXCEPT !.phase = "connected", !.db = runtimeDb]
  <2>1. dial' = [dial EXCEPT ![d] = b] /\ UNCHANGED <<acq, lock, resyncReq, cmd>>
    BY <1>0, <1>3 DEF DialConnects, poolVars
  <2>2. dial[d] \in DialType /\ dial[d].target \in Targets
    BY <1>0, <1>3 DEF DialConnects, LoopInv, DialInv
  <2>3. b.target \in Targets /\ b.db \in Dbs /\ b.owner = dial[d].owner
    BY <1>0, <2>2 DEF DialType
  <2> HIDE DEF b
  <2> QED
    BY <1>1, <2>1, <2>3
<1>4. ASSUME NEW d \in Dials, DialSeats(d) \/ DialFails(d)
      PROVE  LoopInv'
  <2> DEFINE u == dial[d].owner
             a == NotifyAll(acq)
  <2>1. dial' = [dial EXCEPT ![d] = NoDial] /\ UNCHANGED <<lock, resyncReq, cmd>>
    BY <1>4 DEF DialSeats, DialFails
  <2>2. NoDial.phase = "free" /\ NoDial.owner = NoUser
    BY DEF NoDial
  <2>3. dial'[d] = NoDial /\ \A e \in Dials : e # d => dial'[e] = dial[e]
    BY <1>0, <2>1
  <2>4. DialInv'
    BY <2>2, <2>3 DEF LoopInv, DialInv
  <2>5. /\ a \in [Users -> AcqType]
        /\ \A v \in Users : /\ a[v].phase = acq[v].phase /\ a[v].target = acq[v].target
                            /\ a[v].db = acq[v].db
    BY <1>0, NotifyFacts
  <2>6. u # NoUser => u \in Users /\ acq[u].phase = "creating" /\ acq[u].target \in Targets
    BY <1>0 DEF LoopInv, OwnerInv, AcqInv
  <2>7. \/ acq' = a /\ u = NoUser
        \/ /\ u \in Users
           /\ \A v \in Users : v # u => acq'[v] = a[v]
           /\ acq'[u].phase # "resolved"
           /\ acq'[u].phase # "off" => acq'[u].target = acq[u].target
    <3>1. \/ acq' = a /\ u = NoUser
          \/ u # NoUser /\ (acq' = Arm(a, u) \/ acq' = [a EXCEPT ![u] = NoAcq]
                              \/ acq' = [a EXCEPT ![u].phase = "backoff"])
      BY <1>4 DEF DialSeats, DialFails
    <3> HIDE DEF a, u
    <3>2. CASE u # NoUser /\ acq' = Arm(a, u)
      BY <2>5, <2>6, <3>2, ArmFacts
    <3>3. CASE u # NoUser /\ acq' = [a EXCEPT ![u] = NoAcq]
      BY <2>5, <2>6, <3>3 DEF NoAcq
    <3>4. CASE u # NoUser /\ acq' = [a EXCEPT ![u].phase = "backoff"]
      BY <2>5, <2>6, <3>4 DEF AcqType
    <3> QED
      BY <3>1, <3>2, <3>3, <3>4
  <2> HIDE DEF a
  <2>8. AcqInv'
    <3> SUFFICES ASSUME NEW v \in Users
                 PROVE  /\ acq'[v].phase # "off" => acq'[v].target \in Targets
                        /\ acq'[v].phase = "resolved" =>
                              /\ lock' = v /\ acq'[v].db \in Dbs
                              /\ resyncReq'[<<acq'[v].target, acq'[v].db>>] < MaxResync
      BY DEF AcqInv
    <3>1. CASE v = u
      BY <2>6, <2>7, <3>1, ScopeAssumption
    <3>2. CASE v # u
      BY <2>1, <2>5, <2>7, <3>2 DEF LoopInv, AcqInv
    <3> QED
      BY <3>1, <3>2
  <2>9. OwnerInv'
    <3> SUFFICES ASSUME NEW e \in Dials, dial'[e].owner # NoUser
                 PROVE  /\ acq'[dial'[e].owner].phase = "creating"
                        /\ \A f \in Dials : dial'[f].owner = dial'[e].owner => f = e
      BY DEF OwnerInv
    <3>1. e # d /\ dial'[e] = dial[e] /\ dial[e].owner \in Users
      BY <1>0, <2>2, <2>3
    <3>2. /\ acq[dial[e].owner].phase = "creating"
          /\ \A f \in Dials : dial[f].owner = dial[e].owner => f = e
      BY <3>1 DEF LoopInv, OwnerInv
    <3>3. dial[e].owner # u
      BY <3>1, <3>2
    <3> QED
      BY <2>2, <2>3, <2>5, <2>7, <3>1, <3>2, <3>3
  <2> QED
    BY <2>1, <2>4, <2>8, <2>9 DEF LoopInv, CmdIdInv
<1> QED
  BY <1>2, <1>3, <1>4

\* Everything else only wakes the acquires.
LEMMA QuietSteps ==
    ASSUME TypeOK, LoopInv,
           \/ \E u \in Users :
                 \/ \E c \in scenario.cmds : Issue(u, c)
                 \/ Dispatch(u) \/ Execute(u) \/ Complete(u)
           \/ \E u \in Users :
                 \/ Release(u) \/ ReleaseAgain(u)
                 \/ \E id \in Conns : DeferredRelease(u, id)
           \/ \/ \E t \in Targets, d \in Dbs : ResyncTake(t, d)
              \/ \E c \in Conns : ResyncSucceeds(c) \/ ResyncFails(c)
           \/ \E c \in Conns : CleanupSends(c) \/ CleanupEnds(c)
           \/ (\E d \in Dbs : ParentSelects(d)) \/ Unregister \/ DropPool \/ SweepRegistry
    PROVE  LoopInv'
<1>0. /\ cmd \in [Users -> CmdType] /\ resyncReq \in [Targets \X Dbs -> 0..MaxResync] /\ MaxResync \in Nat
      /\ \A u \in Users : cmd[u].phase # "none" => cmd[u].id \in Conns
  BY ScopeAssumption DEF TypeOK, LoopInv, CmdIdInv
<1>1. ASSUME NEW u \in Users,
             \/ \E c \in scenario.cmds : Issue(u, c)
             \/ Dispatch(u) \/ Execute(u) \/ Complete(u)
      PROVE  LoopInv'
  <2>1. UNCHANGED <<acq, lock, dial, resyncReq>>
    BY <1>1 DEF Issue, Dispatch, Execute, Complete, poolVars, taskVars
  <2>2. \A v \in Users : v # u => cmd'[v] = cmd[v]
    BY <1>0, <1>1 DEF Issue, Dispatch, Execute, Complete
  <2>3. cmd'[u].phase # "none" => cmd'[u].id \in Conns
    <3>1. ASSUME NEW c \in scenario.cmds, Issue(u, c)
          PROVE  cmd'[u].phase # "none" => cmd'[u].id \in Conns
      BY <1>0, <3>1 DEF Issue, TypeOK, NoCmd
    <3>2. CASE Dispatch(u)
      BY <1>0, <3>2 DEF Dispatch, NoCmd, CmdType
    <3>3. CASE Execute(u)
      <4>1. cmd[u].id \in Conns /\ cmd[u] \in CmdType
        BY <1>0, <3>3 DEF Execute
      <4> DEFINE x == conn[cmd[u].id].st.blocking_in_flight
                 y == conn[cmd[u].id].st.multi_active
      <4>2. \/ cmd' = [cmd EXCEPT ![u] = NoCmd]
            \/ cmd' = [cmd EXCEPT ![u].phase = "running", ![u].poisoned = x, ![u].defer = y]
        BY <3>3 DEF Execute
      <4> HIDE DEF x, y
      <4>3. cmd'[u] = NoCmd \/ cmd'[u].id = cmd[u].id
        BY <1>0, <4>1, <4>2 DEF CmdType
      <4> QED
        BY <4>1, <4>3 DEF NoCmd
    <3>4. CASE Complete(u)
      BY <1>0, <3>4 DEF Complete, NoCmd
    <3> QED
      BY <1>1, <3>1, <3>2, <3>3, <3>4
  <2>4. \A v \in Users : cmd'[v].phase # "none" => cmd'[v].id \in Conns
    BY <1>0, <2>2, <2>3
  <2> QED
    BY <2>1, <2>4, QuietFrame
<1>2. ASSUME NEW id \in Conns, DoRelease(id)
      PROVE  /\ acq' = acq \/ acq' = NotifyAll(acq)
             /\ cmd' = cmd \/ cmd' = Orphaned(id)
  BY <1>2 DEF DoRelease, WakeAfterRelease
<1>3. \A id : \A u \in Users : Orphaned(id)[u].phase # "none" => Orphaned(id)[u].id \in Conns
  BY <1>0, OrphanedFacts
<1>4. ASSUME NEW u \in Users,
             \/ Release(u) \/ ReleaseAgain(u)
             \/ \E id \in Conns : DeferredRelease(u, id)
      PROVE  LoopInv'
  <2>1. UNCHANGED <<lock, dial, resyncReq>>
    BY <1>4 DEF Release, ReleaseAgain, DeferredRelease
  <2>2. (\E id \in Conns : DoRelease(id)) \/ UNCHANGED <<acq, cmd>>
    BY <1>4 DEF Release, ReleaseAgain, DeferredRelease, ReleaseScope, TypeOK
  <2>3. /\ acq' = acq \/ acq' = NotifyAll(acq)
        /\ cmd' = cmd \/ \E id \in Conns : cmd' = Orphaned(id)
    BY <1>2, <2>2
  <2>4. \A v \in Users : cmd'[v].phase # "none" => cmd'[v].id \in Conns
    BY <1>0, <1>3, <2>3
  <2> QED
    BY <2>1, <2>3, <2>4, QuietFrame
<1>5. ASSUME \/ \E t \in Targets, d \in Dbs : ResyncTake(t, d)
             \/ \E c \in Conns : ResyncSucceeds(c) \/ ResyncFails(c)
      PROVE  LoopInv'
  <2>1. UNCHANGED <<lock, dial, cmd>> /\ (acq' = acq \/ acq' = NotifyAll(acq))
    BY <1>5 DEF ResyncTake, ResyncSucceeds, ResyncFails
  <2>2. \A td \in Targets \X Dbs : resyncReq[td] < MaxResync => resyncReq'[td] < MaxResync
    <3>1. CASE resyncReq' = resyncReq
      BY <3>1
    <3>2. CASE \E t \in Targets, d \in Dbs : ResyncTake(t, d)
      BY <1>0, <3>2 DEF ResyncTake
    <3> QED
      BY <1>5, <3>1, <3>2 DEF ResyncSucceeds, ResyncFails
  <2> QED
    BY <1>0, <2>1, <2>2, QuietFrame
<1>6. ASSUME NEW c \in Conns, CleanupSends(c) \/ CleanupEnds(c)
      PROVE  LoopInv'
  <2>1. /\ UNCHANGED <<lock, dial, resyncReq>> /\ (acq' = acq \/ acq' = NotifyAll(acq))
        /\ cmd' = cmd \/ cmd' = Orphaned(c)
    BY <1>6 DEF CleanupSends, CleanupEnds, poolVars
  <2>2. \A v \in Users : cmd'[v].phase # "none" => cmd'[v].id \in Conns
    BY <1>0, <1>3, <2>1
  <2> QED
    BY <2>1, <2>2, QuietFrame
<1>7. ASSUME (\E d \in Dbs : ParentSelects(d)) \/ Unregister \/ DropPool \/ SweepRegistry
      PROVE  LoopInv'
  <2>1. UNCHANGED <<lock, dial, resyncReq, cmd>> /\ (acq' = acq \/ acq' = NotifyAll(acq))
    BY <1>7 DEF ParentSelects, Unregister, DropPool, SweepRegistry, poolVars, taskVars
  <2> QED
    BY <1>0, <2>1, QuietFrame
<1> QED
  BY <1>1, <1>4, <1>5, <1>6, <1>7

LEMMA LoopKept ==
    ASSUME TypeOK, LoopInv, Next
    PROVE  LoopInv'
BY NextCases, LoopStep, TryStep, DialStep, QuietSteps

-----------------------------------------------------------------------------
(* Who has which connection *)

Apart(s, I, U, C, R) ==
    /\ Distinct(s)
    /\ I \cap (U \cup C \cup R) = {}
    /\ U \cap (C \cup R) = {}
    /\ C \cap R = {}

LEMMA OwnerSets ==
    /\ OneOwner <=> Apart(idle, Idle, in_use, Cleaning, Resyncing)
    /\ OneOwner' <=> Apart(idle', Idle', in_use', Cleaning', Resyncing')
BY DEF OneOwner, Apart, Distinct, Idle

\* One connection more or less.
LEMMA CardPlus ==
    ASSUME NEW S, IsFiniteSet(S), NEW x
    PROVE  /\ Cardinality(S) \in Nat
           /\ x \notin S => Cardinality(S \cup {x}) = Cardinality(S) + 1
           /\ x \in S => Cardinality(S) >= 1 /\ Cardinality(S \ {x}) = Cardinality(S) - 1
<1>1. Cardinality(S) \in Nat
  BY FS_CardinalityType
<1>2. x \notin S => Cardinality(S \cup {x}) = Cardinality(S) + 1
  BY FS_AddElement
<1>3. x \in S => Cardinality(S \ {x}) = Cardinality(S) - 1 /\ IsFiniteSet(S \ {x})
  BY FS_RemoveElement
<1>4. x \in S => Cardinality(S \ {x}) \in Nat
  BY <1>3, FS_CardinalityType
<1>5. x \in S => Cardinality(S) >= 1
  BY <1>1, <1>3, <1>4
<1> QED
  BY <1>1, <1>2, <1>3, <1>5

LEMMA FiniteSets ==
    ASSUME TypeOK
    PROVE  /\ IsFiniteSet(in_use) /\ IsFiniteSet(Dialing) /\ IsFiniteSet(Cleaning) /\ IsFiniteSet(Resyncing)
           /\ Cardinality(in_use) \in Nat /\ Cardinality(Dialing) \in Nat
           /\ Cardinality(Cleaning) \in Nat /\ Cardinality(Resyncing) \in Nat
           /\ Len(idle) \in Nat /\ total_count \in Nat
<1>1. in_use \subseteq Conns /\ Cleaning \subseteq Conns /\ Resyncing \subseteq Conns /\ Dialing \subseteq Dials
  BY DEF TypeOK, Cleaning, Resyncing, Dialing
<1>2. IsFiniteSet(in_use) /\ IsFiniteSet(Dialing) /\ IsFiniteSet(Cleaning) /\ IsFiniteSet(Resyncing)
  BY <1>1, FS_Subset, ScopeAssumption
<1> QED
  BY <1>2, FS_CardinalityType DEF TypeOK

\* Steps that move no connection and no slot.
LEMMA StillPool ==
    ASSUME TypeOK, PoolInv, UNCHANGED <<idle, in_use, total_count, resyncing>>,
           \A c \in Conns : conn'[c].target = conn[c].target,
           \A c \in Conns : cleanup'[c].phase = "none" <=> cleanup[c].phase = "none",
           \A c \in Conns : cleanup'[c].pool = cleanup[c].pool,
           \A d \in Dials : dial'[d].phase = "free" <=> dial[d].phase = "free"
    PROVE  /\ OneOwner' /\ OpenInv'
           /\ (mapped' = "pool" => mapped = "pool") => SlotsAccounted'
           /\ UNCHANGED <<closing, mapped, registry>> => CloseInv'
<1>1. Cleaning' = Cleaning /\ Resyncing' = Resyncing /\ Dialing' = Dialing /\ Idle' = Idle
  BY DEF Cleaning, Resyncing, Dialing, Idle
<1>2. OneOwner'
  BY <1>1, OwnerSets DEF PoolInv
<1>3. OpenInv'
  BY <1>1 DEF PoolInv, OpenInv, IsOpen
<1>4. (mapped' = "pool" => mapped = "pool") => SlotsAccounted'
  BY <1>1 DEF PoolInv, SlotsAccounted
<1>5. UNCHANGED <<closing, mapped, registry>> => CloseInv'
  <2>1. Cleaning \subseteq Conns
    BY DEF Cleaning
  <2> QED
    BY <1>1, <2>1 DEF PoolInv, CloseInv
<1> QED
  BY <1>2, <1>3, <1>4, <1>5

\* A connection taken out of idle is lent or resynced.
LEMMA ReusePool ==
    ASSUME TypeOK, PoolInv, NEW u \in Users, NEW i \in 1..Len(idle), Reuse(u, i),
           UNCHANGED <<cleanup, resyncing, closing, mapped>>
    PROVE  PoolInv'
<1> DEFINE c == idle[i]
<1>0. c \in Conns /\ idle \in Seq(Conns) /\ Apart(idle, Idle, in_use, Cleaning, Resyncing)
  BY OwnerSets DEF TypeOK, PoolInv
<1>1. Idle' = Idle \ {c} /\ Distinct(idle') /\ Len(idle') = Len(idle) - 1 /\ c \in Idle
  BY <1>0, RemoveFacts DEF Reuse, Taken, Idle, Apart
<1> HIDE DEF c
<1>2. /\ in_use' = in_use \cup {c} /\ c \notin in_use /\ registry' = registry \cup {c}
      /\ Cleaning' = Cleaning /\ Resyncing' = Resyncing /\ Dialing' = Dialing
      /\ total_count' = total_count
  BY <1>0, <1>1 DEF Reuse, c, Cleaning, Resyncing, Dialing, Apart
<1>3. OneOwner'
  <2>1. Apart(idle', Idle', in_use', Cleaning', Resyncing')
    BY <1>0, <1>1, <1>2 DEF Apart
  <2> QED
    BY <2>1, OwnerSets
<1>4. \A x \in Conns : conn'[x].target = conn[x].target
  BY DEF Reuse, TypeOK, ConnType
<1>5. OpenInv'
  BY <1>1, <1>2, <1>4 DEF PoolInv, OpenInv, IsOpen
<1>6. SlotsAccounted'
  <2>1. Cardinality(in_use') = Cardinality(in_use) + 1
    BY <1>2, FiniteSets, CardPlus
  <2> QED
    BY <1>1, <1>2, <2>1, FiniteSets DEF PoolInv, SlotsAccounted
<1>7. CloseInv'
  BY <1>2 DEF PoolInv, CloseInv
<1> QED
  BY <1>3, <1>5, <1>6, <1>7 DEF PoolInv

\* The oldest k idle connections are dropped.
LEMMA PrunePool ==
    ASSUME TypeOK, PoolInv, NEW k \in 0..Len(idle), idle' = Pruned(k), Discard(Expired(k)),
           UNCHANGED <<in_use, cleanup, resyncing, closing, mapped, registry>>,
           mapped = "pool" => total_count' = total_count + (Cardinality(Dialing') - Cardinality(Dialing)) - k,
           Cardinality(Dialing') \in Nat, total_count' \in Nat
    PROVE  PoolInv'
<1>0. Apart(idle, Idle, in_use, Cleaning, Resyncing)
  BY OwnerSets DEF PoolInv
<1>1. /\ Idle' = Idle \ Expired(k) /\ Distinct(idle') /\ Len(idle') = Len(idle) - k
      /\ Expired(k) \subseteq Idle
  BY <1>0, PrunedFacts DEF Apart, Idle
<1>2. Cleaning' = Cleaning /\ Resyncing' = Resyncing
  BY DEF Cleaning, Resyncing
<1>3. OneOwner'
  <2>1. Apart(idle', Idle', in_use', Cleaning', Resyncing')
    BY <1>0, <1>1, <1>2 DEF Apart
  <2> QED
    BY <2>1, OwnerSets
<1>4. OpenInv'
  <2> SUFFICES ASSUME NEW x \in Conns, x \in Idle' \cup in_use' \cup Cleaning' \cup Resyncing'
               PROVE  conn'[x].target # NoTarget
    BY DEF OpenInv, IsOpen
  <2>1. x \notin Expired(k)
    BY <1>0, <1>1, <1>2 DEF Apart
  <2>2. conn'[x] = conn[x]
    BY <2>1, DiscardFacts
  <2> QED
    BY <1>1, <1>2, <2>2 DEF PoolInv, OpenInv, IsOpen
<1>5. SlotsAccounted'
  <2>0. k \in Nat
    BY FiniteSets
  <2> SUFFICES ASSUME mapped = "pool"
               PROVE  total_count' = Len(idle') + Cardinality(in_use') + Cardinality(Dialing')
                                     + Cardinality(Cleaning') + Cardinality(Resyncing')
    BY DEF SlotsAccounted
  <2>1. total_count = Len(idle) + Cardinality(in_use) + Cardinality(Dialing)
                      + Cardinality(Cleaning) + Cardinality(Resyncing)
    BY DEF PoolInv, SlotsAccounted
  <2>2. total_count' = total_count + (Cardinality(Dialing') - Cardinality(Dialing)) - k
    OBVIOUS
  <2>3. /\ Cardinality(in_use') = Cardinality(in_use)
        /\ Cardinality(Cleaning') = Cardinality(Cleaning)
        /\ Cardinality(Resyncing') = Cardinality(Resyncing)
    BY <1>2
  <2>4. /\ Cardinality(in_use) \in Nat /\ Cardinality(Dialing) \in Nat /\ Cardinality(Dialing') \in Nat
        /\ Cardinality(Cleaning) \in Nat /\ Cardinality(Resyncing) \in Nat
        /\ Len(idle) \in Nat /\ total_count \in Nat /\ total_count' \in Nat
    BY FiniteSets
  <2>5. Len(idle') = Len(idle) - k
    BY <1>1
  <2>6. total_count' = (Len(idle) - k) + Cardinality(in_use) + Cardinality(Dialing')
                       + Cardinality(Cleaning) + Cardinality(Resyncing)
    <3> DEFINE l == Len(idle)
               u == Cardinality(in_use)
               d == Cardinality(Dialing)
               e == Cardinality(Dialing')
               c == Cardinality(Cleaning)
               r == Cardinality(Resyncing)
    <3>1. l \in Nat /\ u \in Nat /\ d \in Nat /\ e \in Nat /\ c \in Nat /\ r \in Nat
      BY <2>4
    <3>2. total_count = l + u + d + c + r /\ total_count' = total_count + (e - d) - k
      BY <2>1, <2>2
    <3> HIDE DEF l, u, d, e, c, r
    <3>3. total_count' = (l - k) + u + e + c + r
      BY ONLY <2>0, <2>4, <3>1, <3>2
    <3> QED
      BY <3>3 DEF l, u, d, e, c, r
  <2> QED
    BY <2>3, <2>5, <2>6
<1>6. CloseInv'
  BY <1>2 DEF PoolInv, CloseInv
<1> QED
  BY <1>3, <1>4, <1>5, <1>6 DEF PoolInv

LEMMA TryPool ==
    ASSUME TypeOK, LoopInv, PoolInv, NEW u \in Users, TryAcquire(u)
    PROVE  PoolInv'
<1>1. PICK n \in 0..Len(idle) :
          LET t == acq[u].target  d == acq[u].db IN
          IF Reusable(t, d, n) # {} THEN Reuse(u, Newest(Reusable(t, d, n)))
          ELSE IF WrongDb(t, d, n) # {} THEN NeedsResync(u, n)
          ELSE Reserve(u, n) \/ Exhausted(u, n)
  BY DEF TryAcquire
<1>2. UNCHANGED <<cleanup, resyncing, closing, mapped>>
  BY DEF TryAcquire, envVars
<1>3. n \in Nat /\ Len(idle) \in Nat /\ n <= Len(idle)
  BY FiniteSets
<1>4. mapped = "pool" => total_count >= Len(idle)
  BY FiniteSets DEF PoolInv, SlotsAccounted
<1>5. mapped = "pool" => DecBy(total_count, n) = total_count - n
  BY <1>3, <1>4, FiniteSets DEF DecBy
<1>6. DecBy(total_count, n) \in Nat
  BY <1>3, FiniteSets DEF DecBy
<1>7. CASE \E i \in 1..Len(idle) : Reuse(u, i)
  BY <1>2, <1>7, ReusePool
<1>8. CASE NeedsResync(u, n) \/ Exhausted(u, n)
  <2>1. /\ idle' = Pruned(n) /\ Discard(Expired(n)) /\ total_count' = DecBy(total_count, n)
        /\ UNCHANGED <<in_use, registry, dial>>
    BY <1>8 DEF NeedsResync, Exhausted
  <2>2. Dialing' = Dialing
    BY <2>1 DEF Dialing
  <2>3. mapped = "pool" => total_count' = total_count + (Cardinality(Dialing') - Cardinality(Dialing)) - n
    BY <1>3, <1>5, <2>1, <2>2, FiniteSets
  <2> QED
    BY <1>2, <1>6, <2>1, <2>2, <2>3, PrunePool, FiniteSets
<1>9. CASE Reserve(u, n)
  <2> DEFINE full == DecBy(total_count, n) >= MaxTotal
             e == IF full THEN 1 ELSE 0
             k == n + e
  <2>0. MaxTotal \in Nat \ {0}
    BY ScopeAssumption
  <2>1. k \in 0..Len(idle)
    <3>1. full => n # Len(idle)
      BY <1>9, PrunedFacts DEF Reserve
    <3> QED
      BY <1>3, <3>1
  <2>2. idle' = Pruned(k) /\ Discard(Expired(k)) /\ UNCHANGED <<in_use, registry>>
    BY <1>9 DEF Reserve
  <2>3. PICK d \in Dials :
            /\ dial[d].phase = "free"
            /\ dial' = [dial EXCEPT ![d] =
                   [phase |-> "dialing", target |-> acq[u].target, db |-> NoDb, owner |-> u]]
    BY <1>9 DEF Reserve
  <2>4. Dialing' = Dialing \cup {d} /\ d \notin Dialing
    BY <2>3 DEF Dialing, TypeOK
  <2>5. Cardinality(Dialing') = Cardinality(Dialing) + 1 /\ Cardinality(Dialing) \in Nat
    BY <2>4, FiniteSets, CardPlus
  <2>6. total_count' = DecBy(total_count, n) + 1 - e /\ total_count' \in Nat
    BY <1>6, <1>9, <2>0 DEF Reserve, Evicted, saturating_dec
  <2>7. e \in {0, 1}
    OBVIOUS
  <2>8. mapped = "pool" => total_count' = total_count + (Cardinality(Dialing') - Cardinality(Dialing)) - k
    <3> HIDE DEF e
    <3> QED
      BY <1>3, <1>5, <2>5, <2>6, <2>7, FiniteSets
  <2> HIDE DEF k
  <2> QED
    BY <1>2, <2>1, <2>2, <2>5, <2>6, <2>8, PrunePool
<1> QED
  BY <1>1, <1>7, <1>8, <1>9, PositionFacts

LEMMA DialPool ==
    ASSUME TypeOK, LoopInv, PoolInv,
           PrewarmStart \/ \E d \in Dials : DialConnects(d) \/ DialSeats(d) \/ DialFails(d)
    PROVE  PoolInv'
<1>0. /\ Apart(idle, Idle, in_use, Cleaning, Resyncing) /\ dial \in [Dials -> DialType]
      /\ conn \in [Conns -> ConnType] /\ idle \in Seq(Conns)
  BY OwnerSets DEF PoolInv, TypeOK
<1>1. ASSUME UNCHANGED <<idle, in_use, conn, cleanup, resyncing, closing, mapped, registry>>,
             mapped = "pool" => total_count' = total_count + (Cardinality(Dialing') - Cardinality(Dialing)),
             Cardinality(Dialing') \in Nat, total_count' \in Nat
      PROVE  PoolInv'
  <2>1. Cleaning' = Cleaning /\ Resyncing' = Resyncing /\ Idle' = Idle
    BY <1>1 DEF Cleaning, Resyncing, Idle
  <2>2. OneOwner'
    BY <1>0, <1>1, <2>1, OwnerSets
  <2>3. SlotsAccounted'
    <3> SUFFICES ASSUME mapped = "pool"
                 PROVE  total_count' = Len(idle') + Cardinality(in_use') + Cardinality(Dialing')
                                       + Cardinality(Cleaning') + Cardinality(Resyncing')
      BY <1>1 DEF SlotsAccounted
    <3>1. total_count = Len(idle) + Cardinality(in_use) + Cardinality(Dialing)
                        + Cardinality(Cleaning) + Cardinality(Resyncing)
      BY DEF PoolInv, SlotsAccounted
    <3>2. total_count' = total_count + (Cardinality(Dialing') - Cardinality(Dialing))
      BY <1>1
    <3>3. /\ Cardinality(in_use') = Cardinality(in_use)
          /\ Cardinality(Cleaning') = Cardinality(Cleaning)
          /\ Cardinality(Resyncing') = Cardinality(Resyncing)
      BY <1>1, <2>1
    <3>4. /\ Cardinality(in_use) \in Nat /\ Cardinality(Dialing) \in Nat /\ Cardinality(Dialing') \in Nat
          /\ Cardinality(Cleaning) \in Nat /\ Cardinality(Resyncing) \in Nat
          /\ Len(idle) \in Nat /\ total_count \in Nat /\ total_count' \in Nat
      BY <1>1, FiniteSets
    <3>5. Len(idle') = Len(idle)
      BY <1>1
    <3>6. total_count' = Len(idle) + Cardinality(in_use) + Cardinality(Dialing')
                         + Cardinality(Cleaning) + Cardinality(Resyncing)
      BY ONLY <3>1, <3>2, <3>4
    <3> QED
      BY <3>3, <3>5, <3>6
  <2> QED
    BY <1>1, <2>1, <2>2, <2>3 DEF PoolInv, OpenInv, IsOpen, CloseInv
<1>2. CASE PrewarmStart
  <2>1. UNCHANGED <<idle, in_use, conn, cleanup, resyncing, closing, mapped, registry>>
    BY <1>2 DEF PrewarmStart, envVars
  <2>2. CASE UNCHANGED <<total_count, dial>>
    <3>1. Dialing' = Dialing
      BY <2>2 DEF Dialing
    <3> QED
      BY <1>1, <2>1, <2>2, <3>1, FiniteSets
  <2>3. CASE total_count' = total_count + 1 /\ \E d \in Dials, t \in Targets :
                  /\ dial[d].phase = "free"
                  /\ dial' = [dial EXCEPT ![d] =
                         [phase |-> "dialing", target |-> t, db |-> NoDb, owner |-> NoUser]]
    <3>1. PICK d \in Dials : Dialing' = Dialing \cup {d} /\ d \notin Dialing
      BY <1>0, <2>3 DEF Dialing
    <3>2. Cardinality(Dialing') = Cardinality(Dialing) + 1 /\ Cardinality(Dialing) \in Nat
      BY <3>1, FiniteSets, CardPlus
    <3> QED
      BY <1>1, <2>1, <2>3, <3>2, FiniteSets
  <2> QED
    BY <1>2, <2>2, <2>3 DEF PrewarmStart
<1>3. ASSUME NEW d \in Dials, DialConnects(d)
      PROVE  PoolInv'
  <2>1. UNCHANGED <<idle, in_use, conn, cleanup, resyncing, closing, mapped, registry, total_count>>
    BY <1>3 DEF DialConnects, envVars, poolVars
  <2>2. Dialing' = Dialing
    <3>1. dial[d] \in DialType
      BY <1>0
    <3> QED
      BY <1>0, <1>3, <3>1 DEF Dialing, DialConnects, DialType
  <2> QED
    BY <1>1, <2>1, <2>2, FiniteSets
<1>4. ASSUME NEW d \in Dials, dial' = [dial EXCEPT ![d] = NoDial], dial[d].phase # "free"
      PROVE  /\ Dialing' = Dialing \ {d} /\ Cardinality(Dialing) >= 1
             /\ Cardinality(Dialing') = Cardinality(Dialing) - 1 /\ Cardinality(Dialing') \in Nat
  <2>1. d \in Dialing /\ Dialing' = Dialing \ {d}
    BY <1>0, <1>4 DEF Dialing, NoDial
  <2>2. Cardinality(Dialing) >= 1 /\ Cardinality(Dialing') = Cardinality(Dialing) - 1
    BY <2>1, FiniteSets, CardPlus
  <2> QED
    BY <2>1, <2>2, FiniteSets
<1>5. ASSUME NEW d \in Dials, DialSeats(d)
      PROVE  PoolInv'
  <2>1. PICK c \in Conns :
          /\ NewConn(c)
          /\ idle' = Append(idle, c)
          /\ conn' = [conn EXCEPT ![c] = Opened(dial[d].target, dial[d].db)]
    BY <1>5 DEF DialSeats
  <2>2. c \notin Idle \cup in_use \cup Cleaning \cup Resyncing
    BY <2>1 DEF NewConn, PoolInv, OpenInv
  <2>3. Idle' = Idle \cup {c} /\ Distinct(idle') /\ Len(idle') = Len(idle) + 1
    BY <1>0, <2>1, <2>2, AppendFacts DEF Idle, Apart
  <2>4. /\ UNCHANGED <<in_use, cleanup, resyncing, closing, mapped, registry, total_count>>
        /\ Cleaning' = Cleaning /\ Resyncing' = Resyncing
    BY <1>5 DEF DialSeats, envVars, Cleaning, Resyncing
  <2>5. OneOwner'
    <3>1. Apart(idle', Idle', in_use', Cleaning', Resyncing')
      BY <1>0, <2>2, <2>3, <2>4 DEF Apart
    <3> QED
      BY <3>1, OwnerSets
  <2>6. OpenInv'
    <3>1. Opened(dial[d].target, dial[d].db).target # NoTarget
      <4>1. dial[d].target \in Targets
        BY <1>5 DEF DialSeats, LoopInv, DialInv
      <4> QED
        BY <4>1, ScopeAssumption DEF Opened
    <3>2. conn'[c].target # NoTarget /\ \A x \in Conns : x # c => conn'[x] = conn[x]
      BY <1>0, <2>1, <3>1
    <3> QED
      BY <2>3, <2>4, <3>2 DEF PoolInv, OpenInv, IsOpen
  <2>7. SlotsAccounted'
    <3>1. Cardinality(Dialing') = Cardinality(Dialing) - 1
      BY <1>4, <1>5 DEF DialSeats
    <3> QED
      BY <2>3, <2>4, <3>1, FiniteSets DEF PoolInv, SlotsAccounted
  <2> QED
    BY <2>4, <2>5, <2>6, <2>7 DEF PoolInv, CloseInv
<1>6. ASSUME NEW d \in Dials, DialFails(d)
      PROVE  PoolInv'
  <2>1. UNCHANGED <<idle, in_use, conn, cleanup, resyncing, closing, mapped, registry>>
    BY <1>6 DEF DialFails, envVars
  <2>2. /\ Cardinality(Dialing) >= 1
        /\ Cardinality(Dialing') = Cardinality(Dialing) - 1 /\ Cardinality(Dialing') \in Nat
    BY <1>4, <1>6 DEF DialFails
  <2>3. total_count' \in Nat /\ (total_count >= 1 => total_count' = total_count - 1)
    BY <1>6, FiniteSets DEF DialFails, ReservationDropped, saturating_dec
  <2>4. mapped = "pool" => total_count >= 1
    BY <2>2, FiniteSets DEF PoolInv, SlotsAccounted
  <2> QED
    BY <1>1, <2>1, <2>2, <2>3, <2>4, FiniteSets
<1> QED
  BY <1>2, <1>3, <1>5, <1>6

\* A lent connection that is released goes to idle, to a cleanup task, or away.
LEMMA ReleasePool ==
    ASSUME TypeOK, PoolInv, NEW id \in Conns, DoRelease(id),
           UNCHANGED <<dial, resyncing, closing, mapped>>
    PROVE  PoolInv'
<1>0. /\ Apart(idle, Idle, in_use, Cleaning, Resyncing) /\ conn \in [Conns -> ConnType]
      /\ idle \in Seq(Conns) /\ cleanup \in [Conns -> CleanupType]
  BY OwnerSets DEF PoolInv, TypeOK
<1>1. Resyncing' = Resyncing /\ Dialing' = Dialing
  BY DEF Resyncing, Dialing
<1>2. CASE id \notin in_use \cap registry
  <2>1. in_use' = in_use \ {id} /\ UNCHANGED <<idle, total_count, registry, conn, cleanup>>
    BY <1>2 DEF DoRelease
  <2>2. Idle' = Idle /\ Cleaning' = Cleaning
    BY <2>1 DEF Idle, Cleaning
  <2>3. OneOwner'
    <3>1. Apart(idle', Idle', in_use', Cleaning', Resyncing')
      BY <1>0, <1>1, <2>1, <2>2 DEF Apart
    <3> QED
      BY <3>1, OwnerSets
  <2>4. OpenInv'
    BY <1>1, <2>1, <2>2 DEF PoolInv, OpenInv, IsOpen
  <2>5. SlotsAccounted'
    <3>1. mapped = "pool" => closing # "swept"
      BY DEF PoolInv, CloseInv
    <3>2. mapped = "pool" => in_use' = in_use
      BY <1>2, <2>1, <3>1 DEF PoolInv, CloseInv
    <3> QED
      BY <1>1, <2>1, <2>2, <3>2 DEF PoolInv, SlotsAccounted
  <2>6. CloseInv'
    BY <1>2, <2>1, <2>2 DEF PoolInv, CloseInv
  <2> QED
    BY <2>3, <2>4, <2>5, <2>6 DEF PoolInv
<1>3. CASE id \in in_use \cap registry
  <2>1. /\ in_use' = in_use \ {id} /\ registry' = registry \ {id}
        /\ id \in in_use /\ id \notin Idle \cup Cleaning \cup Resyncing
    BY <1>0, <1>3 DEF DoRelease, Apart
  <2>2. Cardinality(in_use') = Cardinality(in_use) - 1 /\ Cardinality(in_use) >= 1
    BY <2>1, FiniteSets, CardPlus
  <2>3. registry' \subseteq in_use' /\ (closing # "swept" => in_use' \subseteq registry')
    BY <2>1 DEF PoolInv, CloseInv
  <2>4. CASE /\ total_count' = saturating_dec(total_count) /\ Discard({id}) /\ UNCHANGED <<idle, cleanup>>
    <3>1. Idle' = Idle /\ Cleaning' = Cleaning
      BY <2>4 DEF Idle, Cleaning
    <3>2. OneOwner'
      <4>1. Apart(idle', Idle', in_use', Cleaning', Resyncing')
        BY <1>0, <1>1, <2>1, <2>4, <3>1 DEF Apart
      <4> QED
        BY <4>1, OwnerSets
    <3>3. OpenInv'
      <4>1. \A x \in Conns : x # id => conn'[x] = conn[x]
        BY <2>4, DiscardFacts
      <4> QED
        BY <1>1, <2>1, <3>1, <4>1 DEF PoolInv, OpenInv, IsOpen
    <3>4. SlotsAccounted'
      <4>1. mapped = "pool" => total_count >= 1
        BY <2>2, FiniteSets DEF PoolInv, SlotsAccounted
      <4>2. mapped = "pool" => total_count' = total_count - 1
        BY <2>4, <4>1, FiniteSets DEF saturating_dec
      <4> QED
        BY <1>1, <2>2, <2>4, <3>1, <4>2, FiniteSets DEF PoolInv, SlotsAccounted
    <3>5. CloseInv'
      BY <2>3, <2>4, <3>1 DEF PoolInv, CloseInv
    <3> QED
      BY <3>2, <3>3, <3>4, <3>5 DEF PoolInv
  <2>5. CASE /\ idle' = Append(idle, id) /\ UNCHANGED <<total_count, cleanup>>
             /\ conn' = [conn EXCEPT ![id].st = begin_borrow(@.selected_db, @.selected_db)]
    <3>1. /\ Idle' = Idle \cup {id} /\ Distinct(idle') /\ Len(idle') = Len(idle) + 1
          /\ Cleaning' = Cleaning
      BY <1>0, <2>1, <2>5, AppendFacts DEF Idle, Cleaning, Apart
    <3>2. OneOwner'
      <4>1. Apart(idle', Idle', in_use', Cleaning', Resyncing')
        BY <1>0, <1>1, <2>1, <3>1 DEF Apart
      <4> QED
        BY <4>1, OwnerSets
    <3>3. OpenInv'
      <4>1. \A x \in Conns : conn'[x].target = conn[x].target
        BY <1>0, <2>5 DEF ConnType
      <4> QED
        BY <1>1, <2>1, <3>1, <4>1 DEF PoolInv, OpenInv, IsOpen
    <3>4. SlotsAccounted'
      BY <1>1, <2>2, <2>5, <3>1, FiniteSets DEF PoolInv, SlotsAccounted
    <3>5. CloseInv'
      BY <2>3, <2>5, <3>1 DEF PoolInv, CloseInv
    <3> QED
      BY <3>2, <3>3, <3>4, <3>5 DEF PoolInv
  <2>6. CASE /\ cleanup' = [cleanup EXCEPT ![id] = [phase |-> "queued", pool |-> mapped = "pool"]]
             /\ UNCHANGED <<idle, total_count, conn>>
    <3>1. /\ cleanup'[id].phase = "queued" /\ cleanup'[id].pool = (mapped = "pool")
          /\ \A x \in Conns : x # id => cleanup'[x] = cleanup[x]
      BY <1>0, <2>6
    <3>2. Idle' = Idle /\ Cleaning' = Cleaning \cup {id}
      BY <2>6, <3>1 DEF Idle, Cleaning
    <3>3. OneOwner'
      <4>1. Apart(idle', Idle', in_use', Cleaning', Resyncing')
        BY <1>0, <1>1, <2>1, <2>6, <3>2 DEF Apart
      <4> QED
        BY <4>1, OwnerSets
    <3>4. OpenInv'
      BY <1>1, <2>1, <2>6, <3>2 DEF PoolInv, OpenInv, IsOpen
    <3>5. SlotsAccounted'
      <4>1. Cardinality(Cleaning') = Cardinality(Cleaning) + 1
        BY <2>1, <3>2, FiniteSets, CardPlus
      <4> QED
        BY <1>1, <2>2, <2>6, <3>2, <4>1, FiniteSets DEF PoolInv, SlotsAccounted
    <3>6. CloseInv'
      <4>1. mapped' = "pool" => \A c \in Cleaning' : cleanup'[c].pool
        BY <3>1, <3>2 DEF PoolInv, CloseInv, Cleaning
      <4> QED
        BY <2>3, <4>1 DEF PoolInv, CloseInv
    <3> QED
      BY <3>3, <3>4, <3>5, <3>6 DEF PoolInv
  <2> QED
    BY <1>3, <2>4, <2>5, <2>6 DEF DoRelease
<1> QED
  BY <1>2, <1>3

LEMMA GiveBackPool ==
    ASSUME TypeOK, PoolInv, NEW u \in Users,
           \/ Release(u) \/ ReleaseAgain(u)
           \/ \E id \in Conns : DeferredRelease(u, id)
    PROVE  PoolInv'
<1>1. UNCHANGED <<dial, resyncing, closing, mapped>>
  BY DEF Release, ReleaseAgain, DeferredRelease, envVars
<1>2. \/ \E id \in Conns : DoRelease(id)
      \/ UNCHANGED <<idle, in_use, total_count, registry, conn, cleanup>>
  BY DEF Release, ReleaseAgain, DeferredRelease, ReleaseScope, TypeOK
<1> QED
  BY <1>1, <1>2, ReleasePool, StillPool DEF PoolInv

LEMMA ResyncPool ==
    ASSUME TypeOK, PoolInv,
           \/ \E t \in Targets, d \in Dbs : ResyncTake(t, d)
           \/ \E c \in Conns : ResyncSucceeds(c) \/ ResyncFails(c)
    PROVE  PoolInv'
<1>0. /\ Apart(idle, Idle, in_use, Cleaning, Resyncing) /\ conn \in [Conns -> ConnType]
      /\ idle \in Seq(Conns) /\ Len(idle) \in Nat /\ resyncing \in [Conns -> Dbs \cup {NoDb}]
  BY OwnerSets DEF PoolInv, TypeOK
<1>1. UNCHANGED <<dial, in_use, registry, cleanup, closing, mapped>>
  BY DEF ResyncTake, ResyncSucceeds, ResyncFails, envVars
<1>2. Dialing' = Dialing /\ Cleaning' = Cleaning
  BY <1>1 DEF Dialing, Cleaning
<1>3. CloseInv'
  BY <1>1, <1>2 DEF PoolInv, CloseInv
<1>4. ASSUME NEW t \in Targets, NEW d \in Dbs, ResyncTake(t, d)
      PROVE  PoolInv'
  <2>1. UNCHANGED <<conn, total_count>>
    BY <1>4 DEF ResyncTake
  <2>2. CASE UNCHANGED <<idle, resyncing>>
    BY <1>1, <2>1, <2>2, StillPool DEF PoolInv
  <2>3. CASE ~UNCHANGED <<idle, resyncing>>
    <3>1. PICK i \in 1..Len(idle) : idle' = RemoveAt(idle, i) /\ resyncing' = [resyncing EXCEPT ![idle[i]] = d]
      BY <1>0, <1>4, <2>3, PositionFacts DEF ResyncTake
    <3> DEFINE c == idle[i]
    <3>2. Idle' = Idle \ {c} /\ Distinct(idle') /\ Len(idle') = Len(idle) - 1 /\ c \in Idle /\ c \in Conns
      BY <1>0, <3>1, RemoveFacts DEF Idle, Apart
    <3>3. resyncing' = [resyncing EXCEPT ![c] = d]
      BY <3>1
    <3> HIDE DEF c
    <3>4. Resyncing' = Resyncing \cup {c} /\ c \notin Resyncing
      BY <1>0, <3>2, <3>3, DbAssumption DEF Resyncing, Apart
    <3>5. OneOwner'
      <4>1. Apart(idle', Idle', in_use', Cleaning', Resyncing')
        BY <1>0, <1>1, <1>2, <3>2, <3>4 DEF Apart
      <4> QED
        BY <4>1, OwnerSets
    <3>6. OpenInv'
      BY <1>1, <1>2, <2>1, <3>2, <3>4 DEF PoolInv, OpenInv, IsOpen
    <3>7. SlotsAccounted'
      <4>1. Cardinality(Resyncing') = Cardinality(Resyncing) + 1
        BY <3>4, FiniteSets, CardPlus
      <4> QED
        BY <1>1, <1>2, <2>1, <3>2, <4>1, FiniteSets DEF PoolInv, SlotsAccounted
    <3> QED
      BY <1>3, <3>5, <3>6, <3>7 DEF PoolInv
  <2> QED
    BY <2>2, <2>3
<1>5. ASSUME NEW c \in Conns, ResyncSucceeds(c) \/ ResyncFails(c)
      PROVE  PoolInv'
  <2>1. Resyncing' = Resyncing \ {c} /\ c \in Resyncing
    BY <1>0, <1>5 DEF Resyncing, ResyncSucceeds, ResyncFails
  <2>2. Cardinality(Resyncing') = Cardinality(Resyncing) - 1 /\ Cardinality(Resyncing) >= 1
    BY <2>1, FiniteSets, CardPlus
  <2>3. CASE ResyncSucceeds(c)
    <3>1. /\ Idle' = Idle \cup {c} /\ Distinct(idle') /\ Len(idle') = Len(idle) + 1
          /\ total_count' = total_count
      BY <1>0, <2>1, <2>3, AppendFacts DEF ResyncSucceeds, Idle, Apart
    <3>2. OneOwner'
      <4>1. Apart(idle', Idle', in_use', Cleaning', Resyncing')
        BY <1>0, <1>1, <1>2, <2>1, <3>1 DEF Apart
      <4> QED
        BY <4>1, OwnerSets
    <3>3. OpenInv'
      <4> DEFINE b == begin_borrow(resyncing[c], resyncing[c])
                 s == CleanupStep(conn[c].server, TRUE, Select(resyncing[c]))
      <4>1. conn' = [conn EXCEPT ![c].st = b, ![c].server = s]
        BY <1>0, <2>3 DEF ResyncSucceeds, ConnType
      <4> HIDE DEF b, s
      <4>2. \A x \in Conns : conn'[x].target = conn[x].target
        BY <1>0, <4>1 DEF ConnType
      <4> QED
        BY <1>1, <1>2, <2>1, <3>1, <4>2 DEF PoolInv, OpenInv, IsOpen
    <3>4. SlotsAccounted'
      BY <1>1, <1>2, <2>2, <3>1, FiniteSets DEF PoolInv, SlotsAccounted
    <3> QED
      BY <1>3, <3>2, <3>3, <3>4 DEF PoolInv
  <2>4. CASE ResyncFails(c)
    <3>1. Idle' = Idle /\ idle' = idle /\ Discard({c}) /\ total_count' = saturating_dec(total_count)
      BY <2>4 DEF ResyncFails, Idle, ReservationDropped
    <3>2. OneOwner'
      <4>1. Apart(idle', Idle', in_use', Cleaning', Resyncing')
        BY <1>0, <1>1, <1>2, <2>1, <3>1 DEF Apart
      <4> QED
        BY <4>1, OwnerSets
    <3>3. OpenInv'
      <4>1. \A x \in Conns : x # c => conn'[x] = conn[x]
        BY <3>1, DiscardFacts
      <4>2. c \notin Idle' \cup in_use' \cup Cleaning' \cup Resyncing'
        BY <1>0, <1>1, <1>2, <2>1, <3>1 DEF Apart
      <4> QED
        BY <1>1, <1>2, <2>1, <3>1, <4>1, <4>2 DEF PoolInv, OpenInv, IsOpen
    <3>4. SlotsAccounted'
      <4>1. mapped = "pool" => total_count >= 1
        BY <2>2, FiniteSets DEF PoolInv, SlotsAccounted
      <4>2. mapped = "pool" => total_count' = total_count - 1
        BY <3>1, <4>1, FiniteSets DEF saturating_dec
      <4> QED
        BY <1>1, <1>2, <2>2, <3>1, <4>2, FiniteSets DEF PoolInv, SlotsAccounted
    <3> QED
      BY <1>3, <3>2, <3>3, <3>4 DEF PoolInv
  <2> QED
    BY <1>5, <2>3, <2>4
<1> QED
  BY <1>4, <1>5

LEMMA CleanupPool ==
    ASSUME TypeOK, PoolInv, \E c \in Conns : CleanupSends(c) \/ CleanupEnds(c)
    PROVE  PoolInv'
<1>0. /\ Apart(idle, Idle, in_use, Cleaning, Resyncing) /\ conn \in [Conns -> ConnType]
      /\ idle \in Seq(Conns) /\ cleanup \in [Conns -> CleanupType]
  BY OwnerSets DEF PoolInv, TypeOK
<1>1. ASSUME NEW c \in Conns, CleanupSends(c)
      PROVE  PoolInv'
  <2>1. UNCHANGED <<idle, in_use, total_count, resyncing, registry, dial, closing, mapped>>
    BY <1>1 DEF CleanupSends, poolVars, envVars
  <2>2. \A x \in Conns : conn'[x].target = conn[x].target
    <3> DEFINE s == Cleaned(conn[c].st, conn[c].server)
    <3>1. conn' = conn \/ conn' = [conn EXCEPT ![c].server = s]
      BY <1>0, <1>1 DEF CleanupSends
    <3> HIDE DEF s
    <3> QED
      BY <1>0, <3>1 DEF ConnType
  <2>3. cleanup[c] \in CleanupType /\ cleanup[c].phase = "queued"
    BY <1>0, <1>1 DEF CleanupSends
  <2>4. \/ cleanup' = [cleanup EXCEPT ![c].phase = "cleaned"]
        \/ cleanup' = [cleanup EXCEPT ![c].phase = "failed"]
    BY <1>1 DEF CleanupSends
  <2>5. \A x \in Conns : /\ cleanup'[x].phase = "none" <=> cleanup[x].phase = "none"
                         /\ cleanup'[x].pool = cleanup[x].pool
    BY <1>0, <2>3, <2>4 DEF CleanupType
  <2> QED
    BY <2>1, <2>2, <2>5, StillPool DEF PoolInv
<1>2. ASSUME NEW c \in Conns, CleanupEnds(c)
      PROVE  PoolInv'
  <2>1. UNCHANGED <<dial, in_use, registry, resyncing, closing, mapped>>
    BY <1>2 DEF CleanupEnds, envVars
  <2>2. Dialing' = Dialing /\ Resyncing' = Resyncing
    BY <2>1 DEF Dialing, Resyncing
  <2>3. /\ cleanup' = [cleanup EXCEPT ![c] = NoCleanup] /\ cleanup[c].phase # "none"
        /\ NoCleanup.phase = "none"
    BY <1>2 DEF CleanupEnds, NoCleanup
  <2>4. /\ Cleaning' = Cleaning \ {c} /\ c \in Cleaning
        /\ \A x \in Cleaning' : cleanup'[x] = cleanup[x]
    BY <1>0, <2>3 DEF Cleaning
  <2>5. Cardinality(Cleaning') = Cardinality(Cleaning) - 1 /\ Cardinality(Cleaning) >= 1
    BY <2>4, FiniteSets, CardPlus
  <2>6. CloseInv'
    BY <2>1, <2>4 DEF PoolInv, CloseInv
  <2>7. CASE idle' = idle /\ Discard({c}) /\ (mapped = "pool" => total_count' = saturating_dec(total_count))
    <3>1. Idle' = Idle
      BY <2>7 DEF Idle
    <3>2. OneOwner'
      <4>1. Apart(idle', Idle', in_use', Cleaning', Resyncing')
        BY <1>0, <2>1, <2>2, <2>4, <2>7, <3>1 DEF Apart
      <4> QED
        BY <4>1, OwnerSets
    <3>3. OpenInv'
      <4>1. \A x \in Conns : x # c => conn'[x] = conn[x]
        BY <2>7, DiscardFacts
      <4>2. c \notin Idle' \cup in_use' \cup Cleaning' \cup Resyncing'
        BY <1>0, <2>1, <2>2, <2>4, <3>1 DEF Apart
      <4> QED
        BY <2>1, <2>2, <2>4, <3>1, <4>1, <4>2 DEF PoolInv, OpenInv, IsOpen
    <3>4. SlotsAccounted'
      <4>1. mapped = "pool" => total_count >= 1
        BY <2>5, FiniteSets DEF PoolInv, SlotsAccounted
      <4>2. mapped = "pool" => total_count' = total_count - 1
        BY <2>7, <4>1, FiniteSets DEF saturating_dec
      <4> QED
        BY <2>1, <2>2, <2>5, <2>7, <4>2, FiniteSets DEF PoolInv, SlotsAccounted
    <3> QED
      BY <2>6, <3>2, <3>3, <3>4 DEF PoolInv
  <2>8. CASE /\ idle' = Append(idle, c) /\ total_count' = total_count
             /\ conn' = [conn EXCEPT ![c].st = begin_borrow(@.parent_db, @.parent_db)]
    <3>1. Idle' = Idle \cup {c} /\ Distinct(idle') /\ Len(idle') = Len(idle) + 1
      BY <1>0, <2>4, <2>8, AppendFacts DEF Idle, Apart
    <3>2. OneOwner'
      <4>1. Apart(idle', Idle', in_use', Cleaning', Resyncing')
        BY <1>0, <2>1, <2>2, <2>4, <3>1 DEF Apart
      <4> QED
        BY <4>1, OwnerSets
    <3>3. OpenInv'
      <4>1. \A x \in Conns : conn'[x].target = conn[x].target
        BY <1>0, <2>8 DEF ConnType
      <4> QED
        BY <2>1, <2>2, <2>4, <3>1, <4>1 DEF PoolInv, OpenInv, IsOpen
    <3>4. SlotsAccounted'
      BY <2>1, <2>2, <2>5, <2>8, <3>1, FiniteSets DEF PoolInv, SlotsAccounted
    <3> QED
      BY <2>6, <3>2, <3>3, <3>4 DEF PoolInv
  <2>9. ~cleanup[c].pool => mapped # "pool"
    BY <2>4 DEF PoolInv, CloseInv
  <2> QED
    BY <1>2, <2>7, <2>8, <2>9 DEF CleanupEnds, CleanupSlot
<1> QED
  BY <1>1, <1>2

\* Attempts and commands change no owner.
LEMMA UserPool ==
    ASSUME TypeOK, LoopInv, PoolInv, NEW u \in Users,
           \/ \E t \in Targets : BeginAcquire(u, t)
           \/ Resolve(u) \/ Wake(u) \/ BackoffElapsed(u) \/ GiveUp(u)
           \/ \E c \in scenario.cmds : Issue(u, c)
           \/ Dispatch(u) \/ Execute(u) \/ Complete(u)
    PROVE  PoolInv'
<1>1. UNCHANGED <<idle, in_use, total_count, resyncing, cleanup, registry, closing>>
  BY DEF BeginAcquire, Resolve, Wake, BackoffElapsed, GiveUp, Issue, Dispatch, Execute, Complete,
         poolVars, taskVars, envVars
<1>2. mapped' = mapped \/ (mapped = "none" /\ mapped' = "orphan")
  BY DEF BeginAcquire, Resolve, Wake, BackoffElapsed, GiveUp, Issue, Dispatch, Execute, Complete,
         envVars
<1>3. \A d \in Dials : dial'[d].phase = "free" <=> dial[d].phase = "free"
  <2>1. CASE GiveUp(u)
    <3> SUFFICES ASSUME NEW d \in Dials
                 PROVE  dial'[d].phase = dial[d].phase
      OBVIOUS
    <3>1. dial[d] \in DialType
      BY DEF TypeOK
    <3> QED
      BY <2>1, <3>1 DEF GiveUp, DialType
  <2>2. CASE dial' = dial
    BY <2>2
  <2> QED
    BY <2>1, <2>2 DEF BeginAcquire, Resolve, Wake, BackoffElapsed, Issue, Dispatch, Execute,
                      Complete, taskVars
<1>4. \A x \in Conns : conn'[x].target = conn[x].target
  <2>0. conn \in [Conns -> ConnType] /\ (cmd[u].phase # "none" => cmd[u].id \in Conns)
    BY DEF TypeOK, LoopInv, CmdIdInv
  <2>a. ASSUME NEW st
        PROVE  \A x \in Conns : Record(u, st)[x].target = conn[x].target /\ DOMAIN Record(u, st) = Conns
    BY <2>0 DEF Record, ConnType
  <2>1. CASE conn' = conn
    BY <2>1
  <2>2. CASE Execute(u)
    <3>1. \E st : conn' = Record(u, st)
      BY <2>2 DEF Execute
    <3> QED
      BY <2>a, <3>1
  <2>3. CASE Complete(u)
    <3> DEFINE id == cmd[u].id
    <3>0. id \in Conns
      BY <2>0, <2>3 DEF Complete
    <3>1. CASE Answered(u)
      <4> DEFINE r == Record(u, Unmarked(u, conn[id].st))
      <4>1. conn' = conn \/ conn' = r \/ \E s : conn' = [r EXCEPT ![id].server = s]
        BY <3>1 DEF Answered
      <4>2. \A x \in Conns : r[x].target = conn[x].target
        BY <2>a
      <4>3. r \in [Conns -> ConnType]
        <5>1. Unmarked(u, conn[id].st) \in ConnectionState
          <6>1. conn[id].st \in ConnectionState /\ cmd[u].poisoned \in BOOLEAN
            BY <2>0, <3>0 DEF ConnType, TypeOK, CmdType
          <6> QED
            BY <6>1 DEF Unmarked, ConnectionState
        <5> QED
          BY <3>0, <5>1, RecordFacts
      <4> HIDE DEF r
      <4> QED
        BY <4>1, <4>2, <4>3 DEF ConnType
    <3>2. CASE Poisoned(u)
      <4> DEFINE w == conn[id].server.waiter \/ ~conn[id].server.multi
      <4>1. conn' = conn \/ conn' = [conn EXCEPT ![id].server.waiter = w]
        BY <2>0, <3>0, <3>2 DEF Poisoned
      <4> HIDE DEF w
      <4> QED
        BY <2>0, <4>1 DEF ConnType
    <3>3. CASE AuthFailed(u)
      <4>1. conn' = conn \/ \E st : conn' = Record(u, st)
        BY <3>3 DEF AuthFailed
      <4> QED
        BY <2>a, <4>1
    <3> QED
      BY <2>3, <3>1, <3>2, <3>3 DEF Complete
  <2> QED
    BY <2>1, <2>2, <2>3 DEF BeginAcquire, Resolve, Wake, BackoffElapsed, GiveUp, Issue, Dispatch
<1>5. OneOwner' /\ OpenInv' /\ SlotsAccounted'
  BY <1>1, <1>2, <1>3, <1>4, StillPool
<1>6. CloseInv'
  <2>1. Cleaning' = Cleaning
    BY <1>1 DEF Cleaning
  <2> QED
    BY <1>1, <1>2, <2>1 DEF PoolInv, CloseInv
<1> QED
  BY <1>5, <1>6 DEF PoolInv

LEMMA ParentPool ==
    ASSUME TypeOK, PoolInv,
           (\E d \in Dbs : ParentSelects(d)) \/ Unregister \/ DropPool \/ SweepRegistry
    PROVE  PoolInv'
<1>1. UNCHANGED <<idle, in_use, total_count, resyncing, cleanup, conn, dial>>
  BY DEF ParentSelects, Unregister, DropPool, SweepRegistry, poolVars, taskVars
<1>2. mapped' = "pool" => mapped = "pool"
  BY DEF ParentSelects, Unregister, DropPool, SweepRegistry
<1>3. OneOwner' /\ OpenInv' /\ SlotsAccounted'
  BY <1>1, <1>2, StillPool
<1>4. CloseInv'
  <2>1. Cleaning' = Cleaning
    BY <1>1 DEF Cleaning
  <2> QED
    BY <1>1, <2>1 DEF ParentSelects, Unregister, DropPool, SweepRegistry, PoolInv, CloseInv, poolVars
<1> QED
  BY <1>3, <1>4 DEF PoolInv

LEMMA PoolKept ==
    ASSUME TypeOK, LoopInv, PoolInv, Next
    PROVE  PoolInv'
BY NextCases, UserPool, TryPool, GiveBackPool, DialPool, ResyncPool, CleanupPool, ParentPool

-----------------------------------------------------------------------------
(* Nobody sleeps for a slot that is free *)

LEMMA NobodySleeps ==
    ASSUME NEW a \in [Users -> AcqType]
    PROVE  \A u \in Users : ~(NotifyAll(a)[u].phase = "sleeping" /\ ~NotifyAll(a)[u].notified)
BY NotifyFacts

\* The sleepers stay, and what they wait for does not come.
LEMMA SleepersStay ==
    ASSUME ExhaustedWakes, total_count \in Nat, total_count' \in Nat, idle' = idle,
           total_count' >= total_count,
           \A u \in Users : acq'[u] = acq[u] \/ acq'[u].phase # "sleeping" \/ acq'[u].notified
                              \/ acq'[u].cause # "exhausted"
    PROVE  ExhaustedWakes'
BY ScopeAssumption DEF ExhaustedWakes

LEMMA WakesKept ==
    ASSUME TypeOK, TypeOK', LoopInv, ExhaustedWakes, Next
    PROVE  ExhaustedWakes'
<1>0. /\ acq \in [Users -> AcqType] /\ total_count \in Nat /\ total_count' \in Nat
      /\ idle \in Seq(Conns) /\ Len(idle) \in Nat /\ MaxTotal \in Nat
  BY ScopeAssumption DEF TypeOK
<1>a. ASSUME acq' = NotifyAll(acq)
      PROVE  ExhaustedWakes'
  BY <1>0, <1>a, NobodySleeps DEF ExhaustedWakes
<1>1. ASSUME NEW u \in Users,
             \/ \E t \in Targets : BeginAcquire(u, t)
             \/ Resolve(u) \/ Wake(u) \/ BackoffElapsed(u) \/ GiveUp(u)
      PROVE  ExhaustedWakes'
  <2>1. UNCHANGED <<idle, total_count>>
    BY <1>1 DEF BeginAcquire, Resolve, Wake, BackoffElapsed, GiveUp, poolVars
  <2>2. \A v \in Users : acq'[v] = acq[v] \/ acq'[v].phase # "sleeping" \/ acq'[v].notified
                           \/ acq'[v].cause # "exhausted"
    <3>1. ASSUME NEW t \in Targets, BeginAcquire(u, t)
          PROVE  \A v \in Users : acq'[v] = acq[v] \/ acq'[v].phase # "sleeping"
      BY <1>0, <3>1 DEF BeginAcquire, NoAcq
    <3>2. CASE Resolve(u)
      <4>1. \A v \in Users : v # u => acq'[v] = acq[v]
        BY <1>0, <3>2 DEF Resolve
      <4>2. \/ acq' = [acq EXCEPT ![u] = NoAcq]
            \/ acq' = [acq EXCEPT ![u].phase = "sleeping", ![u].cause = "unresolved"]
            \/ acq' = [acq EXCEPT ![u].phase = "resolved", ![u].db = runtimeDb]
        BY <3>2 DEF Resolve
      <4>3. acq'[u].phase # "sleeping" \/ acq'[u].cause # "exhausted"
        BY <1>0, <4>2 DEF NoAcq, AcqType
      <4> QED
        BY <4>1, <4>3
    <3>3. CASE Wake(u) \/ BackoffElapsed(u)
      <4>1. acq' = Arm(acq, u)
        BY <3>3 DEF Wake, BackoffElapsed
      <4>2. acq'[u].phase = "armed" /\ \A v \in Users : v # u => acq'[v] = acq[v]
        BY <1>0, <4>1, ArmFacts
      <4> QED
        BY <4>2
    <3>4. CASE GiveUp(u)
      BY <1>0, <3>4 DEF GiveUp, NoAcq
    <3> QED
      BY <1>1, <3>1, <3>2, <3>3, <3>4
  <2> QED
    BY <1>0, <2>1, <2>2, SleepersStay
<1>2. ASSUME NEW u \in Users, TryAcquire(u)
      PROVE  ExhaustedWakes'
  <2>1. PICK n \in 0..Len(idle) :
            LET t == acq[u].target  d == acq[u].db IN
            IF Reusable(t, d, n) # {} THEN Reuse(u, Newest(Reusable(t, d, n)))
            ELSE IF WrongDb(t, d, n) # {} THEN NeedsResync(u, n)
            ELSE Reserve(u, n) \/ Exhausted(u, n)
    BY <1>2 DEF TryAcquire
  <2>2. \A v \in Users : v # u => acq'[v] = acq[v]
    BY <1>0, <2>1 DEF Reuse, NeedsResync, Reserve, Exhausted
  <2>3. ASSUME Len(idle) # 0, acq'[u].phase # "sleeping" \/ acq'[u].cause # "exhausted"
        PROVE  ExhaustedWakes'
    <3>1. idle # <<>>
      BY <1>0, <2>3, EmptySeq
    <3> QED
      BY <2>2, <2>3, <3>1 DEF ExhaustedWakes
  <2>4. CASE \E i \in 1..Len(idle) : Reuse(u, i)
    BY <1>0, <2>3, <2>4 DEF Reuse, NoAcq
  <2>5. CASE NeedsResync(u, n) /\ WrongDb(acq[u].target, acq[u].db, n) # {}
    <3>1. Len(idle) # 0
      BY <1>0, <2>5, PositionFacts
    <3>2. acq'[u].cause = "pending"
      BY <1>0, <2>5 DEF NeedsResync, AcqType
    <3> QED
      BY <2>3, <3>1, <3>2
  <2>6. CASE Reserve(u, n)
    <3>1. acq'[u].phase = "creating"
      BY <1>0, <2>6 DEF Reserve, AcqType
    <3>2. CASE Len(idle) # 0
      BY <2>3, <3>1, <3>2
    <3>3. CASE Len(idle) = 0
      <4>1. n = 0
        BY <3>3
      <4>2. Pruned(n) = <<>> /\ DecBy(total_count, n) = total_count
        BY <1>0, <3>3, <4>1, PrunedFacts DEF DecBy
      <4>3. ~(total_count >= MaxTotal)
        BY <2>6, <4>2 DEF Reserve
      <4> QED
        BY <2>2, <3>1, <4>3 DEF ExhaustedWakes
    <3> QED
      BY <3>2, <3>3
  <2>7. CASE Exhausted(u, n)
    <3>1. idle' = <<>> /\ total_count' >= MaxTotal
      BY <2>7 DEF Exhausted
    <3> QED
      BY <3>1 DEF ExhaustedWakes
  <2> QED
    BY <2>1, <2>4, <2>5, <2>6, <2>7, PositionFacts
<1>3. ASSUME NEW u \in Users,
             \/ \E c \in scenario.cmds : Issue(u, c)
             \/ Dispatch(u) \/ Execute(u) \/ Complete(u)
      PROVE  ExhaustedWakes'
  <2>1. UNCHANGED <<idle, total_count, acq>>
    BY <1>3 DEF Issue, Dispatch, Execute, Complete, poolVars
  <2> QED
    BY <2>1 DEF ExhaustedWakes
<1>4. ASSUME NEW u \in Users,
             \/ Release(u) \/ ReleaseAgain(u)
             \/ \E id \in Conns : DeferredRelease(u, id)
      PROVE  ExhaustedWakes'
  <2>1. \/ \E id \in Conns : DoRelease(id)
        \/ UNCHANGED <<idle, total_count, acq>>
    BY <1>4 DEF Release, ReleaseAgain, DeferredRelease, ReleaseScope, TypeOK
  <2>2. acq' = NotifyAll(acq) \/ UNCHANGED <<idle, total_count, acq>>
    BY <2>1 DEF DoRelease, WakeAfterRelease
  <2> QED
    BY <1>a, <2>2 DEF ExhaustedWakes
<1>5. CASE PrewarmStart
  <2>1. acq' = acq /\ idle' = idle /\ total_count' >= total_count
    BY <1>0, <1>5 DEF PrewarmStart
  <2> QED
    BY <1>0, <2>1, SleepersStay
<1>6. ASSUME NEW d \in Dials, DialConnects(d)
      PROVE  ExhaustedWakes'
  BY <1>6 DEF DialConnects, poolVars, ExhaustedWakes
<1>7. ASSUME NEW d \in Dials, DialSeats(d) \/ DialFails(d)
      PROVE  ExhaustedWakes'
  <2> DEFINE a == NotifyAll(acq)
             o == dial[d].owner
  <2>1. /\ a \in [Users -> AcqType]
        /\ \A v \in Users : ~(a[v].phase = "sleeping" /\ ~a[v].notified)
    BY <1>0, NotifyFacts, NobodySleeps
  <2>2. \/ acq' = a
        \/ o # NoUser /\ (acq' = Arm(a, o) \/ acq' = [a EXCEPT ![o] = NoAcq]
                            \/ acq' = [a EXCEPT ![o].phase = "backoff"])
    BY <1>7 DEF DialSeats, DialFails
  <2>3. o # NoUser => o \in Users
    BY DEF TypeOK, DialType
  <2> HIDE DEF a, o
  <2>4. \A v \in Users : ~(acq'[v].phase = "sleeping" /\ ~acq'[v].notified)
    <3>1. CASE acq' = a
      BY <2>1, <3>1
    <3>2. CASE o # NoUser /\ acq' = Arm(a, o)
      BY <2>1, <2>3, <3>2, ArmFacts
    <3>3. CASE o # NoUser /\ acq' = [a EXCEPT ![o] = NoAcq]
      BY <2>1, <2>3, <3>3 DEF NoAcq
    <3>4. CASE o # NoUser /\ acq' = [a EXCEPT ![o].phase = "backoff"]
      BY <2>1, <2>3, <3>4 DEF AcqType
    <3> QED
      BY <2>2, <3>1, <3>2, <3>3, <3>4
  <2> QED
    BY <2>4 DEF ExhaustedWakes
<1>8. ASSUME NEW t \in Targets, NEW d \in Dbs, ResyncTake(t, d)
      PROVE  ExhaustedWakes'
  <2>1. acq' = acq /\ total_count' = total_count
    BY <1>8 DEF ResyncTake
  <2>2. CASE idle' = idle
    BY <2>1, <2>2 DEF ExhaustedWakes
  <2>3. CASE idle' # idle
    <3>1. WrongDb(t, d, 0) # {}
      BY <1>8, <2>3 DEF ResyncTake
    <3>2. Len(idle) # 0
      BY <1>0, <3>1, PositionFacts
    <3>3. idle # <<>>
      BY <1>0, <3>2, EmptySeq
    <3> QED
      BY <2>1, <3>3 DEF ExhaustedWakes
  <2> QED
    BY <2>2, <2>3
<1>9. ASSUME NEW c \in Conns, ResyncSucceeds(c) \/ ResyncFails(c) \/ CleanupSends(c) \/ CleanupEnds(c)
      PROVE  ExhaustedWakes'
  <2>1. acq' = NotifyAll(acq) \/ UNCHANGED <<idle, total_count, acq>>
    BY <1>9 DEF ResyncSucceeds, ResyncFails, CleanupSends, CleanupEnds, poolVars
  <2> QED
    BY <1>a, <2>1 DEF ExhaustedWakes
<1>10. ASSUME (\E d \in Dbs : ParentSelects(d)) \/ Unregister \/ DropPool \/ SweepRegistry
       PROVE  ExhaustedWakes'
  <2>1. acq' = NotifyAll(acq) \/ UNCHANGED <<idle, total_count, acq>>
    BY <1>10 DEF ParentSelects, Unregister, DropPool, SweepRegistry, poolVars
  <2> QED
    BY <1>a, <2>1 DEF ExhaustedWakes
<1> QED
  BY NextCases, <1>1, <1>2, <1>3, <1>4, <1>5, <1>6, <1>7, <1>8, <1>9, <1>10

-----------------------------------------------------------------------------
(* Holders *)

LEMMA SeekKept ==
    ASSUME TypeOK, LoopInv, SeekInv, Next
    PROVE  SeekInv'
<1>0. acq \in [Users -> AcqType] /\ holds \in [Users -> Conns \cup {NoConn}] /\ dial \in [Dials -> DialType]
  BY DEF TypeOK
<1>a. ASSUME holds' = holds, \A v \in Users : acq'[v].phase # "off" => acq[v].phase # "off"
      PROVE  SeekInv'
  BY <1>a DEF SeekInv
<1>b. \A v \in Users : NotifyAll(acq)[v].phase = acq[v].phase
  BY <1>0, NotifyFacts
<1>1. ASSUME NEW u \in Users,
             \/ \E t \in Targets : BeginAcquire(u, t)
             \/ Resolve(u) \/ Wake(u) \/ BackoffElapsed(u) \/ GiveUp(u)
      PROVE  SeekInv'
  <2>1. holds' = holds
    BY <1>1 DEF BeginAcquire, Resolve, Wake, BackoffElapsed, GiveUp, userVars
  <2>2. holds[u] = NoConn
    BY <1>1 DEF BeginAcquire, Resolve, Wake, BackoffElapsed, GiveUp, SeekInv
  <2>3. \A v \in Users : v # u => acq'[v] = acq[v]
    BY <1>0, <1>1 DEF BeginAcquire, Resolve, Wake, BackoffElapsed, GiveUp, Arm
  <2> QED
    BY <2>1, <2>2, <2>3 DEF SeekInv
<1>2. ASSUME NEW u \in Users, TryAcquire(u)
      PROVE  SeekInv'
  <2>0. holds[u] = NoConn
    BY <1>2 DEF TryAcquire, SeekInv
  <2>1. PICK n \in 0..Len(idle) :
            LET t == acq[u].target  d == acq[u].db IN
            IF Reusable(t, d, n) # {} THEN Reuse(u, Newest(Reusable(t, d, n)))
            ELSE IF WrongDb(t, d, n) # {} THEN NeedsResync(u, n)
            ELSE Reserve(u, n) \/ Exhausted(u, n)
    BY <1>2 DEF TryAcquire
  <2>2. \A v \in Users : v # u => acq'[v] = acq[v] /\ holds'[v] = holds[v]
    BY <1>0, <2>1 DEF Reuse, NeedsResync, Reserve, Exhausted
  <2>3. holds' = holds \/ acq'[u].phase = "off"
    BY <1>0, <2>1 DEF Reuse, NeedsResync, Reserve, Exhausted, NoAcq
  <2> QED
    BY <2>0, <2>2, <2>3 DEF SeekInv
<1>3. ASSUME NEW u \in Users,
             \/ \E c \in scenario.cmds : Issue(u, c)
             \/ Dispatch(u) \/ Execute(u) \/ Complete(u)
      PROVE  SeekInv'
  BY <1>3 DEF Issue, Dispatch, Execute, Complete, userVars, SeekInv
<1>4. ASSUME NEW u \in Users,
             \/ Release(u) \/ ReleaseAgain(u)
             \/ \E id \in Conns : DeferredRelease(u, id)
      PROVE  SeekInv'
  <2>1. \/ \E id \in Conns : DoRelease(id)
        \/ acq' = acq
    BY <1>4 DEF Release, ReleaseAgain, DeferredRelease, ReleaseScope, TypeOK
  <2>2. acq' = NotifyAll(acq) \/ acq' = acq
    BY <2>1 DEF DoRelease, WakeAfterRelease
  <2>3. holds' = holds \/ holds' = [holds EXCEPT ![u] = NoConn]
    BY <1>4 DEF Release, ReleaseAgain, DeferredRelease
  <2> QED
    BY <1>0, <1>b, <2>2, <2>3 DEF SeekInv
<1>5. CASE PrewarmStart
  BY <1>a, <1>5 DEF PrewarmStart, userVars
<1>6. ASSUME NEW d \in Dials, DialConnects(d) \/ DialSeats(d) \/ DialFails(d)
      PROVE  SeekInv'
  <2> DEFINE a == NotifyAll(acq)
             o == dial[d].owner
  <2>1. \/ acq' = acq \/ acq' = a
        \/ o # NoUser /\ (acq' = Arm(a, o) \/ acq' = [a EXCEPT ![o] = NoAcq]
                            \/ acq' = [a EXCEPT ![o].phase = "backoff"])
    BY <1>6 DEF DialConnects, DialSeats, DialFails
  <2>2. o # NoUser => o \in Users /\ acq[o].phase = "creating"
    BY <1>0 DEF DialType, LoopInv, OwnerInv
  <2>3. a \in [Users -> AcqType] /\ \A v \in Users : a[v].phase = acq[v].phase
    BY <1>0, <1>b, NotifyFacts
  <2> HIDE DEF a, o
  <2>4. \A v \in Users : acq'[v].phase # "off" => acq[v].phase # "off"
    <3>1. CASE acq' = acq \/ acq' = a
      BY <2>3, <3>1
    <3>2. CASE o # NoUser /\ (acq' = Arm(a, o) \/ acq' = [a EXCEPT ![o] = NoAcq]
                                \/ acq' = [a EXCEPT ![o].phase = "backoff"])
      <4>1. \A v \in Users : v # o => acq'[v] = a[v]
        BY <2>2, <2>3, <3>2 DEF Arm
      <4> QED
        BY <2>2, <2>3, <3>2, <4>1
    <3> QED
      BY <2>1, <3>1, <3>2
  <2>5. holds' = holds
    BY <1>6 DEF DialConnects, DialSeats, DialFails, userVars
  <2> QED
    BY <1>a, <2>4, <2>5
<1>7. ASSUME \/ \E t \in Targets, d \in Dbs : ResyncTake(t, d)
             \/ \E c \in Conns : ResyncSucceeds(c) \/ ResyncFails(c)
             \/ \E c \in Conns : CleanupSends(c) \/ CleanupEnds(c)
             \/ (\E d \in Dbs : ParentSelects(d)) \/ Unregister \/ DropPool \/ SweepRegistry
      PROVE  SeekInv'
  <2>1. holds' = holds /\ (acq' = acq \/ acq' = NotifyAll(acq))
    BY <1>7 DEF ResyncTake, ResyncSucceeds, ResyncFails, CleanupSends, CleanupEnds,
                ParentSelects, Unregister, DropPool, SweepRegistry, userVars
  <2> QED
    BY <1>a, <1>b, <2>1
<1> QED
  BY NextCases, <1>1, <1>2, <1>3, <1>4, <1>5, <1>6, <1>7

LEMMA HoldKept ==
    ASSUME TypeOK, PoolInv, HoldInv, Next
    PROVE  HoldInv'
<1>0. holds \in [Users -> Conns \cup {NoConn}] /\ released \in [Users -> Conns \cup {NoConn}]
  BY DEF TypeOK
<1>a. ASSUME UNCHANGED <<scenario, holds, released, toRelease, in_use>>
      PROVE  HoldInv'
  BY <1>a DEF HoldInv
<1>1. ASSUME NEW u \in Users, TryAcquire(u)
      PROVE  HoldInv'
  <2>0. UNCHANGED <<scenario, released, toRelease>>
    BY <1>1 DEF TryAcquire, envVars
  <2>1. PICK n \in 0..Len(idle) :
            LET t == acq[u].target  d == acq[u].db IN
            IF Reusable(t, d, n) # {} THEN Reuse(u, Newest(Reusable(t, d, n)))
            ELSE IF WrongDb(t, d, n) # {} THEN NeedsResync(u, n)
            ELSE Reserve(u, n) \/ Exhausted(u, n)
    BY <1>1 DEF TryAcquire
  <2>2. CASE NeedsResync(u, n) \/ Reserve(u, n) \/ Exhausted(u, n)
    BY <1>a, <2>0, <2>2 DEF NeedsResync, Reserve, Exhausted
  <2>3. ASSUME NEW i \in 1..Len(idle), Reuse(u, i)
        PROVE  HoldInv'
    <3> DEFINE c == idle[i]
    <3>1. c \in Conns /\ c \in Idle /\ c # NoConn
      BY ScopeAssumption DEF TypeOK, Idle, ToSet
    <3>2. holds' = [holds EXCEPT ![u] = c] /\ in_use' = in_use \cup {c}
      BY <2>3 DEF Reuse
    <3> HIDE DEF c
    <3>3. c \notin in_use
      BY <3>1, OwnerSets DEF PoolInv, Apart
    <3> QED
      BY <1>0, <2>0, <3>1, <3>2, <3>3 DEF HoldInv
  <2> QED
    BY <2>1, <2>2, <2>3, PositionFacts
<1>2. ASSUME NEW id \in Conns, DoRelease(id)
      PROVE  in_use' = in_use \ {id}
  BY <1>2 DEF DoRelease
<1>3. ASSUME NEW u \in Users, Release(u)
      PROVE  HoldInv'
  <2> DEFINE id == holds[u]
  <2>1. /\ id \in Conns /\ id # NoConn /\ scenario' = scenario /\ holds' = [holds EXCEPT ![u] = NoConn]
        /\ released' = [released EXCEPT ![u] = IF scenario.twice THEN id ELSE NoConn]
        /\ ReleaseScope(u, id)
    BY <1>0, <1>3 DEF Release, envVars
  <2> HIDE DEF id
  <2>2. \/ in_use' = in_use /\ toRelease' = toRelease
        \/ in_use' = in_use \ {id} /\ toRelease' = toRelease
        \/ in_use' = in_use /\ toRelease' = toRelease \cup {<<u, id>>}
    BY <1>2, <2>1 DEF ReleaseScope
  <2> SUFFICES ASSUME ~scenario.twice
               PROVE  /\ \A v \in Users : released'[v] = NoConn
                      /\ \A v \in Users : holds'[v] # NoConn =>
                            /\ holds'[v] \in in_use'
                            /\ \A w \in Users : holds'[w] = holds'[v] => w = v
                      /\ \A v \in Users, c \in Conns : <<v, c>> \in toRelease' =>
                            /\ c \in in_use'
                            /\ \A w \in Users : holds'[w] # c
                            /\ \A w \in Users : <<w, c>> \in toRelease' => w = v
    BY <2>1 DEF HoldInv
  <2>3. \A v \in Users : released[v] = NoConn
    BY DEF HoldInv
  <2>4. \A v \in Users : released'[v] = NoConn
    BY <1>0, <2>1, <2>3
  <2>5. /\ holds'[u] = NoConn /\ \A v \in Users : v # u => holds'[v] = holds[v]
        /\ \A v \in Users : v # u => holds[v] # id
        /\ id \in in_use
        /\ \A v \in Users : <<v, id>> \notin toRelease
    BY <1>0, <2>1 DEF HoldInv, id
  <2>6. \A v \in Users : holds'[v] # NoConn =>
            /\ holds'[v] \in in_use'
            /\ \A w \in Users : holds'[w] = holds'[v] => w = v
    BY <2>2, <2>5 DEF HoldInv
  <2>7. ASSUME NEW v \in Users, NEW c \in Conns, <<v, c>> \in toRelease'
        PROVE  /\ c \in in_use'
               /\ \A w \in Users : holds'[w] # c
               /\ \A w \in Users : <<w, c>> \in toRelease' => w = v
    <3>0. NoConn \notin Conns
      BY ScopeAssumption
    <3>1. CASE <<v, c>> \in toRelease
      BY <2>2, <2>5, <3>0, <3>1 DEF HoldInv
    <3>2. CASE v = u /\ c = id /\ in_use' = in_use /\ toRelease' = toRelease \cup {<<u, id>>}
      BY <2>5, <3>0, <3>2
    <3> QED
      BY <2>2, <2>7, <3>1, <3>2
  <2> QED
    BY <2>4, <2>6, <2>7
<1>4. ASSUME NEW u \in Users, ReleaseAgain(u)
      PROVE  HoldInv'
  BY <1>4 DEF ReleaseAgain, HoldInv, envVars
<1>5. ASSUME NEW u \in Users, NEW id \in Conns, DeferredRelease(u, id)
      PROVE  HoldInv'
  <2>1. /\ <<u, id>> \in toRelease /\ toRelease' = toRelease \ {<<u, id>>} /\ in_use' = in_use \ {id}
        /\ UNCHANGED <<scenario, holds, released>>
    BY <1>2, <1>5 DEF DeferredRelease, envVars
  <2> QED
    BY <1>0, <2>1 DEF HoldInv
<1>6. CASE UNCHANGED <<scenario, holds, released, toRelease, in_use>>
  BY <1>a, <1>6
<1>7. ASSUME NEW u \in Users,
             \/ \E t \in Targets : BeginAcquire(u, t)
             \/ Resolve(u) \/ Wake(u) \/ BackoffElapsed(u) \/ GiveUp(u)
             \/ \E c \in scenario.cmds : Issue(u, c)
             \/ Dispatch(u) \/ Execute(u) \/ Complete(u)
      PROVE  UNCHANGED <<scenario, holds, released, toRelease, in_use>>
  BY <1>7 DEF BeginAcquire, Resolve, Wake, BackoffElapsed, GiveUp, Issue, Dispatch, Execute,
              Complete, poolVars, envVars, userVars
<1>8. ASSUME \/ PrewarmStart \/ \E d \in Dials : DialConnects(d) \/ DialSeats(d) \/ DialFails(d)
             \/ \E t \in Targets, d \in Dbs : ResyncTake(t, d)
             \/ \E c \in Conns : ResyncSucceeds(c) \/ ResyncFails(c)
             \/ \E c \in Conns : CleanupSends(c) \/ CleanupEnds(c)
             \/ (\E d \in Dbs : ParentSelects(d)) \/ Unregister \/ DropPool \/ SweepRegistry
      PROVE  UNCHANGED <<scenario, holds, released, toRelease, in_use>>
  BY <1>8 DEF PrewarmStart, DialConnects, DialSeats, DialFails, ResyncTake, ResyncSucceeds,
              ResyncFails, CleanupSends, CleanupEnds, ParentSelects, Unregister, DropPool,
              SweepRegistry, poolVars, envVars, userVars
<1> QED
  BY NextCases, <1>1, <1>3, <1>4, <1>5, <1>6, <1>7, <1>8

-----------------------------------------------------------------------------
(* The record and the server *)

\* A command in its place keeps the record a bound on the server's state.
LEMMA TracksStep ==
    ASSUME NEW st \in ConnectionState, NEW s \in ServerState, NEW c \in Command,
           Tracks(st, s), InPlace(s, c), NEW s2 \in ServerAfter(s, c)
    PROVE  Tracks(update_state_for_command(st, c), s2)
<1>0. c.op \in Ops \cup {"SELECT"} /\ (c.op = "SELECT" => c.db \in Dbs)
  BY CommandDb DEF Command, Op, Select
<1>1. CASE ~s.multi
  <2>1. s2 = RunDirect(s, c) /\ ~st.multi_active
    BY <1>1 DEF ServerAfter, Tracks
  <2>2. c.op \notin {"EXEC", "DISCARD"}
    BY <1>1 DEF InPlace
  <2>3. CASE c.op = "WATCH"
    BY <2>1, <2>3, QueueTypes DEF RunDirect, update_state_for_command, Tracks, ConnectionState
  <2>4. CASE c.op = "UNWATCH"
    BY <2>1, <2>4, QueueTypes DEF RunDirect, update_state_for_command, Tracks, ConnectionState
  <2>5. CASE c.op = "MULTI"
    BY <2>1, <2>5, QueueTypes DEF RunDirect, update_state_for_command, Tracks, ConnectionState
  <2>6. CASE c.op = "SELECT"
    BY <2>1, <2>6, QueueTypes DEF RunDirect, update_state_for_command, Tracks, ConnectionState
  <2>7. CASE c.op = "TRACKING_ON"
    BY <2>1, <2>7, QueueTypes DEF RunDirect, update_state_for_command, Tracks, ConnectionState
  <2>8. CASE c.op = "TRACKING_OFF"
    BY <2>1, <2>8, QueueTypes DEF RunDirect, update_state_for_command, Tracks, ConnectionState
  <2>9. CASE c.op = "ALTER"
    BY <2>1, <2>9, QueueTypes DEF RunDirect, update_state_for_command, Tracks, ConnectionState
  <2>10. CASE c.op \in {"BLPOP", "GET"}
    BY <2>1, <2>10 DEF RunDirect, update_state_for_command, Tracks
  <2> QED
    BY <1>0, <2>2, <2>3, <2>4, <2>5, <2>6, <2>7, <2>8, <2>9, <2>10 DEF Ops
<1>2. CASE s.multi
  <2>1. c.op \in {"EXEC", "DISCARD", "GET", "BLPOP", "WATCH", "MULTI"}
    BY <1>0, <1>2 DEF InPlace, Ops
  <2>2. CASE c.op \in {"GET", "BLPOP"}
    <3>1. s2 = Enqueue(s, c)
      BY <1>2, <2>2 DEF ServerAfter
    <3>2. s2 = [s EXCEPT !.queued = s.queued]
      BY <2>2, <3>1 DEF Enqueue
    <3>3. s2 = s
      BY <3>2 DEF ServerState
    <3> QED
      BY <2>2, <3>3 DEF update_state_for_command
  <2>4. CASE c.op \in {"WATCH", "MULTI"}
    <3>1. s2 = s
      BY <1>2, <2>4 DEF ServerAfter
    <3>2. \/ update_state_for_command(st, c) = [st EXCEPT !.watch_active = TRUE]
          \/ update_state_for_command(st, c) = [st EXCEPT !.multi_active = TRUE]
      BY <2>4 DEF update_state_for_command
    <3> QED
      BY <1>2, <3>1, <3>2 DEF Tracks, ConnectionState
  <2>3. CASE c.op \in {"EXEC", "DISCARD"}
    <3> DEFINE n == [st EXCEPT !.watch_active = FALSE, !.multi_active = FALSE]
    <3>1. update_state_for_command(st, c) = n
      BY <2>3 DEF update_state_for_command
    <3>2. s2 = EndTransaction(s) \/ s2 = Commit(s)
      BY <1>2, <2>3 DEF ServerAfter
    <3>3. Tracks(n, EndTransaction(s))
      BY QueueTypes DEF Tracks, EndTransaction, ConnectionState
    <3>4. s.queued = NothingQueued
      BY DEF Tracks
    <3>5. Tracks(n, Commit(s))
      <4> DEFINE e == EndTransaction(s)
      <4>1. e \in ServerState /\ e.db = s.db /\ e.tracking = s.tracking /\ e.altered = s.altered
        BY EndTypes, QueueTypes DEF EndTransaction
      <4>2. Commit(s) = [e EXCEPT !.db = s.db, !.tracking = s.tracking, !.altered = s.altered]
        <5>1. s.queued.db = NoDb /\ s.queued.tracking = "NONE" /\ s.queued.altered = FALSE
          BY <3>4 DEF NothingQueued
        <5>2. s.altered \/ s.queued.altered <=> s.altered
          BY <5>1
        <5>3. (s.altered \/ s.queued.altered) = s.altered
          BY <5>1, QueueTypes
        <5> QED
          BY <5>1, <5>3 DEF Commit
      <4> HIDE DEF e
      <4>3. Tracks(n, e)
        BY <3>3 DEF e
      <4> QED
        BY <4>1, <4>2, <4>3, QueueTypes DEF Tracks
    <3> QED
      BY <3>1, <3>2, <3>3, <3>5
  <2> QED
    BY <2>1, <2>2, <2>3, <2>4
<1> QED
  BY <1>1, <1>2

\* A command that only marks is covered also when the server refuses it.
LEMMA MarksCover ==
    ASSUME NEW st \in ConnectionState, NEW s, NEW c \in Command, Tracks(st, s), OnlyMarks(c)
    PROVE  Tracks(update_state_for_command(st, c), s)
<1>1. CASE c.op = "WATCH"
  BY <1>1 DEF update_state_for_command, Tracks, ConnectionState
<1>2. CASE c.op = "TRACKING_ON"
  BY <1>2 DEF update_state_for_command, Tracks, ConnectionState
<1>3. CASE c.op = "ALTER"
  BY <1>3 DEF update_state_for_command, Tracks, ConnectionState
<1>4. CASE c.op \in {"BLPOP", "GET"}
  BY <1>4 DEF update_state_for_command
<1> QED
  BY <1>1, <1>2, <1>3, <1>4 DEF OnlyMarks

\* The pipeline undoes what the record claims, and so everything the server has.
LEMMA CleanedPristine ==
    ASSUME NEW st \in ConnectionState, NEW s \in ServerState, Tracks(st, s), ~st.blocking_in_flight
    PROVE  /\ Pristine(Cleaned(st, s), st.parent_db)
           /\ Cleaned(st, s).queued = NothingQueued
<1> DEFINE s1 == IF st.multi_active THEN EndTransaction(s)
                 ELSE CleanupStep(s, st.watch_active, Op("UNWATCH"))
           s2 == CleanupStep(s1, st.altered, Op("RESET_ALTER"))
           s3 == CleanupStep(s2, st.tracking_enabled, Op("TRACKING_OFF"))
           s4 == CleanupStep(s3, st.selected_db # st.parent_db, Select(st.parent_db))
<1>1. /\ s1 \in ServerState /\ ~s1.multi /\ ~s1.watching /\ ~s1.waiter /\ s1.queued = NothingQueued
      /\ s1.db = st.selected_db
      /\ s1.altered => st.altered
      /\ s1.tracking => st.tracking_enabled
  <2>0. s1 \in ServerState
    BY EndTypes, CleanupStepType DEF Op
  <2>1. CASE st.multi_active
    BY <2>0, <2>1, QueueTypes DEF Tracks, EndTransaction
  <2>2. CASE ~st.multi_active /\ st.watch_active
    <3>1. s1 = [s EXCEPT !.watching = FALSE]
      BY <2>2 DEF CleanupStep, RunDirect, Op, Tracks
    <3> HIDE DEF s1
    <3> QED
      BY <2>0, <2>2, <3>1, QueueTypes DEF Tracks
  <2>3. CASE ~st.multi_active /\ ~st.watch_active
    <3>1. s1 = s
      BY <2>3 DEF CleanupStep
    <3> QED
      BY <2>0, <2>3, <3>1 DEF Tracks
  <2> QED
    BY <2>1, <2>2, <2>3
<1> HIDE DEF s1
<1>2. /\ s2 \in ServerState /\ ~s2.multi /\ ~s2.watching /\ ~s2.waiter /\ s2.queued = NothingQueued
      /\ s2.db = st.selected_db /\ ~s2.altered
      /\ s2.tracking => st.tracking_enabled
  <2>0. s2 \in ServerState
    BY <1>1, CleanupStepType DEF Op
  <2>1. (s2 = s1 /\ ~st.altered) \/ s2 = [s1 EXCEPT !.altered = FALSE]
    BY <1>1 DEF CleanupStep, RunDirect, Op
  <2> HIDE DEF s2
  <2> QED
    BY <1>1, <2>0, <2>1, QueueTypes
<1> HIDE DEF s2
<1>3. /\ s3 \in ServerState /\ ~s3.multi /\ ~s3.watching /\ ~s3.waiter /\ s3.queued = NothingQueued
      /\ s3.db = st.selected_db /\ ~s3.altered /\ ~s3.tracking
  <2>0. s3 \in ServerState
    BY <1>2, CleanupStepType DEF Op
  <2>1. (s3 = s2 /\ ~st.tracking_enabled) \/ s3 = [s2 EXCEPT !.tracking = FALSE]
    BY <1>2 DEF CleanupStep, RunDirect, Op
  <2> HIDE DEF s3
  <2> QED
    BY <1>2, <2>0, <2>1, QueueTypes
<1> HIDE DEF s3
<1>4. Pristine(s4, st.parent_db) /\ s4.queued = NothingQueued
  <2>0. s4 \in ServerState
    BY <1>3, CleanupStepType DEF Select, ConnectionState
  <2>1. (s4 = s3 /\ st.selected_db = st.parent_db) \/ s4 = [s3 EXCEPT !.db = st.parent_db]
    BY <1>3 DEF CleanupStep, RunDirect, Select
  <2> HIDE DEF s4
  <2> QED
    BY <1>3, <2>0, <2>1, QueueTypes DEF Pristine
<1>5. Cleaned(st, s) = s4
  BY DEF Cleaned, s1, s2, s3
<1> HIDE DEF s4
<1> QED
  BY <1>4, <1>5

\* A fresh borrow of a spotless connection is tracked; a clean record is a spotless server.
LEMMA BorrowTracks ==
    ASSUME NEW s, NEW a, NEW b, Pristine(s, a), s.queued = NothingQueued
    PROVE  Tracks(begin_borrow(a, b), s)
BY DEF Pristine, Tracks, begin_borrow

LEMMA CleanIsPristine ==
    ASSUME NEW st, NEW s, Tracks(st, s), is_clean_for(st, st.parent_db)
    PROVE  Pristine(s, st.selected_db) /\ s.queued = NothingQueued
BY DEF Tracks, is_clean_for, Pristine

-----------------------------------------------------------------------------
(* A borrower's traces *)

\* A command on a connection the pool has is one that went astray.
LEMMA CommandIsLent ==
    ASSUME BorrowInv
    PROVE  \A v \in Users : cmd[v].phase # "none" => cmd[v].id \in astray \cup in_use
BY DEF BorrowInv, CmdOk

\* Steps that start and end no command; what they touch is fit afterwards.
LEMMA TouchFrame ==
    ASSUME BorrowInv, CmdIdInv, NEW T,
           \A u \in Users : cmd'[u] = cmd[u] \/ (cmd'[u].id = cmd[u].id /\ cmd[u].id \in astray'),
           \A u \in Users : cmd[u].phase # "none" /\ cmd[u].id \in T => cmd[u].id \in astray',
           \A x \in Conns : x \notin T =>
               /\ conn'[x] = conn[x] /\ cleanup'[x] = cleanup[x]
               /\ x \in Idle' \cup Resyncing' => x \in Idle \cup Resyncing
               /\ x \in in_use' <=> x \in in_use
               /\ x \in astray => x \in astray',
           \A x \in Conns : x \in T => ConnOk(x)'
    PROVE  BorrowInv'
<1>1. /\ \A u \in Users : CmdOk(u)
      /\ \A c \in Conns : ConnOk(c)
      /\ \A u \in Users : RunOk(u)
      /\ \A u \in Users : cmd[u].phase = "running" /\ cmd[u].id \notin astray => Sole(u, cmd[u].id)
  BY DEF BorrowInv
<1>a. ASSUME NEW u \in Users, cmd'[u].phase # "none", cmd'[u].id \notin astray'
      PROVE  /\ cmd'[u] = cmd[u] /\ cmd[u].id \in Conns /\ cmd[u].id \notin astray
             /\ conn'[cmd[u].id] = conn[cmd[u].id]
             /\ cmd[u].id \in in_use' <=> cmd[u].id \in in_use
  <2>1. cmd'[u] = cmd[u] /\ cmd[u].id \in Conns
    BY <1>a DEF CmdIdInv
  <2>2. cmd[u].id \notin T
    BY <1>a, <2>1
  <2> QED
    BY <1>a, <2>1, <2>2
<1>2. ASSUME NEW u \in Users
      PROVE  CmdOk(u)' /\ RunOk(u)'
  <2>1. CASE cmd'[u].phase = "none" \/ cmd'[u].id \in astray'
    BY <2>1 DEF CmdOk, RunOk
  <2>2. CASE cmd'[u].phase # "none" /\ cmd'[u].id \notin astray'
    <3>1. CmdOk(u)'
      BY <1>1, <1>a, <2>2 DEF CmdOk
    <3>2. RunOk(u)'
      BY <1>1, <1>a, <2>2 DEF RunOk, Ahead, Unmarked
    <3> QED
      BY <3>1, <3>2
  <2> QED
    BY <2>1, <2>2
<1>3. ASSUME NEW x \in Conns, x \notin T
      PROVE  ConnOk(x)'
  <2> SUFFICES ASSUME x \notin astray' PROVE ConnOk(x)'
    BY DEF ConnOk
  <2>1. RunningOn(x)' = RunningOn(x)
    BY DEF RunningOn
  <2>2. conn'[x] = conn[x] /\ cleanup'[x] = cleanup[x] /\ ConnOk(x) /\ x \notin astray
    BY <1>1, <1>3
  <2>3. (x \in Idle' \cup Resyncing' => x \in Idle \cup Resyncing) /\ (x \in in_use' => x \in in_use)
    BY <1>3
  <2> QED
    BY <2>1, <2>2, <2>3 DEF ConnOk, Spotless, Db
<1>4. ASSUME NEW u \in Users, cmd'[u].phase = "running", cmd'[u].id \notin astray'
      PROVE  Sole(u, cmd[u].id)'
  <2>1. cmd'[u] = cmd[u] /\ Sole(u, cmd[u].id)
    BY <1>1, <1>4, <1>a
  <2> SUFFICES ASSUME NEW v \in Users, v # u, cmd'[v].phase = "running", cmd'[v].id = cmd'[u].id
               PROVE  FALSE
    BY DEF Sole
  <2>2. cmd'[v] = cmd[v]
    BY <1>4, <1>a
  <2> QED
    BY <2>1, <2>2 DEF Sole
<1> QED
  BY <1>2, <1>3, <1>4 DEF BorrowInv

\* Such a step that touches one connection.
LEMMA OneFrame ==
    ASSUME BorrowInv, CmdIdInv, NEW c \in Conns,
           \A v \in Users : cmd'[v] = cmd[v] \/ (cmd'[v].id = cmd[v].id /\ cmd[v].id \in astray'),
           \A v \in Users : cmd[v].phase # "none" /\ cmd[v].id = c => c \in astray',
           \A x \in Conns : x # c =>
               /\ conn'[x] = conn[x] /\ cleanup'[x] = cleanup[x]
               /\ x \in Idle' \cup Resyncing' => x \in Idle \cup Resyncing
               /\ x \in in_use' <=> x \in in_use
               /\ x \in astray => x \in astray',
           ConnOk(c)'
    PROVE  BorrowInv'
<1> DEFINE T == {c}
<1>1. \A v \in Users : cmd[v].phase # "none" /\ cmd[v].id \in T => cmd[v].id \in astray'
  OBVIOUS
<1>2. \A x \in Conns : x \notin T =>
          /\ conn'[x] = conn[x] /\ cleanup'[x] = cleanup[x]
          /\ x \in Idle' \cup Resyncing' => x \in Idle \cup Resyncing
          /\ x \in in_use' <=> x \in in_use
          /\ x \in astray => x \in astray'
  OBVIOUS
<1>3. \A x \in Conns : x \in T => ConnOk(x)'
  OBVIOUS
<1> HIDE DEF T
<1> QED
  BY <1>1, <1>2, <1>3, TouchFrame

\* Such a step that touches none.
LEMMA StillFrame ==
    ASSUME BorrowInv, CmdIdInv, UNCHANGED <<conn, cleanup, cmd, in_use, astray>>,
           Idle' \cup Resyncing' \subseteq Idle \cup Resyncing
    PROVE  BorrowInv'
<1> DEFINE T == {}
<1>0. \A v \in Users : cmd'[v] = cmd[v] \/ (cmd'[v].id = cmd[v].id /\ cmd[v].id \in astray')
  OBVIOUS
<1>1. \A v \in Users : cmd[v].phase # "none" /\ cmd[v].id \in T => cmd[v].id \in astray'
  OBVIOUS
<1>2. \A x \in Conns : x \notin T =>
          /\ conn'[x] = conn[x] /\ cleanup'[x] = cleanup[x]
          /\ x \in Idle' \cup Resyncing' => x \in Idle \cup Resyncing
          /\ x \in in_use' <=> x \in in_use
          /\ x \in astray => x \in astray'
  OBVIOUS
<1>3. \A x \in Conns : x \in T => ConnOk(x)'
  OBVIOUS
<1> HIDE DEF T
<1> QED
  BY <1>0, <1>1, <1>2, <1>3, TouchFrame

\* Nothing is claimed of a connection that nobody has.
LEMMA GoneOk ==
    ASSUME NEW x \in Conns, x \notin Idle', x \notin in_use', x \notin Cleaning', x \notin Resyncing'
    PROVE  ConnOk(x)'
BY DEF ConnOk, Cleaning

\* A connection in the pool whose record is fresh.
LEMMA PooledOk ==
    ASSUME NEW x \in Conns, x \notin in_use', x \notin Cleaning',
           NEW d, conn'[x].st = begin_borrow(d, d), Pristine(conn'[x].server, d),
           conn'[x].server.queued = NothingQueued
    PROVE  ConnOk(x)'
<1>1. conn'[x].st.selected_db = d
  BY DEF begin_borrow
<1> QED
  BY <1>1 DEF ConnOk, Cleaning, Spotless, Db

LEMMA TryBorrow ==
    ASSUME TypeOK, LoopInv, PoolInv, PoolInv', BorrowInv, NEW u \in Users, TryAcquire(u)
    PROVE  BorrowInv'
<1>0. /\ conn \in [Conns -> ConnType] /\ CmdIdInv
      /\ \A x \in Conns : ConnOk(x)
  BY DEF TypeOK, BorrowInv, LoopInv
<1>1. UNCHANGED <<cmd, cleanup, resyncing, astray>>
  BY DEF TryAcquire
<1>2. Resyncing' = Resyncing /\ Cleaning' = Cleaning
  BY <1>1 DEF Resyncing, Cleaning
<1>3. Apart(idle, Idle, in_use, Cleaning, Resyncing) /\ Apart(idle', Idle', in_use', Cleaning', Resyncing')
  BY OwnerSets DEF PoolInv
<1>4. \A v \in Users : cmd[v].phase # "none" => cmd[v].id \in astray \cup in_use
  BY CommandIsLent
<1>4a. \A v \in Users : cmd'[v] = cmd[v] \/ (cmd'[v].id = cmd[v].id /\ cmd[v].id \in astray')
  BY <1>1
<1>5. PICK n \in 0..Len(idle) :
          LET t == acq[u].target  d == acq[u].db IN
          IF Reusable(t, d, n) # {} THEN Reuse(u, Newest(Reusable(t, d, n)))
          ELSE IF WrongDb(t, d, n) # {} THEN NeedsResync(u, n)
          ELSE Reserve(u, n) \/ Exhausted(u, n)
  BY DEF TryAcquire
<1>6. ASSUME NEW i \in 1..Len(idle), Reuse(u, i)
      PROVE  BorrowInv'
  <2>0. PICK c \in Conns : c = idle[i]
    BY DEF TypeOK
  <2>1. c \in Idle /\ c \in Conns /\ idle \in Seq(Conns)
    BY <2>0 DEF Idle, ToSet, TypeOK
  <2>2. Idle' = Idle \ {c} /\ in_use' = in_use \cup {c}
    BY <1>3, <1>6, <2>0, <2>1, RemoveFacts DEF Reuse, Taken, Idle, Apart
  <2>3. conn' = [conn EXCEPT ![c].st = begin_borrow(@.selected_db, acq[u].db)]
    BY <1>6, <2>0 DEF Reuse
  <2>4. /\ conn'[c].st = begin_borrow(conn[c].st.selected_db, acq[u].db)
        /\ conn'[c].server = conn[c].server
        /\ \A x \in Conns : x # c => conn'[x] = conn[x]
    BY <1>0, <2>1, <2>3 DEF ConnType
  <2>5. c \notin astray => Tracks(conn'[c].st, conn'[c].server)
    BY <1>0, <2>1, <2>4, BorrowTracks DEF ConnOk, Spotless, Db
  <2>6. c \notin Idle' \cup Resyncing' \cup Cleaning'
    BY <1>2, <1>3, <2>1, <2>2 DEF Apart
  <2>7. ConnOk(c)'
    BY <1>1, <2>1, <2>5, <2>6 DEF ConnOk, Cleaning
  <2>8. \A v \in Users : cmd[v].phase # "none" /\ cmd[v].id = c => c \in astray'
    BY <1>1, <1>3, <1>4, <2>1 DEF Apart
  <2>9. \A x \in Conns : x # c =>
            /\ conn'[x] = conn[x] /\ cleanup'[x] = cleanup[x]
            /\ x \in Idle' \cup Resyncing' => x \in Idle \cup Resyncing
            /\ x \in in_use' <=> x \in in_use
            /\ x \in astray => x \in astray'
    BY <1>1, <1>2, <2>2, <2>4
  <2> QED
    BY <1>0, <1>4a, <2>7, <2>8, <2>9, OneFrame
<1>7. ASSUME NEW k \in 0..Len(idle), idle' = Pruned(k), Discard(Expired(k)), UNCHANGED in_use
      PROVE  BorrowInv'
  <2> DEFINE T == Expired(k)
  <2>1. T \subseteq Idle /\ Idle' = Idle \ T
    BY <1>3, <1>7, PrunedFacts DEF Idle, Apart
  <2>2. \A x \in Conns : x \notin T => conn'[x] = conn[x]
    BY <1>7, DiscardFacts
  <2> HIDE DEF T
  <2>3. \A x \in Conns : x \in T => ConnOk(x)'
    BY <1>2, <1>3, <1>7, <2>1, GoneOk DEF Apart
  <2>4. \A v \in Users : cmd[v].phase # "none" /\ cmd[v].id \in T => cmd[v].id \in astray'
    BY <1>1, <1>3, <1>4, <2>1 DEF Apart
  <2>6. \A x \in Conns : x \notin T =>
            /\ conn'[x] = conn[x] /\ cleanup'[x] = cleanup[x]
            /\ x \in Idle' \cup Resyncing' => x \in Idle \cup Resyncing
            /\ x \in in_use' <=> x \in in_use
            /\ x \in astray => x \in astray'
    BY <1>1, <1>2, <1>7, <2>1, <2>2
  <2> QED
    BY <1>0, <1>4a, <2>3, <2>4, <2>6, TouchFrame
<1>8. CASE NeedsResync(u, n) \/ Exhausted(u, n)
  <2>1. idle' = Pruned(n) /\ Discard(Expired(n)) /\ UNCHANGED in_use
    <3>1. CASE NeedsResync(u, n)
      BY <3>1 DEF NeedsResync
    <3>2. CASE Exhausted(u, n)
      BY <3>2 DEF Exhausted
    <3> QED
      BY <1>8, <3>1, <3>2
  <2> QED
    BY <1>7, <2>1
<1>9. CASE Reserve(u, n)
  <2> DEFINE full == DecBy(total_count, n) >= MaxTotal
             k == n + IF full THEN 1 ELSE 0
  <2>1. k \in 0..Len(idle)
    <3>1. full => n # Len(idle)
      BY <1>9, PrunedFacts DEF Reserve
    <3> QED
      BY <3>1, FiniteSets
  <2>2. idle' = Pruned(k) /\ Discard(Expired(k)) /\ UNCHANGED in_use
    BY <1>9 DEF Reserve
  <2> HIDE DEF k
  <2> QED
    BY <1>7, <2>1, <2>2
<1> QED
  BY <1>5, <1>6, <1>8, <1>9, PositionFacts

\* Steps of the pool's own tasks and of the parent.
LEMMA TaskBorrow ==
    ASSUME TypeOK, LoopInv, PoolInv, PoolInv', BorrowInv,
           \/ PrewarmStart \/ \E d \in Dials : DialConnects(d) \/ DialSeats(d) \/ DialFails(d)
           \/ \E t \in Targets, d \in Dbs : ResyncTake(t, d)
           \/ \E c \in Conns : ResyncSucceeds(c) \/ ResyncFails(c)
           \/ \E c \in Conns : CleanupSends(c) \/ CleanupEnds(c)
           \/ (\E d \in Dbs : ParentSelects(d)) \/ Unregister \/ DropPool \/ SweepRegistry
    PROVE  BorrowInv'
<1>0. /\ conn \in [Conns -> ConnType] /\ cleanup \in [Conns -> CleanupType]
      /\ idle \in Seq(Conns) /\ resyncing \in [Conns -> Dbs \cup {NoDb}]
      /\ CmdIdInv /\ \A x \in Conns : ConnOk(x)
  BY DEF TypeOK, BorrowInv, LoopInv
<1>1. UNCHANGED in_use
  BY DEF PrewarmStart, DialConnects, DialSeats, DialFails, ResyncTake, ResyncSucceeds,
         ResyncFails, CleanupSends, CleanupEnds, ParentSelects, Unregister, DropPool,
         SweepRegistry, poolVars
<1>2. \A v \in Users : cmd[v].phase # "none" => cmd[v].id \in astray \cup in_use
  BY CommandIsLent
<1>3. Apart(idle, Idle, in_use, Cleaning, Resyncing) /\ Apart(idle', Idle', in_use', Cleaning', Resyncing')
  BY OwnerSets DEF PoolInv
\* Only connection c is touched, and it is not lent.
<1>4. ASSUME NEW c \in Conns, c \notin in_use, cmd' = cmd, astray' = astray,
             \A x \in Conns : x # c => conn'[x] = conn[x] /\ cleanup'[x] = cleanup[x],
             Idle' \cup Resyncing' \subseteq Idle \cup Resyncing \cup {c},
             ConnOk(c)'
      PROVE  BorrowInv'
  <2>1. \A v \in Users : cmd'[v] = cmd[v] \/ (cmd'[v].id = cmd[v].id /\ cmd[v].id \in astray')
    BY <1>4
  <2>2. \A v \in Users : cmd[v].phase # "none" /\ cmd[v].id = c => c \in astray'
    BY <1>2, <1>4
  <2>3. \A x \in Conns : x # c =>
            /\ conn'[x] = conn[x] /\ cleanup'[x] = cleanup[x]
            /\ x \in Idle' \cup Resyncing' => x \in Idle \cup Resyncing
            /\ x \in in_use' <=> x \in in_use
            /\ x \in astray => x \in astray'
    BY <1>1, <1>4
  <2> QED
    BY <1>0, <1>4, <2>1, <2>2, <2>3, OneFrame
<1>5. ASSUME UNCHANGED <<conn, cleanup, cmd, astray>>, Idle' \cup Resyncing' \subseteq Idle \cup Resyncing
      PROVE  BorrowInv'
  BY <1>0, <1>1, <1>5, StillFrame
<1>6. CASE \/ PrewarmStart \/ \E d \in Dials : DialConnects(d) \/ DialFails(d)
           \/ (\E d \in Dbs : ParentSelects(d)) \/ Unregister \/ DropPool \/ SweepRegistry
  <2>1. UNCHANGED <<idle, resyncing, conn, cleanup, cmd, astray>>
    BY <1>6 DEF PrewarmStart, DialConnects, DialFails, ParentSelects, Unregister, DropPool,
                SweepRegistry, poolVars, taskVars, userVars
  <2>2. Idle' = Idle /\ Resyncing' = Resyncing
    BY <2>1 DEF Idle, Resyncing
  <2> QED
    BY <1>5, <2>1, <2>2
<1>7. ASSUME NEW d \in Dials, DialSeats(d)
      PROVE  BorrowInv'
  <2>0. dial[d].target \in Targets /\ dial[d].db \in Dbs
    BY <1>7 DEF DialSeats, LoopInv, DialInv
  <2>1. PICK c \in Conns :
          /\ NewConn(c)
          /\ idle' = Append(idle, c)
          /\ conn' = [conn EXCEPT ![c] = Opened(dial[d].target, dial[d].db)]
          /\ astray' = astray \ {c}
    BY <1>7 DEF DialSeats
  <2>2. c \notin Idle \cup in_use \cup Cleaning \cup Resyncing
    BY <2>1 DEF NewConn, PoolInv, OpenInv
  <2>3. UNCHANGED <<cleanup, resyncing, cmd>> /\ Cleaning' = Cleaning /\ Resyncing' = Resyncing
    BY <1>7 DEF DialSeats, Cleaning, Resyncing
  <2>4. Idle' = Idle \cup {c}
    BY <1>0, <2>1, AppendFacts DEF Idle
  <2>5. PICK e \in Dbs : e = dial[d].db
    BY <2>0
  <2>6. /\ conn'[c].st = begin_borrow(e, e) /\ conn'[c].server = FreshServer(e)
        /\ \A x \in Conns : x # c => conn'[x] = conn[x]
    BY <1>0, <2>1, <2>5 DEF Opened
  <2>7. ConnOk(c)'
    <3>1. Pristine(FreshServer(e), e) /\ FreshServer(e).queued = NothingQueued
      BY DEF Pristine, FreshServer
    <3> QED
      BY <1>1, <2>2, <2>3, <2>6, <3>1, PooledOk
  <2>8. \A v \in Users : cmd'[v] = cmd[v] \/ (cmd'[v].id = cmd[v].id /\ cmd[v].id \in astray')
    BY <2>3
  <2>9. \A v \in Users : cmd[v].phase # "none" /\ cmd[v].id = c => c \in astray'
    BY <2>1 DEF NewConn
  <2>10. \A x \in Conns : x # c =>
            /\ conn'[x] = conn[x] /\ cleanup'[x] = cleanup[x]
            /\ x \in Idle' \cup Resyncing' => x \in Idle \cup Resyncing
            /\ x \in in_use' <=> x \in in_use
            /\ x \in astray => x \in astray'
    BY <1>1, <2>1, <2>3, <2>4, <2>6
  <2> QED
    BY <1>0, <2>7, <2>8, <2>9, <2>10, OneFrame
<1>8. ASSUME NEW t \in Targets, NEW d \in Dbs, ResyncTake(t, d)
      PROVE  BorrowInv'
  <2>1. UNCHANGED <<conn, cleanup, cmd, astray>>
    BY <1>8 DEF ResyncTake, userVars
  <2>2. Idle' \cup Resyncing' \subseteq Idle \cup Resyncing
    <3>1. CASE UNCHANGED <<idle, resyncing>>
      BY <3>1 DEF Idle, Resyncing
    <3>2. CASE ~UNCHANGED <<idle, resyncing>>
      <4>1. PICK i \in 1..Len(idle) : idle' = RemoveAt(idle, i) /\ resyncing' = [resyncing EXCEPT ![idle[i]] = d]
        BY <1>0, <1>8, <3>2, PositionFacts DEF ResyncTake
      <4>2. Idle' = Idle \ {idle[i]} /\ idle[i] \in Idle
        BY <1>0, <1>3, <4>1, RemoveFacts DEF Idle, Apart
      <4>3. Resyncing' \subseteq Resyncing \cup {idle[i]}
        BY <1>0, <4>1 DEF Resyncing
      <4> QED
        BY <4>2, <4>3
    <3> QED
      BY <3>1, <3>2
  <2> QED
    BY <1>5, <2>1, <2>2
<1>9. ASSUME NEW c \in Conns, ResyncSucceeds(c)
      PROVE  BorrowInv'
  <2>0. c \in Resyncing /\ resyncing[c] \in Dbs
    BY <1>0, <1>9 DEF ResyncSucceeds, Resyncing
  <2>1. c \notin in_use \cup Cleaning /\ (c \notin astray => Spotless(c))
    BY <1>0, <1>3, <2>0 DEF Apart, ConnOk
  <2>2. UNCHANGED <<cleanup, cmd, astray>> /\ Cleaning' = Cleaning
    BY <1>9 DEF ResyncSucceeds, Cleaning, userVars
  <2>3. Idle' = Idle \cup {c} /\ Resyncing' = Resyncing \ {c}
    BY <1>0, <1>9, AppendFacts DEF ResyncSucceeds, Idle, Resyncing
  <2>4. PICK d \in Dbs : d = resyncing[c]
    BY <2>0
  <2>5. /\ conn'[c].st = begin_borrow(d, d)
        /\ conn'[c].server = CleanupStep(conn[c].server, TRUE, Select(d))
        /\ \A x \in Conns : x # c => conn'[x] = conn[x]
    <3> DEFINE b == begin_borrow(d, d)
               s == CleanupStep(conn[c].server, TRUE, Select(d))
    <3>1. conn' = [conn EXCEPT ![c].st = b, ![c].server = s]
      BY <1>0, <1>9, <2>4 DEF ResyncSucceeds, ConnType
    <3> HIDE DEF b, s
    <3>2. conn'[c].st = b /\ conn'[c].server = s /\ \A x \in Conns : x # c => conn'[x] = conn[x]
      BY <1>0, <3>1 DEF ConnType
    <3> QED
      BY <3>2 DEF b, s
  <2>6. ConnOk(c)'
    <3> SUFFICES ASSUME c \notin astray PROVE ConnOk(c)'
      BY <2>2 DEF ConnOk
    <3>1. conn[c].server \in ServerState
      BY <1>0 DEF ConnType
    <3>2. Pristine(conn'[c].server, d) /\ conn'[c].server.queued = NothingQueued
      <4>1. Pristine(conn[c].server, Db(c)) /\ conn[c].server.queued = NothingQueued
        BY <2>1 DEF Spotless
      <4>2. conn'[c].server = [conn[c].server EXCEPT !.db = d]
        BY <2>5, <4>1 DEF CleanupStep, RunDirect, Select, Pristine
      <4> QED
        BY <3>1, <4>1, <4>2, QueueTypes DEF Pristine
    <3> QED
      BY <1>1, <2>1, <2>2, <2>5, <3>2, PooledOk
  <2> QED
    BY <1>4, <2>1, <2>2, <2>3, <2>5, <2>6
<1>10. ASSUME NEW c \in Conns, ResyncFails(c)
       PROVE  BorrowInv'
  <2>0. c \in Resyncing /\ c \notin in_use \cup Cleaning \cup Idle
    BY <1>3, <1>10 DEF ResyncFails, Resyncing, Apart
  <2>1. /\ UNCHANGED <<cleanup, cmd, astray>> /\ Cleaning' = Cleaning /\ Idle' = Idle
        /\ Resyncing' = Resyncing \ {c}
    BY <1>0, <1>10 DEF ResyncFails, Cleaning, Idle, Resyncing, userVars
  <2>2. \A x \in Conns : x # c => conn'[x] = conn[x]
    BY <1>10, DiscardFacts DEF ResyncFails
  <2>3. ConnOk(c)'
    BY <1>1, <2>0, <2>1, GoneOk
  <2> QED
    BY <1>4, <2>0, <2>1, <2>2, <2>3
<1>11. ASSUME NEW c \in Conns, CleanupSends(c)
       PROVE  BorrowInv'
  <2>0. /\ c \in Cleaning /\ c \notin in_use \cup Resyncing \cup Idle
        /\ cleanup[c].phase = "queued" /\ cleanup[c] \in CleanupType
    BY <1>0, <1>3, <1>11 DEF CleanupSends, Cleaning, Apart
  <2>1. UNCHANGED <<idle, resyncing, cmd, astray>> /\ Idle' = Idle /\ Resyncing' = Resyncing
    BY <1>11 DEF CleanupSends, poolVars, userVars, Idle, Resyncing
  <2> DEFINE s == Cleaned(conn[c].st, conn[c].server)
  <2>2. \/ /\ conn' = [conn EXCEPT ![c].server = s]
           /\ cleanup' = [cleanup EXCEPT ![c].phase = "cleaned"]
        \/ conn' = conn /\ cleanup' = [cleanup EXCEPT ![c].phase = "failed"]
    BY <1>0, <1>11 DEF CleanupSends
  <2>3. c \notin astray => Pristine(s, conn[c].st.parent_db) /\ s.queued = NothingQueued
    <3> SUFFICES ASSUME c \notin astray
                 PROVE  Pristine(s, conn[c].st.parent_db) /\ s.queued = NothingQueued
      OBVIOUS
    <3>1. conn[c].st \in ConnectionState /\ conn[c].server \in ServerState
      BY <1>0 DEF ConnType
    <3>2. Tracks(conn[c].st, conn[c].server) /\ ~conn[c].st.blocking_in_flight
      BY <1>0, <2>0 DEF ConnOk, MustDiscard
    <3> QED
      BY <3>1, <3>2, CleanedPristine
  <2> HIDE DEF s
  <2>4. /\ \A x \in Conns : x # c => conn'[x] = conn[x] /\ cleanup'[x] = cleanup[x]
        /\ conn'[c].st = conn[c].st
        /\ (cleanup'[c].phase = "cleaned" /\ conn'[c].server = s) \/ cleanup'[c].phase = "failed"
    BY <1>0, <2>0, <2>2 DEF ConnType, CleanupType
  <2>5. ConnOk(c)'
    BY <1>1, <2>0, <2>1, <2>3, <2>4 DEF ConnOk
  <2> QED
    BY <1>4, <2>0, <2>1, <2>4, <2>5
<1>12. ASSUME NEW c \in Conns, CleanupEnds(c)
       PROVE  BorrowInv'
  <2>0. c \in Cleaning /\ c \notin in_use \cup Resyncing \cup Idle
    BY <1>3, <1>12 DEF CleanupEnds, Cleaning, Apart
  <2>1. \A v \in Users : cmd'[v] = cmd[v] \/ (cmd'[v].id = cmd[v].id /\ cmd[v].id \in astray')
    <3> SUFFICES ASSUME NEW v \in Users, cmd'[v] # cmd[v]
                 PROVE  cmd'[v].id = cmd[v].id /\ cmd[v].id \in astray'
      OBVIOUS
    <3>1. cmd' = Orphaned(c) /\ astray' = astray
      BY <1>12 DEF CleanupEnds, userVars
    <3>2. cmd[v].id = c /\ cmd[v].phase # "none"
      BY <3>1 DEF Orphaned
    <3>3. Orphaned(c)[v].id = cmd[v].id
      BY OrphanedFacts
    <3> QED
      BY <1>2, <2>0, <3>1, <3>2, <3>3
  <2>a. astray' = astray
    BY <1>12 DEF CleanupEnds, userVars
  <2>b. \A v \in Users : cmd[v].phase # "none" /\ cmd[v].id = c => c \in astray'
    BY <1>2, <2>0, <2>a
  <2>c. ASSUME \A x \in Conns : x # c => conn'[x] = conn[x] /\ cleanup'[x] = cleanup[x],
               Idle' \cup Resyncing' \subseteq Idle \cup Resyncing \cup {c},
               ConnOk(c)'
        PROVE  BorrowInv'
    <3>1. \A x \in Conns : x # c =>
              /\ conn'[x] = conn[x] /\ cleanup'[x] = cleanup[x]
              /\ x \in Idle' \cup Resyncing' => x \in Idle \cup Resyncing
              /\ x \in in_use' <=> x \in in_use
              /\ x \in astray => x \in astray'
      BY <1>1, <2>a, <2>c
    <3> QED
      BY <1>0, <2>1, <2>b, <2>c, <3>1, OneFrame
  <2>2. /\ cleanup' = [cleanup EXCEPT ![c] = NoCleanup] /\ NoCleanup.phase = "none"
        /\ resyncing' = resyncing /\ Resyncing' = Resyncing
    BY <1>12 DEF CleanupEnds, NoCleanup, Resyncing
  <2>3. /\ \A x \in Conns : x # c => cleanup'[x] = cleanup[x]
        /\ c \notin Cleaning'
    BY <1>0, <2>2 DEF Cleaning
  <2>4. CASE idle' = idle /\ Discard({c})
    <3>1. Idle' = Idle
      BY <2>4 DEF Idle
    <3>2. \A x \in Conns : x # c => conn'[x] = conn[x]
      BY <2>4, DiscardFacts
    <3>3. ConnOk(c)'
      BY <1>1, <2>0, <2>2, <2>3, <3>1, GoneOk
    <3> QED
      BY <2>2, <2>3, <2>c, <3>1, <3>2, <3>3
  <2>5. CASE /\ cleanup[c].phase = "cleaned" /\ idle' = Append(idle, c)
             /\ conn' = [conn EXCEPT ![c].st = begin_borrow(@.parent_db, @.parent_db)]
    <3>1. Idle' = Idle \cup {c}
      BY <1>0, <2>5, AppendFacts DEF Idle
    <3>2. PICK d \in Dbs : d = conn[c].st.parent_db
      BY <1>0 DEF ConnType, ConnectionState
    <3>3. /\ conn'[c].st = begin_borrow(d, d) /\ conn'[c].server = conn[c].server
          /\ \A x \in Conns : x # c => conn'[x] = conn[x]
      BY <1>0, <2>5, <3>2 DEF ConnType
    <3>4. c \notin astray => Pristine(conn[c].server, d) /\ conn[c].server.queued = NothingQueued
      BY <1>0, <2>5, <3>2 DEF ConnOk
    <3>5. ConnOk(c)'
      <4>1. CASE c \in astray
        BY <2>a, <4>1 DEF ConnOk
      <4>2. CASE c \notin astray
        BY <1>1, <2>0, <2>3, <3>3, <3>4, <4>2, PooledOk
      <4> QED
        BY <4>1, <4>2
    <3> QED
      BY <2>2, <2>3, <2>c, <3>1, <3>3, <3>5
  <2> QED
    BY <1>12, <2>4, <2>5 DEF CleanupEnds
<1> QED
  BY <1>6, <1>7, <1>8, <1>9, <1>10, <1>11, <1>12

\* A release: the connection is not in use, or goes astray with what is still running.
LEMMA ReleaseBorrow ==
    ASSUME TypeOK, CmdIdInv, PoolInv, PoolInv', BorrowInv,
           NEW id \in Conns, DoRelease(id), resyncing' = resyncing
    PROVE  BorrowInv'
<1>0. /\ conn \in [Conns -> ConnType] /\ cleanup \in [Conns -> CleanupType] /\ idle \in Seq(Conns)
      /\ \A x \in Conns : ConnOk(x)
  BY DEF TypeOK, BorrowInv
<1>1. Apart(idle, Idle, in_use, Cleaning, Resyncing) /\ Apart(idle', Idle', in_use', Cleaning', Resyncing')
  BY OwnerSets DEF PoolInv
<1>2. in_use' = in_use \ {id} /\ Resyncing' = Resyncing
  BY DEF DoRelease, Resyncing
<1>a. /\ astray' = astray \/ astray' = astray \cup {id}
      /\ \A v \in Users : cmd[v].phase # "none" /\ cmd[v].id = id => id \in astray'
  BY DEF DoRelease
<1>3. \A v \in Users : cmd'[v] = cmd[v] \/ (cmd'[v].id = cmd[v].id /\ cmd[v].id \in astray')
  <2> SUFFICES ASSUME NEW v \in Users, cmd'[v] # cmd[v]
               PROVE  cmd'[v].id = cmd[v].id /\ cmd[v].id \in astray'
    OBVIOUS
  <2>1. cmd' = Orphaned(id)
    BY DEF DoRelease
  <2>2. cmd[v].id = id /\ cmd[v].phase # "none"
    BY <2>1 DEF Orphaned
  <2>3. Orphaned(id)[v].id = cmd[v].id
    BY OrphanedFacts
  <2> QED
    BY <1>a, <2>1, <2>2, <2>3
<1>4. ASSUME \A x \in Conns : x # id => conn'[x] = conn[x] /\ cleanup'[x] = cleanup[x],
             Idle' \subseteq Idle \cup {id}, ConnOk(id)'
      PROVE  BorrowInv'
  <2>1. \A x \in Conns : x # id =>
            /\ conn'[x] = conn[x] /\ cleanup'[x] = cleanup[x]
            /\ x \in Idle' \cup Resyncing' => x \in Idle \cup Resyncing
            /\ x \in in_use' <=> x \in in_use
            /\ x \in astray => x \in astray'
    BY <1>2, <1>4, <1>a
  <2> QED
    BY <1>3, <1>4, <1>a, <2>1, OneFrame
<1>5. id \notin astray' => RunningOn(id) = {} /\ id \notin astray
  BY <1>a DEF RunningOn
<1>6. CASE id \notin in_use \cap registry
  <2>1. UNCHANGED <<idle, conn, cleanup>> /\ Idle' = Idle
    BY <1>6 DEF DoRelease, Idle
  <2>2. ConnOk(id)'
    <3> SUFFICES ASSUME id \notin astray' PROVE ConnOk(id)'
      BY DEF ConnOk
    <3>1. ConnOk(id) /\ id \notin astray
      BY <1>0, <1>5
    <3> QED
      BY <1>2, <2>1, <3>1 DEF ConnOk, Spotless, Db
  <2> QED
    BY <1>4, <2>1, <2>2
<1>7. CASE id \in in_use \cap registry
  <2>0. id \notin Idle \cup Cleaning \cup Resyncing /\ id \notin in_use'
    BY <1>1, <1>2, <1>7 DEF Apart
  <2>1. id \notin astray' => conn[id].st.must_discard \/ Tracks(conn[id].st, conn[id].server)
    BY <1>0, <1>5, <1>7 DEF ConnOk
  <2>2. CASE Discard({id}) /\ UNCHANGED <<idle, cleanup>>
    <3>1. Idle' = Idle /\ Cleaning' = Cleaning
      BY <2>2 DEF Idle, Cleaning
    <3>2. \A x \in Conns : x # id => conn'[x] = conn[x]
      BY <2>2, DiscardFacts
    <3>3. ConnOk(id)'
      BY <1>2, <2>0, <3>1, GoneOk
    <3> QED
      BY <1>4, <2>2, <3>1, <3>2, <3>3
  <2>3. CASE /\ is_clean_for(conn[id].st, conn[id].st.parent_db)
             /\ idle' = Append(idle, id) /\ cleanup' = cleanup
             /\ conn' = [conn EXCEPT ![id].st = begin_borrow(@.selected_db, @.selected_db)]
    <3>1. Idle' = Idle \cup {id} /\ Cleaning' = Cleaning
      BY <1>0, <2>3, AppendFacts DEF Idle, Cleaning
    <3>2. PICK d \in Dbs : d = conn[id].st.selected_db
      BY <1>0 DEF ConnType, ConnectionState
    <3>3. /\ conn'[id].st = begin_borrow(d, d) /\ conn'[id].server = conn[id].server
          /\ \A x \in Conns : x # id => conn'[x] = conn[x]
      BY <1>0, <2>3, <3>2 DEF ConnType
    <3>6. ConnOk(id)'
      <4> SUFFICES ASSUME id \notin astray' PROVE ConnOk(id)'
        BY DEF ConnOk
      <4>1. Tracks(conn[id].st, conn[id].server)
        BY <2>1, <2>3 DEF is_clean_for
      <4>2. Pristine(conn[id].server, d) /\ conn[id].server.queued = NothingQueued
        BY <2>3, <3>2, <4>1, CleanIsPristine
      <4> QED
        BY <2>0, <3>1, <3>3, <4>2, PooledOk
    <3> QED
      BY <1>4, <2>3, <3>1, <3>3, <3>6
  <2>4. CASE /\ ~MustDiscard(conn[id].st)
             /\ cleanup' = [cleanup EXCEPT ![id] = [phase |-> "queued", pool |-> mapped = "pool"]]
             /\ UNCHANGED <<idle, conn>>
    <3>1. /\ cleanup'[id].phase = "queued"
          /\ \A x \in Conns : x # id => cleanup'[x] = cleanup[x]
      BY <1>0, <2>4
    <3>2. Idle' = Idle /\ conn' = conn
      BY <2>4 DEF Idle
    <3>3. id \notin astray' => Tracks(conn[id].st, conn[id].server)
      BY <2>1, <2>4 DEF MustDiscard
    <3>4. ConnOk(id)'
      BY <1>2, <2>0, <2>4, <3>1, <3>2, <3>3 DEF ConnOk
    <3> QED
      BY <1>4, <3>1, <3>2, <3>4
  <2> QED
    BY <1>7, <2>2, <2>3, <2>4 DEF DoRelease
<1> QED
  BY <1>6, <1>7

LEMMA GiveBackBorrow ==
    ASSUME TypeOK, LoopInv, PoolInv, PoolInv', BorrowInv, NEW u \in Users,
           \/ Release(u) \/ ReleaseAgain(u)
           \/ \E id \in Conns : DeferredRelease(u, id)
    PROVE  BorrowInv'
<1>0. /\ holds \in [Users -> Conns \cup {NoConn}] /\ released \in [Users -> Conns \cup {NoConn}]
      /\ CmdIdInv
  BY DEF TypeOK, LoopInv
<1>1. ASSUME NEW id \in Conns, ReleaseScope(u, id), resyncing' = resyncing
      PROVE  BorrowInv'
  <2>1. CASE DoRelease(id)
    BY <1>0, <1>1, <2>1, ReleaseBorrow
  <2>2. CASE UNCHANGED <<idle, in_use, conn, cleanup, astray, cmd>>
    <3>1. Idle' = Idle /\ Resyncing' = Resyncing
      BY <1>1, <2>2 DEF Idle, Resyncing
    <3> QED
      BY <1>0, <2>2, <3>1, StillFrame
  <2> QED
    BY <1>1, <2>1, <2>2 DEF ReleaseScope
<1>2. CASE Release(u)
  <2>1. PICK id \in Conns : id = holds[u]
    BY <1>0, <1>2 DEF Release
  <2> QED
    BY <1>1, <1>2, <2>1 DEF Release
<1>3. CASE ReleaseAgain(u)
  <2>1. PICK id \in Conns : id = released[u]
    BY <1>0, <1>3 DEF ReleaseAgain
  <2> QED
    BY <1>1, <1>3, <2>1 DEF ReleaseAgain
<1>4. ASSUME NEW id \in Conns, DeferredRelease(u, id)
      PROVE  BorrowInv'
  BY <1>0, <1>4, ReleaseBorrow DEF DeferredRelease
<1> QED
  BY <1>2, <1>3, <1>4

LEMMA LoopBorrow ==
    ASSUME LoopInv, BorrowInv, NEW u \in Users,
           \/ \E t \in Targets : BeginAcquire(u, t)
           \/ Resolve(u) \/ Wake(u) \/ BackoffElapsed(u) \/ GiveUp(u)
    PROVE  BorrowInv'
<1>1. UNCHANGED <<idle, in_use, conn, cleanup, cmd, resyncing, astray>>
  BY DEF BeginAcquire, Resolve, Wake, BackoffElapsed, GiveUp, poolVars, taskVars, userVars
<1>2. Idle' = Idle /\ Resyncing' = Resyncing
  BY <1>1 DEF Idle, Resyncing
<1> QED
  BY <1>1, <1>2, StillFrame DEF LoopInv

\* Steps of a command: only the sender's connection, and what is known of it, changes.
LEMMA SenderFrame ==
    ASSUME PoolInv, CmdIdInv, BorrowInv, NEW u \in Users, NEW id \in Conns, cmd[u].id = id,
           UNCHANGED <<idle, in_use, cleanup, resyncing>>, astray \subseteq astray',
           \A v \in Users : v # u => cmd'[v] = cmd[v],
           cmd'[u].phase = "none" \/ cmd'[u].id = id,
           \A x \in Conns : x # id => conn'[x] = conn[x],
           id \notin astray' =>
               /\ Sole(u, id) /\ id \in in_use /\ CmdOk(u)' /\ RunOk(u)'
               /\ \/ conn'[id].st.must_discard
                  \/ cmd'[u].phase = "running"
                  \/ Tracks(conn'[id].st, conn'[id].server)
    PROVE  BorrowInv'
<1>1. /\ \A v \in Users : CmdOk(v) /\ RunOk(v)
      /\ \A x \in Conns : ConnOk(x)
      /\ \A v \in Users : cmd[v].phase = "running" /\ cmd[v].id \notin astray => Sole(v, cmd[v].id)
  BY DEF BorrowInv
<1>3. Idle' = Idle /\ Resyncing' = Resyncing /\ Cleaning' = Cleaning
  BY DEF Idle, Resyncing, Cleaning
<1>4. ASSUME NEW v \in Users
      PROVE  CmdOk(v)' /\ RunOk(v)'
  <2>1. CASE v = u
    <3>1. CASE cmd'[u].phase = "none" \/ id \in astray'
      BY <2>1, <3>1 DEF CmdOk, RunOk
    <3> QED
      BY <2>1, <3>1
  <2>2. CASE v # u
    <3>1. CmdOk(v)'
      BY <1>1, <2>2 DEF CmdOk
    <3>2. RunOk(v)'
      <4> SUFFICES ASSUME cmd[v].phase = "running", cmd[v].id \notin astray'
                   PROVE  RunOk(v)'
        BY <2>2 DEF RunOk
      <4>1. cmd[v].id \in Conns /\ cmd[v].id # id
        BY <2>2 DEF CmdIdInv, Sole
      <4>2. conn'[cmd[v].id] = conn[cmd[v].id] /\ cmd'[v] = cmd[v] /\ cmd[v].id \notin astray
        BY <2>2, <4>1
      <4> QED
        BY <1>1, <4>2 DEF RunOk, Ahead, Unmarked
    <3> QED
      BY <3>1, <3>2
  <2> QED
    BY <2>1, <2>2
<1>5. ASSUME NEW x \in Conns, x # id
      PROVE  ConnOk(x)'
  <2> SUFFICES ASSUME x \notin astray' PROVE ConnOk(x)'
    BY DEF ConnOk
  <2>1. RunningOn(x) # {} => RunningOn(x)' # {}
    <3> SUFFICES ASSUME NEW v \in Users, cmd[v].phase = "running", cmd[v].id = x
                 PROVE  v \in RunningOn(x)'
      BY DEF RunningOn
    <3>1. v # u
      BY <1>5
    <3> QED
      BY <3>1 DEF RunningOn
  <2>2. conn'[x] = conn[x] /\ cleanup'[x] = cleanup[x] /\ ConnOk(x) /\ x \notin astray
    BY <1>1, <1>5
  <2> QED
    BY <1>3, <2>1, <2>2 DEF ConnOk, Spotless, Db
<1>6. ConnOk(id)'
  <2> SUFFICES ASSUME id \notin astray' PROVE ConnOk(id)'
    BY DEF ConnOk
  <2>1. Apart(idle, Idle, in_use, Cleaning, Resyncing)
    BY OwnerSets DEF PoolInv
  <2>2. id \notin Idle \cup Cleaning \cup Resyncing
    BY <2>1 DEF Apart
  <2>3. cleanup'[id].phase = "none"
    BY <2>2 DEF Cleaning
  <2>4. cmd'[u].phase = "running" => RunningOn(id)' # {}
    BY DEF RunningOn
  <2> QED
    BY <1>3, <2>2, <2>3, <2>4 DEF ConnOk
<1>7. ASSUME NEW v \in Users, cmd'[v].phase = "running", cmd'[v].id \notin astray'
      PROVE  Sole(v, cmd[v].id)'
  <2> SUFFICES ASSUME NEW w \in Users, w # v, cmd'[w].phase = "running", cmd'[w].id = cmd'[v].id
               PROVE  FALSE
    BY DEF Sole
  <2>1. CASE v = u
    BY <1>7, <2>1 DEF Sole
  <2>2. CASE w = u
    BY <1>7, <2>2 DEF Sole
  <2>3. CASE v # u /\ w # u
    <3>1. Sole(v, cmd[v].id)
      BY <1>1, <1>7, <2>3
    <3> QED
      BY <2>3, <3>1 DEF Sole
  <2> QED
    BY <2>1, <2>2, <2>3
<1> QED
  BY <1>4, <1>5, <1>6, <1>7 DEF BorrowInv

\* Issue, Dispatch: the connection is left alone, and nothing begins to run.
LEMMA SendBorrow ==
    ASSUME TypeOK, PoolInv, BorrowInv, NEW u \in Users,
           (\E c \in scenario.cmds : Issue(u, c)) \/ Dispatch(u)
    PROVE  BorrowInv'
<1>0. /\ cmd \in [Users -> CmdType] /\ holds \in [Users -> Conns \cup {NoConn}]
      /\ \A v \in Users : CmdOk(v) /\ RunOk(v)
      /\ \A x \in Conns : ConnOk(x)
      /\ \A v \in Users : cmd[v].phase = "running" /\ cmd[v].id \notin astray => Sole(v, cmd[v].id)
  BY DEF TypeOK, BorrowInv
<1>1. /\ UNCHANGED <<idle, in_use, cleanup, resyncing, conn, astray>>
      /\ cmd[u].phase # "running"
  BY DEF Issue, Dispatch, poolVars, taskVars, userVars
<1>2. /\ \A v \in Users : v # u => cmd'[v] = cmd[v]
      /\ cmd'[u].phase # "running" /\ CmdOk(u)'
  <2>1. ASSUME NEW c \in scenario.cmds, Issue(u, c)
        PROVE  /\ \A v \in Users : v # u => cmd'[v] = cmd[v]
               /\ cmd'[u].phase # "running" /\ CmdOk(u)'
    <3> DEFINE b == [NoCmd EXCEPT !.phase = "sent", !.id = holds[u], !.c = c]
    <3>1. b.phase = "sent" /\ b.id = holds[u] /\ ~b.stale /\ cmd' = [cmd EXCEPT ![u] = b]
      BY <2>1 DEF NoCmd, Issue
    <3> HIDE DEF b
    <3>2. cmd'[u] = b /\ \A v \in Users : v # u => cmd'[v] = cmd[v]
      BY <1>0, <3>1
    <3>3. holds[u] \in in_use
      BY <2>1 DEF Issue, PoolInv, CloseInv
    <3> QED
      BY <1>1, <3>1, <3>2, <3>3 DEF CmdOk
  <2>2. CASE Dispatch(u)
    <3>1. CASE cmd' = [cmd EXCEPT ![u] = NoCmd]
      BY <1>0, <3>1 DEF NoCmd, CmdOk
    <3>2. CASE cmd' = [cmd EXCEPT ![u].phase = "found"]
      <4>1. /\ cmd'[u].phase = "found" /\ cmd'[u].id = cmd[u].id /\ cmd'[u].stale = cmd[u].stale
            /\ \A v \in Users : v # u => cmd'[v] = cmd[v]
        BY <1>0, <3>2 DEF CmdType
      <4>2. CmdOk(u) /\ cmd[u].phase # "none"
        BY <1>0, <2>2 DEF Dispatch
      <4> QED
        BY <1>1, <4>1, <4>2 DEF CmdOk
    <3> QED
      BY <2>2, <3>1, <3>2 DEF Dispatch
  <2> QED
    BY <2>1, <2>2
<1>3. \A x : RunningOn(x)' = RunningOn(x)
  BY <1>1, <1>2 DEF RunningOn
<1>4. ASSUME NEW v \in Users
      PROVE  CmdOk(v)' /\ RunOk(v)'
  <2>1. CASE v = u
    BY <1>2, <2>1 DEF RunOk
  <2>2. CASE v # u
    <3>1. cmd'[v] = cmd[v]
      BY <1>2, <2>2
    <3>2. CmdOk(v)'
      BY <1>0, <1>1, <3>1 DEF CmdOk
    <3>3. RunOk(v)'
      BY <1>0, <1>1, <3>1 DEF RunOk, Ahead, Unmarked
    <3> QED
      BY <3>2, <3>3
  <2> QED
    BY <2>1, <2>2
<1>5. ASSUME NEW x \in Conns
      PROVE  ConnOk(x)'
  <2>1. ConnOk(x) /\ RunningOn(x)' = RunningOn(x)
    BY <1>0, <1>3
  <2> QED
    BY <1>1, <2>1 DEF ConnOk, Spotless, Db, Idle, Resyncing
<1>6. ASSUME NEW v \in Users, cmd'[v].phase = "running", cmd'[v].id \notin astray'
      PROVE  Sole(v, cmd[v].id)'
  <2>1. cmd'[v] = cmd[v] /\ Sole(v, cmd[v].id)
    BY <1>0, <1>1, <1>2, <1>6
  <2> QED
    BY <1>2, <2>1 DEF Sole
<1> QED
  BY <1>4, <1>5, <1>6 DEF BorrowInv

LEMMA UpdateKeeps ==
    ASSUME NEW st \in ConnectionState, NEW c \in Command
    PROVE  LET up == update_state_for_command(st, c) IN
           /\ up.must_discard = st.must_discard
           /\ up.blocking_in_flight = st.blocking_in_flight
<1>1. CASE c.op \in {"EXEC", "DISCARD"}
  BY <1>1 DEF update_state_for_command, ConnectionState
<1>2. CASE c.op \in {"WATCH", "UNWATCH", "MULTI"}
  BY <1>2 DEF update_state_for_command, ConnectionState
<1>3. CASE c.op \in {"SELECT", "TRACKING_ON", "TRACKING_OFF"}
  BY <1>3 DEF update_state_for_command, ConnectionState
<1>4. CASE c.op \notin {"EXEC", "DISCARD", "WATCH", "UNWATCH", "MULTI", "SELECT",
                       "TRACKING_ON", "TRACKING_OFF"}
  BY <1>4 DEF update_state_for_command, ConnectionState
<1> QED
  BY <1>1, <1>2, <1>3, <1>4

\* Execute: the record moves ahead of the server, or stays where a refused command left both.
LEMMA ExecuteBorrow ==
    ASSUME TypeOK, LoopInv, PoolInv, BorrowInv, NEW u \in Users, Execute(u)
    PROVE  BorrowInv'
<1>0. /\ cmd \in [Users -> CmdType] /\ conn \in [Conns -> ConnType]
      /\ \A v \in Users : CmdOk(v)
      /\ \A x \in Conns : ConnOk(x)
      /\ CmdIdInv /\ cmd[u] \in CmdType /\ cmd[u].phase = "found"
  BY DEF TypeOK, BorrowInv, Execute, LoopInv
<1>1. PICK id \in Conns : id = cmd[u].id
  BY <1>0 DEF CmdIdInv
<1>2. PICK c \in Command : c = cmd[u].c
  BY <1>0 DEF CmdType
<1>3. PICK st \in ConnectionState : st = conn[id].st
  BY <1>0 DEF ConnType
<1>4. PICK sv \in ServerState : sv = conn[id].server
  BY <1>0 DEF ConnType
<1>5. UNCHANGED <<idle, in_use, cleanup, resyncing>>
  BY DEF Execute, poolVars, taskVars
<1> DEFINE up == update_state_for_command(st, c)
           tr == Tracked(st, c)
           run == [cmd EXCEPT ![u].phase = "running",
                              ![u].poisoned = st.blocking_in_flight,
                              ![u].defer = st.multi_active]
<1>6. \/ /\ IsKeyed(c) /\ conn' = Record(u, up) /\ cmd' = [cmd EXCEPT ![u] = NoCmd] /\ astray' = astray
      \/ /\ conn' = Record(u, tr) /\ cmd' = run
         /\ astray' = IF InPlace(sv, c) THEN astray ELSE astray \cup {id}
  BY <1>1, <1>2, <1>3, <1>4 DEF Execute
<1>7. /\ up \in ConnectionState /\ up.must_discard = st.must_discard
      /\ up.blocking_in_flight = st.blocking_in_flight
      /\ tr \in ConnectionState
  BY CommandDb, UpdateType, UpdateKeeps, TrackedType
<1>7a. tr.must_discard = st.must_discard
  BY <1>7 DEF Tracked, ConnectionState
<1>8. astray \subseteq astray'
  BY <1>6
<1>9. \A x \in Conns : x # id => conn'[x] = conn[x]
  <2>1. PICK new \in ConnectionState : conn' = Record(u, new)
    BY <1>6, <1>7
  <2> HIDE DEF up, tr, run
  <2> QED
    BY <1>1, <2>1, RecordFacts
<1>10. \A v \in Users : v # u => cmd'[v] = cmd[v]
  <2> HIDE DEF up, tr
  <2> QED
    BY <1>0, <1>6
<1>11. cmd'[u].phase = "none" \/ cmd'[u].id = id
  <2> HIDE DEF up, tr
  <2> QED
    BY <1>0, <1>1, <1>6 DEF NoCmd, CmdType
<1>12. ASSUME id \notin astray'
       PROVE  /\ Sole(u, id) /\ id \in in_use /\ CmdOk(u)' /\ RunOk(u)'
              /\ \/ conn'[id].st.must_discard
                 \/ cmd'[u].phase = "running"
                 \/ Tracks(conn'[id].st, conn'[id].server)
  <2>1. id \notin astray /\ id \in in_use /\ ~cmd[u].stale
    BY <1>0, <1>1, <1>8, <1>12 DEF CmdOk
  <2>2. \A v \in Users : cmd[v].phase = "running" => cmd[v].id # id
    <3>1. ~WrapperLocked(id)
      BY <1>1, <2>1 DEF Execute
    <3> QED
      BY <1>0, <2>1, <3>1 DEF WrapperLocked, CmdOk
  <2>3. Sole(u, id) /\ RunningOn(id) = {}
    BY <2>2 DEF Sole, RunningOn
  <2>4. st.must_discard \/ Tracks(st, sv)
    BY <1>0, <1>3, <1>4, <2>1, <2>3 DEF ConnOk
  <2>5. ASSUME NEW st2 \in ConnectionState, conn' = Record(u, st2)
        PROVE  conn'[id].st = st2 /\ conn'[id].server = sv
    BY <1>0, <1>1, <1>4, <2>1, <2>5 DEF Record, ConnType
  <2>6. CASE IsKeyed(c) /\ conn' = Record(u, up) /\ cmd' = [cmd EXCEPT ![u] = NoCmd]
    <3>1. cmd'[u].phase = "none"
      BY <1>0, <2>6 DEF NoCmd
    <3>2. CmdOk(u)' /\ RunOk(u)'
      BY <3>1 DEF CmdOk, RunOk
    <3>3. OnlyMarks(c)
      BY <2>6 DEF IsKeyed, OnlyMarks
    <3>4. Tracks(st, sv) => Tracks(up, sv)
      BY <3>3, MarksCover
    <3>5. conn'[id].st = up /\ conn'[id].server = sv
      BY <1>7, <2>5, <2>6
    <3> QED
      BY <1>7, <2>1, <2>3, <2>4, <3>2, <3>4, <3>5
  <2>7. CASE conn' = Record(u, tr) /\ cmd' = run /\ InPlace(sv, c)
    <3> DEFINE un == IF IsBlocking(c) THEN [tr EXCEPT !.blocking_in_flight = st.blocking_in_flight]
                     ELSE tr
    <3>1. /\ cmd'[u].phase = "running" /\ cmd'[u].poisoned = st.blocking_in_flight
          /\ cmd'[u].id = id /\ cmd'[u].c = c /\ ~cmd'[u].stale
      <4> HIDE DEF up, tr
      <4> QED
        BY <1>0, <1>1, <1>2, <2>1, <2>7 DEF CmdType
    <3>2. un = up
      BY <1>7 DEF Tracked, ConnectionState
    <3>3. IsBlocking(c) => tr = [st EXCEPT !.blocking_in_flight = TRUE]
      BY DEF Tracked, IsBlocking, update_state_for_command
    <3>4. IsBlocking(c) => tr.blocking_in_flight /\ (Tracks(st, sv) => Tracks(tr, sv))
      BY <3>3 DEF Tracks, ConnectionState
    <3>5. Tracks(st, sv) => /\ \A s \in ServerAfter(sv, c) : Tracks(up, s)
                            /\ OnlyMarks(c) => Tracks(up, sv)
      BY <2>7, TracksStep, MarksCover
    <3> HIDE DEF up, tr, run
    <3>6. conn'[id].st = tr /\ conn'[id].server = sv
      BY <1>7, <2>5, <2>7
    <3>7. CmdOk(u)'
      BY <1>5, <2>1, <3>1 DEF CmdOk
    <3>8. RunOk(u)'
      <4>1. CASE st.must_discard
        BY <1>7a, <3>1, <3>6, <4>1 DEF RunOk
      <4>2. CASE Tracks(st, sv)
        <5>1. Unmarked(u, conn[cmd[u].id].st)' = un
          BY <3>1, <3>6 DEF Unmarked
        <5> HIDE DEF un
        <5>2. (\A s \in ServerAfter(sv, c) : Tracks(un, s)) /\ (OnlyMarks(c) => Tracks(un, sv))
          BY <3>2, <3>5, <4>2
        <5>3. Ahead(u)'
          BY <3>1, <3>4, <3>6, <4>2, <5>1, <5>2 DEF Ahead
        <5> QED
          BY <5>3 DEF RunOk
      <4> QED
        BY <2>4, <4>1, <4>2
    <3> QED
      BY <2>1, <2>3, <3>1, <3>7, <3>8
  <2> HIDE DEF up, tr, run
  <2> QED
    BY <1>6, <1>12, <2>6, <2>7
<1> HIDE DEF up, tr, run
<1>13. cmd[u].id = id /\ CmdIdInv
  BY <1>0, <1>1
<1> QED
  BY <1>5, <1>8, <1>9, <1>10, <1>11, <1>12, <1>13, SenderFrame

\* Complete: the server catches up with the record, or the connection will be discarded,
\* or it goes astray.
LEMMA CompleteBorrow ==
    ASSUME TypeOK, LoopInv, PoolInv, BorrowInv, NEW u \in Users, Complete(u)
    PROVE  BorrowInv'
<1>0. /\ cmd \in [Users -> CmdType] /\ conn \in [Conns -> ConnType] /\ CmdOk(u) /\ RunOk(u)
      /\ cmd[u] \in CmdType /\ cmd[u].phase = "running" /\ CmdIdInv
  BY DEF TypeOK, BorrowInv, Complete, LoopInv
<1>1. PICK id \in Conns : id = cmd[u].id
  BY <1>0 DEF CmdIdInv
<1>2. PICK c \in Command : c = cmd[u].c
  BY <1>0 DEF CmdType
<1>3. PICK st \in ConnectionState : st = conn[id].st
  BY <1>0 DEF ConnType
<1>4. PICK sv \in ServerState : sv = conn[id].server
  BY <1>0 DEF ConnType
<1>5. UNCHANGED <<idle, in_use, cleanup, resyncing>>
  BY DEF Complete, poolVars, taskVars
<1> DEFINE un == Unmarked(u, st)
           w == sv.waiter \/ ~sv.multi
           sw == [sv EXCEPT !.waiter = w]
           lost == [un EXCEPT !.must_discard = TRUE]
<1>6. /\ un \in ConnectionState /\ un.must_discard = st.must_discard
      /\ lost \in ConnectionState /\ lost.must_discard
  <2>1. cmd[u].poisoned \in BOOLEAN
    BY <1>0 DEF CmdType
  <2>2. un \in ConnectionState /\ un.must_discard = st.must_discard
    BY <2>1 DEF Unmarked, ConnectionState
  <2> HIDE DEF un
  <2> QED
    BY <2>2 DEF ConnectionState
<1>7. /\ cmd'[u].phase = "none" /\ \A v \in Users : v # u => cmd'[v] = cmd[v]
  BY <1>0 DEF Complete, NoCmd
<1>8. CmdOk(u)' /\ RunOk(u)'
  BY <1>7 DEF CmdOk, RunOk
<1>9. ASSUME NEW r \in ConnectionState
      PROVE  /\ Record(u, r) \in [Conns -> ConnType]
             /\ Record(u, r)[id].server = sv
             /\ ~cmd[u].stale => Record(u, r)[id].st = r
             /\ \A x \in Conns : x # id => Record(u, r)[x] = conn[x]
  BY <1>1, <1>4, RecordFacts
<1> HIDE DEF un, lost
\* How the step leaves the connection, if it is open.
<1>10. \/ conn' = conn /\ ~IsOpen(id) /\ astray \subseteq astray'
       \/ /\ \E s \in ServerAfter(sv, c) : conn' = [Record(u, un) EXCEPT ![id].server = s]
          /\ astray' = astray
       \/ conn' = Record(u, un) /\ astray' = IF OnlyMarks(c) THEN astray ELSE astray \cup {id}
       \/ IsBlocking(c) /\ conn' = [conn EXCEPT ![id].server = sw] /\ astray' = astray
       \/ conn' = Record(u, lost) /\ astray' = astray
  <2>1. CASE Answered(u)
    BY <1>1, <1>2, <1>3, <1>4, <2>1 DEF Answered, un
  <2>2. CASE Poisoned(u)
    <3>1. /\ IsBlocking(c) /\ astray' = astray
          /\ \/ conn' = [conn EXCEPT ![id].server.waiter = @ \/ ~conn[id].server.multi]
             \/ conn' = conn /\ ~IsOpen(id)
      BY <1>1, <1>2, <2>2 DEF Poisoned
    <3> QED
      BY <1>0, <1>1, <1>4, <3>1
  <2>3. CASE AuthFailed(u)
    BY <1>1, <1>3, <2>3 DEF AuthFailed, un, lost
  <2> QED
    BY <2>1, <2>2, <2>3 DEF Complete
<1>11. astray \subseteq astray'
  <2> HIDE DEF sw
  <2> QED
    BY <1>10
<1>12. \A x \in Conns : x # id => conn'[x] = conn[x]
  <2> HIDE DEF sw
  <2>1. CASE conn' = conn \/ conn' = [conn EXCEPT ![id].server = sw]
    BY <1>0, <2>1
  <2>2. CASE conn' = Record(u, un) \/ conn' = Record(u, lost)
    BY <1>6, <1>9, <2>2
  <2>3. ASSUME NEW s, conn' = [Record(u, un) EXCEPT ![id].server = s]
        PROVE  \A x \in Conns : x # id => conn'[x] = conn[x]
    <3> DEFINE r == Record(u, un)
    <3>1. r \in [Conns -> ConnType] /\ \A x \in Conns : x # id => r[x] = conn[x]
      BY <1>6, <1>9
    <3>2. conn' = [r EXCEPT ![id].server = s]
      BY <2>3
    <3> HIDE DEF r
    <3> QED
      BY <3>1, <3>2
  <2> QED
    BY <1>10, <2>1, <2>2, <2>3
<1>13. ASSUME id \notin astray'
       PROVE  /\ Sole(u, id) /\ id \in in_use
              /\ conn'[id].st.must_discard \/ Tracks(conn'[id].st, conn'[id].server)
  <2>1. id \notin astray /\ id \in in_use /\ ~cmd[u].stale
    BY <1>0, <1>1, <1>11, <1>13 DEF CmdOk
  <2>2. Sole(u, id)
    BY <1>0, <1>1, <2>1 DEF BorrowInv
  <2>3. IsOpen(id)
    BY <2>1 DEF PoolInv, OpenInv
  <2>4. \/ st.must_discard
        \/ /\ \A s \in ServerAfter(sv, c) : Tracks(un, s)
           /\ OnlyMarks(c) => Tracks(un, sv)
           /\ IsBlocking(c) => st.blocking_in_flight /\ Tracks(st, sv)
    BY <1>0, <1>1, <1>2, <1>3, <1>4, <2>1 DEF RunOk, Ahead, un
  <2>5. ASSUME NEW s \in ServerAfter(sv, c), conn' = [Record(u, un) EXCEPT ![id].server = s]
        PROVE  conn'[id].st.must_discard \/ Tracks(conn'[id].st, conn'[id].server)
    <3> DEFINE r == Record(u, un)
    <3>1. r \in [Conns -> ConnType] /\ r[id].st = un /\ conn' = [r EXCEPT ![id].server = s]
      BY <1>6, <1>9, <2>1, <2>5
    <3> HIDE DEF r
    <3>2. conn'[id].st = un /\ conn'[id].server = s
      BY <3>1 DEF ConnType
    <3> QED
      BY <1>6, <2>4, <3>2
  <2>6. CASE conn' = Record(u, un) /\ OnlyMarks(c)
    <3>1. conn'[id].st = un /\ conn'[id].server = sv
      BY <1>6, <1>9, <2>1, <2>6
    <3> QED
      BY <1>6, <2>1, <2>2, <2>4, <2>6, <3>1
  <2>7. CASE IsBlocking(c) /\ conn' = [conn EXCEPT ![id].server = sw]
    <3>1. Tracks(st, sv) /\ st.blocking_in_flight => Tracks(st, sw)
      <4> HIDE DEF w
      <4> QED
        BY DEF Tracks, ServerState
    <3> HIDE DEF sw
    <3>2. conn'[id].st = st /\ conn'[id].server = sw
      BY <1>0, <1>3, <2>7 DEF ConnType
    <3> QED
      BY <2>1, <2>2, <2>4, <2>7, <3>1, <3>2
  <2>8. CASE conn' = Record(u, lost)
    <3>1. conn'[id].st = lost
      BY <1>6, <1>9, <2>1, <2>8
    <3> QED
      BY <1>6, <2>1, <2>2, <3>1
  <2> HIDE DEF sw
  <2>9. conn'[id].st.must_discard \/ Tracks(conn'[id].st, conn'[id].server)
    BY <1>10, <1>13, <2>3, <2>5, <2>6, <2>7, <2>8
  <2> QED
    BY <2>1, <2>2, <2>9
<1> HIDE DEF sw
<1>14. cmd[u].id = id /\ CmdIdInv
  BY <1>0, <1>1
<1> QED
  BY <1>5, <1>7, <1>8, <1>11, <1>12, <1>13, <1>14, SenderFrame

LEMMA BorrowKept ==
    ASSUME TypeOK, LoopInv, PoolInv, PoolInv', BorrowInv, Next
    PROVE  BorrowInv'
BY NextCases, LoopBorrow, TryBorrow, SendBorrow, ExecuteBorrow, CompleteBorrow,
   GiveBackBorrow, TaskBorrow

-----------------------------------------------------------------------------
(* The theorems *)

LEMMA InitInv == Init => Inv
<1> SUFFICES ASSUME Init PROVE Inv
  OBVIOUS
<1> USE ScopeAssumption
<1>0. /\ Idle = {} /\ in_use = {} /\ Dialing = {} /\ Cleaning = {} /\ Resyncing = {}
      /\ idle = <<>> /\ total_count = 0
  <2>1. ToSet(<<>>) = {}
    BY DEF ToSet
  <2> QED
    BY <2>1, DbAssumption DEF Init, Idle, Dialing, Cleaning, Resyncing, NoDial, NoCleanup
<1>1. TypeOK
  <2>1. resyncReq \in [Targets \X Dbs -> 0..MaxResync] /\ prewarm \in Nat
    BY DEF Init
  <2>2. idle \in Seq(Conns)
    BY <1>0
  <2>3. /\ conn \in [Conns -> ConnType] /\ dial \in [Dials -> DialType]
        /\ cleanup \in [Conns -> CleanupType]
        /\ acq \in [Users -> AcqType] /\ cmd \in [Users -> CmdType]
    <3>1. runtimeDb \in Dbs
      BY DEF Init
    <3> QED
      BY <3>1, BlankTypes DEF Init
  <2>4. /\ resyncing \in [Conns -> Dbs \cup {NoDb}]
        /\ holds \in [Users -> Conns \cup {NoConn}]
        /\ released \in [Users -> Conns \cup {NoConn}]
    BY DEF Init
  <2>5. /\ scenario \in Scenarios /\ in_use \subseteq Conns /\ total_count \in Nat
        /\ lock \in Users \cup {NoUser} /\ registry \subseteq Conns
        /\ runtimeDb \in Dbs /\ closing = "open" /\ mapped = "pool"
        /\ toRelease \subseteq Users \X Conns /\ astray \subseteq Conns
    BY DEF Init
  <2> QED
    BY <2>1, <2>2, <2>3, <2>4, <2>5 DEF TypeOK
<1>2. LoopInv
  BY DEF Init, LoopInv, AcqInv, CmdIdInv, DialInv, OwnerInv, NoAcq, NoDial, NoCmd
<1>3. PoolInv
  <2>1. OneOwner
    BY <1>0, OwnerSets DEF Apart, Distinct
  <2>2. OpenInv
    BY <1>0 DEF OpenInv
  <2>3. SlotsAccounted
    BY <1>0, FS_EmptySet DEF SlotsAccounted
  <2>4. CloseInv
    BY <1>0 DEF Init, CloseInv
  <2> QED
    BY <2>1, <2>2, <2>3, <2>4 DEF PoolInv
<1>4. ExhaustedWakes /\ SeekInv /\ HoldInv
  BY DEF Init, ExhaustedWakes, SeekInv, HoldInv, NoAcq
<1>5. BorrowInv
  <2>1. \A u \in Users : CmdOk(u) /\ RunOk(u) /\ cmd[u].phase # "running"
    BY DEF Init, CmdOk, RunOk, NoCmd
  <2>2. \A c \in Conns : ConnOk(c)
    BY <1>0 DEF ConnOk, Cleaning
  <2> QED
    BY <2>1, <2>2 DEF BorrowInv
<1> QED
  BY <1>1, <1>2, <1>3, <1>4, <1>5 DEF Inv

LEMMA InvStutter ==
    ASSUME Inv, UNCHANGED vars
    PROVE  Inv'
<1> USE DEF Inv, vars, poolVars, taskVars, envVars, userVars
<1>1. TypeOK'
  BY TypesStutter
<1>2. LoopInv'
  BY DEF LoopInv, AcqInv, CmdIdInv, DialInv, OwnerInv
<1>3. PoolInv'
  BY DEF PoolInv, OneOwner, OpenInv, SlotsAccounted, CloseInv, Idle, Cleaning, Resyncing, Dialing,
         IsOpen
<1>4. (ExhaustedWakes /\ SeekInv /\ HoldInv)'
  BY DEF ExhaustedWakes, SeekInv, HoldInv
<1>5. BorrowInv'
  BY DEF BorrowInv, CmdOk, ConnOk, RunOk, Ahead, Unmarked, RunningOn, Sole, Spotless, Db, Idle,
         Resyncing
<1> QED
  BY <1>1, <1>2, <1>3, <1>4, <1>5

LEMMA InvStep ==
    ASSUME Inv, Next
    PROVE  Inv'
<1>1. TypeOK' /\ LoopInv' /\ PoolInv'
  BY TypesKept, LoopKept, PoolKept DEF Inv, LoopInv
<1>2. ExhaustedWakes' /\ SeekInv' /\ HoldInv'
  BY <1>1, WakesKept, SeekKept, HoldKept DEF Inv
<1>3. BorrowInv'
  BY <1>1, BorrowKept DEF Inv
<1> QED
  BY <1>1, <1>2, <1>3 DEF Inv

\* The inductive invariant holds in every reachable state.
THEOREM ScopeInvariant == Spec => []Inv
<1>1. Inv /\ [Next]_vars => Inv'
  BY InvStep, InvStutter
<1> QED
  BY <1>1, InitInv, PTL DEF Spec

\* ScopePool.total_count equals what the pool has lent, keeps, dials, cleans and
\* resyncs, so that release, eviction and every failure path give each slot back
\* once; and an acquire that sleeps on an exhausted pool is woken by whatever
\* frees a slot.
THEOREM SlotsAlwaysSound == Spec => []SlotsSound
<1>1. Inv => SlotsSound
  BY DEF Inv, SlotsSound, PoolInv
<1> QED
  BY <1>1, ScopeInvariant, PTL

\* A connection is idle, lent, in cleanup or in resync, never two of these, even
\* if the application releases late or twice; and unless it releases twice, the
\* scope it holds is lent and registered, and nobody else's, until the parent closes.
THEOREM ScopesAlwaysIsolated == Spec => []ScopesIsolated
<1>1. Inv => ScopesIsolated
  <2> SUFFICES ASSUME Inv, ~scenario.twice PROVE ScopeExclusive
    BY DEF Inv, PoolInv, ScopesIsolated
  <2>1. closing = "open" => in_use \subseteq registry
    BY DEF Inv, PoolInv, CloseInv
  <2> QED
    BY <2>1 DEF Inv, HoldInv, ScopeExclusive
<1> QED
  BY <1>1, ScopeInvariant, PTL

\* What a borrower did on a connection never reaches the next one: release and its
\* cleanup pipeline return to idle only connections on which the server keeps no
\* watched key, transaction, tracking, name, subscription or armed waiter, on the
\* database the pool recorded, save those that went astray since they were opened.
THEOREM IdleAlwaysPristine == Spec => []IdleIsPristine
<1>1. Inv => IdleIsPristine
  <2> SUFFICES ASSUME Inv, NEW c \in Idle, c \notin astray PROVE Pristine(conn[c].server, Db(c))
    BY DEF IdleIsPristine, Idle
  <2>1. c \in Conns
    BY IdleConns DEF Inv
  <2> QED
    BY <2>1 DEF Inv, BorrowInv, ConnOk, Spotless
<1> QED
  BY <1>1, ScopeInvariant, PTL

\* try_acquire lends a connection whose server really is on the runtime database the
\* attempt resolved, not only recorded there, unless the connection went astray.
THEOREM BorrowsOnRuntimeDb == Spec => BorrowOnRuntimeDb
<1> DEFINE Lent(u) == (holds[u] = NoConn /\ holds'[u] \notin astray \cup {NoConn}) =>
                          conn[holds'[u]].server.db = acq[u].db
<1>1. ASSUME Inv, Next, NEW u \in Users, holds[u] = NoConn, holds'[u] \notin astray \cup {NoConn}
      PROVE  conn[holds'[u]].server.db = acq[u].db
  <2>0. holds \in [Users -> Conns \cup {NoConn}]
    BY <1>1 DEF Inv, TypeOK
  <2>1. PICK v \in Users : TryAcquire(v)
    <3>1. holds' # holds
      BY <1>1
    <3>2. ASSUME NEW v \in Users, Release(v)
          PROVE  holds'[u] = NoConn
      BY <1>1, <2>0, <3>2 DEF Release
    <3> QED
      BY <1>1, <3>1, <3>2, NextCases
         DEF BeginAcquire, Resolve, Wake, BackoffElapsed, GiveUp, Issue, Dispatch, Execute,
             Complete, ReleaseAgain, DeferredRelease, PrewarmStart, DialConnects, DialSeats,
             DialFails, ResyncTake, ResyncSucceeds, ResyncFails, CleanupSends, CleanupEnds,
             ParentSelects, Unregister, DropPool, SweepRegistry, userVars
  <2>2. PICK n \in 0..Len(idle) :
            /\ Reusable(acq[v].target, acq[v].db, n) # {}
            /\ Reuse(v, Newest(Reusable(acq[v].target, acq[v].db, n)))
    BY <1>1, <2>1 DEF TryAcquire, NeedsResync, Reserve, Exhausted
  <2>3. PICK i : i = Newest(Reusable(acq[v].target, acq[v].db, n))
    OBVIOUS
  <2>4. i \in 1..Len(idle) /\ Db(idle[i]) = acq[v].db /\ Reuse(v, i)
    <3>1. TypeOK
      BY <1>1 DEF Inv
    <3> QED
      BY <2>2, <2>3, <3>1, PositionFacts
  <2>5. u = v /\ holds'[u] = idle[i]
    BY <1>1, <2>0, <2>4 DEF Reuse
  <2>6. idle[i] \in Idle /\ idle[i] \in Conns
    BY <1>1, <2>4, IdleConns DEF Inv, Idle, ToSet, TypeOK
  <2>7. Spotless(idle[i])
    BY <1>1, <2>5, <2>6 DEF Inv, BorrowInv, ConnOk
  <2> QED
    BY <2>4, <2>5, <2>7 DEF Spotless, Pristine
<1>2. Inv /\ [Next]_vars => [\A u \in Users : Lent(u)]_vars
  BY <1>1
<1> QED
  BY <1>2, ScopeInvariant, PTL DEF Spec, BorrowOnRuntimeDb
=============================================================================
