---------------------------- MODULE ClusterProofs ---------------------------
(***************************************************************************)
(* Theorems about ClusterConnection for every number of requests, nodes,   *)
(* tasks and retries, every queue cap and every budget of events, checked  *)
(* by TLAPS.                                                               *)
(***************************************************************************)
EXTENDS ClusterConnection, FiniteSetTheorems, TLAPS

-----------------------------------------------------------------------------
(* The inductive invariant *)

\* The executions of a command against the replies it lost with an io error that asks
\* for another attempt: none is unaccounted for, or one is.
Even(q) == q.runs <= q.ioErrors
Ahead(q) == q.runs = q.ioErrors + 1

\* What a request's fields say of each other: a redirected or sent request names a
\* node, a redirection names its target, and a command with an execution that is
\* unaccounted for is never again in a state from which it could be sent.
Sound(q) ==
    /\ q.pc = "sent" \/ q.route # "slot" => q.at \in Nodes
    /\ q.reply \in {"ask", "moved"} => q.to \in Nodes
    /\ q.pc = "update" => q.route # "slot"
    /\ \/ Even(q)
       \/ Ahead(q) /\ (q.pc = "done" \/ (q.pc = "sent" /\ q.reply \in {"ok", "lost"}))

Distinct(s) == \A i, j \in DOMAIN s : s[i] = s[j] => i = j

\* The requests.
ReqInv == req \in [Requests -> RequestType] /\ \A r \in Requests : Sound(req[r])

\* The two queues hold exactly the queued requests, each once.
LineInv ==
    /\ channel \in Seq(Requests) /\ queue \in Seq(Requests)
    /\ Distinct(channel) /\ Distinct(queue)
    /\ Elements(channel) \cap Elements(queue) = {}
    /\ \A r \in Requests :
        r \in Elements(channel) \cup Elements(queue) <=> req[r].pc = "queued"

\* The driver's action names addresses only to reconnect to.
DriverInv ==
    /\ driver \in DriverType
    /\ driver.action.kind = "none" => driver.action.targets = {}

\* The container, the refresh and the cluster.
NodeInv ==
    /\ threads \in {1, 2} /\ events \in [Events -> Nat]
    /\ refresher \in RefresherType /\ recent \in BOOLEAN
    /\ refresher.pc \in {"build", "replace"} => refresher.view \in Nodes
    /\ map \in Nodes /\ hash \in Nodes /\ conns \in ConnsType
    /\ owner \in Nodes /\ up \in [Nodes -> BOOLEAN]

\* Every mark has its task.
TaskInv ==
    /\ entry \in [Nodes -> Tasks \cup {NoTask}] /\ tasks \in [Tasks -> TaskType]
    /\ \A n \in Nodes : entry[n] # NoTask =>
        /\ tasks[entry[n]].node = n
        /\ ~tasks[entry[n]].aborted
        /\ tasks[entry[n]].pc # "free"

Inv == ReqInv /\ LineInv /\ QueueWillDrain /\ DriverInv /\ NodeInv /\ TaskInv

-----------------------------------------------------------------------------
(* Requests *)

Results == {"none", "ok", "err", "dropped", "gone"}

\* An ended request is well formed.
LEMMA EndedFacts ==
    ASSUME NEW q \in RequestType, Sound(q), NEW result \in Results
    PROVE  /\ Ended(q, result) \in RequestType
           /\ Sound(Ended(q, result))
           /\ Ended(q, result).pc = "done"
<1> DEFINE e == Ended(q, result)
<1>1. /\ e.pc = "done" /\ e.route = "slot" /\ e.at = NoNode /\ e.to = NoNode
      /\ e.task = NoTask /\ e.reply = "none" /\ e.runs = q.runs /\ e.ioErrors = q.ioErrors
  BY DEF Ended, RequestType
<1>2. e \in RequestType
  <2>1. CASE q.closed
    BY <2>1 DEF Ended, RequestType
  <2>2. CASE ~q.closed
    BY ZenonT(60), <2>2 DEF Ended, RequestType, Results
  <2> QED BY <2>1, <2>2
<1> HIDE DEF e
<1>3. Sound(e)
  BY <1>1 DEF Sound, Even, Ahead
<1> QED BY <1>1, <1>2, <1>3 DEF e

\* A request put back to its own route is well formed.
LEMMA ResetFacts ==
    ASSUME NEW q \in RequestType, Even(q)
    PROVE  /\ Queued(q) \in RequestType
           /\ Sound(Queued(q))
           /\ Queued(q).pc = "queued"
           /\ [Reset(q) EXCEPT !.pc = "sleep"] \in RequestType
           /\ Sound([Reset(q) EXCEPT !.pc = "sleep"])
BY ZenonT(60), ClusterAssumption DEF Queued, Reset, RequestType, Sound, Even, Ahead

\* The driver's actions.
ActionOK(a) == a \in ActionType /\ (a.kind = "none" => a.targets = {})

\* What the driver may take from the poll of a request.
StepOK(s) ==
    /\ s.q \in RequestType /\ Sound(s.q)
    /\ s.again <=> s.q.pc = "queued"
    /\ ActionOK(s.action)

LEMMA ActionFacts ==
    /\ ActionOK(Nothing) /\ ActionOK(RebuildSlots) /\ ActionOK(FromInitialNodes)
    /\ \A n \in Nodes : ActionOK(ReconnectTo(n))
BY DEF ActionOK, ActionType, Nothing, RebuildSlots, FromInitialNodes, ReconnectTo

\* Joining two actions gives an action.
LEMMA ChangeFacts ==
    ASSUME NEW a, NEW b, ActionOK(a), ActionOK(b)
    PROVE  ActionOK(change_state(a, b))
<1>1. /\ Rank["none"] = 0 /\ Rank["reconnect"] = 1
      /\ Rank["rebuild"] = 2 /\ Rank["initial"] = 3
  BY DEF Rank
<1>2. CASE Rank[a.kind] < Rank[b.kind]
  BY <1>2 DEF change_state
<1>3. CASE ~(Rank[a.kind] < Rank[b.kind]) /\ Rank[a.kind] > Rank[b.kind]
  BY <1>3 DEF change_state
<1>4. CASE ~(Rank[a.kind] < Rank[b.kind]) /\ ~(Rank[a.kind] > Rank[b.kind])
  <2>1. a.kind = b.kind
    BY <1>1, <1>4 DEF ActionOK, ActionType
  <2>2. change_state(a, b) = [a EXCEPT !.targets = @ \cup b.targets]
    BY <1>4 DEF change_state
  <2> QED BY <2>1, <2>2 DEF ActionOK, ActionType
<1> QED BY <1>2, <1>3, <1>4

Kinds ==
    {"unavailable", "notFound", "readOnly", "tryAgain", "loading", "ask", "moved", "circular",
     "unsent", "lost", "ioError", "error"}

\* A step is well formed when its parts are.
LEMMA StepFacts ==
    ASSUME NEW q \in RequestType, Sound(q), NEW again \in BOOLEAN, NEW a, ActionOK(a),
           again <=> q.pc = "queued"
    PROVE  StepOK(Step(q, again, a))
BY DEF StepOK, Step

\* What becomes of a request that failed: it ends, or it may be tried again, and then
\* no command was executed for it.
LEMMA FailedFacts ==
    ASSUME NEW q \in RequestType, Sound(q), NEW kind \in Kinds, NEW node,
           q.pc # "queued",
           Even(q) \/ kind = "lost",
           kind \in {"ask", "moved"} => q.to \in Nodes,
           kind \in {"lost", "unsent", "circular"} => node \in Nodes
    PROVE  StepOK(Failed(q, kind, node))
<1>1. CASE OutOfRetries(q)
  <2>1. Failed(q, kind, node) = GivesUp(q, kind, node)
    BY <1>1 DEF Failed
  <2> DEFINE a == CASE kind = "unavailable" -> FromInitialNodes
                    [] kind \in {"moved", "circular", "readOnly", "notFound"} -> RebuildSlots
                    [] kind \in {"lost", "unsent"} -> ReconnectTo(node)
                    [] OTHER -> Nothing
  <2>2. ActionOK(a)
    BY ActionFacts DEF Kinds
  <2>3. GivesUp(q, kind, node) = Step(Ended(q, "err"), FALSE, a)
    BY DEF GivesUp
  <2> HIDE DEF a
  <2>4. /\ Ended(q, "err") \in RequestType /\ Sound(Ended(q, "err"))
        /\ Ended(q, "err").pc = "done"
    BY EndedFacts DEF Results
  <2> QED BY <2>1, <2>2, <2>3, <2>4, StepFacts
<1>2. CASE ~OutOfRetries(q)
  <2> DEFINE p == [q EXCEPT !.retry = @ + 1]
  <2>1. Failed(q, kind, node) = Retried(p, kind, node)
    BY <1>2 DEF Failed
  <2>2. p \in RequestType
    BY <1>2, ClusterAssumption DEF OutOfRetries, RequestType
  <2>3. /\ p.pc = q.pc /\ p.runs = q.runs /\ p.ioErrors = q.ioErrors /\ p.to = q.to /\ p.at = q.at /\ p.route = q.route
        /\ p.reply = q.reply
    BY DEF RequestType
  <2>4. Sound(p) /\ (Even(q) => Even(p))
    BY <2>3 DEF Sound, Even, Ahead
  <2> HIDE DEF p
  <2>5. CASE kind = "unavailable"
    <3>1. Retried(p, kind, node) = Step(Queued(p), TRUE, FromInitialNodes)
      BY <2>5 DEF Retried
    <3>2. Queued(p) \in RequestType /\ Sound(Queued(p)) /\ Queued(p).pc = "queued"
      BY <2>2, <2>3, <2>4, <2>5, ResetFacts
    <3> QED BY <2>1, <3>1, <3>2, StepFacts, ActionFacts
  <2>6. CASE kind \in {"notFound", "readOnly"}
    <3>1. Retried(p, kind, node) = Step([Reset(p) EXCEPT !.pc = "sleep"], FALSE, RebuildSlots)
      BY <2>6 DEF Retried
    <3>2. [Reset(p) EXCEPT !.pc = "sleep"].pc = "sleep"
      BY <2>2 DEF Reset, RequestType
    <3>3. /\ [Reset(p) EXCEPT !.pc = "sleep"] \in RequestType
          /\ Sound([Reset(p) EXCEPT !.pc = "sleep"])
      BY <2>2, <2>3, <2>4, <2>6, ResetFacts
    <3> QED BY <2>1, <3>1, <3>2, <3>3, StepFacts, ActionFacts
  <2>7. CASE kind \in {"tryAgain", "loading"}
    <3> DEFINE s == [p EXCEPT !.pc = "sleep", !.reply = "none"]
    <3>1. Retried(p, kind, node) = Step(s, FALSE, Nothing)
      BY <2>7 DEF Retried
    <3>2. /\ s \in RequestType /\ s.pc = "sleep" /\ s.reply = "none" /\ s.runs = p.runs /\ s.ioErrors = p.ioErrors
          /\ s.at = p.at /\ s.route = p.route
      BY ZenonT(60), <2>2 DEF RequestType
    <3> HIDE DEF s
    <3>3. Sound(s)
      BY <2>3, <2>4, <2>7, <3>2 DEF Sound, Even, Ahead
    <3> QED BY <2>1, <3>1, <3>2, <3>3, StepFacts, ActionFacts
  <2>8. CASE kind = "ask"
    <3> DEFINE s == [p EXCEPT !.pc = "start", !.route = "ask", !.at = p.to, !.reply = "none"]
    <3>1. Retried(p, kind, node) = Step(s, FALSE, Nothing)
      BY <2>8 DEF Retried
    <3>2. s \in RequestType /\ s.pc = "start" /\ Sound(s)
      BY ZenonT(60), <2>2, <2>3, <2>4, <2>8 DEF RequestType, Sound, Even, Ahead
    <3> QED BY <2>1, <3>1, <3>2, StepFacts, ActionFacts
  <2>9. CASE kind = "moved"
    <3> DEFINE s == [p EXCEPT !.pc = "update", !.route = "moved", !.at = p.to, !.reply = "none"]
    <3>1. Retried(p, kind, node) = Step(s, FALSE, RebuildSlots)
      BY <2>9 DEF Retried
    <3>2. s \in RequestType /\ s.pc = "update" /\ Sound(s)
      BY ZenonT(60), <2>2, <2>3, <2>4, <2>9 DEF RequestType, Sound, Even, Ahead
    <3> QED BY <2>1, <3>1, <3>2, StepFacts, ActionFacts
  <2>10. CASE kind \in {"circular", "unsent"}
    <3>1. Retried(p, kind, node) = Step(Queued(p), TRUE, ReconnectTo(node))
      BY <2>10 DEF Retried
    <3>2. Queued(p) \in RequestType /\ Sound(Queued(p)) /\ Queued(p).pc = "queued"
      BY <2>2, <2>3, <2>4, <2>10, ResetFacts
    <3> QED BY <2>1, <2>10, <3>1, <3>2, StepFacts, ActionFacts
  <2>11. CASE kind \in {"lost", "error"}
    <3>1. PICK result \in Results, a \in ActionType :
            ActionOK(a) /\ Retried(p, kind, node) = Step(Ended(p, result), FALSE, a)
      BY <2>11, ActionFacts DEF Retried, LostReply, Results, ActionOK
    <3>2. /\ Ended(p, result) \in RequestType /\ Sound(Ended(p, result))
          /\ Ended(p, result).pc = "done"
      BY <2>2, <2>4, EndedFacts
    <3> QED BY <2>1, <3>1, <3>2, StepFacts
  <2>12. CASE kind = "ioError"
    <3> DEFINE s == [p EXCEPT !.pc = "start", !.reply = "none"]
    <3>1. Retried(p, kind, node) = Step(s, FALSE, Nothing)
      BY <2>12 DEF Retried, RetryImmediately
    <3>2. /\ s \in RequestType /\ s.pc = "start" /\ s.reply = "none" /\ s.runs = p.runs
          /\ s.ioErrors = p.ioErrors /\ s.at = p.at /\ s.route = p.route
      BY ZenonT(60), <2>2 DEF RequestType
    <3> HIDE DEF s
    <3>3. Sound(s)
      BY <2>3, <2>4, <2>12, <3>2 DEF Sound, Even, Ahead
    <3> QED BY <2>1, <3>1, <3>2, <3>3, StepFacts, ActionFacts
  <2> QED BY <2>5, <2>6, <2>7, <2>8, <2>9, <2>10, <2>11, <2>12 DEF Kinds
<1> QED BY <1>1, <1>2

-----------------------------------------------------------------------------
(* Sequences of requests *)

\* The empty queue.
LEMMA EmptyFacts ==
    <<>> \in Seq(Requests) /\ Elements(<<>>) = {} /\ Distinct(<<>>) /\ Len(<<>>) = 0
BY DEF Elements, Distinct

\* A request that is not yet there is added at the end.
LEMMA AppendLine ==
    ASSUME NEW s \in Seq(Requests), Distinct(s), NEW r \in Requests, r \notin Elements(s)
    PROVE  /\ Append(s, r) \in Seq(Requests)
           /\ Distinct(Append(s, r))
           /\ Elements(Append(s, r)) = Elements(s) \cup {r}
<1>1. /\ DOMAIN s = 1..Len(s)
      /\ DOMAIN Append(s, r) = 1..(Len(s) + 1)
      /\ Len(s) \in Nat
      /\ \A i \in 1..Len(s) : Append(s, r)[i] = s[i]
      /\ Append(s, r)[Len(s) + 1] = r
  OBVIOUS
<1>2. Elements(Append(s, r)) = Elements(s) \cup {r}
  BY <1>1 DEF Elements
<1>3. Distinct(Append(s, r))
  BY <1>1 DEF Elements, Distinct
<1> QED BY <1>2, <1>3

\* The first request is taken away.
LEMMA TailLine ==
    ASSUME NEW s \in Seq(Requests), Distinct(s), s # <<>>
    PROVE  /\ Tail(s) \in Seq(Requests)
           /\ Distinct(Tail(s))
           /\ Head(s) \in Elements(s)
           /\ Elements(Tail(s)) = Elements(s) \ {Head(s)}
<1>1. /\ DOMAIN s = 1..Len(s) /\ Len(s) \in Nat /\ Len(s) > 0
      /\ Tail(s) \in Seq(Requests)
      /\ DOMAIN Tail(s) = 1..(Len(s) - 1)
      /\ \A i \in 1..(Len(s) - 1) : Tail(s)[i] = s[i + 1]
      /\ Head(s) = s[1]
  OBVIOUS
<1>2. Distinct(Tail(s))
  BY <1>1 DEF Distinct
<1>3. Head(s) \in Elements(s)
  BY <1>1 DEF Elements
<1>4. Elements(Tail(s)) \subseteq Elements(s) \ {Head(s)}
  BY <1>1 DEF Elements, Distinct
<1>5. ASSUME NEW x \in Elements(s) \ {Head(s)} PROVE x \in Elements(Tail(s))
  <2>1. PICK i \in 1..Len(s) : x = s[i] /\ i # 1
    BY <1>1 DEF Elements
  <2>2. i - 1 \in 1..(Len(s) - 1) /\ Tail(s)[i - 1] = x
    BY <1>1, <2>1
  <2> QED BY <1>1, <2>2 DEF Elements
<1> QED BY <1>1, <1>2, <1>3, <1>4, <1>5

\* The first n requests of a queue.
LEMMA PrefixLine ==
    ASSUME NEW s \in Seq(Requests), Distinct(s), NEW n \in 0..Len(s)
    PROVE  /\ SubSeq(s, 1, n) \in Seq(Requests)
           /\ Len(SubSeq(s, 1, n)) = n
           /\ Distinct(SubSeq(s, 1, n))
           /\ Elements(SubSeq(s, 1, n)) \subseteq Elements(s)
<1>1. /\ DOMAIN s = 1..Len(s) /\ Len(s) \in Nat
      /\ SubSeq(s, 1, n) \in Seq(Requests)
      /\ Len(SubSeq(s, 1, n)) = n
      /\ DOMAIN SubSeq(s, 1, n) = 1..n
      /\ \A i \in 1..n : SubSeq(s, 1, n)[i] = s[i]
  OBVIOUS
<1> QED BY <1>1 DEF Distinct, Elements

\* One queue behind another.
LEMMA ConcatLine ==
    ASSUME NEW s \in Seq(Requests), NEW t \in Seq(Requests), Distinct(s), Distinct(t),
           Elements(s) \cap Elements(t) = {}
    PROVE  /\ s \o t \in Seq(Requests)
           /\ Len(s \o t) = Len(s) + Len(t)
           /\ Distinct(s \o t)
           /\ Elements(s \o t) = Elements(s) \cup Elements(t)
<1>1. /\ DOMAIN s = 1..Len(s) /\ Len(s) \in Nat
      /\ DOMAIN t = 1..Len(t) /\ Len(t) \in Nat
      /\ s \o t \in Seq(Requests)
      /\ Len(s \o t) = Len(s) + Len(t)
      /\ DOMAIN (s \o t) = 1..(Len(s) + Len(t))
      /\ \A i \in 1..(Len(s) + Len(t)) :
            (s \o t)[i] = IF i <= Len(s) THEN s[i] ELSE t[i - Len(s)]
  OBVIOUS
<1>2. ASSUME NEW i \in 1..(Len(s) + Len(t))
      PROVE  \/ i \in 1..Len(s) /\ (s \o t)[i] = s[i]
             \/ i - Len(s) \in 1..Len(t) /\ (s \o t)[i] = t[i - Len(s)]
  BY <1>1
<1>3. Elements(s \o t) \subseteq Elements(s) \cup Elements(t)
  BY <1>1, <1>2 DEF Elements
<1>4. ASSUME NEW x \in Elements(s) PROVE x \in Elements(s \o t)
  <2>1. PICK i \in 1..Len(s) : x = s[i]
    BY <1>1 DEF Elements
  <2> QED BY <1>1, <2>1 DEF Elements
<1>5. ASSUME NEW x \in Elements(t) PROVE x \in Elements(s \o t)
  <2>1. PICK i \in 1..Len(t) : x = t[i]
    BY <1>1 DEF Elements
  <2>2. Len(s) + i \in 1..(Len(s) + Len(t)) /\ (s \o t)[Len(s) + i] = x
    BY <1>1, <2>1
  <2> QED BY <1>1, <2>2 DEF Elements
<1>6. Distinct(s \o t)
  <2> SUFFICES ASSUME NEW i \in 1..(Len(s) + Len(t)), NEW j \in 1..(Len(s) + Len(t)),
                      (s \o t)[i] = (s \o t)[j]
               PROVE  i = j
    BY <1>1 DEF Distinct
  <2>1. CASE i \in 1..Len(s) /\ j \in 1..Len(s)
    BY <1>1, <2>1 DEF Distinct
  <2>2. CASE i - Len(s) \in 1..Len(t) /\ j - Len(s) \in 1..Len(t)
    <3>1. t[i - Len(s)] = t[j - Len(s)]
      BY <1>1, <2>2
    <3>2. i - Len(s) = j - Len(s)
      BY <1>1, <2>2, <3>1 DEF Distinct
    <3> QED BY <1>1, <3>2
  <2>3. \A x \in 1..Len(s), y \in 1..Len(t) : s[x] # t[y]
    BY <1>1 DEF Elements
  <2> QED BY <1>1, <1>2, <2>1, <2>2, <2>3
<1> QED BY <1>1, <1>3, <1>4, <1>5, <1>6

\* The positions of a queue whose requests are retained, and the rank of one.
Positions(s, rs) == {i \in DOMAIN s : s[i] \in rs}

UpTo(S, i) == {j \in S : j <= i}

\* Positions are ranked 1, 2, ...: for each rank there is exactly one position.
LEMMA RankFacts ==
    ASSUME NEW n \in Nat, NEW S, S \subseteq 1..n
    PROVE  /\ IsFiniteSet(S) /\ Cardinality(S) \in Nat /\ Cardinality(S) <= n
           /\ \A i \in S : Cardinality(UpTo(S, i)) \in 1..Cardinality(S)
           /\ \A i, j \in S : Cardinality(UpTo(S, i)) = Cardinality(UpTo(S, j)) => i = j
           /\ \A k \in 1..Cardinality(S) : \E i \in S : Cardinality(UpTo(S, i)) = k
<1> DEFINE C(i) == Cardinality(UpTo(S, i))
           m == Cardinality(S)
<1>1. IsFiniteSet(S) /\ m \in Nat /\ m <= n
  <2>1. IsFiniteSet(1..n) /\ Cardinality(1..n) = n
    BY FS_Interval
  <2> QED BY <2>1, FS_Subset, FS_CardinalityType
<1>2. ASSUME NEW i \in S PROVE IsFiniteSet(UpTo(S, i)) /\ C(i) \in 1..m
  <2>1. UpTo(S, i) \subseteq S /\ i \in UpTo(S, i)
    BY DEF UpTo
  <2>2. IsFiniteSet(UpTo(S, i)) /\ C(i) \in Nat /\ C(i) <= m
    BY <1>1, <2>1, FS_Subset, FS_CardinalityType
  <2>3. C(i) # 0
    BY <2>1, <2>2, FS_EmptySet
  <2> QED BY <1>1, <2>2, <2>3
<1>3. ASSUME NEW i \in S, NEW j \in S, i < j PROVE C(i) # C(j)
  <2>1. UpTo(S, i) \subseteq UpTo(S, j) /\ j \in UpTo(S, j) /\ j \notin UpTo(S, i)
    <3>1. \A x \in S : x \in Int
      OBVIOUS
    <3>2. \A x \in S : x <= i => x <= j
      BY <1>3, <3>1
    <3>3. j <= j /\ ~(j <= i)
      BY <1>3, <3>1
    <3> QED BY <3>2, <3>3 DEF UpTo
  <2>2. IsFiniteSet(UpTo(S, j))
    BY <1>2
  <2> QED BY <2>1, <2>2, FS_Subset
<1>4. ASSUME NEW i \in S, NEW j \in S, C(i) = C(j) PROVE i = j
  BY <1>3, <1>4
<1>5. ASSUME NEW k \in 1..m PROVE \E i \in S : C(i) = k
  <2> SUFFICES ASSUME \A i \in S : C(i) # k PROVE FALSE
    OBVIOUS
  <2> DEFINE T == (1..m) \ {k}
             f == [i \in S |-> C(i)]
  <2>1. IsFiniteSet(1..m) /\ Cardinality(1..m) = m
    BY <1>1, FS_Interval
  <2>2. IsFiniteSet(T) /\ Cardinality(T) = m - 1
    BY <2>1, FS_RemoveElement
  <2>3. f \in [S -> T]
    BY <1>2
  <2>4. Cardinality(T) < Cardinality(S)
    BY <1>1, <2>2
  <2> HIDE DEF T, f
  <2>5. \E i, j \in S : i # j /\ f[i] = f[j]
    BY <1>1, <2>2, <2>3, <2>4, FS_PigeonHole
  <2> QED BY <1>4, <2>5 DEF f
<1> QED BY <1>1, <1>2, <1>4, <1>5

\* Retaining keeps order and number: the elements in rs, each once.
LEMMA RetainedFacts ==
    ASSUME NEW s \in Seq(Requests), Distinct(s), NEW rs
    PROVE  /\ Retained(s, rs) \in Seq(Requests)
           /\ Len(Retained(s, rs)) <= Len(s)
           /\ Distinct(Retained(s, rs))
           /\ Elements(Retained(s, rs)) = Elements(s) \cap rs
<1> DEFINE S == Positions(s, rs)
           m == Cardinality(S)
           nth(k) == CHOOSE i \in S : Cardinality(UpTo(S, i)) = k
           t == Retained(s, rs)
<1>1. DOMAIN s = 1..Len(s) /\ Len(s) \in Nat /\ S \subseteq 1..Len(s)
  BY DEF Positions
<1>2. m \in Nat /\ m <= Len(s)
  BY <1>1, RankFacts
<1>3. ASSUME NEW k \in 1..m PROVE nth(k) \in S /\ Cardinality(UpTo(S, nth(k))) = k
  <2>1. \E i \in S : Cardinality(UpTo(S, i)) = k
    BY <1>1, RankFacts
  <2> QED BY <2>1
<1>4. ASSUME NEW i \in S
      PROVE  Cardinality(UpTo(S, i)) \in 1..m /\ nth(Cardinality(UpTo(S, i))) = i
  <2>1. Cardinality(UpTo(S, i)) \in 1..m
    BY <1>1, RankFacts
  <2>2. nth(Cardinality(UpTo(S, i))) \in S
        /\ Cardinality(UpTo(S, nth(Cardinality(UpTo(S, i))))) = Cardinality(UpTo(S, i))
    BY <1>3, <2>1
  <2>3. \A a, b \in S : Cardinality(UpTo(S, a)) = Cardinality(UpTo(S, b)) => a = b
    BY <1>1, RankFacts
  <2> QED BY <2>1, <2>2, <2>3
<1>5. t = [k \in 1..m |-> s[nth(k)]]
  BY DEF Retained, Positions, UpTo
<1> HIDE DEF S, m, nth, t
<1>6. ASSUME NEW k \in 1..m
      PROVE  t[k] = s[nth(k)] /\ nth(k) \in 1..Len(s) /\ t[k] \in Requests
  <2>1. nth(k) \in 1..Len(s)
    BY <1>1, <1>3
  <2>2. t[k] = s[nth(k)]
    BY <1>5
  <2> QED BY <1>1, <2>1, <2>2
<1>7. t \in Seq(Requests) /\ Len(t) = m /\ DOMAIN t = 1..m
  BY <1>2, <1>5, <1>6
<1>8. Distinct(t)
  BY <1>1, <1>3, <1>6, <1>7 DEF Distinct
<1>9. Elements(t) \subseteq Elements(s) \cap rs
  BY <1>1, <1>3, <1>6, <1>7 DEF Elements, S, Positions
<1>10. ASSUME NEW x \in Elements(s) \cap rs PROVE x \in Elements(t)
  <2>1. PICK i \in S : s[i] = x
    BY DEF Elements, S, Positions
  <2>2. Cardinality(UpTo(S, i)) \in 1..m /\ t[Cardinality(UpTo(S, i))] = x
    BY <1>4, <1>6, <2>1
  <2> QED BY <1>7, <2>2 DEF Elements
<1> QED BY <1>2, <1>7, <1>8, <1>9, <1>10 DEF t

-----------------------------------------------------------------------------
(* What the building blocks of the actions do to the invariant *)

\* Waking waiters keeps every request well formed and queues or starts none.
LEMMA NotifiedFacts ==
    ASSUME ReqInv, NEW ts, req' = Notified(req, ts)
    PROVE  ReqInv' /\ \A r \in Requests : req'[r].pc = "queued" <=> req[r].pc = "queued"
<1>1. ASSUME NEW r \in Requests
      PROVE  /\ req'[r] \in RequestType /\ Sound(req'[r])
             /\ req'[r].pc = "queued" <=> req[r].pc = "queued"
  <2>1. req[r] \in RequestType /\ Sound(req[r])
    BY DEF ReqInv
  <2>2. CASE req[r].pc = "wait" /\ req[r].task \in ts
    <3> DEFINE q == [req[r] EXCEPT !.pc = "woken", !.task = NoTask]
    <3>1. req'[r] = q
      BY <2>2 DEF Notified
    <3>2. /\ q \in RequestType /\ q.pc = "woken" /\ q.route = req[r].route /\ q.at = req[r].at
          /\ q.reply = req[r].reply /\ q.to = req[r].to /\ q.runs = req[r].runs /\ q.ioErrors = req[r].ioErrors
      BY <2>1 DEF RequestType
    <3> HIDE DEF q
    <3> QED BY <2>1, <2>2, <3>1, <3>2 DEF Sound, Even, Ahead
  <2>3. CASE ~(req[r].pc = "wait" /\ req[r].task \in ts)
    BY <2>1, <2>3 DEF Notified
  <2> QED BY <2>2, <2>3
<1>2. req' = [r \in Requests |-> req'[r]]
  BY DEF Notified
<1> QED BY <1>1, <1>2 DEF ReqInv

\* Ending a set of requests.
LEMMA EndAllFacts ==
    ASSUME ReqInv, NEW rs, NEW result \in Results, req' = EndAll(rs, result)
    PROVE  /\ ReqInv'
           /\ \A r \in Requests : req'[r].pc = "queued" <=> req[r].pc = "queued" /\ r \notin rs
<1>1. ASSUME NEW r \in Requests
      PROVE  /\ req'[r] \in RequestType /\ Sound(req'[r])
             /\ req'[r].pc = "queued" <=> req[r].pc = "queued" /\ r \notin rs
  <2>1. req[r] \in RequestType /\ Sound(req[r])
    BY DEF ReqInv
  <2>2. CASE r \in rs
    <3>1. req'[r] = Ended(req[r], result)
      BY <2>2 DEF EndAll
    <3> QED BY <2>1, <2>2, <3>1, EndedFacts
  <2>3. CASE r \notin rs
    BY <2>1, <2>3 DEF EndAll
  <2> QED BY <2>2, <2>3
<1>2. req' = [r \in Requests |-> req'[r]]
  BY DEF EndAll
<1> QED BY <1>1, <1>2 DEF ReqInv

\* Starting queued requests.
LEMMA StartedFacts ==
    ASSUME ReqInv, NEW rs, \A r \in Requests : r \in rs => req[r].pc = "queued",
           req' = Started(rs)
    PROVE  /\ ReqInv'
           /\ \A r \in Requests : req'[r].pc = "queued" <=> req[r].pc = "queued" /\ r \notin rs
<1>1. ASSUME NEW r \in Requests
      PROVE  /\ req'[r] \in RequestType /\ Sound(req'[r])
             /\ req'[r].pc = "queued" <=> req[r].pc = "queued" /\ r \notin rs
  <2>1. req[r] \in RequestType /\ Sound(req[r])
    BY DEF ReqInv
  <2>2. CASE r \in rs /\ req[r].closed
    <3>1. req'[r] = Ended(req[r], "none")
      BY <2>2 DEF Started
    <3> QED BY <2>1, <2>2, <3>1, EndedFacts DEF Results
  <2>3. CASE r \in rs /\ ~req[r].closed
    <3> DEFINE q == [req[r] EXCEPT !.pc = "start"]
    <3>1. req'[r] = q
      BY <2>3 DEF Started
    <3>2. /\ q \in RequestType /\ q.pc = "start" /\ q.route = req[r].route /\ q.at = req[r].at
          /\ q.reply = req[r].reply /\ q.to = req[r].to /\ q.runs = req[r].runs /\ q.ioErrors = req[r].ioErrors
      BY <2>1 DEF RequestType
    <3>3. req[r].pc = "queued"
      BY <2>3
    <3> HIDE DEF q
    <3> QED BY <2>1, <2>3, <3>1, <3>2, <3>3 DEF Sound, Even, Ahead
  <2>4. CASE r \notin rs
    BY <2>1, <2>4 DEF Started
  <2> QED BY <2>2, <2>3, <2>4
<1>2. req' = [r \in Requests |-> req'[r]]
  BY DEF Started
<1> QED BY <1>1, <1>2 DEF ReqInv

\* A step that changes one request.
LEMMA OneFacts ==
    ASSUME ReqInv, NEW r \in Requests, NEW q \in RequestType, Sound(q),
           req' = [req EXCEPT ![r] = q]
    PROVE  /\ ReqInv'
           /\ \A x \in Requests : req'[x] = IF x = r THEN q ELSE req[x]
BY DEF ReqInv

\* A step that leaves the two queues and the queued requests alone.
LEMMA LineSame ==
    ASSUME LineInv, UNCHANGED <<channel, queue>>,
           \A r \in Requests : req'[r].pc = "queued" <=> req[r].pc = "queued"
    PROVE  LineInv'
BY DEF LineInv

\* What the driver does with the poll of a request in flight.
LEMMA ApplyFacts ==
    ASSUME ReqInv, LineInv, DriverInv, QueueWillDrain, NEW r \in Requests,
           req[r].pc # "queued", NEW s, StepOK(s), Apply(r, s), queue' = queue
    PROVE  ReqInv' /\ LineInv' /\ DriverInv' /\ QueueWillDrain'
<1>1. ReqInv' /\ \A x \in Requests : req'[x] = IF x = r THEN s.q ELSE req[x]
  BY OneFacts DEF Apply, StepOK
<1>2. LineInv'
  <2>1. CASE s.again
    <3>1. channel' = Append(channel, r) /\ s.q.pc = "queued"
      BY <2>1 DEF Apply, StepOK
    <3>2. r \notin Elements(channel) \cup Elements(queue)
      BY DEF LineInv
    <3>3. /\ channel' \in Seq(Requests) /\ Distinct(channel')
          /\ Elements(channel') = Elements(channel) \cup {r}
      BY <3>1, <3>2, AppendLine DEF LineInv
    <3> QED BY <1>1, <3>1, <3>2, <3>3 DEF LineInv
  <2>2. CASE ~s.again
    <3>1. channel' = channel /\ s.q.pc # "queued"
      BY <2>2 DEF Apply, StepOK
    <3> QED BY <1>1, <3>1, LineSame
  <2> QED BY <2>1, <2>2
<1>3. /\ driver.action \in ActionType /\ ActionOK(driver.action)
      /\ driver' = [driver EXCEPT !.action = change_state(driver.action, s.action)]
  BY DEF DriverInv, DriverType, ActionOK, Apply
<1>4. ActionOK(change_state(driver.action, s.action))
  BY <1>3, ChangeFacts DEF StepOK
<1>5. DriverInv' /\ driver'.state = driver.state
  BY <1>3, <1>4 DEF DriverInv, DriverType, ActionOK
<1>6. QueueWillDrain'
  BY <1>5 DEF QueueWillDrain
<1> QED BY <1>1, <1>2, <1>5, <1>6

\* Starting tasks for addresses that have none: marks that were there stay, each new
\* one has its own task.
LEMMA TriggerFacts ==
    ASSUME TaskInv, conns \in ConnsType, NEW ns, ns \subseteq Nodes, NEW keep \in BOOLEAN,
           trigger_refresh_connection_tasks(ns, keep)
    PROVE  /\ TaskInv' /\ conns' \in ConnsType
           /\ \A n \in Nodes : entry[n] # NoTask => entry'[n] = entry[n]
<1> DEFINE U == Untended(ns)
           f == Triggered(ns)
<1>1. /\ entry' = EntriesAfter(ns) /\ tasks' = TasksAfter(ns, keep)
      /\ conns' = [n \in Nodes |-> IF n \in U THEN "none" ELSE conns[n]]
      /\ Assignments(ns) # {}
  BY DEF trigger_refresh_connection_tasks
<1>2. f \in Assignments(ns)
  BY <1>1 DEF Triggered
<1>3. /\ f \in [U -> FreeTasks]
      /\ \A m, n \in U : f[m] = f[n] => m = n
  BY <1>2 DEF Assignments
<1>4. U \subseteq Nodes /\ \A n \in U : entry[n] = NoTask
  BY DEF Untended
<1>5. \A t \in FreeTasks : t \in Tasks /\ tasks[t] = Free
  BY DEF FreeTasks
<1>6. entry' = [n \in Nodes |-> IF n \in U THEN f[n] ELSE entry[n]]
  BY <1>1 DEF EntriesAfter
<1>7. tasks' = [t \in Tasks |->
                  IF \E n \in U : f[n] = t
                  THEN NewTask(CHOOSE n \in U : f[n] = t, keep)
                  ELSE tasks[t]]
  BY <1>1 DEF TasksAfter
<1> HIDE DEF U, f
<1>8. entry' \in [Nodes -> Tasks \cup {NoTask}]
  BY <1>3, <1>5, <1>6 DEF TaskInv
<1>9. tasks' \in [Tasks -> TaskType]
  <2> SUFFICES ASSUME NEW t \in Tasks PROVE tasks'[t] \in TaskType
    BY <1>7
  <2>1. CASE \E n \in U : f[n] = t
    <3>1. (CHOOSE n \in U : f[n] = t) \in Nodes
      BY <1>4, <2>1
    <3>2. tasks'[t] = NewTask(CHOOSE n \in U : f[n] = t, keep)
      BY <1>7, <2>1
    <3>3. \A n \in Nodes : NewTask(n, keep) \in TaskType
      BY DEF NewTask, TaskType, ConnsType
    <3> QED BY <3>1, <3>2, <3>3
  <2>2. CASE ~\E n \in U : f[n] = t
    BY <1>7, <2>2 DEF TaskInv
  <2> QED BY <2>1, <2>2
<1>10. ASSUME NEW n \in Nodes, entry'[n] # NoTask
       PROVE  /\ tasks'[entry'[n]].node = n
              /\ ~tasks'[entry'[n]].aborted
              /\ tasks'[entry'[n]].pc # "free"
  <2>1. CASE n \in U
    <3>1. entry'[n] = f[n] /\ f[n] \in Tasks
      BY <1>3, <1>5, <1>6, <2>1
    <3>2. (CHOOSE m \in U : f[m] = f[n]) = n
      BY <1>3, <2>1
    <3>3. tasks'[f[n]] = NewTask(n, keep)
      BY <1>7, <2>1, <3>1, <3>2
    <3> QED BY <3>1, <3>3 DEF NewTask
  <2>2. CASE n \notin U
    <3>1. entry'[n] = entry[n] /\ entry[n] \in Tasks /\ tasks[entry[n]].pc # "free"
      BY <1>6, <1>10, <2>2 DEF TaskInv
    <3>2. tasks[entry[n]] # Free
      BY <3>1 DEF Free
    <3>3. ~\E m \in U : f[m] = entry[n]
      BY <1>3, <1>5, <3>2
    <3>4. tasks'[entry[n]] = tasks[entry[n]]
      BY <1>7, <3>1, <3>3
    <3> QED BY <1>10, <3>1, <3>4 DEF TaskInv
  <2> QED BY <2>1, <2>2
<1>11. conns' \in ConnsType
  BY <1>1 DEF ConnsType, U
<1> QED BY <1>4, <1>6, <1>8, <1>9, <1>10, <1>11 DEF TaskInv

\* A step that changes no mark and keeps what marks rely on.
LEMMA TaskSame ==
    ASSUME TaskInv, entry' = entry, tasks' \in [Tasks -> TaskType],
           \A n \in Nodes : entry[n] # NoTask =>
                /\ tasks'[entry[n]].node = tasks[entry[n]].node
                /\ tasks'[entry[n]].aborted = tasks[entry[n]].aborted
                /\ tasks'[entry[n]].pc # "free"
    PROVE  TaskInv'
BY DEF TaskInv

\* Each part of the invariant survives a step that changes nothing it reads.
LEMMA Stutter ==
    /\ ReqInv /\ UNCHANGED req => ReqInv'
    /\ LineInv /\ UNCHANGED <<req, channel, queue>> => LineInv'
    /\ QueueWillDrain /\ UNCHANGED <<queue, driver>> => QueueWillDrain'
    /\ DriverInv /\ UNCHANGED driver => DriverInv'
    /\ TaskInv /\ UNCHANGED <<entry, tasks>> => TaskInv'
    /\ NodeInv /\ UNCHANGED <<threads, refresher, recent, map, hash, conns, cluster>> => NodeInv'
BY DEF ReqInv, LineInv, QueueWillDrain, DriverInv, TaskInv, NodeInv, cluster

-----------------------------------------------------------------------------
(* Every step keeps the invariant *)

\* An attempt of a reconnect task, an aborted one and the installation.
LEMMA TaskKeeps ==
    ASSUME Inv, NEW t \in Tasks,
           DialFails(t) \/ DialSucceeds(t) \/ Aborted(t) \/ Install(t)
    PROVE  Inv'
<1> USE DEF cluster, container, Inv
<1>0. tasks \in [Tasks -> TaskType] /\ tasks[t] \in TaskType
  BY DEF TaskInv
<1>1. CASE DialFails(t)
  <2>1. /\ tasks' = [tasks EXCEPT ![t].status = "tooLong"] /\ req' = Notified(req, {t})
        /\ UNCHANGED <<channel, queue, driver, threads, refresher, recent, map, hash, conns,
                       entry, cluster>>
        /\ tasks[t].pc = "dial"
    BY <1>1 DEF DialFails
  <2>2. tasks' \in [Tasks -> TaskType]
    BY <1>0, <2>1 DEF TaskType
  <2>3. \A u \in Tasks : /\ tasks'[u].node = tasks[u].node /\ tasks'[u].pc = tasks[u].pc
                         /\ tasks'[u].aborted = tasks[u].aborted
    BY <1>0, <2>1 DEF TaskType
  <2>4. TaskInv'
    BY <2>1, <2>2, <2>3, TaskSame DEF TaskInv
  <2> QED BY <2>1, <2>4, NotifiedFacts, LineSame, Stutter
<1>2. CASE DialSucceeds(t)
  <2>1. /\ tasks' = [tasks EXCEPT ![t].pc = "connected"]
        /\ UNCHANGED <<req, channel, queue, driver, threads, refresher, recent, map, hash, conns,
                       entry, cluster>>
    BY <1>2 DEF DialSucceeds
  <2>2. tasks' \in [Tasks -> TaskType]
    BY <1>0, <2>1 DEF TaskType
  <2>3. \A u \in Tasks : /\ tasks'[u].node = tasks[u].node
                         /\ tasks'[u].pc = tasks[u].pc \/ tasks'[u].pc = "connected"
                         /\ tasks'[u].aborted = tasks[u].aborted
    BY <1>0, <2>1 DEF TaskType
  <2>4. TaskInv'
    BY <2>1, <2>2, <2>3, TaskSame DEF TaskInv
  <2> QED BY <2>1, <2>4, Stutter
<1>3. CASE Aborted(t)
  <2>1. /\ tasks' = [tasks EXCEPT ![t] = Free] /\ tasks[t].aborted
        /\ UNCHANGED <<req, channel, queue, driver, threads, refresher, recent, map, hash, conns,
                       entry, cluster>>
    BY <1>3 DEF Aborted
  <2>2. tasks' \in [Tasks -> TaskType]
    BY <1>0, <2>1 DEF TaskType, Free
  <2>3. \A u \in Tasks : u # t => tasks'[u] = tasks[u]
    BY <1>0, <2>1
  <2>4. \A n \in Nodes : entry[n] # t
    BY <2>1, ClusterAssumption DEF TaskInv
  <2>5. TaskInv'
    BY <2>1, <2>2, <2>3, <2>4, TaskSame DEF TaskInv
  <2> QED BY <2>1, <2>5, Stutter
<1>4. CASE Install(t)
  <2>1. /\ tasks' = [tasks EXCEPT ![t].pc = "installed"]
        /\ \/ conns' = conns
           \/ conns' = [conns EXCEPT ![tasks[t].node] = Obtained(t)]
        /\ UNCHANGED <<req, channel, queue, driver, threads, refresher, recent, map, hash,
                       entry, cluster>>
    BY <1>4 DEF Install
  <2>2. tasks' \in [Tasks -> TaskType]
    BY <1>0, <2>1 DEF TaskType
  <2>3. \A u \in Tasks : /\ tasks'[u].node = tasks[u].node
                         /\ tasks'[u].pc = tasks[u].pc \/ tasks'[u].pc = "installed"
                         /\ tasks'[u].aborted = tasks[u].aborted
    BY <1>0, <2>1 DEF TaskType
  <2>4. TaskInv'
    BY <2>1, <2>2, <2>3, TaskSame DEF TaskInv
  <2>5. conns' \in ConnsType
    <3>1. Obtained(t) \in {"none", "open", "closed"}
      BY <1>0 DEF Obtained, TaskType
    <3> QED BY <2>1, <3>1 DEF NodeInv, ConnsType
  <2>6. NodeInv'
    BY <2>1, <2>5 DEF NodeInv
  <2> QED BY <2>1, <2>4, <2>6, Stutter
<1> QED BY <1>1, <1>2, <1>3, <1>4

\* A finished task removes the mark of its address only if it is its own.
LEMMA RemoveKeeps ==
    ASSUME Inv, NEW t \in Tasks, Remove(t)
    PROVE  Inv'
<1> USE DEF cluster, container, Inv
<1> DEFINE gone == IF IsCurrent(t) THEN Drops(t) ELSE {}
<1>1. /\ entry' = IF IsCurrent(t) THEN [entry EXCEPT ![tasks[t].node] = NoTask] ELSE entry
      /\ tasks' = [u \in Tasks |->
            IF u = t THEN Free
            ELSE IF u \in gone THEN [tasks[u] EXCEPT !.aborted = TRUE, !.status = "done"]
            ELSE tasks[u]]
      /\ req' = Notified(req, {u \in gone : tasks[u].status = "reconnecting"})
      /\ UNCHANGED <<threads, channel, queue, driver, refresher, recent, map, hash, conns, cluster>>
  BY DEF Remove
<1>2. gone \subseteq {t}
  BY DEF IsCurrent, Drops
<1>3. tasks' = [u \in Tasks |-> IF u = t THEN Free ELSE tasks[u]]
  BY <1>1, <1>2
<1>4. tasks' \in [Tasks -> TaskType]
  BY <1>3 DEF TaskInv, TaskType, Free
<1>5. entry' \in [Nodes -> Tasks \cup {NoTask}]
  BY <1>1 DEF TaskInv
<1>6. ASSUME NEW n \in Nodes, entry'[n] # NoTask
      PROVE  entry'[n] = entry[n] /\ entry[n] # t /\ tasks'[entry[n]] = tasks[entry[n]]
  <2>1. entry'[n] = entry[n]
    BY <1>1, <1>6 DEF TaskInv
  <2>2. ASSUME entry[n] = t PROVE FALSE
    <3>1. tasks[t].node = n /\ IsCurrent(t)
      BY <1>6, <2>1, <2>2 DEF TaskInv, IsCurrent
    <3> QED BY <1>1, <1>6, <3>1 DEF TaskInv
  <2> QED BY <1>3, <1>6, <2>1, <2>2 DEF TaskInv
<1>7. TaskInv'
  BY <1>4, <1>5, <1>6 DEF TaskInv
<1> HIDE DEF gone
<1> QED BY <1>1, <1>7, NotifiedFacts, LineSame, Stutter

\* A request that is sent is well formed.
LEMMA SentFacts ==
    ASSUME NEW q \in RequestType, Sound(q), q.pc \in {"start", "woken"}, NEW n \in Nodes
    PROVE  StepOK(Step(Sent(q, n), FALSE, Nothing))
<1> DEFINE p == Sent(q, n)
<1>1. /\ p \in RequestType /\ p.pc = "sent" /\ p.at = n /\ p.reply \in {"none", "unsent"}
      /\ p.runs = q.runs /\ p.ioErrors = q.ioErrors /\ Even(q)
  BY DEF Sent, RequestType, Sound, Even, Ahead
<1> HIDE DEF p
<1>2. Sound(p)
  BY <1>1 DEF Sound, Even, Ahead
<1> QED BY <1>1, <1>2, StepFacts, ActionFacts DEF p

\* A request that takes a notifier is well formed.
LEMMA WaitingFacts ==
    ASSUME NEW q \in RequestType, Sound(q), q.pc = "start", NEW t \in Tasks
    PROVE  StepOK(Step(Waiting(q, t), FALSE, Nothing))
<1> DEFINE p == Waiting(q, t)
<1>1. /\ p \in RequestType /\ p.pc = "took" /\ p.at = q.at /\ p.reply = q.reply
      /\ p.runs = q.runs /\ p.ioErrors = q.ioErrors /\ Even(q) /\ p.route = q.route /\ p.to = q.to
  BY DEF Waiting, RequestType, Sound, Even, Ahead
<1> HIDE DEF p
<1>2. Sound(p)
  BY <1>1 DEF Sound, Even, Ahead
<1> QED BY <1>1, <1>2, StepFacts, ActionFacts DEF p

\* A request without a connection goes to any node, or fails.
LEMMA AnyNodeFacts ==
    ASSUME NEW q \in RequestType, Sound(q), q.pc \in {"start", "woken"}, NEW r, AnyNode(r, q)
    PROVE  \E s : StepOK(s) /\ Apply(r, s)
<1>1. CASE \A n \in Nodes : conns[n] = "none"
  <2>1. Apply(r, Failed(q, "unavailable", NoNode))
    BY <1>1 DEF AnyNode
  <2>2. StepOK(Failed(q, "unavailable", NoNode))
    BY FailedFacts DEF Kinds, Sound, Even, Ahead
  <2> QED BY <2>1, <2>2
<1>2. CASE ~\A n \in Nodes : conns[n] = "none"
  <2>1. PICK n \in Nodes : Apply(r, Step(Sent(q, n), FALSE, Nothing))
    BY <1>2 DEF AnyNode
  <2>2. StepOK(Step(Sent(q, n), FALSE, Nothing))
    BY SentFacts
  <2> QED BY <2>1, <2>2
<1> QED BY <1>1, <1>2

\* get_connection looks for a node.
LEMMA TargetFacts ==
    ASSUME NodeInv, NEW q \in RequestType, Sound(q)
    PROVE  Target(q) \in Nodes
BY DEF NodeInv, Target, Sound, Even, Ahead, RequestType

\* get_connection, before and after its wait.
LEMMA ConnectKeeps ==
    ASSUME Inv, NEW r \in Requests, Connect(r) \/ Resume(r)
    PROVE  Inv'
<1> USE DEF cluster, container, Inv
<1> DEFINE q == req[r]
           n == Target(q)
<1>1. q \in RequestType /\ Sound(q) /\ q.pc \in {"start", "woken"} /\ Even(q)
  BY DEF ReqInv, Connect, Resume, Sound, Even, Ahead
<1>2. n \in Nodes
  BY <1>1, TargetFacts
<1>3. StepOK(Step(Sent(q, n), FALSE, Nothing))
  BY <1>1, <1>2, SentFacts
<1>4. StepOK(Failed(q, "notFound", NoNode))
  BY <1>1, FailedFacts DEF Kinds
<1>5. UNCHANGED <<threads, queue, refresher, recent, map, hash, cluster>>
  BY DEF Connect, Resume
<1> HIDE DEF n
<1>6. CASE Resume(r)
  <2>1. \E s : StepOK(s) /\ Apply(r, s)
    <3>1. CASE conns[n] # "none"
      BY <1>3, <1>6, <3>1 DEF Resume, n
    <3>2. CASE conns[n] = "none" /\ q.route = "slot"
      BY <1>1, <1>6, <3>2, AnyNodeFacts DEF Resume, n
    <3>3. CASE conns[n] = "none" /\ q.route # "slot"
      BY <1>4, <1>6, <3>3 DEF Resume, n
    <3> QED BY <3>1, <3>2, <3>3
  <2>2. UNCHANGED <<conns, entry, tasks>>
    BY <1>6 DEF Resume
  <2> QED BY <1>1, <1>5, <2>1, <2>2, ApplyFacts, Stutter
<1>7. CASE Connect(r)
  <2>0. q.pc = "start"
    BY <1>7 DEF Connect
  <2>1. CASE conns[n] # "none"
    <3>1. Apply(r, Step(Sent(q, n), FALSE, Nothing)) /\ UNCHANGED <<conns, entry, tasks>>
      BY <1>7, <2>1 DEF Connect, n
    <3> QED BY <1>1, <1>3, <1>5, <3>1, ApplyFacts, Stutter
  <2>2. CASE conns[n] = "none" /\ q.route = "slot"
    <3>1. UNCHANGED <<conns, entry, tasks>>
      BY <1>7, <2>2 DEF Connect, n
    <3>2. \E s : StepOK(s) /\ Apply(r, s)
      <4>1. CASE HasNotifier(entry, tasks, n)
        <5>1. Apply(r, Step(Waiting(q, entry[n]), FALSE, Nothing))
          BY <1>7, <2>2, <4>1 DEF Connect, n
        <5>2. entry[n] \in Tasks
          BY <1>2, <4>1 DEF HasNotifier, TaskInv
        <5> QED BY <1>1, <2>0, <5>1, <5>2, WaitingFacts
      <4>2. CASE ~HasNotifier(entry, tasks, n)
        BY <1>1, <1>7, <2>2, <4>2, AnyNodeFacts DEF Connect, n
      <4> QED BY <4>1, <4>2
    <3> QED BY <1>1, <1>5, <3>1, <3>2, ApplyFacts, Stutter
  <2>3. CASE conns[n] = "none" /\ q.route # "slot"
    <3>1. trigger_refresh_connection_tasks({n}, FALSE)
      BY <1>7, <2>3 DEF Connect, n
    <3>2. TaskInv' /\ conns' \in ConnsType
      BY <1>2, <3>1, TriggerFacts DEF NodeInv
    <3>3. \E s : StepOK(s) /\ Apply(r, s)
      <4> DEFINE t == EntriesAfter({n})[n]
      <4>1. CASE HasNotifier(EntriesAfter({n}), TasksAfter({n}, FALSE), n)
        <5>1. Apply(r, Step(Waiting(q, t), FALSE, Nothing))
          BY <1>7, <2>3, <4>1 DEF Connect, n
        <5>2. t \in Tasks
          <6>1. entry' = EntriesAfter({n}) /\ entry'[n] \in Tasks \cup {NoTask}
            BY <1>2, <3>1, <3>2 DEF TaskInv, trigger_refresh_connection_tasks
          <6>2. t # NoTask
            BY <4>1 DEF HasNotifier
          <6> QED BY <6>1, <6>2
        <5> QED BY <1>1, <2>0, <5>1, <5>2, WaitingFacts
      <4>2. CASE ~HasNotifier(EntriesAfter({n}), TasksAfter({n}, FALSE), n)
        BY <1>4, <1>7, <2>3, <4>2 DEF Connect, n
      <4> QED BY <4>1, <4>2
    <3>4. NodeInv'
      BY <1>5, <3>2 DEF NodeInv
    <3> QED BY <1>1, <1>5, <3>2, <3>3, <3>4, ApplyFacts
  <2> QED BY <2>1, <2>2, <2>3
<1> QED BY <1>6, <1>7

\* A request takes its reply, wakes from a sleep, edits the slot map or is dropped.
LEMMA RequestKeeps ==
    ASSUME Inv, NEW r \in Requests,
           Register(r) \/ Replied(r) \/ Slept(r) \/ UpdateMoved(r) \/ Shed(r)
    PROVE  Inv'
<1> USE DEF cluster, container, Inv
<1> DEFINE q == req[r]
<1>1. q \in RequestType /\ Sound(q)
  BY DEF ReqInv
<1>2. ASSUME NEW pc \in {"wait", "start"}, req' = [req EXCEPT ![r].pc = pc],
             q.pc \in {"took", "sleep", "update"},
             UNCHANGED <<channel, queue>>
      PROVE  ReqInv' /\ LineInv'
  <2> DEFINE p == [q EXCEPT !.pc = pc]
  <2>1. req' = [req EXCEPT ![r] = p]
    BY <1>2 DEF ReqInv
  <2>2. /\ p \in RequestType /\ p.pc = pc /\ p.route = q.route /\ p.at = q.at
        /\ p.reply = q.reply /\ p.to = q.to /\ p.runs = q.runs /\ p.ioErrors = q.ioErrors
    BY <1>1, <1>2 DEF RequestType
  <2> HIDE DEF p
  <2>3. Sound(p)
    BY <1>1, <1>2, <2>2 DEF Sound, Even, Ahead
  <2>4. ReqInv' /\ \A x \in Requests : req'[x] = IF x = r THEN p ELSE req[x]
    BY <2>1, <2>2, <2>3, OneFacts
  <2> QED BY <1>2, <2>2, <2>4, LineSame
<1>3. CASE Register(r)
  <2>1. ReqInv' /\ LineInv'
    BY <1>2, <1>3 DEF Register
  <2> QED BY <1>3, <2>1, Stutter DEF Register
<1>4. CASE Slept(r)
  <2>1. ReqInv' /\ LineInv'
    BY <1>2, <1>4 DEF Slept
  <2> QED BY <1>4, <2>1, Stutter DEF Slept
<1>5. CASE UpdateMoved(r)
  <2>1. ReqInv' /\ LineInv'
    BY <1>2, <1>5 DEF UpdateMoved
  <2>2. map' \in Nodes
    BY <1>1, <1>5 DEF UpdateMoved, Sound, Even, Ahead
  <2>3. NodeInv'
    BY <1>5, <2>2 DEF UpdateMoved, NodeInv
  <2> QED BY <1>5, <2>1, <2>3, Stutter DEF UpdateMoved
<1>6. CASE Shed(r)
  <2>1. /\ Ended(q, "none") \in RequestType /\ Sound(Ended(q, "none"))
        /\ Ended(q, "none").pc = "done"
    BY <1>1, EndedFacts DEF Results
  <2>2. req' = [req EXCEPT ![r] = Ended(q, "none")] /\ q.pc # "queued"
    BY <1>6 DEF Shed, InFlight
  <2>3. ReqInv' /\ \A x \in Requests : req'[x] = IF x = r THEN Ended(q, "none") ELSE req[x]
    BY <2>1, <2>2, OneFacts
  <2>4. LineInv'
    BY <1>6, <2>1, <2>2, <2>3, LineSame DEF Shed
  <2> QED BY <1>6, <2>3, <2>4, Stutter DEF Shed
<1>7. CASE Replied(r)
  <2>1. q.pc = "sent" /\ q.reply # "none" /\ q.at \in Nodes
    BY <1>1, <1>7 DEF Replied, Sound, Even, Ahead
  <2>2. \E s : StepOK(s) /\ Apply(r, s)
    <3>1. CASE q.reply = "ok"
      <4>1. /\ Ended(q, "ok") \in RequestType /\ Sound(Ended(q, "ok"))
            /\ Ended(q, "ok").pc = "done"
        BY <1>1, EndedFacts DEF Results
      <4>2. StepOK(Step(Ended(q, "ok"), FALSE, Nothing))
        BY <4>1, StepFacts, ActionFacts
      <4> QED BY <1>7, <3>1, <4>2 DEF Replied
    <3>2. CASE q.reply # "ok"
      <4>1. q.reply \in Kinds
        BY <1>1, <2>1, <3>2, ClusterAssumption DEF RequestType, Kinds, Redirections, Refusals
      <4>2. Even(q) \/ q.reply = "lost"
        BY <1>1, <2>1, <3>2 DEF Sound, Even, Ahead
      <4>3. StepOK(Failed(q, q.reply, q.at))
        BY <1>1, <2>1, <4>1, <4>2, FailedFacts DEF Sound, Even, Ahead
      <4> QED BY <1>7, <3>2, <4>3 DEF Replied
    <3> QED BY <3>1, <3>2
  <2>3. conns' \in ConnsType /\ UNCHANGED <<threads, queue, refresher, recent, map, hash, entry,
                                            tasks, cluster>>
    BY <1>7 DEF Replied, NodeInv, ConnsType
  <2>4. NodeInv'
    BY <2>3 DEF NodeInv
  <2> QED BY <2>1, <2>2, <2>3, <2>4, ApplyFacts, Stutter
<1> QED BY <1>3, <1>4, <1>5, <1>6, <1>7

\* Requests in the queues are requests, and only queued requests are there.
LEMMA LineElements ==
    ASSUME LineInv
    PROVE  /\ Elements(channel) \subseteq Requests /\ Elements(queue) \subseteq Requests
           /\ \A r \in Elements(channel) \cup Elements(queue) : req[r].pc = "queued"
BY DEF LineInv, Elements

\* The driver admits what is pending, drains the recovery queue or fails a queue.
LEMMA QueueKeeps ==
    ASSUME Inv, Admit \/ FailPending \/ Recovered \/ Escalate
    PROVE  Inv'
<1> USE DEF cluster, container, Inv
<1>1. CASE Admit
  <2>1. /\ req' = Started(Elements(channel)) /\ channel' = <<>>
        /\ UNCHANGED <<threads, queue, driver, refresher, recent, container, cluster>>
    BY <1>1 DEF Admit
  <2>2. /\ ReqInv'
        /\ \A r \in Requests :
            req'[r].pc = "queued" <=> req[r].pc = "queued" /\ r \notin Elements(channel)
    BY <2>1, LineElements, StartedFacts
  <2>3. LineInv'
    BY <2>1, <2>2, EmptyFacts DEF LineInv
  <2> QED BY <2>1, <2>2, <2>3, Stutter
<1>2. CASE FailPending
  <2>1. /\ req' = EndAll(Elements(channel), "err") /\ channel' = <<>>
        /\ UNCHANGED <<threads, queue, driver, refresher, recent, container, cluster>>
    BY <1>2 DEF FailPending
  <2>2. /\ ReqInv'
        /\ \A r \in Requests :
            req'[r].pc = "queued" <=> req[r].pc = "queued" /\ r \notin Elements(channel)
    BY <2>1, EndAllFacts DEF Results
  <2>3. LineInv'
    BY <2>1, <2>2, EmptyFacts DEF LineInv
  <2> QED BY <2>1, <2>2, <2>3, Stutter
<1>3. CASE Recovered
  <2>1. /\ req' = Started(Elements(queue)) /\ queue' = <<>>
        /\ driver' = [driver EXCEPT !.state = "PollComplete", !.spawned = "none", !.targets = {}]
        /\ UNCHANGED <<threads, channel, refresher, recent, container, cluster>>
    BY <1>3 DEF Recovered, Drained
  <2>2. /\ ReqInv'
        /\ \A r \in Requests :
            req'[r].pc = "queued" <=> req[r].pc = "queued" /\ r \notin Elements(queue)
    BY <2>1, LineElements, StartedFacts
  <2>3. LineInv'
    BY <2>1, <2>2, EmptyFacts DEF LineInv
  <2>4. DriverInv'
    BY <2>1 DEF DriverInv, DriverType
  <2>5. QueueWillDrain'
    BY <2>1, EmptyFacts, ClusterAssumption DEF QueueWillDrain
  <2> QED BY <2>1, <2>2, <2>3, <2>4, <2>5, Stutter
<1>4. CASE Escalate
  <2>1. /\ req' = EndAll(Elements(queue) \cup Elements(channel), "err")
        /\ queue' = <<>> /\ channel' = <<>>
        /\ driver' = [driver EXCEPT !.state = "InitialNodes", !.spawned = "run", !.error = TRUE]
        /\ UNCHANGED <<threads, refresher, recent, container, cluster>>
    BY <1>4 DEF Escalate, FailedOnEscalation
  <2>2. /\ ReqInv'
        /\ \A r \in Requests :
            req'[r].pc = "queued" <=>
                req[r].pc = "queued" /\ r \notin Elements(queue) \cup Elements(channel)
    BY <2>1, EndAllFacts DEF Results
  <2>3. LineInv'
    BY <2>1, <2>2, EmptyFacts DEF LineInv
  <2>4. DriverInv'
    BY <2>1 DEF DriverInv, DriverType
  <2>5. QueueWillDrain'
    BY <2>1, EmptyFacts, ClusterAssumption DEF QueueWillDrain
  <2> QED BY <2>1, <2>2, <2>3, <2>4, <2>5, Stutter
<1> QED BY <1>1, <1>2, <1>3, <1>4

\* Buffering fills the recovery queue up to its cap, in order, and fails the rest.
LEMMA BufferKeeps ==
    ASSUME Inv, Buffer
    PROVE  Inv'
<1> USE DEF cluster, container, Inv
<1> DEFINE kept == IF Len(queue) >= Cap THEN Retained(queue, Open) ELSE queue
           live == Retained(channel, Open)
           taken == SubSeq(live, 1, Accepted(kept, live))
           waiting == Elements(kept) \cup Elements(taken)
<1>1. /\ queue' = kept \o taken
      /\ req' = EndAll((Elements(channel) \cup Elements(queue)) \ waiting, "err")
      /\ channel' = <<>>
      /\ driver.state \in {"Reconnect", "RefreshingSlots"}
      /\ UNCHANGED <<threads, driver, refresher, recent, container, cluster>>
  BY DEF Buffer
<1>2. /\ queue \in Seq(Requests) /\ channel \in Seq(Requests)
      /\ Distinct(queue) /\ Distinct(channel)
      /\ Elements(channel) \cap Elements(queue) = {}
      /\ Len(queue) \in Nat /\ Len(queue) <= Cap /\ Cap \in Nat
  BY ClusterAssumption DEF LineInv, QueueWillDrain
<1>3. /\ kept \in Seq(Requests) /\ Distinct(kept)
      /\ Len(kept) \in Nat /\ Len(kept) <= Cap /\ Elements(kept) \subseteq Elements(queue)
  <2>1. CASE Len(queue) >= Cap
    <3>1. /\ Retained(queue, Open) \in Seq(Requests) /\ Distinct(Retained(queue, Open))
          /\ Len(Retained(queue, Open)) <= Len(queue)
          /\ Elements(Retained(queue, Open)) \subseteq Elements(queue)
      BY <1>2, RetainedFacts
    <3>2. Len(Retained(queue, Open)) \in Nat
      BY <3>1
    <3> QED BY <1>2, <2>1, <3>1, <3>2
  <2>2. CASE ~(Len(queue) >= Cap)
    BY <1>2, <2>2
  <2> QED BY <2>1, <2>2
<1>4. /\ live \in Seq(Requests) /\ Distinct(live) /\ Len(live) \in Nat
      /\ Elements(live) \subseteq Elements(channel)
  <2>1. /\ live \in Seq(Requests) /\ Distinct(live) /\ Elements(live) \subseteq Elements(channel)
    BY <1>2, RetainedFacts
  <2> QED BY <2>1
<1> HIDE DEF kept, live
<1>5. Accepted(kept, live) \in 0..Len(live) /\ Len(kept) + Accepted(kept, live) <= Cap
  BY <1>2, <1>3, <1>4 DEF Accepted
<1>6. /\ taken \in Seq(Requests) /\ Distinct(taken) /\ Len(taken) = Accepted(kept, live)
      /\ Elements(taken) \subseteq Elements(channel)
  BY <1>4, <1>5, PrefixLine
<1> HIDE DEF taken
<1>7. /\ queue' \in Seq(Requests) /\ Distinct(queue') /\ Elements(queue') = waiting
      /\ Len(queue') = Len(kept) + Len(taken)
  BY <1>1, <1>2, <1>3, <1>6, ConcatLine
<1>8. waiting \subseteq Elements(channel) \cup Elements(queue)
  BY <1>3, <1>6
<1> HIDE DEF waiting
<1>9. /\ ReqInv'
      /\ \A r \in Requests :
            req'[r].pc = "queued" <=>
                req[r].pc = "queued" /\ r \notin (Elements(channel) \cup Elements(queue)) \ waiting
  BY <1>1, EndAllFacts DEF Results
<1>10. \A r \in Requests : r \in Elements(queue') <=> req'[r].pc = "queued"
  BY <1>7, <1>8, <1>9 DEF LineInv
<1>11. LineInv'
  BY <1>1, <1>7, <1>10, EmptyFacts DEF LineInv
<1>12. QueueWillDrain'
  BY <1>1, <1>5, <1>6, <1>7 DEF QueueWillDrain
<1> QED BY <1>1, <1>9, <1>11, <1>12, Stutter

\* The driver starts a recovery, retries a refresh and hands its error to a request.
LEMMA DriverKeeps ==
    ASSUME Inv, Recover \/ Respawn \/ SendRefreshError
    PROVE  Inv'
<1> USE DEF cluster, container, Inv
<1>1. CASE Recover
  <2>1. /\ driver.action # Nothing /\ driver.state = "PollComplete"
        /\ driver' = [driver EXCEPT
                !.state = CASE driver.action.kind = "reconnect" -> "Reconnect"
                            [] driver.action.kind = "rebuild" -> "RefreshingSlots"
                            [] driver.action.kind = "initial" -> "InitialNodes",
                !.targets = driver.action.targets, !.spawned = "run", !.action = Nothing]
        /\ UNCHANGED <<threads, req, channel, queue, refresher, recent, container, cluster>>
    BY <1>1 DEF Recover, Polling
  <2>2. driver.action \in ActionType /\ driver \in DriverType
    BY DEF DriverInv, DriverType
  <2>3. driver.action.kind # "none"
    <3>1. driver.action.kind = "none" => driver.action = Nothing
      BY <2>2 DEF DriverInv, ActionType, Nothing
    <3> QED BY <2>1, <3>1
  <2> DEFINE st == CASE driver.action.kind = "reconnect" -> "Reconnect"
                     [] driver.action.kind = "rebuild" -> "RefreshingSlots"
                     [] driver.action.kind = "initial" -> "InitialNodes"
  <2>4. st \in {"Reconnect", "RefreshingSlots", "InitialNodes"}
    BY <2>2, <2>3 DEF ActionType
  <2> HIDE DEF st
  <2>5. driver' = [driver EXCEPT !.state = st, !.targets = driver.action.targets,
                                 !.spawned = "run", !.action = Nothing]
    BY <2>1 DEF st
  <2>6. DriverInv'
    BY <2>2, <2>4, <2>5 DEF DriverInv, DriverType, ActionType, Nothing
  <2>7. QueueWillDrain'
    BY <2>1 DEF QueueWillDrain
  <2> QED BY <2>1, <2>6, <2>7, Stutter
<1>2. CASE Respawn
  <2>1. /\ driver' = [driver EXCEPT !.spawned = "run"]
        /\ UNCHANGED <<threads, req, channel, queue, refresher, recent, container, cluster>>
    BY <1>2 DEF Respawn
  <2>2. DriverInv' /\ driver'.state = driver.state
    BY <2>1 DEF DriverInv, DriverType
  <2>3. QueueWillDrain'
    BY <2>1, <2>2 DEF QueueWillDrain
  <2> QED BY <2>1, <2>2, <2>3, Stutter
<1>3. CASE SendRefreshError
  <2>1. /\ driver' = [driver EXCEPT !.error = FALSE]
        /\ UNCHANGED <<threads, queue, refresher, recent, container, cluster>>
    BY <1>3 DEF SendRefreshError
  <2>2. DriverInv' /\ driver'.state = driver.state
    BY <2>1 DEF DriverInv, DriverType
  <2>3. QueueWillDrain'
    BY <2>1, <2>2 DEF QueueWillDrain
  <2>4. ASSUME NEW r \in Requests, req' = [req EXCEPT ![r] = Ended(req[r], "err")]
        PROVE  /\ ReqInv'
               /\ \A x \in Requests : x # r => req'[x] = req[x]
               /\ req'[r].pc = "done"
    <3>1. /\ Ended(req[r], "err") \in RequestType /\ Sound(Ended(req[r], "err"))
          /\ Ended(req[r], "err").pc = "done"
      BY EndedFacts DEF Results, ReqInv
    <3>2. ReqInv' /\ \A x \in Requests :
                          req'[x] = IF x = r THEN Ended(req[r], "err") ELSE req[x]
      BY <2>4, <3>1, OneFacts
    <3> QED BY <3>1, <3>2
  <2>5. CASE \E r \in Requests : /\ InFlight(r)
                                 /\ req' = [req EXCEPT ![r] = Ended(@, "err")]
                                 /\ channel' = channel
    <3>1. PICK r \in Requests : /\ InFlight(r) /\ channel' = channel
                                /\ req' = [req EXCEPT ![r] = Ended(req[r], "err")]
      BY <2>5
    <3>2. LineInv'
      BY <2>1, <2>4, <3>1, LineSame DEF InFlight
    <3> QED BY <2>1, <2>2, <2>3, <2>4, <3>1, <3>2, Stutter
  <2>6. CASE /\ channel # <<>>
             /\ req' = [req EXCEPT ![Head(channel)] = Ended(@, "err")]
             /\ channel' = Tail(channel)
    <3> DEFINE r == Head(channel)
    <3>1. /\ channel' \in Seq(Requests) /\ Distinct(channel') /\ r \in Elements(channel)
          /\ Elements(channel') = Elements(channel) \ {r}
      BY <2>6, TailLine DEF LineInv
    <3>2. r \in Requests
      BY <3>1, LineElements
    <3>3. req' = [req EXCEPT ![r] = Ended(req[r], "err")]
      BY <2>6
    <3> HIDE DEF r
    <3>4. /\ ReqInv' /\ \A x \in Requests : x # r => req'[x] = req[x]
          /\ req'[r].pc = "done"
      BY <2>4, <3>2, <3>3
    <3>5. LineInv'
      <4>1. r \notin Elements(queue)
        BY <3>1 DEF LineInv
      <4> QED BY <2>1, <3>1, <3>2, <3>4, <4>1 DEF LineInv
    <3> QED BY <2>1, <2>2, <2>3, <3>4, <3>5, Stutter
  <2> QED BY <1>3, <2>5, <2>6 DEF SendRefreshError
<1> QED BY <1>1, <1>2, <1>3

\* The refresh ends and tells the driver.
LEMMA UnlockFacts ==
    ASSUME DriverInv, QueueWillDrain, NEW result \in {"ok", "unavailable", "failed"},
           Unlock(result), queue' = queue
    PROVE  /\ DriverInv' /\ QueueWillDrain'
           /\ refresher' = NoRefresh /\ NoRefresh \in RefresherType /\ NoRefresh.pc = "idle"
<1>1. refresher' = NoRefresh /\ NoRefresh \in RefresherType /\ NoRefresh.pc = "idle"
  BY DEF Unlock, NoRefresh, RefresherType, ConnsType
<1>2. CASE driver' = driver
  BY <1>1, <1>2, Stutter
<1>3. CASE driver' # driver
  <2>1. PICK s \in {"ok", "unavailable", "failed"} : driver' = [driver EXCEPT !.spawned = s]
    BY <1>3 DEF Unlock
  <2>2. DriverInv' /\ driver'.state = driver.state
    BY <2>1 DEF DriverInv, DriverType
  <2> QED BY <1>1, <2>2 DEF QueueWillDrain
<1> QED BY <1>2, <1>3

\* The spawned recoveries and the periodic tasks.
LEMMA SpawnedKeeps ==
    ASSUME Inv, SpawnedStep
    PROVE  Inv'
<1> USE DEF cluster, container, Inv
<1>0. ASSUME NEW s \in {"ok", "lock"}, driver' = [driver EXCEPT !.spawned = s], queue' = queue
      PROVE  DriverInv' /\ QueueWillDrain'
  BY <1>0 DEF DriverInv, DriverType, QueueWillDrain
<1>1. CASE Reconnect
  <2>1. /\ trigger_refresh_connection_tasks(driver.targets, FALSE) /\ driver.targets \subseteq Nodes
        /\ driver' = [driver EXCEPT !.spawned = "ok"]
        /\ UNCHANGED <<threads, req, channel, queue, refresher, recent, map, hash, cluster>>
    BY <1>1 DEF Reconnect, DriverInv, DriverType
  <2>2. TaskInv' /\ conns' \in ConnsType
    BY <2>1, TriggerFacts DEF NodeInv
  <2>3. NodeInv'
    BY <2>1, <2>2 DEF NodeInv
  <2> QED BY <1>0, <2>1, <2>2, <2>3, Stutter
<1>2. CASE ConnectInitialNodes
  <2>1. /\ conns' = [n \in Nodes |-> IF up[n] THEN "open" ELSE conns[n]]
        /\ driver' = [driver EXCEPT !.spawned = IF \E n \in Nodes : up[n] THEN "lock" ELSE "ok"]
        /\ UNCHANGED <<threads, req, channel, queue, refresher, recent, map, hash, entry, tasks,
                       cluster>>
    BY <1>2 DEF ConnectInitialNodes
  <2>2. NodeInv'
    BY <2>1 DEF NodeInv, ConnsType
  <2>3. DriverInv' /\ QueueWillDrain'
    BY <1>0, <2>1
  <2> QED BY <2>1, <2>2, <2>3, Stutter
<1>3. ASSUME NEW who \in {"driver", "periodic"},
             refresher' = [NoRefresh EXCEPT !.who = who, !.pc = "query"],
             UNCHANGED <<threads, recent, map, hash, conns, cluster>>
      PROVE  NodeInv'
  <2>1. refresher' \in RefresherType /\ refresher'.pc = "query"
    BY <1>3 DEF NoRefresh, RefresherType, ConnsType
  <2> QED BY <1>3, <2>1 DEF NodeInv
<1>4. CASE LockForRecovery
  <2>1. UNCHANGED <<threads, req, channel, queue, recent, container, cluster>>
    BY <1>4 DEF LockForRecovery
  <2>2. CASE driver.state = "RefreshingSlots" /\ recent
    <3>1. driver' = [driver EXCEPT !.spawned = "ok"] /\ refresher' = refresher
      BY <1>4, <2>2 DEF LockForRecovery
    <3> QED BY <1>0, <2>1, <3>1, Stutter
  <2>3. CASE ~(driver.state = "RefreshingSlots" /\ recent)
    <3>1. /\ driver' = [driver EXCEPT !.spawned = "lock"]
          /\ refresher' = [NoRefresh EXCEPT !.who = "driver", !.pc = "query"]
      BY <1>4, <2>3 DEF LockForRecovery
    <3> QED BY <1>0, <1>3, <2>1, <3>1, Stutter
  <2> QED BY <2>2, <2>3
<1>5. CASE PeriodicCheck
  BY <1>3, <1>5, Stutter DEF PeriodicCheck
<1>6. CASE Query
  <2>1. recent' = TRUE /\ UNCHANGED <<threads, req, channel, queue, container, cluster>>
    BY <1>6 DEF Query
  <2>2. CASE Unlock("unavailable") \/ Unlock("failed")
    <3>1. /\ DriverInv' /\ QueueWillDrain'
          /\ refresher' = NoRefresh /\ NoRefresh \in RefresherType /\ NoRefresh.pc = "idle"
      BY <2>1, <2>2, UnlockFacts
    <3>2. NodeInv'
      BY <2>1, <3>1 DEF NodeInv
    <3> QED BY <2>1, <3>1, <3>2, Stutter
  <2>3. CASE refresher' = [refresher EXCEPT !.pc = "build", !.view = owner] /\ driver' = driver
    <3>1. refresher' \in RefresherType /\ refresher'.view \in Nodes
      BY <2>3 DEF NodeInv, RefresherType
    <3>2. NodeInv'
      BY <2>1, <3>1 DEF NodeInv
    <3> QED BY <2>1, <2>3, <3>2, Stutter
  <2> QED BY <1>6, <2>2, <2>3 DEF Query
<1>7. CASE Build
  <2>1. /\ refresher.pc = "build"
        /\ refresher' = [refresher EXCEPT !.pc = "replace",
                            !.built = [n \in Nodes |-> IF up[n] THEN "open" ELSE "none"]]
        /\ UNCHANGED <<threads, req, channel, queue, driver, recent, container, cluster>>
    BY <1>7 DEF Build
  <2>2. refresher' \in RefresherType /\ refresher'.view \in Nodes
    BY <2>1 DEF NodeInv, RefresherType, ConnsType
  <2>3. NodeInv'
    BY <2>1, <2>2 DEF NodeInv
  <2> QED BY <2>1, <2>3, Stutter
<1>8. CASE Replace
  <2> DEFINE gone == {entry[n] : n \in Nodes} \ {NoTask}
  <2>1. /\ tasks' = [t \in Tasks |-> IF t \in gone
                        THEN [tasks[t] EXCEPT !.aborted = TRUE, !.status = "done"] ELSE tasks[t]]
        /\ req' = Notified(req, {t \in gone : tasks[t].status = "reconnecting"})
        /\ entry' = [n \in Nodes |-> NoTask]
        /\ refresher.pc = "replace" /\ conns' = refresher.built
        /\ map' = refresher.view /\ hash' = refresher.view
        /\ Unlock("ok")
        /\ UNCHANGED <<threads, channel, queue, recent, cluster>>
    BY <1>8 DEF Replace, Cleared
  <2>2. tasks' \in [Tasks -> TaskType]
    <3> SUFFICES ASSUME NEW t \in Tasks PROVE tasks'[t] \in TaskType
      BY <2>1
    <3>1. tasks[t] \in TaskType
      BY DEF TaskInv
    <3>2. [tasks[t] EXCEPT !.aborted = TRUE, !.status = "done"] \in TaskType
      BY <3>1 DEF TaskType
    <3> QED BY <2>1, <3>1, <3>2
  <2>3. TaskInv'
    BY <2>1, <2>2 DEF TaskInv
  <2>4. /\ DriverInv' /\ QueueWillDrain'
        /\ refresher' = NoRefresh /\ NoRefresh \in RefresherType /\ NoRefresh.pc = "idle"
    BY <2>1, UnlockFacts
  <2>5. map' \in Nodes /\ hash' \in Nodes /\ conns' \in ConnsType
    BY <2>1 DEF NodeInv, RefresherType
  <2>6. NodeInv'
    BY <2>1, <2>4, <2>5 DEF NodeInv
  <2> HIDE DEF gone
  <2> QED BY <2>1, <2>3, <2>4, <2>6, NotifiedFacts, LineSame
<1>9. CASE Validate
  <2> DEFINE ns == {n \in Nodes : conns[n] # "open"}
  <2>1. /\ refresher' = [NoRefresh EXCEPT !.who = "validation", !.pc = "trigger",
                                         !.failing = ns]
        /\ UNCHANGED <<threads, req, channel, queue, driver, recent, container, cluster>>
    BY <1>9 DEF Validate
  <2>2. ns \subseteq Nodes
    OBVIOUS
  <2> HIDE DEF ns
  <2>3. refresher' \in RefresherType /\ refresher'.pc = "trigger"
    BY <2>1, <2>2 DEF NoRefresh, RefresherType, ConnsType
  <2>4. NodeInv'
    BY <2>1, <2>3 DEF NodeInv
  <2> QED BY <2>1, <2>4, Stutter
<1>10. CASE ReconnectFailing
  <2>1. /\ trigger_refresh_connection_tasks(refresher.failing, FALSE)
        /\ refresher.failing \subseteq Nodes /\ refresher' = NoRefresh
        /\ UNCHANGED <<threads, req, channel, queue, driver, recent, map, hash, cluster>>
    BY <1>10 DEF ReconnectFailing, NodeInv, RefresherType
  <2>2. TaskInv' /\ conns' \in ConnsType
    BY <2>1, TriggerFacts DEF NodeInv
  <2>3. refresher' \in RefresherType /\ refresher'.pc = "idle"
    BY <2>1 DEF NoRefresh, RefresherType, ConnsType
  <2>4. NodeInv'
    BY <2>1, <2>2, <2>3 DEF NodeInv
  <2> QED BY <2>1, <2>2, <2>4, Stutter
<1> QED BY <1>1, <1>2, <1>4, <1>5, <1>6, <1>7, <1>8, <1>9, <1>10 DEF SpawnedStep

\* What a server answers, what the network breaks and when a caller goes away changes
\* requests in place.
LEMMA ChangedFacts ==
    ASSUME ReqInv, LineInv, req' = [r \in Requests |-> req'[r]],
           UNCHANGED <<channel, queue>>,
           \A r \in Requests : /\ req'[r] \in RequestType /\ Sound(req'[r])
                               /\ req'[r].pc = req[r].pc
    PROVE  ReqInv' /\ LineInv'
BY LineSame DEF ReqInv

\* The cluster, the network and the callers.
LEMMA EnvironmentKeeps ==
    ASSUME Inv, Environment \/ \E r \in Requests : Serve(r)
    PROVE  Inv'
<1> USE DEF cluster, container, Inv
<1>0. ASSUME NEW kind \in Events, Event(kind) PROVE events' \in [Events -> Nat]
  BY <1>0 DEF Event, NodeInv
<1>1. /\ {"submit", "break", "back", "migrate", "refuse", "giveUp", "elapse", "unmanaged",
          "ioError"} \subseteq Events
      /\ req \in [Requests -> RequestType]
  BY DEF Events, ReqInv
<1>2. ASSUME NEW r \in Requests, NEW p \in RequestType, Sound(p),
             req' = [req EXCEPT ![r] = p], p.pc = req[r].pc, UNCHANGED <<channel, queue>>
      PROVE  ReqInv' /\ LineInv'
  <2>1. ReqInv' /\ \A x \in Requests : req'[x] = IF x = r THEN p ELSE req[x]
    BY <1>2, OneFacts
  <2> QED BY <1>2, <2>1, LineSame
<1>3. ASSUME NEW r \in Requests, Submit(r) PROVE Inv'
  <2> DEFINE p == [req[r] EXCEPT !.pc = "queued"]
  <2>1. /\ req[r].pc = "new" /\ req' = [req EXCEPT ![r] = p]
        /\ channel' = Append(channel, r)
        /\ UNCHANGED <<threads, queue, driver, refresher, recent, container, owner, up>>
    BY <1>1, <1>3 DEF Submit
  <2>2. req[r] \in RequestType /\ Sound(req[r])
    BY DEF ReqInv
  <2>3. /\ p \in RequestType /\ p.pc = "queued" /\ p.route = req[r].route /\ p.at = req[r].at
        /\ p.reply = req[r].reply /\ p.to = req[r].to /\ p.runs = req[r].runs /\ p.ioErrors = req[r].ioErrors
    BY <2>2 DEF RequestType
  <2> HIDE DEF p
  <2>4. Sound(p)
    BY <2>1, <2>2, <2>3 DEF Sound, Even, Ahead
  <2>5. ReqInv' /\ \A x \in Requests : req'[x] = IF x = r THEN p ELSE req[x]
    BY <2>1, <2>3, <2>4, OneFacts
  <2>6. r \notin Elements(channel) \cup Elements(queue)
    BY <2>1 DEF LineInv
  <2>7. /\ channel' \in Seq(Requests) /\ Distinct(channel')
        /\ Elements(channel') = Elements(channel) \cup {r}
    BY <2>1, <2>6, AppendLine DEF LineInv
  <2>8. LineInv'
    BY <2>1, <2>3, <2>5, <2>6, <2>7 DEF LineInv
  <2>9. NodeInv'
    BY <1>0, <1>1, <1>3, <2>1 DEF NodeInv, Submit
  <2> QED BY <2>1, <2>5, <2>8, <2>9, Stutter
<1>4. ASSUME NEW r \in Requests, Serve(r) PROVE Inv'
  <2>1. /\ req[r].pc = "sent" /\ req[r].reply = "none"
        /\ UNCHANGED <<threads, channel, queue, driver, refresher, recent, container, cluster>>
    BY <1>4 DEF Serve
  <2>2. req[r] \in RequestType /\ Sound(req[r]) /\ Even(req[r]) /\ req[r].at \in Nodes
    BY <2>1 DEF ReqInv, Sound, Even, Ahead
  <2>3. CASE owner = req[r].at \/ req[r].route = "ask"
    <3> DEFINE k == req[r].runs + 1
               p == [req[r] EXCEPT !.reply = "ok", !.runs = k]
    <3>0. /\ k \in Nat /\ req[r].runs \in Nat /\ req[r].ioErrors \in Nat
          /\ k <= req[r].ioErrors \/ k = req[r].ioErrors + 1
      BY <2>2 DEF RequestType, Even
    <3>1. req' = [req EXCEPT ![r] = p]
      BY <1>1, <1>4, <2>3 DEF Serve, RequestType
    <3> HIDE DEF k
    <3>2. /\ p \in RequestType /\ p.pc = "sent" /\ p.at = req[r].at /\ p.reply = "ok"
          /\ p.runs = k /\ p.ioErrors = req[r].ioErrors
      BY <2>1, <2>2, <3>0 DEF RequestType
    <3> HIDE DEF p
    <3>3. Sound(p)
      BY <2>2, <3>0, <3>2 DEF Sound, Even, Ahead
    <3> QED BY <1>2, <2>1, <3>1, <3>2, <3>3, Stutter
  <2>4. CASE ~(owner = req[r].at \/ req[r].route = "ask")
    <3> DEFINE p == [req[r] EXCEPT !.reply = "moved", !.to = owner]
    <3>1. req' = [req EXCEPT ![r] = p]
      BY <1>1, <1>4, <2>4 DEF Serve
    <3>2. /\ p \in RequestType /\ p.pc = "sent" /\ p.at = req[r].at /\ p.to = owner
          /\ p.runs = req[r].runs /\ p.ioErrors = req[r].ioErrors
      BY <2>1, <2>2 DEF RequestType, NodeInv
    <3> HIDE DEF p
    <3>3. Sound(p)
      BY <2>2, <3>2 DEF Sound, Even, Ahead, NodeInv
    <3> QED BY <1>2, <2>1, <3>1, <3>2, <3>3, Stutter
  <2> QED BY <2>3, <2>4
<1>5. ASSUME NEW r \in Requests, Refuse(r) PROVE Inv'
  <2>1. /\ req[r].pc = "sent" /\ req[r].reply = "none"
        /\ UNCHANGED <<threads, channel, queue, driver, refresher, recent, container, owner, up>>
    BY <1>5 DEF Refuse
  <2>2. PICK fault \in Faults, n \in Nodes :
            req' = [req EXCEPT ![r].reply = fault, ![r].to = n]
    BY <1>5 DEF Refuse
  <2>3. req[r] \in RequestType /\ Sound(req[r]) /\ Even(req[r]) /\ req[r].at \in Nodes
    BY <2>1 DEF ReqInv, Sound, Even, Ahead
  <2> DEFINE p == [req[r] EXCEPT !.reply = fault, !.to = n]
  <2>4. req' = [req EXCEPT ![r] = p]
    BY <1>1, <2>2
  <2>5. /\ p \in RequestType /\ p.pc = "sent" /\ p.at = req[r].at /\ p.to = n
        /\ p.runs = req[r].runs /\ p.ioErrors = req[r].ioErrors
    BY <2>1, <2>3 DEF RequestType
  <2> HIDE DEF p
  <2>6. Sound(p)
    BY <2>3, <2>5 DEF Sound, Even, Ahead
  <2>7. NodeInv'
    BY <1>0, <1>1, <1>5, <2>1 DEF NodeInv, Refuse
  <2> QED BY <1>2, <2>1, <2>4, <2>5, <2>6, <2>7, Stutter
<1>6. ASSUME NEW r \in Requests, GiveUp(r) PROVE Inv'
  <2> DEFINE p == [req[r] EXCEPT !.closed = TRUE, !.result = "gone"]
  <2>1. /\ req' = [req EXCEPT ![r] = p]
        /\ UNCHANGED <<threads, channel, queue, driver, refresher, recent, container, owner, up>>
    BY <1>1, <1>6 DEF GiveUp
  <2>2. req[r] \in RequestType /\ Sound(req[r])
    BY DEF ReqInv
  <2>3. /\ p \in RequestType /\ p.pc = req[r].pc /\ p.route = req[r].route /\ p.at = req[r].at
        /\ p.reply = req[r].reply /\ p.to = req[r].to /\ p.runs = req[r].runs /\ p.ioErrors = req[r].ioErrors
    BY ZenonT(60), <2>2 DEF RequestType
  <2> HIDE DEF p
  <2>4. Sound(p)
    BY <2>2, <2>3 DEF Sound, Even, Ahead
  <2>5. NodeInv'
    BY <1>0, <1>1, <1>6, <2>1 DEF NodeInv, GiveUp
  <2> QED BY <1>2, <2>1, <2>3, <2>4, <2>5, Stutter
<1>7. ASSUME NEW n \in Nodes, Break(n) \/ BreakOddly(n) PROVE Inv'
  <2>0. PICK told \in SUBSET Requests : Broken(n, told)
    BY <1>7 DEF Break, BreakOddly, Sharing
  <2>1. /\ Event("break") \/ Event("ioError")
        /\ conns' = Close(conns, n) /\ tasks' = ClosedKept(n)
        /\ refresher' = [refresher EXCEPT !.built = Close(@, n)]
        /\ UNCHANGED <<threads, channel, queue, driver, recent, map, hash, entry, owner>>
    BY <1>7, <2>0 DEF Break, BreakOddly, Broken
  <2>2. PICK executed \in BOOLEAN : req' = Severed(n, executed, told)
    BY <2>0 DEF Broken
  <2>3. up' \in [Nodes -> BOOLEAN]
    BY <2>0 DEF Broken, NodeInv
  <2>4. \A f \in ConnsType : Close(f, n) \in ConnsType
    BY DEF Close, ConnsType
  <2>5. /\ conns' \in ConnsType /\ refresher' \in RefresherType /\ refresher'.pc = refresher.pc
        /\ refresher'.view = refresher.view
    BY <2>1, <2>4 DEF NodeInv, RefresherType
  <2>6. events' \in [Events -> Nat]
    BY <1>0, <1>1, <2>1
  <2>7. NodeInv'
    BY <2>1, <2>3, <2>5, <2>6 DEF NodeInv
  <2>8. ASSUME NEW r \in Requests
        PROVE  req'[r] \in RequestType /\ Sound(req'[r]) /\ req'[r].pc = req[r].pc
    <3>1. req[r] \in RequestType /\ Sound(req[r])
      BY DEF ReqInv
    <3>2. CASE req[r].pc = "sent" /\ req[r].at = n /\ req[r].reply = "none"
      <4> DEFINE k == IF executed /\ (owner = n \/ req[r].route = "ask") THEN req[r].runs + 1
                      ELSE req[r].runs
                 e == IF r \in told THEN req[r].ioErrors + 1 ELSE req[r].ioErrors
                 a == IF r \in told THEN "ioError" ELSE "lost"
                 p == [req[r] EXCEPT !.reply = a, !.ioErrors = e, !.runs = k]
      <4>1. /\ Even(req[r]) /\ k \in Nat /\ e \in Nat /\ a \in {"ioError", "lost"}
        BY <3>1, <3>2 DEF Sound, RequestType
      <4>2. k <= e \/ (k = e + 1 /\ a = "lost")
        <5>1. /\ req[r].runs \in Nat /\ req[r].ioErrors \in Nat
              /\ req[r].runs <= req[r].ioErrors
          BY <3>1, <4>1 DEF RequestType, Even
        <5> QED BY <5>1
      <4>3. req'[r] = p
        BY <2>2, <3>2 DEF Severed
      <4> HIDE DEF k, e, a
      <4>4. /\ p \in RequestType /\ p.pc = "sent" /\ p.at = n /\ p.reply = a /\ p.runs = k
            /\ p.ioErrors = e
        BY <3>1, <3>2, <4>1 DEF RequestType
      <4> HIDE DEF p
      <4> QED BY <3>2, <4>1, <4>2, <4>3, <4>4 DEF Sound, Even, Ahead
    <3>3. CASE ~(req[r].pc = "sent" /\ req[r].at = n /\ req[r].reply = "none")
      <4>1. req'[r] = req[r]
        BY <2>2, <3>3 DEF Severed
      <4> QED BY <3>1, <4>1
    <3> QED BY <3>2, <3>3
  <2>9. req' = [r \in Requests |-> req'[r]]
    BY <2>2 DEF Severed
  <2>10. ReqInv' /\ LineInv'
    BY <2>1, <2>8, <2>9, ChangedFacts
  <2>11. \A t \in Tasks : /\ tasks'[t] \in TaskType /\ tasks'[t].node = tasks[t].node
                          /\ tasks'[t].pc = tasks[t].pc
                          /\ tasks'[t].aborted = tasks[t].aborted
    BY <2>1 DEF ClosedKept, TaskInv, TaskType
  <2>12. tasks' \in [Tasks -> TaskType]
    BY <2>1, <2>11 DEF ClosedKept
  <2>13. TaskInv'
    BY <2>1, <2>11, <2>12, TaskSame DEF TaskInv
  <2> QED BY <2>1, <2>7, <2>10, <2>13, Stutter
<1>8. ASSUME NEW n \in Nodes, ComesBack(n) PROVE Inv'
  <2>1. NodeInv'
    BY <1>0, <1>1, <1>8 DEF NodeInv, ComesBack
  <2> QED BY <1>8, <2>1, Stutter DEF ComesBack
<1>9. ASSUME NEW n \in Nodes, Migrate(n) PROVE Inv'
  <2>1. NodeInv'
    BY <1>0, <1>1, <1>9 DEF NodeInv, Migrate
  <2> QED BY <1>9, <2>1, Stutter DEF Migrate
<1>10. CASE Elapse
  <2>1. NodeInv'
    BY <1>0, <1>1, <1>10 DEF NodeInv, Elapse
  <2> QED BY <1>10, <2>1, Stutter DEF Elapse
<1>11. CASE RenewManagement
  <2>1. PICK ns \in SUBSET Nodes : trigger_refresh_connection_tasks(ns, TRUE)
    BY <1>11 DEF RenewManagement
  <2>2. TaskInv' /\ conns' \in ConnsType
    BY <2>1, TriggerFacts DEF NodeInv
  <2>3. /\ Event("unmanaged")
        /\ UNCHANGED <<threads, req, channel, queue, driver, refresher, recent, map, hash, owner,
                       up>>
    BY <1>11 DEF RenewManagement
  <2>4. NodeInv'
    BY <1>0, <1>1, <2>2, <2>3 DEF NodeInv
  <2> QED BY <2>2, <2>3, <2>4, Stutter
<1> QED BY <1>3, <1>4, <1>5, <1>6, <1>7, <1>8, <1>9, <1>10, <1>11 DEF Environment

\* The initial state.
LEMMA InitInv == Init => Inv
<1> SUFFICES ASSUME Init PROVE Inv
  OBVIOUS
<1>1. ReqInv
  BY ClusterAssumption DEF Init, ReqInv, Fresh, RequestType, Sound, Even, Ahead
<1>2. LineInv
  BY EmptyFacts DEF Init, LineInv, Fresh
<1>3. QueueWillDrain
  BY EmptyFacts, ClusterAssumption DEF Init, QueueWillDrain
<1>4. DriverInv
  BY DEF Init, DriverInv, DriverType, ActionType, Nothing
<1>5. NodeInv
  <2>1. owner \in Nodes
    BY ClusterAssumption DEF Init
  <2>2. threads \in {1, 2} /\ events \in [Events -> Nat]
    BY ClusterAssumption DEF Init
  <2> QED BY <2>1, <2>2 DEF Init, NodeInv, NoRefresh, RefresherType, ConnsType
<1>6. TaskInv
  BY DEF Init, TaskInv, TaskType, Free
<1> QED BY <1>1, <1>2, <1>3, <1>4, <1>5, <1>6 DEF Inv

\* Every step keeps the invariant.
LEMMA NextInv == Inv /\ [Next]_vars => Inv'
<1> SUFFICES ASSUME Inv, [Next]_vars PROVE Inv'
  OBVIOUS
<1>1. ASSUME NEW t \in Tasks, TaskStep(t) PROVE Inv'
  BY <1>1, TaskKeeps, RemoveKeeps DEF TaskStep
<1>2. ASSUME NEW r \in Requests, RequestStep(r) PROVE Inv'
  BY <1>2, ConnectKeeps, RequestKeeps DEF RequestStep
<1>3. CASE DriverStep
  BY <1>3, QueueKeeps, BufferKeeps, DriverKeeps DEF DriverStep
<1>4. CASE SpawnedStep
  BY <1>4, SpawnedKeeps
<1>5. CASE Environment \/ \E r \in Requests : Serve(r)
  BY <1>5, EnvironmentKeeps
<1>6. CASE UNCHANGED vars
  BY <1>6, Stutter DEF Inv, vars, container, cluster
<1> QED BY <1>1, <1>2, <1>3, <1>4, <1>5, <1>6 DEF Next, Progress

\* The invariant holds throughout.
LEMMA Invariance == Spec => []Inv
BY InitInv, NextInv, PTL DEF Spec

-----------------------------------------------------------------------------
(* The theorems *)

\* The invariant contains the types.
LEMMA InvTypeOK == Inv => TypeOK
BY DEF Inv, ReqInv, LineInv, DriverInv, NodeInv, TaskInv, TypeOK

\* A queue without duplicates has a request at one position or at none.
LEMMA PlacesIn ==
    ASSUME NEW s \in Seq(Requests), Distinct(s), NEW r
    PROVE  Cardinality({i \in DOMAIN s : s[i] = r}) = IF r \in Elements(s) THEN 1 ELSE 0
<1>1. CASE r \in Elements(s)
  <2>1. PICK i \in DOMAIN s : s[i] = r
    BY <1>1 DEF Elements
  <2>2. {j \in DOMAIN s : s[j] = r} = {i}
    BY <2>1 DEF Distinct
  <2> QED BY <1>1, <2>2, FS_Singleton
<1>2. CASE r \notin Elements(s)
  <2>1. {j \in DOMAIN s : s[j] = r} = {}
    BY <1>2 DEF Elements
  <2> QED BY <1>2, <2>1, FS_EmptySet
<1> QED BY <1>1, <1>2

\* No request is lost between the two queues or dispatched twice, for every number of
\* requests: admission, buffering up to the cap, draining, escalation and the retries
\* move each one from one place to one place.
THEOREM NothingLost == Spec => []OnePlace
<1>1. Inv => OnePlace
  <2> SUFFICES ASSUME Inv, NEW r \in Requests
               PROVE  Places(r) = IF req[r].pc = "queued" THEN 1 ELSE 0
    BY DEF OnePlace
  <2>1. /\ Cardinality({i \in DOMAIN channel : channel[i] = r})
             = IF r \in Elements(channel) THEN 1 ELSE 0
        /\ Cardinality({i \in DOMAIN queue : queue[i] = r})
             = IF r \in Elements(queue) THEN 1 ELSE 0
    BY PlacesIn DEF Inv, LineInv
  <2>2. /\ ~(r \in Elements(channel) /\ r \in Elements(queue))
        /\ r \in Elements(channel) \/ r \in Elements(queue) <=> req[r].pc = "queued"
    BY DEF Inv, LineInv
  <2> QED BY <2>1, <2>2 DEF Places
<1> QED BY <1>1, Invariance, PTL

\* However often a request is redirected, refused, buffered and retried, its command is
\* executed once, and once more for each reply it lost with an io error that
\* retry_method answers with RetryImmediately: in every other way a request leaves the
\* state in which it may have been executed only to end.
THEOREM ExecutedOnce == Spec => []AtMostOnce
<1>1. Inv => AtMostOnce
  <2> SUFFICES ASSUME Inv, NEW r \in Requests PROVE req[r].runs <= 1 + req[r].ioErrors
    BY DEF AtMostOnce
  <2>1. Even(req[r]) \/ Ahead(req[r])
    BY DEF Inv, ReqInv, Sound
  <2>2. req[r].runs \in Nat /\ req[r].ioErrors \in Nat
    BY DEF Inv, ReqInv, RequestType
  <2> QED BY <2>1, <2>2 DEF Even, Ahead
<1> QED BY <1>1, Invariance, PTL

\* The recovery queue keeps its cap and is empty whenever no recovery that drains it
\* is running.
THEOREM QueueDrains == Spec => []QueueWillDrain
<1>1. Inv => QueueWillDrain
  BY DEF Inv
<1> QED BY <1>1, Invariance, PTL

\* Every marked address has a live reconnect task of its own, for every number of
\* nodes, tasks and threads.
THEOREM MarkedIsTended == Spec => []EntryHasTask
<1>1. Inv => EntryHasTask
  BY InvTypeOK DEF Inv, TaskInv, EntryHasTask
<1> QED BY <1>1, Invariance, PTL

\* A step takes a mark away only for its own task, after that task's attempt, or when
\* it replaces the container.
LEMMA NextAttempt ==
    ASSUME Inv, Next, NEW n \in Nodes, entry[n] # NoTask, entry'[n] # entry[n]
    PROVE  \/ tasks[entry[n]].pc # "dial" \/ tasks[entry[n]].status # "reconnecting"
           \/ refresher.pc = "replace" /\ refresher' = NoRefresh
<1> USE DEF cluster, container
<1>0. ASSUME NEW ns, ns \subseteq Nodes, NEW keep \in BOOLEAN,
             trigger_refresh_connection_tasks(ns, keep)
      PROVE  FALSE
  BY <1>0, TriggerFacts DEF Inv, NodeInv
<1>1. ASSUME NEW t \in Tasks, TaskStep(t) PROVE tasks[entry[n]].pc # "dial"
  <2>1. Remove(t)
    BY <1>1 DEF TaskStep, DialFails, DialSucceeds, Aborted, Install
  <2>2. /\ tasks[t].pc = "installed"
        /\ entry' = IF IsCurrent(t) THEN [entry EXCEPT ![tasks[t].node] = NoTask] ELSE entry
    BY <2>1 DEF Remove
  <2>3. IsCurrent(t) /\ n = tasks[t].node
    BY <2>2 DEF Inv, TaskInv
  <2> QED BY <2>2, <2>3 DEF IsCurrent
<1>2. ASSUME NEW r \in Requests, RequestStep(r) PROVE FALSE
  <2>1. CASE Connect(r)
    <3>1. \/ entry' = entry
          \/ trigger_refresh_connection_tasks({Target(req[r])}, FALSE)
      BY <2>1 DEF Connect
    <3>2. Target(req[r]) \in Nodes
      BY TargetFacts DEF Inv, ReqInv
    <3> QED BY <1>0, <3>1, <3>2
  <2>2. CASE ~Connect(r)
    BY <1>2, <2>2
       DEF RequestStep, Register, Resume, Replied, Slept, UpdateMoved, Shed
  <2> QED BY <2>1, <2>2
<1>3. CASE DriverStep
  BY <1>3 DEF DriverStep, Admit, Recover, Buffer, FailPending, Recovered, Escalate, Respawn,
              SendRefreshError
<1>4. CASE SpawnedStep
  <2>1. CASE Replace
    BY <2>1 DEF Replace, Unlock
  <2>2. CASE Reconnect
    BY <1>0, <2>2 DEF Reconnect, Inv, DriverInv, DriverType
  <2>3. CASE ReconnectFailing
    BY <1>0, <2>3 DEF ReconnectFailing, Inv, NodeInv, RefresherType
  <2>4. CASE ConnectInitialNodes \/ LockForRecovery \/ PeriodicCheck \/ Query \/ Build
             \/ Validate
    BY <2>4 DEF ConnectInitialNodes, LockForRecovery, PeriodicCheck, Query, Build, Validate
  <2> QED BY <1>4, <2>1, <2>2, <2>3, <2>4 DEF SpawnedStep
<1>5. CASE Environment \/ \E r \in Requests : Serve(r)
  <2>1. ~RenewManagement
    BY <1>0 DEF RenewManagement
  <2> QED BY <1>5, <2>1 DEF Environment, Serve, Submit, Refuse, GiveUp, Break, BreakOddly, Broken,
                            ComesBack, Migrate, Elapse
<1> QED BY <1>1, <1>2, <1>3, <1>4, <1>5 DEF Next, Progress

\* Nobody's wait for an address is ended by a task that is not the address's own or
\* that has not made an attempt, unless the whole container is replaced.
THEOREM NotifiedAfterAttempt == Spec => AttemptBeforeNotify
<1>1. Inv /\ [Next]_vars =>
        [\A n \in Nodes : (entry[n] # NoTask /\ entry'[n] # entry[n]) =>
            \/ tasks[entry[n]].pc # "dial" \/ tasks[entry[n]].status # "reconnecting"
            \/ refresher.pc = "replace" /\ refresher' = NoRefresh]_vars
  BY NextAttempt
<1> QED BY <1>1, Invariance, PTL DEF Spec, AttemptBeforeNotify
=============================================================================
