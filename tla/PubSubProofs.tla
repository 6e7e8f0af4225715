---------------------------- MODULE PubSubProofs ----------------------------
(***************************************************************************)
(* Proofs about PubSubSynchronizer, for any channels, nodes, callers and   *)
(* deployments and any number of faults: the state keeps its types, and    *)
(* every step is a step of SubscriptionService or leaves it alone.  That   *)
(* the sets agree in the end (Agreement) is liveness and stays with TLC.   *)
(***************************************************************************)
EXTENDS PubSubSynchronizer, FiniteSetTheorems, FunctionTheorems, TLAPS

-----------------------------------------------------------------------------
(* Commands and pushes that only concern channels somebody asked for *)

AskedCommands(S) == {k \in Commands : k.op = "sub" => k.chans \subseteq S}
AskedPushes(S) == {p \in Pushes : p.op = "sub" => p.ch \in S}

LEMMA MoreAsked ==
    ASSUME NEW S, NEW T, S \subseteq T
    PROVE  /\ AskedCommands(S) \subseteq AskedCommands(T)
           /\ AskedPushes(S) \subseteq AskedPushes(T)
           /\ \A q \in Seq(AskedPushes(S)) : q \in Seq(AskedPushes(T))
<1>1. AskedCommands(S) \subseteq AskedCommands(T) /\ AskedPushes(S) \subseteq AskedPushes(T)
  BY DEF AskedCommands, AskedPushes
<1>2. ASSUME NEW q \in Seq(AskedPushes(S))
      PROVE  q \in Seq(AskedPushes(T))
  <2> DEFINE A == AskedPushes(S)
             B == AskedPushes(T)
  <2>1. A \subseteq B /\ q \in Seq(A)
    BY <1>1, <1>2
  <2> HIDE DEF A, B
  <2>2. q \in Seq(B)
    BY <2>1
  <2> QED
    BY <2>2 DEF B
<1> QED
  BY <1>1, <1>2

LEMMA SetToSeqFacts ==
    ASSUME NEW S, IsFiniteSet(S), S # {}
    PROVE  SetToSeq(S) \in Seq(S) /\ Len(SetToSeq(S)) >= 1
<1> DEFINE n == Cardinality(S)
<1>1. n \in Nat /\ ExistsBijection(1 .. n, S)
  BY FS_CardinalityType
<1>2. n # 0
  BY FS_EmptySet
<1> HIDE DEF n
<1>3. \E f \in [1 .. n -> S] : IsInjective(f)
  BY <1>1 DEF ExistsBijection, Bijection, Injection
<1>4. PICK g : g = SetToSeq(S)
  OBVIOUS
<1>5. g \in [1 .. n -> S]
  BY <1>3, <1>4 DEF SetToSeq, n
<1>6. g \in Seq(S) /\ Len(g) = n
  BY <1>1, <1>5
<1> QED
  BY <1>1, <1>2, <1>4, <1>6

\* The confirmations of a command concern its channels.
LEMMA AnswersAsked ==
    ASSUME NEW S, NEW k \in AskedCommands(S)
    PROVE  Answers(k) \in Seq(AskedPushes(S))
<1>1. /\ k.op \in {"sub", "unsub"} /\ k.chans \in SUBSET Channels /\ k.chans # {}
      /\ k.op = "sub" => k.chans \subseteq S
  BY DEF AskedCommands, Commands
<1> DEFINE P == {[op |-> k.op, ch |-> c, reply |-> FALSE] : c \in k.chans}
           A == AskedPushes(S)
<1>2. IsFiniteSet(k.chans)
  <2>1. IsFiniteSet(Channels)
    BY KindsAssumption, FS_Union DEF Channels
  <2> QED
    BY <1>1, <2>1, FS_Subset
<1>3. IsFiniteSet(P) /\ P # {}
  <2> DEFINE g == [c \in k.chans |-> [op |-> k.op, ch |-> c, reply |-> FALSE]]
  <2>1. g \in Surjection(k.chans, P)
    BY DEF Surjection
  <2> HIDE DEF g
  <2>2. P # {}
    BY <1>1
  <2> HIDE DEF P
  <2> QED
    BY <1>2, <2>1, <2>2, FS_Surjection
<1>4. P \subseteq A
  <2> SUFFICES ASSUME NEW p \in P PROVE p \in A
    OBVIOUS
  <2>1. PICK c \in k.chans : p = [op |-> k.op, ch |-> c, reply |-> FALSE]
    OBVIOUS
  <2>2. p \in Pushes /\ p.op = k.op /\ p.ch = c
    BY <1>1, <2>1 DEF Pushes
  <2> QED
    BY <1>1, <2>2 DEF AskedPushes
<1>5. PICK q : q = SetToSeq(P)
  OBVIOUS
<1>6. Answers(k) = IF k.op = "unsub" /\ k.chans \subseteq Sharded
                   THEN Append(q, [op |-> "pong", ch |-> CHOOSE c \in k.chans : TRUE, reply |-> TRUE])
                   ELSE [q EXCEPT ![1].reply = TRUE]
  BY <1>5 DEF Answers
<1>7. [op |-> "pong", ch |-> CHOOSE c \in k.chans : TRUE, reply |-> TRUE] \in A
  BY <1>1 DEF AskedPushes, Pushes
<1>8. \A p \in A : [p EXCEPT !.reply = TRUE] \in A
  BY DEF AskedPushes, Pushes
<1> HIDE DEF P, A
<1>9. q \in Seq(A) /\ Len(q) >= 1
  <2>1. q \in Seq(P) /\ Len(q) >= 1
    BY <1>3, <1>5, SetToSeqFacts
  <2> QED
    BY <1>4, <2>1
<1>10. [q EXCEPT ![1].reply = TRUE] \in Seq(A)
  <2>1. 1 \in DOMAIN q /\ q[1] \in A
    BY <1>9
  <2>2. PICK p \in A : p = [q[1] EXCEPT !.reply = TRUE]
    BY <1>8, <2>1
  <2>3. [q EXCEPT ![1].reply = TRUE] = [q EXCEPT ![1] = p]
    BY <2>2
  <2>4. [q EXCEPT ![1] = p] \in Seq(A)
    BY <1>9, <2>1, <2>2
  <2> QED
    BY <2>3, <2>4
<1>11. CASE k.op = "unsub" /\ k.chans \subseteq Sharded
  BY <1>6, <1>7, <1>9, <1>11 DEF A
<1>12. CASE ~(k.op = "unsub" /\ k.chans \subseteq Sharded)
  BY <1>6, <1>10, <1>12 DEF A
<1> QED
  BY <1>11, <1>12

\* What Group makes of the channels S is a set of commands about them.
LEMMA GroupAsked ==
    ASSUME NEW S, NEW op \in {"sub", "unsub"}, NEW C \in SUBSET Channels,
           op = "sub" => C \subseteq S, NEW n \in Nodes \cup {Anywhere}
    PROVE  Group(op, C, n) \subseteq AskedCommands(S)
<1>1. ASSUME NEW D \in SUBSET C, D # {}
      PROVE  [op |-> op, chans |-> D, to |-> n] \in AskedCommands(S)
  BY <1>1 DEF AskedCommands, Commands
<1>2. \A k \in Group(op, C, n) : \E D \in SUBSET C : D # {} /\ k = [op |-> op, chans |-> D, to |-> n]
  <2> SUFFICES ASSUME NEW k \in Group(op, C, n)
               PROVE  \E D \in SUBSET C : D # {} /\ k = [op |-> op, chans |-> D, to |-> n]
    OBVIOUS
  <2>1. \/ \E c \in C : k = [op |-> op, chans |-> {c}, to |-> n]
        \/ /\ k = [op |-> op, chans |-> C \cap Exact, to |-> n]
           /\ k # [op |-> op, chans |-> {}, to |-> n]
    BY DEF Group
  <2>2. CASE \E c \in C : k = [op |-> op, chans |-> {c}, to |-> n]
    BY <2>2
  <2>3. CASE /\ k = [op |-> op, chans |-> C \cap Exact, to |-> n]
             /\ k # [op |-> op, chans |-> {}, to |-> n]
    <3>1. C \cap Exact # {}
      BY <2>3
    <3> QED
      BY <2>3, <3>1
  <2> QED
    BY <2>1, <2>2, <2>3
<1> QED
  BY <1>1, <1>2

LEMMA UnsubscribesAsked ==
    ASSUME NEW S, NEW f, \A n \in Nodes : f[n] \in SUBSET Channels
    PROVE  Unsubscribes(f) \subseteq AskedCommands(S)
<1> SUFFICES ASSUME NEW k \in Unsubscribes(f) PROVE k \in AskedCommands(S)
  OBVIOUS
<1>1. PICK n \in Nodes : k \in Group("unsub", f[n], n)
  BY DEF Unsubscribes
<1>2. Group("unsub", f[n], n) \subseteq AskedCommands(S)
  BY GroupAsked
<1> QED
  BY <1>1, <1>2

-----------------------------------------------------------------------------
(* The invariant *)

CallTypes == [pc : {"idle", "check", "await", "failed"}, about : SUBSET Channels,
              all : SUBSET Channels, woken : BOOLEAN]

\* A call names channels or a whole kind, never both.
ClientInv ==
    /\ deployment \in Deployments
    /\ desired \subseteq asked /\ asked \subseteq Channels
    /\ caller \in [Callers -> CallTypes]
    /\ \A u \in Callers : caller[u].all # {} => caller[u].about = {}
    /\ alive \in BOOLEAN

ViewInv ==
    /\ current \in [Nodes -> SUBSET Channels]
    /\ pending \in [Nodes -> SUBSET Channels]
    /\ permit \in BOOLEAN

\* A subscription is only requested for a channel somebody asked for ...
TaskInv ==
    task \in [pc : {"select", "pending", "apply", "ended"},
              todo : SUBSET AskedCommands(asked), awaits : SUBSET Nodes]

\* ... so that servers hold and confirm no others, however late.
ServerInv ==
    /\ server \in [Nodes -> SUBSET asked]
    /\ pushes \in [Nodes -> Seq(AskedPushes(asked))]

TopologyInv ==
    /\ closing \in [Nodes -> BOOLEAN]
    /\ home \in [Channels -> Nodes]
    /\ members \subseteq Nodes
    /\ slotMap \in [Channels -> Nodes \cup {NoNode}]

Inv == ClientInv /\ ViewInv /\ TaskInv /\ ServerInv /\ TopologyInv

LEMMA InUseChannels ==
    ASSUME ClientInv
    PROVE  /\ deployment.inUse \subseteq Channels
           /\ \A kind \in KindsInUse : kind \subseteq Channels /\ kind # {}
BY DeploymentsAssumption DEF ClientInv, KindsInUse

LEMMA ViewFrame ==
    ASSUME ViewInv, UNCHANGED <<current, pending>>, permit' \in BOOLEAN
    PROVE  ViewInv'
BY DEF ViewInv

LEMMA ClientFrame ==
    ASSUME ClientInv, UNCHANGED <<deployment, clientVars>>
    PROVE  ClientInv' /\ asked' = asked
BY DEF ClientInv, clientVars

LEMMA TaskFrame ==
    ASSUME TaskInv, asked \subseteq asked', UNCHANGED task
    PROVE  TaskInv'
<1>1. AskedCommands(asked) \subseteq AskedCommands(asked')
  BY MoreAsked
<1> QED
  BY <1>1 DEF TaskInv

LEMMA ServerFrame ==
    ASSUME ServerInv, asked \subseteq asked', UNCHANGED <<server, pushes>>
    PROVE  ServerInv'
<1>1. \A q \in Seq(AskedPushes(asked)) : q \in Seq(AskedPushes(asked'))
  BY MoreAsked
<1> DEFINE A == Seq(AskedPushes(asked))
           B == Seq(AskedPushes(asked'))
<1>2. pushes \in [Nodes -> A] /\ A \subseteq B
  BY <1>1 DEF ServerInv
<1> HIDE DEF A, B
<1>3. pushes' \in [Nodes -> B]
  BY <1>2
<1>4. server' \in [Nodes -> SUBSET asked']
  BY DEF ServerInv
<1> QED
  BY <1>3, <1>4 DEF ServerInv, B

LEMMA TopologyFrame ==
    ASSUME TopologyInv, UNCHANGED <<closing, home, members, slotMap>>
    PROVE  TopologyInv'
BY DEF TopologyInv

LEMMA InitInv == Init => Inv
<1> SUFFICES ASSUME Init PROVE Inv
  OBVIOUS
<1>1. desired \subseteq Channels /\ asked = desired
  BY DeploymentsAssumption DEF Init
<1>2. Idle \in CallTypes /\ Idle.all = {}
  BY DEF Idle, CallTypes
<1>3. ClientInv
  BY <1>1, <1>2 DEF Init, ClientInv
<1>4. ViewInv
  BY DEF Init, ViewInv
<1>5. TaskInv
  BY DEF Init, TaskInv, NoWork
<1>6. ServerInv
  <2>1. <<>> \in Seq(AskedPushes(asked))
    OBVIOUS
  <2> QED
    BY <2>1 DEF Init, ServerInv
<1>7. TopologyInv
  <2>1. (CHOOSE n \in Nodes : TRUE) \in Nodes
    BY DeploymentsAssumption
  <2> QED
    BY <2>1 DEF Init, TopologyInv
<1> QED
  BY <1>3, <1>4, <1>5, <1>6, <1>7 DEF Inv

\* What a call that changes the desired subscriptions does to them.
LEMMA RequestFacts ==
    ASSUME ClientInv, NEW kind \in KindsInUse, NEW S \in SUBSET kind, Requests(S, kind)
    PROVE  /\ desired' \subseteq asked' /\ asked' \subseteq Channels
           /\ asked' = asked \cup desired' /\ permit' = TRUE
<1>1. kind \subseteq Channels
  BY InUseChannels
<1> QED
  BY <1>1 DEF Requests, add_desired_subscriptions, remove_desired_subscriptions, ClientInv

LEMMA LazyCallInv ==
    ASSUME Inv, LazyCall
    PROVE  Inv'
<1>0. PICK kind \in KindsInUse : \E S \in SUBSET kind : Requests(S, kind)
  BY DEF LazyCall
<1>1. PICK S \in SUBSET kind : Requests(S, kind)
  BY <1>0
<1>2. /\ desired' \subseteq asked' /\ asked' \subseteq Channels /\ permit' = TRUE
      /\ asked \subseteq asked'
  BY <1>1, RequestFacts DEF Inv
<1>3. UNCHANGED <<deployment, current, pending, task, caller, alive, server, pushes, closing, home,
                  members, slotMap>>
  BY DEF LazyCall, worldVars
<1>4. ClientInv'
  BY <1>2, <1>3 DEF Inv, ClientInv
<1> QED
  BY <1>2, <1>3, <1>4, ViewFrame, TaskFrame, ServerFrame, TopologyFrame DEF Inv

LEMMA BlockingCallInv ==
    ASSUME Inv, NEW u \in Callers, BlockingCall(u)
    PROVE  Inv'
<1>0. PICK kind \in KindsInUse : \E S \in SUBSET kind :
        /\ Requests(S, kind)
        /\ caller' = [caller EXCEPT ![u] =
               [Idle EXCEPT !.pc = "check", !.about = S, !.all = IF S = {} THEN kind ELSE {}]]
  BY DEF BlockingCall
<1>1. PICK S \in SUBSET kind :
        /\ Requests(S, kind)
        /\ caller' = [caller EXCEPT ![u] =
               [Idle EXCEPT !.pc = "check", !.about = S, !.all = IF S = {} THEN kind ELSE {}]]
  BY <1>0
<1>2. /\ desired' \subseteq asked' /\ asked' \subseteq Channels /\ permit' = TRUE
      /\ asked \subseteq asked'
  BY <1>1, RequestFacts DEF Inv
<1>3. UNCHANGED <<deployment, current, pending, task, alive, server, pushes, closing, home,
                  members, slotMap>>
  BY DEF BlockingCall, worldVars
<1>4. kind \subseteq Channels
  BY InUseChannels DEF Inv
<1>5. PICK w : w = [Idle EXCEPT !.pc = "check", !.about = S, !.all = IF S = {} THEN kind ELSE {}]
  OBVIOUS
<1>6. w \in CallTypes /\ (w.all # {} => w.about = {})
  BY <1>4, <1>5 DEF CallTypes, Idle
<1>7. caller' = [caller EXCEPT ![u] = w]
  BY <1>1, <1>5
<1>8. ClientInv'
  BY <1>2, <1>3, <1>6, <1>7 DEF Inv, ClientInv
<1> QED
  BY <1>2, <1>3, <1>8, ViewFrame, TaskFrame, ServerFrame, TopologyFrame DEF Inv

\* The steps of a caller that change nothing but the call.
LEMMA CallInv ==
    ASSUME Inv, NEW u \in Callers, NEW w \in CallTypes, w.all # {} => w.about = {},
           caller' = [caller EXCEPT ![u] = w], permit' \in BOOLEAN,
           UNCHANGED <<deployment, desired, asked, alive, current, pending, task, worldVars>>
    PROVE  Inv'
<1>1. ClientInv'
  BY DEF Inv, ClientInv
<1> QED
  BY <1>1, ViewFrame, TaskFrame, ServerFrame, TopologyFrame DEF Inv, worldVars

LEMMA CheckInv ==
    ASSUME Inv, NEW u \in Callers, Check(u)
    PROVE  Inv'
<1>1. caller[u] \in CallTypes /\ (caller[u].all # {} => caller[u].about = {})
  BY DEF Inv, ClientInv
<1>2. PICK w : /\ w = Idle \/ w = [caller[u] EXCEPT !.pc = "await"]
               /\ caller' = [caller EXCEPT ![u] = w]
  BY DEF Check
<1>3. w \in CallTypes /\ (w.all # {} => w.about = {})
  <2>1. CASE w = Idle
    BY <2>1 DEF CallTypes, Idle
  <2>2. CASE w = [caller[u] EXCEPT !.pc = "await"]
    BY <1>1, <2>2 DEF CallTypes
  <2> QED
    BY <1>2, <2>1, <2>2
<1>4. permit' \in BOOLEAN
  BY DEF Check, Inv, ViewInv
<1>5. UNCHANGED <<deployment, desired, asked, alive, current, pending, task, worldVars>>
  BY DEF Check
<1> QED
  BY <1>2, <1>3, <1>4, <1>5, CallInv

LEMMA WokenInv ==
    ASSUME Inv, NEW u \in Callers, Woken(u)
    PROVE  Inv'
<1>1. caller[u] \in CallTypes /\ (caller[u].all # {} => caller[u].about = {})
  BY DEF Inv, ClientInv
<1>2. PICK w : w = [caller[u] EXCEPT !.pc = "check", !.woken = FALSE]
  OBVIOUS
<1>3. w \in CallTypes /\ (w.all # {} => w.about = {})
  BY <1>1, <1>2 DEF CallTypes
<1>4. caller' = [caller EXCEPT ![u] = w]
  <2>1. caller' = [caller EXCEPT ![u].pc = "check", ![u].woken = FALSE]
    BY DEF Woken
  <2> QED
    BY <1>2, <2>1 DEF Inv, ClientInv
<1>5. permit' \in BOOLEAN
      /\ UNCHANGED <<deployment, desired, asked, alive, current, pending, task, worldVars>>
  BY DEF Woken, Inv, ViewInv, viewVars
<1> QED
  BY <1>3, <1>4, <1>5, CallInv

LEMMA DeadlineInv ==
    ASSUME Inv, NEW u \in Callers, Deadline(u)
    PROVE  Inv'
<1>0. PICK w : w = [Idle EXCEPT !.pc = "failed"]
  OBVIOUS
<1>1. w \in CallTypes /\ w.all = {}
  BY <1>0 DEF CallTypes, Idle
<1>2. caller' = [caller EXCEPT ![u] = w] /\ permit' \in BOOLEAN
      /\ UNCHANGED <<deployment, desired, asked, alive, current, pending, task, worldVars>>
  BY <1>0 DEF Deadline, Inv, ViewInv, viewVars
<1> QED
  BY <1>1, <1>2, CallInv

LEMMA StartCycleInv ==
    ASSUME Inv, StartCycle
    PROVE  Inv'
<1>1. UNCHANGED <<deployment, clientVars, current, server, pushes, closing, home, members, slotMap>>
      /\ permit' = FALSE /\ pending' = [n \in Nodes |-> {}]
  BY DEF StartCycle, worldVars
<1>2. ClientInv' /\ asked' = asked
  BY <1>1, ClientFrame DEF Inv
<1>3. Unsubscribes(pending) \subseteq AskedCommands(asked)
  BY UnsubscribesAsked DEF Inv, ViewInv
<1>4. TaskInv'
  BY <1>2, <1>3 DEF Inv, TaskInv, StartCycle
<1>5. ViewInv'
  BY <1>1 DEF Inv, ViewInv
<1> QED
  BY <1>1, <1>2, <1>4, <1>5, ServerFrame, TopologyFrame DEF Inv

LEMMA ComputeDiffInv ==
    ASSUME Inv, ComputeDiff
    PROVE  Inv'
<1>1. UNCHANGED <<deployment, clientVars, viewVars, server, pushes, closing, home, members, slotMap>>
  BY DEF ComputeDiff, worldVars
<1>2. ClientInv' /\ asked' = asked
  BY <1>1, ClientFrame DEF Inv
<1>3. compute_sync_diff \subseteq AskedCommands(asked)
  <2>1. ToSubscribe \subseteq asked /\ ToSubscribe \in SUBSET Channels
    BY DEF Inv, ClientInv, ToSubscribe
  <2>2. Group("sub", ToSubscribe, Anywhere) \subseteq AskedCommands(asked)
    BY <2>1, GroupAsked
  <2>3. \A n \in Nodes : ToUnsubscribe[n] \in SUBSET Channels
    BY DEF ToUnsubscribe, Inv, ViewInv
  <2>4. Unsubscribes(ToUnsubscribe) \subseteq AskedCommands(asked)
    BY <2>3, UnsubscribesAsked
  <2> QED
    BY <2>2, <2>4 DEF compute_sync_diff
<1>4. TaskInv'
  BY <1>2, <1>3 DEF Inv, TaskInv, ComputeDiff
<1>5. ViewInv'
  BY <1>1, ViewFrame DEF Inv, ViewInv, viewVars
<1> QED
  BY <1>1, <1>2, <1>4, <1>5, ServerFrame, TopologyFrame DEF Inv

LEMMA CompleteCycleInv ==
    ASSUME Inv, CompleteCycle
    PROVE  Inv'
<1>1. UNCHANGED <<deployment, desired, asked, alive, viewVars, server, pushes, closing, home,
                  members, slotMap>>
  BY DEF CompleteCycle, worldVars
<1>2. TaskInv'
  BY <1>1 DEF Inv, TaskInv, CompleteCycle
<1>3. \A u \in Callers : /\ [caller[u] EXCEPT !.woken = TRUE] \in CallTypes
                         /\ [caller[u] EXCEPT !.woken = TRUE].all = caller[u].all
                         /\ [caller[u] EXCEPT !.woken = TRUE].about = caller[u].about
  BY DEF Inv, ClientInv, CallTypes
<1>4. caller' \in [Callers -> CallTypes]
      /\ \A u \in Callers : caller'[u].all = caller[u].all /\ caller'[u].about = caller[u].about
  BY <1>3 DEF Inv, ClientInv, CompleteCycle
<1>5. ClientInv'
  BY <1>1, <1>4 DEF Inv, ClientInv
<1>6. ViewInv'
  BY <1>1, ViewFrame DEF Inv, ViewInv, viewVars
<1> QED
  BY <1>1, <1>2, <1>5, <1>6, ServerFrame, TopologyFrame DEF Inv

LEMMA IssueInv ==
    ASSUME Inv, NEW k \in task.todo, Issue(k)
    PROVE  Inv'
<1>1. UNCHANGED <<deployment, clientVars, viewVars, closing, home, members, slotMap>>
  BY DEF Issue
<1>2. ClientInv' /\ asked' = asked
  BY <1>1, ClientFrame DEF Inv
<1>3. k \in AskedCommands(asked)
  BY DEF Inv, TaskInv
<1>4. PICK R \in Routes(k) :
         /\ R \subseteq members
         /\ server' = [n \in Nodes |->
                IF n \notin R THEN server[n]
                ELSE IF k.op = "sub" THEN server[n] \cup k.chans ELSE server[n] \ k.chans]
         /\ pushes' = [n \in Nodes |-> IF n \in R THEN pushes[n] \o Answers(k) ELSE pushes[n]]
         /\ task' = [task EXCEPT !.todo = @ \ {k}, !.awaits = R]
  BY DEF Issue
<1>5. TaskInv'
  BY <1>2, <1>4 DEF Inv, TaskInv, TopologyInv
<1>6. server' \in [Nodes -> SUBSET asked]
  BY <1>3, <1>4 DEF Inv, ServerInv, AskedCommands
<1>7. pushes' \in [Nodes -> Seq(AskedPushes(asked))]
  <2> DEFINE A == AskedPushes(asked)
  <2>1. Answers(k) \in Seq(A) /\ pushes \in [Nodes -> Seq(A)]
    BY <1>3, AnswersAsked DEF Inv, ServerInv
  <2> HIDE DEF A
  <2>2. \A n \in Nodes : pushes[n] \o Answers(k) \in Seq(A)
    BY <2>1
  <2>3. pushes' \in [Nodes -> Seq(A)]
    BY <1>4, <2>1, <2>2
  <2> QED
    BY <2>3 DEF A
<1>8. ViewInv'
  BY <1>1, ViewFrame DEF Inv, ViewInv, viewVars
<1> QED
  BY <1>1, <1>2, <1>5, <1>6, <1>7, <1>8, TopologyFrame DEF Inv, ServerInv

LEMMA IssueFailsInv ==
    ASSUME Inv, NEW k \in task.todo, IssueFails(k)
    PROVE  Inv'
<1>1. UNCHANGED <<deployment, clientVars, viewVars, server, pushes, closing, home, members, slotMap>>
      /\ task' = [task EXCEPT !.todo = @ \ {k}]
  BY DEF IssueFails, worldVars
<1>2. ClientInv' /\ asked' = asked
  BY <1>1, ClientFrame DEF Inv
<1>3. TaskInv'
  BY <1>1, <1>2 DEF Inv, TaskInv
<1>4. ViewInv'
  BY <1>1, ViewFrame DEF Inv, ViewInv, viewVars
<1> QED
  BY <1>1, <1>2, <1>3, <1>4, ServerFrame, TopologyFrame DEF Inv

LEMMA CommandTimesOutInv ==
    ASSUME Inv, CommandTimesOut
    PROVE  Inv'
<1>1. UNCHANGED <<deployment, clientVars, viewVars, server, closing, home, members, slotMap>>
      /\ task' = [task EXCEPT !.awaits = {}]
      /\ pushes' = [n \in Nodes |-> Unanswered(pushes[n])]
  BY DEF CommandTimesOut
<1>2. ClientInv' /\ asked' = asked
  BY <1>1, ClientFrame DEF Inv
<1>3. TaskInv'
  BY <1>1, <1>2 DEF Inv, TaskInv
<1> DEFINE A == AskedPushes(asked)
<1>4. \A p \in A : [p EXCEPT !.reply = FALSE] \in A
  BY DEF AskedPushes, Pushes
<1>5. pushes \in [Nodes -> Seq(A)]
  BY DEF Inv, ServerInv
<1>6. ASSUME NEW n \in Nodes
      PROVE  Unanswered(pushes[n]) \in Seq(A)
  <2> HIDE DEF A
  <2>1. PICK q \in Seq(A) : q = pushes[n]
    BY <1>5
  <2>2. DOMAIN q = 1 .. Len(q) /\ Len(q) \in Nat /\ \A i \in 1 .. Len(q) : q[i] \in A
    BY <2>1
  <2>3. Unanswered(q) \in [1 .. Len(q) -> A]
    BY <1>4, <2>2 DEF Unanswered
  <2> QED
    BY <2>1, <2>2, <2>3
<1> HIDE DEF A
<1>7. pushes' \in [Nodes -> Seq(A)]
  BY <1>1, <1>6
<1>8. ServerInv'
  BY <1>1, <1>2, <1>7 DEF Inv, ServerInv, A
<1>9. ViewInv'
  BY <1>1, ViewFrame DEF Inv, ViewInv, viewVars
<1> QED
  BY <1>1, <1>2, <1>3, <1>8, <1>9, TopologyFrame DEF Inv

\* Reading a push: what the manager adds was asked for.
LEMMA ReadPushFacts ==
    ASSUME Inv, NEW n \in Nodes, ReadPush(n)
    PROVE  \E p \in AskedPushes(asked) :
              /\ \/ p.op = "sub" /\ add_current_subscriptions(p.ch, n)
                 \/ p.op = "unsub" /\ remove_current_subscriptions(p.ch, n)
                 \/ p.op = "pong" /\ UNCHANGED current
              /\ task' = [task EXCEPT !.awaits = IF p.reply THEN @ \ {n} ELSE @]
              /\ pushes' \in [Nodes -> Seq(AskedPushes(asked))]
<1> DEFINE A == AskedPushes(asked)
<1>1. pushes \in [Nodes -> Seq(A)]
  BY DEF Inv, ServerInv
<1> HIDE DEF A
<1>2. Head(pushes[n]) \in A /\ Tail(pushes[n]) \in Seq(A)
  BY <1>1 DEF ReadPush
<1>3. pushes' \in [Nodes -> Seq(A)]
  BY <1>1, <1>2 DEF ReadPush
<1> QED
  BY <1>2, <1>3, Zenon DEF ReadPush, A

LEMMA ReadPushInv ==
    ASSUME Inv, NEW n \in Nodes, ReadPush(n)
    PROVE  Inv'
<1>1. UNCHANGED <<deployment, pending, permit, clientVars, server, closing, home, members, slotMap>>
  BY DEF ReadPush
<1>2. ClientInv' /\ asked' = asked
  BY <1>1, ClientFrame DEF Inv
<1>3. PICK p \in AskedPushes(asked) :
         /\ \/ p.op = "sub" /\ add_current_subscriptions(p.ch, n)
            \/ p.op = "unsub" /\ remove_current_subscriptions(p.ch, n)
            \/ p.op = "pong" /\ UNCHANGED current
         /\ task' = [task EXCEPT !.awaits = IF p.reply THEN @ \ {n} ELSE @]
         /\ pushes' \in [Nodes -> Seq(AskedPushes(asked))]
  BY ReadPushFacts
<1>4. p.ch \in Channels
  BY DEF AskedPushes, Pushes
<1>5. current' \in [Nodes -> SUBSET Channels]
  BY <1>3, <1>4 DEF add_current_subscriptions, remove_current_subscriptions, Inv, ViewInv
<1>6. TaskInv'
  BY <1>2, <1>3 DEF Inv, TaskInv
<1>7. ServerInv'
  BY <1>1, <1>2, <1>3 DEF Inv, ServerInv
<1> QED
  BY <1>1, <1>2, <1>5, <1>6, <1>7, TopologyFrame DEF Inv, ViewInv

LEMMA MessageInv ==
    ASSUME Inv, NEW n \in Nodes, Message(n)
    PROVE  Inv'
<1>1. UNCHANGED <<deployment, viewVars, task, clientVars, server, closing, home, members, slotMap>>
  BY DEF Message
<1>2. ClientInv' /\ asked' = asked
  BY <1>1, ClientFrame DEF Inv
<1>3. PICK c \in server[n] :
        pushes' = [pushes EXCEPT ![n] = <<[op |-> "sub", ch |-> c, reply |-> FALSE]>>]
  BY DEF Message
<1> DEFINE A == AskedPushes(asked)
<1>4. PICK p : p = [op |-> "sub", ch |-> c, reply |-> FALSE]
  OBVIOUS
<1>5. p \in A
  BY <1>4 DEF Inv, ServerInv, ClientInv, AskedPushes, Pushes
<1>6. pushes \in [Nodes -> Seq(A)]
  BY DEF Inv, ServerInv
<1> HIDE DEF A
<1>7. pushes' \in [Nodes -> Seq(A)]
  BY <1>3, <1>4, <1>5, <1>6
<1>8. ServerInv'
  BY <1>1, <1>2, <1>7 DEF Inv, ServerInv, A
<1>9. ViewInv'
  BY <1>1, ViewFrame DEF Inv, ViewInv, viewVars
<1> QED
  BY <1>1, <1>2, <1>8, <1>9, TaskFrame, TopologyFrame DEF Inv

\* What the end of a connection does to the world.
LEMMA CloseFacts ==
    ASSUME Inv, NEW n \in Nodes, Close(n), asked' = asked
    PROVE  TaskInv' /\ ServerInv' /\ closing' \in [Nodes -> BOOLEAN]
<1>1. TaskInv'
  BY DEF Inv, TaskInv, Close
<1>2. server' \in [Nodes -> SUBSET asked] /\ closing' \in [Nodes -> BOOLEAN]
  BY DEF Inv, ServerInv, TopologyInv, Close
<1> DEFINE A == AskedPushes(asked)
<1>3. pushes \in [Nodes -> Seq(A)]
  BY DEF Inv, ServerInv
<1> HIDE DEF A
<1>4. pushes' \in [Nodes -> Seq(A)]
  BY <1>3 DEF Close
<1> QED
  BY <1>1, <1>2, <1>4 DEF ServerInv, A

LEMMA BreakInv ==
    ASSUME Inv, NEW n \in Nodes, Break(n)
    PROVE  Inv'
<1>1. UNCHANGED <<deployment, viewVars, clientVars, home, members, slotMap>> /\ Close(n)
  BY DEF Break
<1>2. ClientInv' /\ asked' = asked
  BY <1>1, ClientFrame DEF Inv
<1>3. TaskInv' /\ ServerInv' /\ closing' \in [Nodes -> BOOLEAN]
  BY <1>1, <1>2, CloseFacts
<1>4. ViewInv'
  BY <1>1, ViewFrame DEF Inv, ViewInv, viewVars
<1>5. TopologyInv'
  BY <1>1, <1>3 DEF Inv, TopologyInv
<1> QED
  BY <1>2, <1>3, <1>4, <1>5 DEF Inv

LEMMA SinkDroppedInv ==
    ASSUME Inv, NEW n \in Nodes, SinkDropped(n)
    PROVE  Inv'
<1>1. UNCHANGED <<deployment, pending, task, clientVars, server, pushes, home, members, slotMap>>
  BY DEF SinkDropped
<1>2. ClientInv' /\ asked' = asked
  BY <1>1, ClientFrame DEF Inv
<1>3. ViewInv'
  BY <1>1 DEF Inv, ViewInv, SinkDropped
<1>4. TopologyInv'
  BY <1>1 DEF Inv, TopologyInv, SinkDropped
<1> QED
  BY <1>1, <1>2, <1>3, <1>4, TaskFrame, ServerFrame DEF Inv

LEMMA MoveSlotInv ==
    ASSUME Inv, NEW c \in deployment.inUse, NEW n \in Nodes, MoveSlot(c, n)
    PROVE  Inv'
<1>1. UNCHANGED <<deployment, viewVars, task, clientVars, closing, members, slotMap>>
  BY DEF MoveSlot
<1>2. ClientInv' /\ asked' = asked
  BY <1>1, ClientFrame DEF Inv
<1>3. c \in Channels
  BY InUseChannels DEF Inv
<1>4. PICK h \in Nodes : h = home[c]
  BY <1>3 DEF Inv, TopologyInv
<1>5. TopologyInv'
  BY <1>1, <1>3 DEF Inv, TopologyInv, MoveSlot
<1>6. server' \in [Nodes -> SUBSET asked]
  BY ZenonT(60), <1>4 DEF Inv, ServerInv, MoveSlot
<1> DEFINE A == AskedPushes(asked)
<1>7. PICK p : p = [op |-> "unsub", ch |-> c, reply |-> FALSE]
  OBVIOUS
<1>8. p \in A
  BY <1>3, <1>7 DEF AskedPushes, Pushes
<1>9. pushes \in [Nodes -> Seq(A)]
  BY DEF Inv, ServerInv
<1>10. pushes' = pushes \/ pushes' = [pushes EXCEPT ![h] = Append(@, p)]
  BY <1>4, <1>7 DEF MoveSlot
<1> HIDE DEF A
<1>11. Append(pushes[h], p) \in Seq(A)
  BY <1>8, <1>9
<1>12. pushes' \in [Nodes -> Seq(A)]
  BY <1>9, <1>10, <1>11
<1>13. ServerInv'
  BY <1>2, <1>6, <1>12 DEF ServerInv, A
<1>14. ViewInv'
  BY <1>1, ViewFrame DEF Inv, ViewInv, viewVars
<1> QED
  BY <1>1, <1>2, <1>5, <1>13, <1>14, TaskFrame DEF Inv

LEMMA NodeLeavesInv ==
    ASSUME Inv, NEW n \in Nodes, NEW heir \in Nodes, NodeLeaves(n, heir)
    PROVE  Inv'
<1>1. UNCHANGED <<deployment, viewVars, clientVars, slotMap>> /\ Close(n)
  BY DEF NodeLeaves
<1>2. ClientInv' /\ asked' = asked
  BY <1>1, ClientFrame DEF Inv
<1>3. TaskInv' /\ ServerInv' /\ closing' \in [Nodes -> BOOLEAN]
  BY <1>1, <1>2, CloseFacts
<1>4. ViewInv'
  BY <1>1, ViewFrame DEF Inv, ViewInv, viewVars
<1>5. TopologyInv'
  BY <1>1, <1>3 DEF Inv, TopologyInv, NodeLeaves
<1> QED
  BY <1>2, <1>3, <1>4, <1>5 DEF Inv

LEMMA RefreshInv ==
    ASSUME Inv, NEW newMap \in [Channels -> Nodes \cup {NoNode}], handle_topology_refresh(newMap),
           UNCHANGED <<deployment, task, clientVars, server, pushes, closing, home, members>>
    PROVE  Inv'
<1>1. ClientInv' /\ asked' = asked
  BY ClientFrame DEF Inv
<1>2. \A n \in Nodes : Migrated(n, newMap) \subseteq current[n]
  BY DEF Migrated
<1>3. ViewInv'
  BY <1>2 DEF Inv, ViewInv, handle_topology_refresh
<1>4. TopologyInv'
  BY DEF Inv, TopologyInv, handle_topology_refresh
<1> QED
  BY <1>1, <1>3, <1>4, TaskFrame, ServerFrame DEF Inv

LEMMA RefreshesInv ==
    ASSUME Inv, TopologyRefresh \/ PartialRefresh
    PROVE  Inv'
<1>1. home \in [Channels -> Nodes \cup {NoNode}]
  BY DEF Inv, TopologyInv
<1>2. CASE TopologyRefresh
  BY <1>1, <1>2, RefreshInv DEF TopologyRefresh
<1>3. CASE PartialRefresh
  <2>1. PICK c \in deployment.inUse : handle_topology_refresh([home EXCEPT ![c] = NoNode])
    BY <1>3 DEF PartialRefresh
  <2>2. PICK newMap : newMap = [home EXCEPT ![c] = NoNode]
    OBVIOUS
  <2>3. newMap \in [Channels -> Nodes \cup {NoNode}]
    BY <1>1, <2>2
  <2> QED
    BY <1>3, <2>1, <2>2, <2>3, RefreshInv DEF PartialRefresh
<1> QED
  BY <1>2, <1>3

LEMMA DropClientInv ==
    ASSUME Inv, DropClient
    PROVE  Inv'
<1>1. UNCHANGED <<deployment, desired, asked, caller, viewVars, home, members>> /\ alive' = FALSE
  BY DEF DropClient
<1>2. ClientInv'
  BY <1>1 DEF Inv, ClientInv
<1>3. ViewInv'
  BY <1>1, ViewFrame DEF Inv, ViewInv, viewVars
<1>4. TaskInv'
  BY <1>1 DEF Inv, TaskInv, DropClient
<1>5. ServerInv'
  <2>1. <<>> \in Seq(AskedPushes(asked'))
    OBVIOUS
  <2>2. pushes' = [n \in Nodes |-> <<>>] /\ server' = [n \in Nodes |-> {}]
    BY DEF DropClient
  <2> QED
    BY <2>1, <2>2 DEF ServerInv
<1>6. TopologyInv'
  BY <1>1 DEF Inv, TopologyInv, DropClient
<1> QED
  BY <1>2, <1>3, <1>4, <1>5, <1>6 DEF Inv

LEMMA NextInv ==
    ASSUME Inv, [Next]_vars
    PROVE  Inv'
<1>1. CASE UNCHANGED vars
  <2>1. UNCHANGED <<deployment, clientVars, viewVars, task, worldVars>>
    BY <1>1 DEF vars
  <2> QED
    BY <2>1, ClientFrame, ViewFrame, TaskFrame, ServerFrame, TopologyFrame
       DEF Inv, ViewInv, viewVars, worldVars
<1>2. CASE LazyCall
  BY <1>2, LazyCallInv
<1>3. ASSUME NEW u \in Callers, BlockingCall(u) \/ CallerStep(u) \/ Deadline(u)
      PROVE  Inv'
  BY <1>3, BlockingCallInv, CheckInv, WokenInv, DeadlineInv DEF CallerStep
<1>4. CASE TaskStep
  BY <1>4, StartCycleInv, ComputeDiffInv, CompleteCycleInv, IssueInv, IssueFailsInv
     DEF TaskStep, CommandStep
<1>5. CASE CommandTimesOut
  BY <1>5, CommandTimesOutInv
<1>6. ASSUME NEW n \in Nodes, ReadPush(n) \/ Message(n) \/ Break(n) \/ SinkDropped(n)
      PROVE  Inv'
  BY <1>6, ReadPushInv, MessageInv, BreakInv, SinkDroppedInv
<1>7. CASE \E c \in deployment.inUse, n \in Nodes : MoveSlot(c, n)
  BY <1>7, MoveSlotInv
<1>8. CASE \E n, heir \in Nodes : NodeLeaves(n, heir)
  BY <1>8, NodeLeavesInv
<1>9. CASE TopologyRefresh \/ PartialRefresh
  BY <1>9, RefreshesInv
<1>10. CASE DropClient
  BY <1>10, DropClientInv
<1> QED
  BY <1>1, <1>2, <1>3, <1>4, <1>5, <1>6, <1>7, <1>8, <1>9, <1>10 DEF Next

\* The inductive invariant: besides the types, every command, confirmation and
\* subscription of a server is about a channel the application asked for.
THEOREM SynchronizerInvariant == Spec => []Inv
<1>1. Inv /\ [Next]_vars => Inv'
  BY NextInv
<1> QED
  BY InitInv, <1>1, PTL DEF Spec

\* The synchronizer's state keeps its types and the task never issues a command
\* without channels, however commands fail, connections break and slots move.
THEOREM SynchronizerTypes == Spec => []TypeOK
<1>1. Inv => TypeOK
  <2> SUFFICES ASSUME Inv PROVE TypeOK
    OBVIOUS
  <2>1. task.todo \subseteq Commands /\ task.awaits \subseteq Nodes
        /\ task.pc \in {"select", "pending", "apply", "ended"}
    BY DEF Inv, TaskInv, AskedCommands
  <2>2. \A u \in Callers : /\ caller[u].pc \in {"idle", "check", "await", "failed"}
                           /\ caller[u].about \subseteq Channels
    BY DEF Inv, ClientInv, CallTypes
  <2>3. server \in [Nodes -> SUBSET Channels]
    BY DEF Inv, ServerInv, ClientInv
  <2>4. ASSUME NEW n \in Nodes
        PROVE  Range(pushes[n]) \subseteq Pushes
    <3> DEFINE A == AskedPushes(asked)
    <3>1. pushes[n] \in Seq(A) /\ A \subseteq Pushes
      BY DEF Inv, ServerInv, AskedPushes
    <3> HIDE DEF A
    <3>2. \A i \in DOMAIN pushes[n] : pushes[n][i] \in A
      BY <3>1
    <3> QED
      BY <3>1, <3>2 DEF Range
  <2> QED
    BY <2>1, <2>2, <2>3, <2>4 DEF TypeOK, Inv, ClientInv, ViewInv, TopologyInv
<1> QED
  BY <1>1, SynchronizerInvariant, PTL

-----------------------------------------------------------------------------
(* The refinement *)

\* The calls as the service sees them.
Calls == [u \in Callers |-> [state |-> IF Waiting(u) THEN "waiting" ELSE caller[u].pc,
                             about |-> caller[u].about, all |-> caller[u].all]]

LEMMA InitRefines == Init => Service!Init
<1> SUFFICES ASSUME Init PROVE Service!Init
  OBVIOUS
<1>1. desired \in SUBSET Channels
  BY DeploymentsAssumption DEF Init
<1>2. Actual = {}
  BY DEF Init, Actual
<1>3. Calls = [u \in Callers |-> Service!Ended("idle")]
  BY DEF Init, Calls, Service!Ended, Idle, Waiting
<1> QED
  BY <1>1, <1>2, <1>3 DEF Init, Service!Init, Calls

\* Steps the service does not see.
LEMMA Unseen ==
    ASSUME UNCHANGED <<desired, asked, alive, current>>, Calls' = Calls
    PROVE  UNCHANGED Service!vars
BY DEF Service!vars, Actual, Calls

\* Subscriptions go away.
LEMMA LoseRefines ==
    ASSUME UNCHANGED <<desired, asked, alive, caller>>,
           \A n \in Nodes : current'[n] \subseteq current[n]
    PROVE  Service!Lose
<1>1. Actual' \in SUBSET Actual
  BY DEF Actual
<1>2. Calls' = Calls
  BY DEF Calls, Waiting
<1> QED
  BY <1>1, <1>2 DEF Service!Lose, Calls

\* An API call that does not wait.
LEMMA LazyCallRefines ==
    ASSUME Inv, LazyCall
    PROVE  Service!Change
<1>0. PICK kind \in KindsInUse : \E S \in SUBSET kind : Requests(S, kind)
  BY DEF LazyCall
<1>1. PICK S \in SUBSET kind : Requests(S, kind)
  BY <1>0
<1>2. desired' \in SUBSET Channels /\ asked' = asked \cup desired'
  BY <1>1, RequestFacts DEF Inv
<1>3. alive /\ UNCHANGED <<current, caller, alive>>
  BY DEF LazyCall
<1>4. Actual' = Actual /\ Calls' = Calls
  BY <1>3 DEF Actual, Calls, Waiting
<1> QED
  BY <1>2, <1>3, <1>4 DEF Service!Change, Calls

\* A call that waits begins.
LEMMA BlockingCallRefines ==
    ASSUME Inv, NEW u \in Callers, BlockingCall(u)
    PROVE  Service!Change
<1>0. PICK kind \in KindsInUse : \E S \in SUBSET kind :
        /\ Requests(S, kind)
        /\ caller' = [caller EXCEPT ![u] =
               [Idle EXCEPT !.pc = "check", !.about = S, !.all = IF S = {} THEN kind ELSE {}]]
  BY DEF BlockingCall
<1>1. PICK S \in SUBSET kind :
        /\ Requests(S, kind)
        /\ caller' = [caller EXCEPT ![u] =
               [Idle EXCEPT !.pc = "check", !.about = S, !.all = IF S = {} THEN kind ELSE {}]]
  BY <1>0
<1>2. desired' \in SUBSET Channels /\ asked' = asked \cup desired'
  BY <1>1, RequestFacts DEF Inv
<1>3. alive /\ UNCHANGED <<current, alive>> /\ caller[u].pc \in {"idle", "failed"}
  BY DEF BlockingCall
<1>4. Actual' = Actual
  BY <1>3 DEF Actual
<1>5. kind \subseteq Channels
  BY InUseChannels DEF Inv
<1>6. PICK K \in SUBSET Channels : K = IF S = {} THEN kind ELSE {}
  BY <1>5
<1>7. PICK w : w = [Idle EXCEPT !.pc = "check", !.about = S, !.all = K]
  OBVIOUS
<1>8. w.pc = "check" /\ w.about = S /\ w.all = K
  BY <1>7 DEF Idle
<1>9. caller' = [caller EXCEPT ![u] = w]
  BY <1>1, <1>6, <1>7
<1>10. Calls' = [Calls EXCEPT ![u] = [state |-> "waiting", about |-> S, all |-> K]]
  <2>1. caller'[u] = w /\ \A v \in Callers \ {u} : caller'[v] = caller[v]
    BY <1>9 DEF Inv, ClientInv
  <2> QED
    BY <1>8, <2>1 DEF Calls, Waiting
<1>11. Calls[u].state # "waiting"
  BY <1>3 DEF Calls, Waiting
<1> QED
  BY <1>2, <1>3, <1>4, <1>5, <1>10, <1>11 DEF Service!Change, Service!Waiting, Calls

\* A call returns success only when its channels are in step.
LEMMA CheckRefines ==
    ASSUME Inv, NEW u \in Callers, Check(u)
    PROVE  Service!ReturnOk(u) \/ UNCHANGED Service!vars
<1>1. UNCHANGED <<desired, asked, alive, current>> /\ caller[u].pc = "check"
  BY DEF Check
<1>2. CASE ConditionMet(u) /\ caller' = [caller EXCEPT ![u] = Idle]
  <2>1. Calls[u].state = "waiting" /\ Calls[u].about = caller[u].about /\ Calls[u].all = caller[u].all
    BY <1>1 DEF Calls, Waiting
  <2>2. /\ \A c \in caller[u].about : c \in desired <=> c \in Actual
        /\ caller[u].all \cap (desired \cup Actual) = {}
    BY <1>2 DEF ConditionMet, Inv, ClientInv
  <2>3. Calls' = [Calls EXCEPT ![u] = Service!Ended("idle")]
    <3>1. caller'[u] = Idle /\ \A v \in Callers \ {u} : caller'[v] = caller[v]
      BY <1>2 DEF Inv, ClientInv
    <3>2. caller'[u].pc = "idle" /\ caller'[u].about = {} /\ caller'[u].all = {}
      BY <3>1 DEF Idle
    <3> QED
      BY <3>1, <3>2 DEF Calls, Waiting, Service!Ended
  <2>4. Actual' = Actual
    BY <1>1 DEF Actual
  <2>5. Service!Waiting(u) /\ Service!InStep(u)
    BY <2>1, <2>2 DEF Service!Waiting, Service!InStep, Calls
  <2> QED
    BY <1>1, <2>3, <2>4, <2>5 DEF Service!ReturnOk, Calls
<1>3. CASE caller' = [caller EXCEPT ![u].pc = "await"]
  <2>1. /\ caller'[u].pc = "await" /\ caller'[u].about = caller[u].about
        /\ caller'[u].all = caller[u].all
        /\ \A v \in Callers \ {u} : caller'[v] = caller[v]
    BY <1>3 DEF Inv, ClientInv, CallTypes
  <2>2. Calls' = Calls
    BY <1>1, <2>1 DEF Calls, Waiting
  <2> QED
    BY <1>1, <2>2, Unseen
<1> QED
  BY <1>2, <1>3 DEF Check

LEMMA WokenRefines ==
    ASSUME Inv, NEW u \in Callers, Woken(u)
    PROVE  UNCHANGED Service!vars
<1>1. UNCHANGED <<desired, asked, alive, current>> /\ caller[u].pc = "await"
      /\ caller' = [caller EXCEPT ![u].pc = "check", ![u].woken = FALSE]
  BY DEF Woken, viewVars
<1>2. /\ caller'[u].pc = "check" /\ caller'[u].about = caller[u].about
      /\ caller'[u].all = caller[u].all
      /\ \A v \in Callers \ {u} : caller'[v] = caller[v]
  BY <1>1 DEF Inv, ClientInv, CallTypes
<1>3. Calls' = Calls
  BY <1>1, <1>2 DEF Calls, Waiting
<1> QED
  BY <1>1, <1>3, Unseen

LEMMA DeadlineRefines ==
    ASSUME Inv, NEW u \in Callers, Deadline(u)
    PROVE  Service!TimeOut(u)
<1>1. UNCHANGED <<desired, asked, alive, current>> /\ caller[u].pc = "await"
      /\ caller' = [caller EXCEPT ![u] = [Idle EXCEPT !.pc = "failed"]]
  BY DEF Deadline, viewVars
<1>2. caller'[u] = [Idle EXCEPT !.pc = "failed"] /\ \A v \in Callers \ {u} : caller'[v] = caller[v]
  BY <1>1 DEF Inv, ClientInv
<1>3. caller'[u].pc = "failed" /\ caller'[u].about = {} /\ caller'[u].all = {}
  BY <1>2 DEF Idle
<1>4. Calls' = [Calls EXCEPT ![u] = Service!Ended("failed")]
  BY <1>2, <1>3 DEF Calls, Waiting, Service!Ended
<1>5. Service!Waiting(u)
  BY <1>1 DEF Service!Waiting, Waiting
<1>6. Actual' = Actual
  BY <1>1 DEF Actual
<1> QED
  BY <1>1, <1>4, <1>5, <1>6 DEF Service!TimeOut, Calls

\* The end of a cycle wakes the callers, which the service does not see.
LEMMA CompleteCycleRefines ==
    ASSUME Inv, CompleteCycle
    PROVE  UNCHANGED Service!vars
<1>1. UNCHANGED <<desired, asked, alive, current>>
  BY DEF CompleteCycle, viewVars
<1>2. \A u \in Callers : /\ caller'[u].pc = caller[u].pc /\ caller'[u].about = caller[u].about
                         /\ caller'[u].all = caller[u].all
  BY DEF CompleteCycle, Inv, ClientInv, CallTypes
<1>3. Calls' = Calls
  BY <1>2 DEF Calls, Waiting
<1> QED
  BY <1>1, <1>3, Unseen

\* A confirmation is a gain of a channel that was asked for, or a loss.
LEMMA ReadPushRefines ==
    ASSUME Inv, NEW n \in Nodes, ReadPush(n)
    PROVE  Service!Gain \/ Service!Lose
<1>1. UNCHANGED <<desired, asked, alive, caller>>
  BY DEF ReadPush, clientVars
<1>2. PICK p \in AskedPushes(asked) :
         \/ p.op = "sub" /\ add_current_subscriptions(p.ch, n)
         \/ p.op = "unsub" /\ remove_current_subscriptions(p.ch, n)
         \/ p.op = "pong" /\ UNCHANGED current
  BY ReadPushFacts
<1>3. CASE p.op = "sub" /\ add_current_subscriptions(p.ch, n)
  <2>1. p.ch \in asked
    BY <1>3 DEF AskedPushes
  <2>2. current'[n] = current[n] \cup {p.ch} /\ \A m \in Nodes \ {n} : current'[m] = current[m]
    BY <1>3 DEF add_current_subscriptions, Inv, ViewInv
  <2>3. Actual' = Actual \cup {p.ch}
    BY <2>2 DEF Actual
  <2>4. Calls' = Calls
    BY <1>1 DEF Calls, Waiting
  <2> QED
    BY <1>1, <2>1, <2>3, <2>4 DEF Service!Gain, Calls
<1>4. CASE p.op = "unsub" /\ remove_current_subscriptions(p.ch, n)
  <2>1. \A m \in Nodes : current'[m] \subseteq current[m]
    BY <1>4 DEF remove_current_subscriptions
  <2> QED
    BY <1>1, <2>1, LoseRefines
<1>5. CASE p.op = "pong" /\ UNCHANGED current
  BY <1>1, <1>5, LoseRefines
<1> QED
  BY <1>2, <1>3, <1>4, <1>5

LEMMA SinkDroppedRefines ==
    ASSUME Inv, NEW n \in Nodes, SinkDropped(n)
    PROVE  Service!Lose
<1>1. UNCHANGED <<desired, asked, alive, caller>>
  BY DEF SinkDropped, clientVars
<1>2. \A m \in Nodes : current'[m] \subseteq current[m]
  BY DEF SinkDropped, Inv, ViewInv
<1> QED
  BY <1>1, <1>2, LoseRefines

LEMMA RefreshesRefine ==
    ASSUME Inv, TopologyRefresh \/ PartialRefresh
    PROVE  Service!Lose
<1>1. UNCHANGED <<desired, asked, alive, caller>>
  BY DEF TopologyRefresh, PartialRefresh, clientVars
<1>2. \A m \in Nodes : current'[m] \subseteq current[m]
  <2>1. \E newMap : current' = [n \in Nodes |-> current[n] \ Migrated(n, newMap)]
    BY DEF TopologyRefresh, PartialRefresh, handle_topology_refresh
  <2> QED
    BY <2>1
<1> QED
  BY <1>1, <1>2, LoseRefines

LEMMA DropClientRefines ==
    ASSUME Inv, DropClient
    PROVE  Service!Close
<1>1. UNCHANGED <<desired, asked, caller, current>> /\ alive /\ alive' = FALSE
      /\ \A u \in Callers : ~Waiting(u)
  BY DEF DropClient, viewVars
<1>2. Calls' = Calls /\ Actual' = Actual
  BY <1>1 DEF Calls, Waiting, Actual
<1>3. \A u \in Callers : Calls[u].state # "waiting"
  <2> SUFFICES ASSUME NEW u \in Callers PROVE Calls[u].state # "waiting"
    OBVIOUS
  <2>1. caller[u].pc \in {"idle", "failed"}
    BY <1>1 DEF Waiting, Inv, ClientInv, CallTypes
  <2> QED
    BY <2>1 DEF Calls, Waiting
<1> QED
  BY <1>1, <1>2, <1>3 DEF Service!Close, Service!Waiting, Calls

LEMMA StepRefines ==
    ASSUME Inv, [Next]_vars
    PROVE  [Service!Next]_(Service!vars)
<1>0. ASSUME UNCHANGED <<desired, asked, alive, caller, current>>
      PROVE  UNCHANGED Service!vars
  <2>1. Calls' = Calls
    BY <1>0 DEF Calls, Waiting
  <2> QED
    BY <1>0, <2>1, Unseen
<1>1. CASE UNCHANGED vars
  BY <1>0, <1>1 DEF vars, clientVars, viewVars
<1>2. CASE LazyCall
  BY <1>2, LazyCallRefines DEF Service!Next
<1>3. ASSUME NEW u \in Callers, BlockingCall(u) \/ CallerStep(u) \/ Deadline(u)
      PROVE  [Service!Next]_(Service!vars)
  BY <1>3, BlockingCallRefines, CheckRefines, WokenRefines, DeadlineRefines
     DEF CallerStep, Service!Next
<1>4. CASE TaskStep
  <2>1. CASE StartCycle \/ ComputeDiff \/ \E k \in task.todo : Issue(k) \/ IssueFails(k)
    <3>1. UNCHANGED <<desired, asked, alive, caller, current>>
      BY <2>1 DEF StartCycle, ComputeDiff, Issue, IssueFails, clientVars, viewVars
    <3> QED
      BY <1>0, <3>1
  <2> QED
    BY <1>4, <2>1, CompleteCycleRefines DEF TaskStep, CommandStep
<1>5. CASE CommandTimesOut
  BY <1>0, <1>5 DEF CommandTimesOut, clientVars, viewVars
<1>6. ASSUME NEW n \in Nodes, ReadPush(n) \/ Message(n) \/ Break(n) \/ SinkDropped(n)
      PROVE  [Service!Next]_(Service!vars)
  <2>1. CASE Message(n) \/ Break(n)
    BY <1>0, <2>1 DEF Message, Break, clientVars, viewVars
  <2> QED
    BY <1>6, <2>1, ReadPushRefines, SinkDroppedRefines DEF Service!Next
<1>7. CASE \E c \in deployment.inUse, n \in Nodes : MoveSlot(c, n)
  BY <1>0, <1>7 DEF MoveSlot, clientVars, viewVars
<1>8. CASE \E n, heir \in Nodes : NodeLeaves(n, heir)
  BY <1>0, <1>8 DEF NodeLeaves, clientVars, viewVars
<1>9. CASE TopologyRefresh \/ PartialRefresh
  BY <1>9, RefreshesRefine DEF Service!Next
<1>10. CASE DropClient
  BY <1>10, DropClientRefines DEF Service!Next
<1> QED
  BY <1>1, <1>2, <1>3, <1>4, <1>5, <1>6, <1>7, <1>8, <1>9, <1>10 DEF Next

\* The synchronizer does what SubscriptionService allows and nothing else:
\* GET_SUBSCRIPTIONS never reports a channel nobody asked for, a blocking call
\* returns success only at a moment when its channels are in step, and what is
\* desired changes only through the API.
THEOREM RefinesService == Spec => Service!Safety
<1>1. Init => Service!Init
  BY InitRefines
<1>2. Inv /\ [Next]_vars => [Service!Next]_(Service!vars)
  BY StepRefines
<1> QED
  BY <1>1, <1>2, SynchronizerInvariant, PTL DEF Spec, Service!Safety
=============================================================================
