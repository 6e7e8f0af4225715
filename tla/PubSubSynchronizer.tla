------------------------- MODULE PubSubSynchronizer -------------------------
(***************************************************************************)
(* The pub/sub synchronizer of a client (glide-core/src/pubsub/             *)
(* synchronizer.rs) with the push manager that feeds it (redis-rs           *)
(* push_manager.rs), the end of a connection (PipelineSink's drop in         *)
(* multiplexed_connection.rs) and the topology refresh (cluster_async).     *)
(*                                                                         *)
(* API calls change `desired`; a background task compares it with          *)
(* `current`, which only pushes of the server change, and issues            *)
(* SUBSCRIBE and UNSUBSCRIBE commands one after the other.  Commands fail  *)
(* or time out and are confirmed late, connections break, slots move.      *)
(*                                                                         *)
(* Pattern subscriptions take the same branches as exact ones and are not  *)
(* kept apart; every channel stands for a slot of its own.                 *)
(***************************************************************************)
EXTENDS Naturals, FiniteSets, Sequences, SequencesExt

CONSTANTS
    Exact, Sharded,   \* channels of the two kinds
    Nodes, NoNode,
    Callers,          \* tasks that make blocking calls
    Anywhere,         \* a command that is routed by its channel
    Deployments,      \* the deployments of a run: cluster, replicas, inUse, events
    MaxChanges,       \* bound: API calls that change desired
    MaxFaults,        \* bound: commands that fail or time out, and partial slot maps
    MaxBreaks,        \* bound: connections that break
    MaxMoves          \* bound: changes of the topology

Channels == Exact \cup Sharded

ASSUME KindsAssumption == Exact \cap Sharded = {} /\ IsFiniteSet(Exact) /\ IsFiniteSet(Sharded)

ASSUME DeploymentsAssumption ==
    /\ Nodes # {}
    /\ \A d \in Deployments : d.inUse \subseteq Channels

Kinds == {Exact, Sharded}

VARIABLES
    deployment, \* is_cluster, read_from_replicas, the channels the application uses, and
                \* the bound on changes, faults, breaks and moves together
    desired,    \* desired_subscriptions
    current,    \* current_subscriptions_by_address
    pending,    \* pending_unsubscribes
    permit,     \* the stored permit of reconciliation_notify
    task,       \* reconciliation task: pc, commands to issue, replies it awaits
    caller,     \* wait_for_sync of each caller
    alive,      \* the client and with it the strong references exist
    server,     \* per node: the subscriptions of the client's connection
    pushes,     \* per node: pushes sent and not yet read
    closing,    \* per node: an old connection whose PipelineSink is not yet dropped
    home,       \* the node that owns each channel's slot
    members,    \* nodes of the cluster
    slotMap,    \* the slot map of the client
    asked,      \* history: channels that were ever desired
    used        \* how much of each bound is used up

clientVars == <<desired, asked, caller, alive>>
viewVars == <<current, pending, permit>>
worldVars == <<server, pushes, closing, home, members, slotMap>>
vars == <<deployment, clientVars, viewVars, task, worldVars, used>>

-----------------------------------------------------------------------------
(* Subscriptions and their differences *)

\* compute_actual_subscriptions
Actual == UNION {current[n] : n \in Nodes}

\* Mutant of Group: no test for an empty set of channels.
GroupEmpty(op, S, n) ==
    {[op |-> op, chans |-> {c}, to |-> n] : c \in S \cap Sharded}
    \cup {[op |-> op, chans |-> S \cap Exact, to |-> n]}

\* Commands are grouped by kind; a sharded unsubscribe by slot
\* (execute_sharded_unsubscribe_by_slot), a subscribe in a cluster by the slot
\* of its channel (multi-shard routing).
Group(op, S, n) ==
    {[op |-> op, chans |-> {c}, to |-> n] : c \in S \cap Sharded}
    \cup IF op = "sub" /\ deployment.cluster
            THEN {[op |-> op, chans |-> {c}, to |-> n] : c \in S \cap Exact}
            ELSE {[op |-> op, chans |-> S \cap Exact, to |-> n]} \ 
                    {[op |-> op, chans |-> {}, to |-> n]}

Unsubscribes(byAddress) == UNION {Group("unsub", byAddress[n], n) : n \in Nodes}

\* compute_sync_diff, as the commands reconcile issues for it
ToSubscribe == desired \ Actual
ToUnsubscribe == [n \in Nodes |-> current[n] \ desired]
compute_sync_diff == Group("sub", ToSubscribe, Anywhere) \cup Unsubscribes(ToUnsubscribe)

-----------------------------------------------------------------------------
(* Initial state *)

\* A caller and the call it makes: the channels it named, or all of a kind.
Waiting(u) == caller[u].pc \in {"check", "await"}
Idle == [pc |-> "idle", about |-> {}, all |-> {}, woken |-> FALSE]

NoWork == [pc |-> "select", todo |-> {}, awaits |-> {}]

Init ==
    /\ deployment \in Deployments
    /\ desired \in {{}, deployment.inUse}
    /\ asked = desired
    /\ current = [n \in Nodes |-> {}]
    /\ pending = [n \in Nodes |-> {}]
    /\ permit = TRUE
    /\ task = NoWork
    /\ caller = [u \in Callers |-> Idle]
    /\ alive = TRUE
    /\ server = [n \in Nodes |-> {}]
    /\ pushes = [n \in Nodes |-> <<>>]
    /\ closing = [n \in Nodes |-> FALSE]
    /\ home \in [Channels -> {CHOOSE n \in Nodes : TRUE}]
    /\ members = Nodes
    /\ slotMap = home
    /\ used = [changes |-> 0, faults |-> 0, breaks |-> 0, moves |-> 0]

Bound == [changes |-> MaxChanges, faults |-> MaxFaults, breaks |-> MaxBreaks, moves |-> MaxMoves]

\* One more event of a kind, within the bounds.
Spend(b) ==
    /\ used[b] < Bound[b]
    /\ used.changes + used.faults + used.breaks + used.moves < deployment.events
    /\ used' = [used EXCEPT ![b] = @ + 1]

-----------------------------------------------------------------------------
(* API calls *)

\* add_desired_subscriptions, remove_desired_subscriptions: the last argument
\* of an unsubscribe may be missing, which removes a whole kind.
add_desired_subscriptions(S) ==
    /\ S # {}
    /\ desired' = desired \cup S
    /\ asked' = asked \cup S
    /\ permit' = TRUE

remove_desired_subscriptions(S, kind) ==
    /\ desired' = desired \ (IF S = {} THEN kind ELSE S)
    /\ asked' = asked
    /\ permit' = TRUE

KindsInUse == {K \cap deployment.inUse : K \in Kinds} \ {{}}

Requests(S, kind) ==
    \/ add_desired_subscriptions(S)
    \/ remove_desired_subscriptions(S, kind)

\* handle_lazy_subscription
LazyCall ==
    /\ alive
    /\ Spend("changes")
    /\ \E kind \in KindsInUse : \E S \in SUBSET kind : Requests(S, kind)
    /\ UNCHANGED <<deployment, current, pending, task, caller, alive, worldVars>>

\* handle_blocking_subscription up to the loop of wait_for_sync, whose Notified
\* future exists before anything is looked at: a cycle that completes from here
\* on wakes the caller.
BlockingCall(u) ==
    /\ alive
    /\ caller[u].pc \in {"idle", "failed"}
    /\ Spend("changes")
    /\ \E kind \in KindsInUse : \E S \in SUBSET kind :
         /\ Requests(S, kind)
         /\ caller' = [caller EXCEPT ![u] =
                [Idle EXCEPT !.pc = "check", !.about = S, !.all = IF S = {} THEN kind ELSE {}]]
    /\ UNCHANGED <<deployment, current, pending, task, alive, worldVars>>

\* Mutant of ConditionMet: the request counts, not its confirmation.
MetByRequest(u) == caller[u].all \cap desired = {}

\* is_synced_for_channels
ConditionMet(u) ==
    LET w == caller[u] IN
    IF w.all # {}
        THEN w.all \cap desired = {} /\ w.all \cap Actual = {}
        ELSE \A c \in w.about : c \in desired <=> c \in Actual

\* One turn of the loop: success, or trigger_reconciliation and wait.
Check(u) ==
    /\ caller[u].pc = "check"
    /\ \/ /\ ConditionMet(u)
          /\ caller' = [caller EXCEPT ![u] = Idle]
          /\ UNCHANGED permit
       \/ /\ ~ConditionMet(u)
          /\ caller' = [caller EXCEPT ![u].pc = "await"]
          /\ permit' = TRUE
    /\ UNCHANGED <<deployment, desired, asked, alive, current, pending, task, worldVars, used>>

Woken(u) ==
    /\ caller[u].pc = "await"
    /\ caller[u].woken
    /\ caller' = [caller EXCEPT ![u].pc = "check", ![u].woken = FALSE]
    /\ UNCHANGED <<deployment, desired, asked, alive, viewVars, task, worldVars, used>>

\* The deadline passes.  A call without timeout is one whose deadline never does.
Deadline(u) ==
    /\ caller[u].pc = "await"
    /\ caller' = [caller EXCEPT ![u] = [Idle EXCEPT !.pc = "failed"]]
    /\ UNCHANGED <<deployment, desired, asked, alive, viewVars, task, worldVars, used>>

-----------------------------------------------------------------------------
(* The reconciliation task *)

\* The select: a stored permit or the interval.  process_pending_unsubscribes
\* takes the map before the first command.
StartCycle ==
    /\ task.pc = "select"
    /\ permit' = FALSE
    /\ task' = [task EXCEPT !.pc = "pending", !.todo = Unsubscribes(pending)]
    /\ pending' = [n \in Nodes |-> {}]
    /\ UNCHANGED <<deployment, current, clientVars, worldVars, used>>

Ready == task.todo = {} /\ task.awaits = {}

ComputeDiff ==
    /\ task.pc = "pending"
    /\ Ready
    /\ task' = [task EXCEPT !.pc = "apply", !.todo = compute_sync_diff]
    /\ UNCHANGED <<deployment, viewVars, clientVars, worldVars, used>>

\* Mutant of CompleteCycle: the task holds a strong reference.
CompleteStrong ==
    /\ task.pc = "apply"
    /\ Ready
    /\ task' = [task EXCEPT !.pc = "select"]
    /\ caller' = [u \in Callers |->
                    IF Waiting(u) THEN [caller[u] EXCEPT !.woken = TRUE] ELSE caller[u]]
    /\ UNCHANGED <<deployment, desired, asked, alive, viewVars, worldVars, used>>

\* reconciliation_complete_notify.notify_waiters, then the loop looks whether
\* the synchronizer is still referenced.
CompleteCycle ==
    /\ task.pc = "apply"
    /\ Ready
    /\ task' = [task EXCEPT !.pc = IF alive THEN "select" ELSE "ended"]
    /\ caller' = [u \in Callers |->
                    IF Waiting(u) THEN [caller[u] EXCEPT !.woken = TRUE] ELSE caller[u]]
    /\ UNCHANGED <<deployment, desired, asked, alive, viewVars, worldVars, used>>

\* Subscribes are issued before unsubscribes, otherwise in any order.
Issuable(k) ==
    /\ task.awaits = {}
    /\ k \in task.todo
    /\ k.op = "unsub" => \A other \in task.todo : other.op = "unsub"

\* The nodes a command reaches (apply_pubsub_command, multi-shard routing).  An
\* unsubscribe goes to the address it was held at, with a standalone client to
\* all nodes.  A subscribe counts as a read-only command: the primary of the
\* slot, any node when replicas serve reads or the slot is not mapped.  Sharded
\* commands follow a redirection to the owner of the slot.
Serving(c) == IF deployment.replicas \/ slotMap[c] = NoNode THEN members ELSE {slotMap[c]}

Routes(k) ==
    IF k.op = "unsub"
        THEN IF ~deployment.cluster THEN {members}
             ELSE {{k.to}} \cup {{home[c]} : c \in k.chans \cap Sharded}
        ELSE IF k.chans \subseteq Sharded THEN {{home[c]} : c \in k.chans}
             ELSE {{n} : n \in UNION {Serving(c) : c \in k.chans}}

\* The pushes a node answers a command with.  The command completes on the
\* first of them, a sharded unsubscribe on the PONG of its fence.
Answers(k) ==
    LET push(c) == [op |-> k.op, ch |-> c, reply |-> FALSE]
        seq == SetToSeq({push(c) : c \in k.chans})
    IN  IF k.op = "unsub" /\ k.chans \subseteq Sharded
            THEN Append(seq, [op |-> "pong", ch |-> CHOOSE c \in k.chans : TRUE, reply |-> TRUE])
            ELSE [seq EXCEPT ![1].reply = TRUE]

\* execute_subscription_change: the command reaches its nodes and is executed.
Issue(k) ==
    /\ alive
    /\ Issuable(k)
    /\ \E R \in Routes(k) :
         /\ R \subseteq members
         /\ server' = [n \in Nodes |->
                IF n \notin R THEN server[n]
                ELSE IF k.op = "sub" THEN server[n] \cup k.chans ELSE server[n] \ k.chans]
         /\ pushes' = [n \in Nodes |-> IF n \in R THEN pushes[n] \o Answers(k) ELSE pushes[n]]
         /\ task' = [task EXCEPT !.todo = @ \ {k}, !.awaits = R]
    /\ UNCHANGED <<deployment, viewVars, clientVars, closing, home, members, slotMap, used>>

\* The command is not executed: its node is gone, the connection refuses it or
\* the client was dropped.  The error is only logged.
IssueFails(k) ==
    /\ Issuable(k)
    /\ \/ ~alive /\ UNCHANGED used
       \/ (\E R \in Routes(k) : ~(R \subseteq members)) /\ UNCHANGED used
       \/ Spend("faults")
    /\ task' = [task EXCEPT !.todo = @ \ {k}]
    /\ UNCHANGED <<deployment, viewVars, clientVars, worldVars>>

Unanswered(s) == [i \in DOMAIN s |-> [s[i] EXCEPT !.reply = FALSE]]

\* The request timeout passes before the answer is read; it will still be read.
CommandTimesOut ==
    /\ task.awaits # {}
    /\ Spend("faults")
    /\ task' = [task EXCEPT !.awaits = {}]
    /\ pushes' = [n \in Nodes |-> Unanswered(pushes[n])]
    /\ UNCHANGED <<deployment, viewVars, clientVars, server, closing, home, members, slotMap>>

-----------------------------------------------------------------------------
(* Pushes: PushManager.handle_pubsub_push *)

add_current_subscriptions(c, n) == current' = [current EXCEPT ![n] = @ \cup {c}]

\* Only the given address for a sharded channel, every address for others.
remove_current_subscriptions(c, n) ==
    current' = [m \in Nodes |->
                    IF m = n \/ c \notin Sharded THEN current[m] \ {c} ELSE current[m]]

ReadPush(n) ==
    /\ pushes[n] # <<>>
    /\ LET p == Head(pushes[n]) IN
         /\ \/ p.op = "sub" /\ add_current_subscriptions(p.ch, n)
            \/ p.op = "unsub" /\ remove_current_subscriptions(p.ch, n)
            \/ p.op = "pong" /\ UNCHANGED current
         /\ task' = [task EXCEPT !.awaits = IF p.reply THEN @ \ {n} ELSE @]
    /\ pushes' = [pushes EXCEPT ![n] = Tail(@)]
    /\ UNCHANGED <<deployment, pending, permit, clientVars, server, closing, home, members, slotMap, used>>

\* Somebody publishes on a channel whose subscription the client lost track of:
\* a message counts as a confirmation.
Message(n) ==
    /\ pushes[n] = <<>>
    /\ \E c \in server[n] \ current[n] :
         pushes' = [pushes EXCEPT ![n] = <<[op |-> "sub", ch |-> c, reply |-> FALSE]>>]
    /\ UNCHANGED <<deployment, viewVars, task, clientVars, server, closing, home, members, slotMap, used>>

-----------------------------------------------------------------------------
(* Connections and topology *)

\* A connection breaks; the next command finds a new one.  What the old one
\* had not delivered is lost, and its sink is dropped some time later.
Close(n) ==
    /\ server' = [server EXCEPT ![n] = {}]
    /\ pushes' = [pushes EXCEPT ![n] = <<>>]
    /\ closing' = [closing EXCEPT ![n] = TRUE]
    /\ task' = [task EXCEPT !.awaits = @ \ {n}]

Break(n) ==
    /\ alive
    /\ n \in members
    /\ Spend("breaks")
    /\ Close(n)
    /\ UNCHANGED <<deployment, viewVars, clientVars, home, members, slotMap>>

\* Mutant of SinkDropped: the entries of the old connection stay.
SinkKeepsEntries(n) ==
    /\ closing[n]
    /\ closing' = [closing EXCEPT ![n] = FALSE]
    /\ permit' = TRUE
    /\ UNCHANGED <<deployment, current, pending, task, clientVars, server, pushes, home,
                   members, slotMap, used>>

\* PipelineSink's drop: remove_current_subscriptions_for_addresses
SinkDropped(n) ==
    /\ closing[n]
    /\ closing' = [closing EXCEPT ![n] = FALSE]
    /\ current' = [current EXCEPT ![n] = {}]
    /\ permit' = TRUE
    /\ UNCHANGED <<deployment, pending, task, clientVars, server, pushes, home, members, slotMap, used>>

\* A slot moves.  The old owner ends sharded subscriptions by itself.
MoveSlot(c, n) ==
    /\ alive
    /\ deployment.cluster
    /\ Spend("moves")
    /\ n \in members \ {home[c]}
    /\ home' = [home EXCEPT ![c] = n]
    /\ IF c \in Sharded /\ c \in server[home[c]]
         THEN /\ server' = [server EXCEPT ![home[c]] = @ \ {c}]
              /\ pushes' = [pushes EXCEPT ![home[c]] =
                                Append(@, [op |-> "unsub", ch |-> c, reply |-> FALSE])]
         ELSE UNCHANGED <<server, pushes>>
    /\ UNCHANGED <<deployment, viewVars, task, clientVars, closing, members, slotMap>>

\* A node leaves the cluster and another one takes over its slots.
NodeLeaves(n, heir) ==
    /\ alive
    /\ deployment.cluster
    /\ Spend("moves")
    /\ {n, heir} \subseteq members
    /\ n # heir
    /\ \E c \in Channels : home[c] = n
    /\ members' = members \ {n}
    /\ home' = [c \in Channels |-> IF home[c] = n THEN heir ELSE home[c]]
    /\ Close(n)
    /\ UNCHANGED <<deployment, viewVars, clientVars, slotMap>>

\* handle_topology_refresh: what is held by a node that left, or by a node that
\* is not the primary of the channel's slot, is forgotten and queued to be
\* unsubscribed there.
Migrated(n, newMap) ==
    IF n \notin members THEN current[n] ELSE {c \in current[n] : newMap[c] # n}

\* Mutant of handle_topology_refresh: nothing is queued for the old addresses.
ForgetWithoutQueue(newMap) ==
    /\ current' = [n \in Nodes |-> current[n] \ Migrated(n, newMap)]
    /\ permit' = (permit \/ \E n \in Nodes : Migrated(n, newMap) # {})
    /\ slotMap' = newMap
    /\ UNCHANGED pending

handle_topology_refresh(newMap) ==
    /\ current' = [n \in Nodes |-> current[n] \ Migrated(n, newMap)]
    /\ pending' = [n \in Nodes |-> pending[n] \cup Migrated(n, newMap)]
    /\ permit' = (permit \/ \E n \in Nodes : Migrated(n, newMap) # {})
    /\ slotMap' = newMap

\* refresh_slots installs a new map, which may lack slots.
TopologyRefresh ==
    /\ deployment.cluster
    /\ slotMap # home
    /\ handle_topology_refresh(home)
    /\ UNCHANGED <<deployment, task, clientVars, server, pushes, closing, home, members, used>>

PartialRefresh ==
    /\ alive
    /\ deployment.cluster
    /\ Spend("faults")
    /\ \E c \in deployment.inUse : handle_topology_refresh([home EXCEPT ![c] = NoNode])
    /\ UNCHANGED <<deployment, task, clientVars, server, pushes, closing, home, members>>

\* The client is dropped, with its connections; no call is running.
DropClient ==
    /\ alive
    /\ \A u \in Callers : ~Waiting(u)
    /\ alive' = FALSE
    /\ server' = [n \in Nodes |-> {}]
    /\ pushes' = [n \in Nodes |-> <<>>]
    /\ closing' = [n \in Nodes |-> FALSE]
    /\ task' = [task EXCEPT !.awaits = {}]
    /\ slotMap' = home
    /\ UNCHANGED <<deployment, desired, asked, caller, viewVars, home, members, used>>

-----------------------------------------------------------------------------
CallerStep(u) == Check(u) \/ Woken(u)
CommandStep == \E k \in task.todo : Issue(k) \/ IssueFails(k)
TaskStep == StartCycle \/ ComputeDiff \/ CompleteCycle \/ CommandStep

Next ==
    \/ LazyCall
    \/ \E u \in Callers : BlockingCall(u) \/ CallerStep(u) \/ Deadline(u)
    \/ TaskStep
    \/ CommandTimesOut
    \/ \E n \in Nodes : ReadPush(n) \/ Message(n) \/ Break(n) \/ SinkDropped(n)
    \/ \E c \in deployment.inUse, n \in Nodes : MoveSlot(c, n)
    \/ \E n, heir \in Nodes : NodeLeaves(n, heir)
    \/ TopologyRefresh
    \/ PartialRefresh
    \/ DropClient

Spec == Init /\ [][Next]_vars

\* The executor runs callers and the task; every connection is read, a broken
\* one is dropped, the periodic check refreshes a stale map, and a subscription
\* that was lost track of receives a message some day.
FairSpec ==
    /\ Spec
    /\ WF_vars(TaskStep)
    /\ WF_vars(\E u \in Callers : CallerStep(u))
    /\ \A n \in Nodes : WF_vars(ReadPush(n) \/ Message(n)) /\ WF_vars(SinkDropped(n))
    /\ WF_vars(TopologyRefresh)

-----------------------------------------------------------------------------
(* Properties *)

Commands == [op : {"sub", "unsub"}, chans : (SUBSET Channels) \ {{}}, to : Nodes \cup {Anywhere}]
Pushes == [op : {"sub", "unsub", "pong"}, ch : Channels, reply : BOOLEAN]

\* Every variable has its type; no command is issued without channels.
TypeOK ==
    /\ deployment \in Deployments
    /\ desired \subseteq asked /\ asked \subseteq Channels
    /\ current \in [Nodes -> SUBSET Channels]
    /\ pending \in [Nodes -> SUBSET Channels]
    /\ permit \in BOOLEAN
    /\ task.pc \in {"select", "pending", "apply", "ended"}
    /\ task.todo \subseteq Commands
    /\ task.awaits \subseteq Nodes
    /\ \A u \in Callers :
         /\ caller[u].pc \in {"idle", "check", "await", "failed"}
         /\ caller[u].about \subseteq Channels
    /\ alive \in BOOLEAN
    /\ server \in [Nodes -> SUBSET Channels]
    /\ \A n \in Nodes : Range(pushes[n]) \subseteq Pushes
    /\ closing \in [Nodes -> BOOLEAN]
    /\ home \in [Channels -> Nodes]
    /\ members \subseteq Nodes
    /\ slotMap \in [Channels -> Nodes \cup {NoNode}]

\* SubscriptionService with the addresses forgotten.
Service == INSTANCE SubscriptionService WITH
    actual <- Actual,
    calls <- [u \in Callers |->
                [state |-> IF Waiting(u) THEN "waiting" ELSE caller[u].pc,
                 about |-> caller[u].about, all |-> caller[u].all]]

\* The synchronizer implements the service: subscriptions appear only for
\* channels that were asked for, a blocking call succeeds only at a moment when
\* its channels are in step, and in the end a living client has what it wants.
ImplementsService == Service!Spec

\* What the servers deliver settles as well: in the end exactly the desired
\* channels are subscribed, sharded ones at the owner of their slot, although
\* confirmations were lost, read late or erased by the drop of an old sink.
ServersSettle ==
    <>[](alive => /\ UNION {server[n] : n \in Nodes} = desired
                  /\ \A n \in Nodes, c \in Sharded : c \in server[n] => home[c] = n)

\* After one change of the topology (no command failed, no connection broke,
\* replicas do not serve) no channel stays subscribed at two nodes, where every
\* message would arrive twice.  (A second change can leave one: the confirmation
\* of an unsubscribe erases the channel at every address, also where it has been
\* subscribed meanwhile.)
Undisturbed == used.faults + used.breaks = 0 /\ used.moves <= 1 /\ ~deployment.replicas

NoDoubleDelivery ==
    <>[](alive /\ Undisturbed =>
            \A c \in Channels : Cardinality({n \in Nodes : c \in server[n]}) <= 1)

\* The task ends once the client is dropped: it holds only a weak reference.
TaskEnds == ~alive ~> task.pc = "ended"
=============================================================================
