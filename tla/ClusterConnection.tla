-------------------------- MODULE ClusterConnection -------------------------
(***************************************************************************)
(* The cluster connection (cluster_async/mod.rs and                        *)
(* connections_container.rs): requests in flight, their redirections and   *)
(* retries, the three ways of recovering (reconnecting to nodes, a slot    *)
(* refresh, the initial nodes) with the queue that holds requests          *)
(* meanwhile, and the background tasks that reconnect a single address.    *)
(*                                                                         *)
(* One task, the driver, polls the requests in flight (poll_complete) and  *)
(* the recovery (poll_recover); while it recovers it polls no request.     *)
(* Everything else is spawned: the recovery itself, the reconnect task of  *)
(* an address, the periodic topology check and the connection validation.  *)
(* They share the container behind conn_lock.  On a runtime with one       *)
(* worker thread a task is interrupted only where it awaits; with two, a   *)
(* task of another thread may run between any two locked sections.         *)
(*                                                                         *)
(* Requests are for one slot and one node; SlotMap models the ranges, and  *)
(* MultiplexedConnection what a connection does with a request.            *)
(***************************************************************************)
EXTENDS Integers, Sequences, FiniteSets

CONSTANTS
    Requests,
    Nodes,
    NoNode,
    Tasks,      \* identities of reconnect tasks and their notifiers
    NoTask,
    Retries,    \* number_of_retries
    Cap,        \* recovery_requests_queue_size
    Faults,     \* the replies other than a value and MOVED
    Scenarios   \* worker threads, and how often callers, network and cluster act

Redirections == {"ask", "circular"}
Refusals == {"tryAgain", "loading", "readOnly", "error"}

Events == {"submit", "break", "back", "migrate", "refuse", "giveUp", "elapse", "unmanaged",
           "ioError"}

ASSUME ClusterAssumption ==
    /\ Retries \in Nat /\ Cap \in Nat
    /\ Scenarios \subseteq [threads : {1, 2}, events : [Events -> Nat]]
    /\ Tasks \subseteq Nat /\ NoTask \notin Tasks
    /\ Nodes # {} /\ NoNode \notin Nodes
    /\ Faults \subseteq Redirections \cup Refusals

VARIABLES
    threads,
    req,        \* the requests
    channel,    \* pending_requests
    queue,      \* recovery_queue
    driver,     \* ConnectionState, the action poll_complete has gathered,
                \* refresh_error
    refresher,  \* who holds topology_refresh_lock, and how far it is
    recent,     \* a slot refresh ran within the rate limit
    map,        \* the node the slot map gives the slot
    hash,       \* the topology the container was built from
    conns,      \* connection_map
    entry,      \* refresh_address_in_progress
    tasks,      \* the reconnect tasks
    owner, up,  \* the cluster: who owns the slot, which nodes accept connections
    events      \* how often each kind of event may still happen

container == <<map, hash, conns, entry, tasks>>
cluster == <<owner, up, events>>
vars == <<threads, req, channel, queue, driver, refresher, recent, container, cluster>>

-----------------------------------------------------------------------------
(* Requests. *)

Fresh == [pc |-> "new", retry |-> 0, route |-> "slot", at |-> NoNode, to |-> NoNode,
          task |-> NoTask, reply |-> "none", result |-> "none", runs |-> 0, ioErrors |-> 0,
          closed |-> FALSE]

InFlight(r) == req[r].pc \in {"start", "took", "wait", "woken", "sent", "sleep", "update"}

\* respond, and a request whose sender is dropped without an answer.
Ended(q, result) ==
    [q EXCEPT !.pc = "done", !.result = IF q.closed THEN @ ELSE result,
              !.route = "slot", !.at = NoNode, !.to = NoNode, !.task = NoTask, !.reply = "none"]

\* reset_routing: back to the route the request had before it was redirected.
Reset(q) == [q EXCEPT !.route = "slot", !.at = NoNode, !.to = NoNode, !.reply = "none",
                      !.task = NoTask]

Queued(q) == [Reset(q) EXCEPT !.pc = "queued"]

EndAll(rs, result) == [r \in Requests |-> IF r \in rs THEN Ended(req[r], result) ELSE req[r]]

Elements(s) == {s[i] : i \in DOMAIN s}

-----------------------------------------------------------------------------
(* Reconnect tasks and their notifiers. *)

\* kept: the user connection a task that renews a management connection
\* takes out of the container and puts back.
Free == [pc |-> "free", node |-> NoNode, status |-> "done", aborted |-> FALSE, kept |-> "none"]

FreeTasks == {t \in Tasks : tasks[t] = Free /\ \A r \in Requests : req[r].task # t}

\* notify_waiters wakes the tasks that already wait, and no others.
Notified(q, ts) ==
    [r \in Requests |-> IF q[r].pc = "wait" /\ q[r].task \in ts
                        THEN [q[r] EXCEPT !.pc = "woken", !.task = NoTask] ELSE q[r]]

\* Mutant of HasNotifier: also of a task that has failed before.
NotifierOfAny(entries, ts, n) == entries[n] # NoTask

\* The notifier of an address, handed out while its task is Reconnecting.
HasNotifier(entries, ts, n) ==
    entries[n] # NoTask /\ ts[entries[n]].status = "reconnecting"

\* trigger_refresh_connection_tasks: a task for each address that has none.
Untended(ns) == {n \in ns : entry[n] = NoTask}

Assignments(ns) ==
    {f \in [Untended(ns) -> FreeTasks] : \A m, n \in Untended(ns) : m # n => f[m] # f[n]}

Triggered(ns) == CHOOSE f \in Assignments(ns) : TRUE

EntriesAfter(ns) ==
    [n \in Nodes |-> IF n \in Untended(ns) THEN Triggered(ns)[n] ELSE entry[n]]

NewTask(n, keep) ==
    [pc |-> "dial", node |-> n, status |-> "reconnecting", aborted |-> FALSE,
     kept |-> IF keep THEN conns[n] ELSE "none"]

TasksAfter(ns, keep) ==
    [t \in Tasks |->
        IF \E n \in Untended(ns) : Triggered(ns)[n] = t
        THEN NewTask(CHOOSE n \in Untended(ns) : Triggered(ns)[n] = t, keep)
        ELSE tasks[t]]

trigger_refresh_connection_tasks(ns, keep) ==
    /\ Assignments(ns) # {}
    /\ entry' = EntriesAfter(ns)
    /\ tasks' = TasksAfter(ns, keep)
    /\ conns' = [n \in Nodes |-> IF n \in Untended(ns) THEN "none" ELSE conns[n]]

\* A task on another thread may be between two locked sections; on a single
\* thread nothing else runs then.
InSection(t) == tasks[t].pc \in {"connected", "installed"}

Undisturbed ==
    threads = 1 => /\ \A t \in Tasks : ~InSection(t)
                   /\ refresher.who # "validation"
                   /\ \A r \in Requests : req[r].pc # "took"

\* Mutant of IsCurrent: any task of the address counts.
AnyGeneration(t) == entry[tasks[t].node] # NoTask

\* is_same_generation
IsCurrent(t) == entry[tasks[t].node] = t

\* An attempt for a new user connection needs the node; one that has a user
\* connection already goes on with it, with a management connection or
\* without.
Attainable(t) == up[tasks[t].node] \/ tasks[t].kept # "none"

\* An attempt fails: the first one flips the status and wakes the waiters.
\* Later ones change nothing.
DialFails(t) ==
    /\ Undisturbed
    /\ tasks[t].pc = "dial" /\ ~tasks[t].aborted /\ ~Attainable(t)
    /\ tasks[t].status = "reconnecting" /\ IsCurrent(t)
    /\ tasks' = [tasks EXCEPT ![t].status = "tooLong"]
    /\ req' = Notified(req, {t})
    /\ UNCHANGED <<threads, channel, queue, driver, refresher, recent, map, hash, conns, entry,
                   cluster>>

DialSucceeds(t) ==
    /\ Undisturbed
    /\ tasks[t].pc = "dial" /\ ~tasks[t].aborted /\ Attainable(t)
    /\ tasks' = [tasks EXCEPT ![t].pc = "connected"]
    /\ UNCHANGED <<threads, req, channel, queue, driver, refresher, recent, map, hash, conns,
                   entry, cluster>>

\* An aborted task ends at its next await.
Aborted(t) ==
    /\ Undisturbed
    /\ tasks[t].pc = "dial" /\ tasks[t].aborted
    /\ tasks' = [tasks EXCEPT ![t] = Free]
    /\ UNCHANGED <<threads, req, channel, queue, driver, refresher, recent, map, hash, conns,
                   entry, cluster>>

\* The connection goes into the container under the read lock, if the task
\* is still the one of its address.
Obtained(t) ==
    IF tasks[t].kept # "none" THEN tasks[t].kept
    ELSE IF up[tasks[t].node] THEN "open" ELSE "closed"

Install(t) ==
    /\ tasks[t].pc = "connected"
    /\ tasks' = [tasks EXCEPT ![t].pc = "installed"]
    /\ conns' = IF IsCurrent(t) THEN [conns EXCEPT ![tasks[t].node] = Obtained(t)] ELSE conns
    /\ UNCHANGED <<threads, req, channel, queue, driver, refresher, recent, map, hash, entry,
                   cluster>>

\* ... and the entry is removed under the write lock: dropping it wakes the
\* waiters and aborts the task it belongs to.
Drops(t) == {entry[tasks[t].node]} \ {NoTask}

Remove(t) ==
    /\ tasks[t].pc = "installed"
    /\ LET n == tasks[t].node
           gone == IF IsCurrent(t) THEN Drops(t) ELSE {}
       IN /\ entry' = IF IsCurrent(t) THEN [entry EXCEPT ![n] = NoTask] ELSE entry
          /\ tasks' = [u \in Tasks |->
                IF u = t THEN Free
                ELSE IF u \in gone THEN [tasks[u] EXCEPT !.aborted = TRUE, !.status = "done"]
                ELSE tasks[u]]
          /\ req' = Notified(req, {u \in gone : tasks[u].status = "reconnecting"})
    /\ UNCHANGED <<threads, channel, queue, driver, refresher, recent, map, hash, conns, cluster>>

-----------------------------------------------------------------------------
(* What poll_complete gathers while it polls the requests. *)

Nothing == [kind |-> "none", targets |-> {}]
RebuildSlots == [kind |-> "rebuild", targets |-> {}]
FromInitialNodes == [kind |-> "initial", targets |-> {}]
ReconnectTo(n) == [kind |-> "reconnect", targets |-> {n}]

Rank == [none |-> 0, reconnect |-> 1, rebuild |-> 2, initial |-> 3]

\* PollFlushAction::change_state: a stronger action replaces a weaker one,
\* the addresses of two reconnects are joined.
change_state(a, b) ==
    IF Rank[a.kind] < Rank[b.kind] THEN b
    ELSE IF Rank[a.kind] > Rank[b.kind] THEN a
    ELSE [a EXCEPT !.targets = @ \cup b.targets]

\* What Request::poll makes of an error: the request afterwards, whether it
\* goes back to pending_requests, and the action of the driver.
Step(q, again, action) == [q |-> q, again |-> again, action |-> action]

\* No retries left: the caller gets the error.
GivesUp(q, kind, node) ==
    Step(Ended(q, "err"), FALSE,
         CASE kind = "unavailable" -> FromInitialNodes
           [] kind \in {"moved", "circular", "readOnly", "notFound"} -> RebuildSlots
           [] kind \in {"lost", "unsent"} -> ReconnectTo(node)
           [] OTHER -> Nothing)

\* Mutant of LostReply: the request is sent again.
LostAgain(q, node) == Step(Queued(q), TRUE, ReconnectTo(node))

\* A reply that was lost may stand for a command that was executed: the
\* request is dropped with its sender, and only the connection is replaced.
LostReply(q, node) == Step(Ended(q, "dropped"), FALSE, ReconnectTo(node))

\* RetryMethod::RetryImmediately, of every io error that retry_method does
\* not list: the request is sent again as it is.
RetryImmediately(q) == Step([q EXCEPT !.pc = "start", !.reply = "none"], FALSE, Nothing)

Retried(q, kind, node) ==
    CASE kind = "unavailable" -> Step(Queued(q), TRUE, FromInitialNodes)
      [] kind = "notFound" -> Step([Reset(q) EXCEPT !.pc = "sleep"], FALSE, RebuildSlots)
      [] kind = "readOnly" -> Step([Reset(q) EXCEPT !.pc = "sleep"], FALSE, RebuildSlots)
      [] kind = "tryAgain" -> Step([q EXCEPT !.pc = "sleep", !.reply = "none"], FALSE, Nothing)
      [] kind = "loading" -> Step([q EXCEPT !.pc = "sleep", !.reply = "none"], FALSE, Nothing)
      [] kind = "ask" -> Step([q EXCEPT !.pc = "start", !.route = "ask", !.at = q.to,
                                        !.reply = "none"], FALSE, Nothing)
      [] kind = "moved" -> Step([q EXCEPT !.pc = "update", !.route = "moved", !.at = q.to,
                                          !.reply = "none"], FALSE, RebuildSlots)
      [] kind = "circular" -> Step(Queued(q), TRUE, ReconnectTo(node))
      [] kind = "unsent" -> Step(Queued(q), TRUE, ReconnectTo(node))
      [] kind = "lost" -> LostReply(q, node)
      [] kind = "ioError" -> RetryImmediately(q)
      [] kind = "error" -> Step(Ended(q, "err"), FALSE, Nothing)

OutOfRetries(q) == q.retry >= Retries

Failed(q, kind, node) ==
    IF OutOfRetries(q) THEN GivesUp(q, kind, node)
    ELSE Retried([q EXCEPT !.retry = @ + 1], kind, node)

\* The driver takes what came of the poll of request r.
Apply(r, s) ==
    /\ req' = [req EXCEPT ![r] = s.q]
    /\ channel' = IF s.again THEN Append(channel, r) ELSE channel
    /\ driver' = [driver EXCEPT !.action = change_state(@, s.action)]

-----------------------------------------------------------------------------
(* The requests in flight, polled by the driver. *)

Polling == Undisturbed /\ driver.state = "PollComplete"

\* try_request on a connection that was found.
Sent(q, n) ==
    [q EXCEPT !.pc = "sent", !.at = n, !.task = NoTask,
              !.reply = IF conns[n] = "closed" THEN "unsent" ELSE "none"]

\* The node that get_connection looks for.
Target(q) == IF q.route = "slot" THEN map ELSE q.at

\* A request of the slot without a connection or a notifier goes to any node.
AnyNode(r, q) ==
    IF \A n \in Nodes : conns[n] = "none"
    THEN Apply(r, Failed(q, "unavailable", NoNode))
    ELSE \E n \in Nodes : /\ conns[n] # "none"
                          /\ Apply(r, Step(Sent(q, n), FALSE, Nothing))

\* The notifier is taken under the lock; notified() comes after it.
Waiting(q, t) == [q EXCEPT !.pc = "took", !.task = t]

Connect(r) ==
    /\ Polling /\ req[r].pc = "start" /\ ~req[r].closed
    /\ LET q == req[r]
           n == Target(q)
       IN \/ /\ conns[n] # "none"
             /\ Apply(r, Step(Sent(q, n), FALSE, Nothing))
             /\ UNCHANGED <<conns, entry, tasks>>
          \/ /\ conns[n] = "none" /\ q.route = "slot"
             /\ IF HasNotifier(entry, tasks, n)
                THEN Apply(r, Step(Waiting(q, entry[n]), FALSE, Nothing))
                ELSE AnyNode(r, q)
             /\ UNCHANGED <<conns, entry, tasks>>
          \/ /\ conns[n] = "none" /\ q.route # "slot"
             /\ trigger_refresh_connection_tasks({n}, FALSE)
             /\ IF HasNotifier(EntriesAfter({n}), TasksAfter({n}, FALSE), n)
                THEN Apply(r, Step(Waiting(q, EntriesAfter({n})[n]), FALSE, Nothing))
                ELSE Apply(r, Failed(q, "notFound", NoNode))
    /\ UNCHANGED <<threads, queue, refresher, recent, map, hash, cluster>>

\* notified().await registers the request.
Register(r) ==
    /\ req[r].pc = "took"
    /\ req' = [req EXCEPT ![r].pc = "wait"]
    /\ UNCHANGED <<threads, channel, queue, driver, refresher, recent, container, cluster>>

\* The look-up is repeated after the wait.
Resume(r) ==
    /\ Polling /\ req[r].pc = "woken" /\ ~req[r].closed
    /\ LET q == req[r]
           n == Target(q)
       IN IF conns[n] # "none" THEN Apply(r, Step(Sent(q, n), FALSE, Nothing))
          ELSE IF q.route = "slot" THEN AnyNode(r, q)
          ELSE Apply(r, Failed(q, "notFound", NoNode))
    /\ UNCHANGED <<threads, queue, refresher, recent, container, cluster>>

Replied(r) ==
    /\ Polling /\ req[r].pc = "sent" /\ req[r].reply # "none" /\ ~req[r].closed
    /\ LET q == req[r]
       IN Apply(r, IF q.reply = "ok" THEN Step(Ended(q, "ok"), FALSE, Nothing)
                   ELSE Failed(q, q.reply, q.at))
    \* handle_loading_error: a replica that loads loses its connection.
    /\ conns' = IF req[r].reply = "loading" /\ req[r].at # map /\ ~OutOfRetries(req[r])
                THEN [conns EXCEPT ![req[r].at] = "none"] ELSE conns
    /\ UNCHANGED <<threads, queue, refresher, recent, map, hash, entry, tasks, cluster>>

\* RequestState::Sleep ends; RequestState::UpdateMoved edits the slot map
\* (update_upon_moved_error).
Slept(r) ==
    /\ Polling /\ req[r].pc = "sleep" /\ ~req[r].closed
    /\ req' = [req EXCEPT ![r].pc = "start"]
    /\ UNCHANGED <<threads, channel, queue, driver, refresher, recent, container, cluster>>

UpdateMoved(r) ==
    /\ Polling /\ req[r].pc = "update" /\ ~req[r].closed
    /\ map' = req[r].at
    /\ req' = [req EXCEPT ![r].pc = "start"]
    /\ UNCHANGED <<threads, channel, queue, driver, refresher, recent, hash, conns, entry, tasks,
                   cluster>>

\* The caller went away: Request::poll ends the request.
Shed(r) ==
    /\ Polling /\ InFlight(r) /\ req[r].closed
    /\ req' = [req EXCEPT ![r] = Ended(@, "none")]
    /\ UNCHANGED <<threads, channel, queue, driver, refresher, recent, container, cluster>>

-----------------------------------------------------------------------------
(* The driver between requests and recovery. *)

Event(kind) == events[kind] > 0 /\ events' = [events EXCEPT ![kind] = @ - 1]

\* start_send
Submit(r) ==
    /\ req[r].pc = "new" /\ Event("submit")
    /\ req' = [req EXCEPT ![r].pc = "queued"]
    /\ channel' = Append(channel, r)
    /\ UNCHANGED <<threads, queue, driver, refresher, recent, container, owner, up>>

\* Requests that start: those whose callers are gone are dropped.
Started(rs) ==
    [r \in Requests |-> IF r \notin rs THEN req[r]
                        ELSE IF req[r].closed THEN Ended(req[r], "none")
                        ELSE [req[r] EXCEPT !.pc = "start"]]

\* poll_complete begins by taking what is pending.
Admit ==
    /\ Polling /\ driver.action = Nothing /\ channel # <<>>
    /\ req' = Started(Elements(channel))
    /\ channel' = <<>>
    /\ UNCHANGED <<threads, queue, driver, refresher, recent, container, cluster>>

\* poll_complete returned an action: the driver spawns the recovery.
Recover ==
    /\ Polling /\ driver.action # Nothing
    /\ driver' = [driver EXCEPT
            !.state = CASE driver.action.kind = "reconnect" -> "Reconnect"
                        [] driver.action.kind = "rebuild" -> "RefreshingSlots"
                        [] driver.action.kind = "initial" -> "InitialNodes",
            !.targets = driver.action.targets, !.spawned = "run", !.action = Nothing]
    /\ UNCHANGED <<threads, req, channel, queue, refresher, recent, container, cluster>>

Open == {r \in Requests : ~req[r].closed}

\* VecDeque::retain, and the requests of a channel that are not skipped: the
\* elements of s in rs, in their order.
Retained(s, rs) ==
    LET at == {i \in DOMAIN s : s[i] \in rs}
        Nth(k) == CHOOSE i \in at : Cardinality({j \in at : j <= i}) = k
    IN [k \in 1 .. Cardinality(at) |-> s[Nth(k)]]

\* buffer_pending_requests_to_recovery_queue
Accepted(kept, live) ==
    IF Cap - Len(kept) < Len(live) THEN Cap - Len(kept) ELSE Len(live)

Buffer ==
    /\ Undisturbed /\ driver.state \in {"Reconnect", "RefreshingSlots"}
    /\ driver.spawned \in {"run", "lock"} /\ channel # <<>>
    /\ LET kept == IF Len(queue) >= Cap THEN Retained(queue, Open) ELSE queue
           live == Retained(channel, Open)
           taken == SubSeq(live, 1, Accepted(kept, live))
           waiting == Elements(kept) \cup Elements(taken)
       IN /\ queue' = kept \o taken
          /\ req' = EndAll((Elements(channel) \cup Elements(queue)) \ waiting, "err")
    /\ channel' = <<>>
    /\ UNCHANGED <<threads, driver, refresher, recent, container, cluster>>

\* fail_pending_requests: ReconnectToInitialNodes fails fast.
FailPending ==
    /\ Undisturbed /\ driver.state = "InitialNodes"
    /\ driver.spawned \in {"run", "lock"} /\ channel # <<>>
    /\ req' = EndAll(Elements(channel), "err")
    /\ channel' = <<>>
    /\ UNCHANGED <<threads, queue, driver, refresher, recent, container, cluster>>

\* Mutant of Drained: the last buffered request stays.
DrainedButLast(q) == IF q = <<>> THEN q ELSE <<q[Len(q)]>>

\* poll_recover finds the spawned task done, and the queue is drained into
\* the requests in flight.
Drained(q) == <<>>

Recovered ==
    /\ Undisturbed /\ driver.state # "PollComplete" /\ driver.spawned = "ok"
    /\ driver' = [driver EXCEPT !.state = "PollComplete", !.spawned = "none", !.targets = {}]
    /\ req' = Started(Elements(queue))
    /\ queue' = Drained(queue)
    /\ UNCHANGED <<threads, channel, refresher, recent, container, cluster>>

\* Mutant of FailedOnEscalation: the buffered requests are left.
FailedPendingOnly == Elements(channel)

\* A slot refresh without any connection: the initial nodes are tried, what
\* was buffered and what is pending fails, and refresh_error is kept.
FailedOnEscalation == Elements(queue) \cup Elements(channel)

Escalate ==
    /\ Undisturbed /\ driver.state = "RefreshingSlots" /\ driver.spawned = "unavailable"
    /\ driver' = [driver EXCEPT !.state = "InitialNodes", !.spawned = "run", !.error = TRUE]
    /\ req' = EndAll(FailedOnEscalation, "err")
    /\ queue' = <<>> /\ channel' = <<>>
    /\ UNCHANGED <<threads, refresher, recent, container, cluster>>

\* Any other failure of a slot refresh: it is tried again.
Respawn ==
    /\ Undisturbed /\ driver.state = "RefreshingSlots" /\ driver.spawned = "failed"
    /\ driver' = [driver EXCEPT !.spawned = "run"]
    /\ UNCHANGED <<threads, req, channel, queue, refresher, recent, container, cluster>>

\* send_refresh_error: a request in flight, or else a pending one, gets it.
SendRefreshError ==
    /\ Undisturbed /\ driver.error
    /\ \/ \E r \in Requests :
            /\ InFlight(r)
            /\ req' = [req EXCEPT ![r] = Ended(@, "err")]
            /\ channel' = channel
       \/ /\ \A r \in Requests : ~InFlight(r)
          /\ channel # <<>>
          /\ req' = [req EXCEPT ![Head(channel)] = Ended(@, "err")]
          /\ channel' = Tail(channel)
    /\ driver' = [driver EXCEPT !.error = FALSE]
    /\ UNCHANGED <<threads, queue, refresher, recent, container, cluster>>

-----------------------------------------------------------------------------
(* The spawned recoveries and the periodic tasks. *)

\* RecoverFuture::Reconnect only starts the tasks of the addresses.
Reconnect ==
    /\ Undisturbed /\ driver.state = "Reconnect" /\ driver.spawned = "run"
    /\ trigger_refresh_connection_tasks(driver.targets, FALSE)
    /\ driver' = [driver EXCEPT !.spawned = "ok"]
    /\ UNCHANGED <<threads, req, channel, queue, refresher, recent, map, hash, cluster>>

\* reconnect_to_initial_nodes, first half.
ConnectInitialNodes ==
    /\ Undisturbed /\ driver.state = "InitialNodes" /\ driver.spawned = "run"
    /\ conns' = [n \in Nodes |-> IF up[n] THEN "open" ELSE conns[n]]
    /\ driver' = [driver EXCEPT !.spawned = IF \E n \in Nodes : up[n] THEN "lock" ELSE "ok"]
    /\ UNCHANGED <<threads, req, channel, queue, refresher, recent, map, hash, entry, tasks,
                   cluster>>

NoRefresh == [who |-> "none", pc |-> "idle", view |-> NoNode,
              built |-> [n \in Nodes |-> "none"], failing |-> {}]

\* topology_refresh_lock is taken by the recovery ...
LockForRecovery ==
    /\ Undisturbed /\ refresher = NoRefresh
    /\ \/ driver.state = "RefreshingSlots" /\ driver.spawned = "run"
       \/ driver.state = "InitialNodes" /\ driver.spawned = "lock"
    /\ IF driver.state = "RefreshingSlots" /\ recent
       THEN /\ driver' = [driver EXCEPT !.spawned = "ok"]
            /\ refresher' = refresher
       ELSE /\ driver' = [driver EXCEPT !.spawned = "lock"]
            /\ refresher' = [NoRefresh EXCEPT !.who = "driver", !.pc = "query"]
    /\ UNCHANGED <<threads, req, channel, queue, recent, container, cluster>>

\* ... or by check_topology_and_refresh_if_diff, when a node reports another
\* topology than the one the container was built from.
PeriodicCheck ==
    /\ Undisturbed /\ refresher = NoRefresh /\ ~recent
    /\ hash # owner /\ \E n \in Nodes : conns[n] = "open"
    /\ refresher' = [NoRefresh EXCEPT !.who = "periodic", !.pc = "query"]
    /\ UNCHANGED <<threads, req, channel, queue, driver, recent, container, cluster>>

\* Without a difference, the nodes whose management connection failed the
\* query get a task, which takes the node's user connection with it.
RenewManagement ==
    /\ Undisturbed /\ refresher = NoRefresh /\ Event("unmanaged")
    /\ \E ns \in SUBSET Nodes : /\ Untended(ns) # {}
                                /\ trigger_refresh_connection_tasks(ns, TRUE)
    /\ UNCHANGED <<threads, req, channel, queue, driver, refresher, recent, map, hash, owner, up>>

\* The refresh ends: the recovery, if it was its refresh, has its result;
\* reconnect_to_initial_nodes only logs an error.
Unlock(result) ==
    /\ refresher' = NoRefresh
    /\ driver' = IF refresher.who # "driver" THEN driver
                 ELSE [driver EXCEPT !.spawned = IF driver.state = "InitialNodes" THEN "ok"
                                                 ELSE result]

\* calculate_topology_from_random_nodes
Query ==
    /\ Undisturbed /\ refresher.pc = "query"
    /\ recent' = TRUE
    /\ IF \A n \in Nodes : conns[n] = "none" THEN Unlock("unavailable")
       ELSE IF \A n \in Nodes : conns[n] # "open" THEN Unlock("failed")
       ELSE /\ refresher' = [refresher EXCEPT !.pc = "build", !.view = owner]
            /\ driver' = driver
    /\ UNCHANGED <<threads, req, channel, queue, container, cluster>>

\* refresh_slots_inner keeps the connections that work and opens the others.
Build ==
    /\ Undisturbed /\ refresher.pc = "build"
    /\ refresher' = [refresher EXCEPT !.pc = "replace",
                        !.built = [n \in Nodes |-> IF up[n] THEN "open" ELSE "none"]]
    /\ UNCHANGED <<threads, req, channel, queue, driver, recent, container, cluster>>

\* Mutant of Cleared: the marks survive their tasks.
MarksKept == entry

\* ... and replaces the container: clear_refresh_state aborts every task and
\* wakes the waiters.
Cleared == [n \in Nodes |-> NoTask]

Replace ==
    /\ Undisturbed /\ refresher.pc = "replace"
    /\ LET gone == {entry[n] : n \in Nodes} \ {NoTask}
       IN /\ tasks' = [t \in Tasks |-> IF t \in gone
                        THEN [tasks[t] EXCEPT !.aborted = TRUE, !.status = "done"] ELSE tasks[t]]
          /\ req' = Notified(req, {t \in gone : tasks[t].status = "reconnecting"})
    /\ entry' = Cleared
    /\ conns' = refresher.built
    /\ map' = refresher.view /\ hash' = refresher.view
    /\ Unlock("ok")
    /\ UNCHANGED <<threads, channel, queue, recent, cluster>>

\* validate_all_user_connections takes the lock unless a refresh holds it,
\* and notes the closed and the missing connections.  Every node here has
\* slots: none is dropped for having no slot.
Validate ==
    LET ns == {n \in Nodes : conns[n] # "open"}
    IN /\ Undisturbed /\ refresher = NoRefresh /\ Untended(ns) # {}
       /\ refresher' = [NoRefresh EXCEPT !.who = "validation", !.pc = "trigger", !.failing = ns]
       /\ UNCHANGED <<threads, req, channel, queue, driver, recent, container, cluster>>

\* ... which then get a task each, whatever became of them in between.
ReconnectFailing ==
    /\ refresher.who = "validation"
    /\ trigger_refresh_connection_tasks(refresher.failing, FALSE)
    /\ refresher' = NoRefresh
    /\ UNCHANGED <<threads, req, channel, queue, driver, recent, map, hash, cluster>>

-----------------------------------------------------------------------------
(* The cluster, the network and the callers. *)

\* A node executes the command, or names the owner of the slot.
Serve(r) ==
    /\ req[r].pc = "sent" /\ req[r].reply = "none"
    /\ req' = IF owner = req[r].at \/ req[r].route = "ask"
              THEN [req EXCEPT ![r].reply = "ok", ![r].runs = @ + 1]
              ELSE [req EXCEPT ![r].reply = "moved", ![r].to = owner]
    /\ UNCHANGED <<threads, channel, queue, driver, refresher, recent, container, cluster>>

\* ... or answers with another error, without executing it.
Refuse(r) ==
    /\ req[r].pc = "sent" /\ req[r].reply = "none" /\ Event("refuse")
    /\ \E fault \in Faults : \E n \in Nodes \ {req[r].at} :
        req' = [req EXCEPT ![r].reply = fault, ![r].to = n]
    /\ UNCHANGED <<threads, channel, queue, driver, refresher, recent, container, owner, up>>

\* The connections to a node break: a request without a reply has lost it,
\* and may have been executed.  The oldest one is handed the io error; told
\* holds it when the error is one that retry_method does not list.
Severed(n, executed, told) ==
    [r \in Requests |->
        IF req[r].pc = "sent" /\ req[r].at = n /\ req[r].reply = "none"
        THEN [req[r] EXCEPT
                !.reply = IF r \in told THEN "ioError" ELSE "lost",
                !.ioErrors = IF r \in told THEN @ + 1 ELSE @,
                !.runs = IF executed /\ (owner = n \/ req[r].route = "ask") THEN @ + 1 ELSE @]
        ELSE req[r]]

Close(f, n) == IF f[n] = "open" THEN [f EXCEPT ![n] = "closed"] ELSE f

ClosedKept(n) ==
    [t \in Tasks |-> IF tasks[t].node = n /\ tasks[t].kept = "open"
                     THEN [tasks[t] EXCEPT !.kept = "closed"] ELSE tasks[t]]

Broken(n, told) ==
    /\ \E executed \in BOOLEAN : req' = Severed(n, executed, told)
    /\ conns' = Close(conns, n)
    /\ tasks' = ClosedKept(n)
    /\ refresher' = [refresher EXCEPT !.built = Close(@, n)]
    /\ \E stays \in BOOLEAN : up' = [up EXCEPT ![n] = stays]
    /\ UNCHANGED <<threads, channel, queue, driver, recent, map, hash, entry, owner>>

Sharing(n) == {r \in Requests : req[r].pc = "sent" /\ req[r].at = n}

Break(n) ==
    /\ Event("break")
    /\ conns[n] = "open" \/ Sharing(n) # {} \/ ClosedKept(n) # tasks
    /\ Broken(n, {})

BreakOddly(n) ==
    /\ Event("ioError")
    /\ \E r \in Sharing(n) : req[r].reply = "none" /\ Broken(n, {r})

ComesBack(n) ==
    /\ Event("back") /\ ~up[n]
    /\ up' = [up EXCEPT ![n] = TRUE]
    /\ UNCHANGED <<threads, req, channel, queue, driver, refresher, recent, container, owner>>

Migrate(n) ==
    /\ Event("migrate") /\ n # owner
    /\ owner' = n
    /\ UNCHANGED <<threads, req, channel, queue, driver, refresher, recent, container, up>>

\* The caller's timeout drops the receiver.
GiveUp(r) ==
    /\ Event("giveUp") /\ req[r].pc \notin {"new", "done"} /\ ~req[r].closed
    /\ req' = [req EXCEPT ![r].closed = TRUE, ![r].result = "gone"]
    /\ UNCHANGED <<threads, channel, queue, driver, refresher, recent, container, owner, up>>

\* The interval of the rate limiter passes.
Elapse ==
    /\ recent /\ refresher = NoRefresh /\ Event("elapse")
    /\ recent' = FALSE
    /\ UNCHANGED <<threads, req, channel, queue, driver, refresher, container, owner, up>>

-----------------------------------------------------------------------------
Init ==
    /\ \E s \in Scenarios : threads = s.threads /\ events = s.events
    /\ req = [r \in Requests |-> Fresh]
    /\ channel = <<>> /\ queue = <<>>
    /\ driver = [state |-> "PollComplete", action |-> Nothing, targets |-> {},
                 spawned |-> "none", error |-> FALSE]
    /\ refresher = NoRefresh /\ recent = FALSE
    /\ owner = CHOOSE n \in Nodes : TRUE
    /\ map = owner /\ hash = owner
    /\ conns = [n \in Nodes |-> "open"]
    /\ entry = [n \in Nodes |-> NoTask]
    /\ tasks = [t \in Tasks |-> Free]
    /\ up = [n \in Nodes |-> TRUE]

TaskStep(t) == DialFails(t) \/ DialSucceeds(t) \/ Aborted(t) \/ Install(t) \/ Remove(t)

RequestStep(r) ==
    Connect(r) \/ Register(r) \/ Resume(r) \/ Replied(r) \/ Slept(r) \/ UpdateMoved(r) \/ Shed(r)

DriverStep ==
    Admit \/ Recover \/ Buffer \/ FailPending \/ Recovered \/ Escalate \/ Respawn
    \/ SendRefreshError

SpawnedStep ==
    Reconnect \/ ConnectInitialNodes \/ LockForRecovery \/ PeriodicCheck \/ Query \/ Build
    \/ Replace \/ Validate \/ ReconnectFailing

\* What the runtime and the server do without being asked again.
Progress ==
    \/ \E t \in Tasks : TaskStep(t)
    \/ \E r \in Requests : RequestStep(r) \/ Serve(r)
    \/ DriverStep
    \/ SpawnedStep

Environment ==
    \/ \E r \in Requests : Submit(r) \/ Refuse(r) \/ GiveUp(r)
    \/ \E n \in Nodes : Break(n) \/ BreakOddly(n) \/ ComesBack(n) \/ Migrate(n)
    \/ Elapse \/ RenewManagement

Next == Progress \/ Environment

Spec == Init /\ [][Next]_vars

\* Every spawned task and the driver is polled once it can go on.
FairSpec == Spec /\ WF_vars(Progress)

-----------------------------------------------------------------------------
(* Properties. *)

RequestType == [
    pc : {"new", "queued", "start", "took", "wait", "woken", "sent", "sleep", "update", "done"},
    retry : 0 .. Retries, route : {"slot", "moved", "ask"}, at : Nodes \cup {NoNode},
    to : Nodes \cup {NoNode}, task : Tasks \cup {NoTask},
    reply : {"none", "ok", "moved", "lost", "ioError", "unsent"} \cup Faults,
    result : {"none", "ok", "err", "dropped", "gone"}, runs : Nat, ioErrors : Nat,
    closed : BOOLEAN]

ActionType == [kind : {"none", "reconnect", "rebuild", "initial"}, targets : SUBSET Nodes]

DriverType == [
    state : {"PollComplete", "Reconnect", "RefreshingSlots", "InitialNodes"},
    action : ActionType, targets : SUBSET Nodes,
    spawned : {"none", "run", "lock", "ok", "unavailable", "failed"}, error : BOOLEAN]

ConnsType == [Nodes -> {"none", "open", "closed"}]

RefresherType == [
    who : {"none", "driver", "periodic", "validation"},
    pc : {"idle", "query", "build", "replace", "trigger"},
    view : Nodes \cup {NoNode}, built : ConnsType, failing : SUBSET Nodes]

TaskType == [
    pc : {"free", "dial", "connected", "installed"}, node : Nodes \cup {NoNode},
    status : {"reconnecting", "tooLong", "done"}, aborted : BOOLEAN,
    kept : {"none", "open", "closed"}]

TypeOK ==
    /\ threads \in {1, 2} /\ events \in [Events -> Nat]
    /\ req \in [Requests -> RequestType]
    /\ channel \in Seq(Requests) /\ queue \in Seq(Requests)
    /\ driver \in DriverType /\ refresher \in RefresherType /\ recent \in BOOLEAN
    /\ map \in Nodes /\ hash \in Nodes /\ conns \in ConnsType
    /\ entry \in [Nodes -> Tasks \cup {NoTask}] /\ tasks \in [Tasks -> TaskType]
    /\ owner \in Nodes /\ up \in [Nodes -> BOOLEAN]

\* Redirections, retries, buffering and reconnects make the server execute a
\* command again only after its reply was lost with an io error that
\* retry_method does not list and answers with RetryImmediately: one more
\* execution for each.  A reply lost in any other way is not followed by
\* another attempt.
AtMostOnce == \A r \in Requests : req[r].runs <= 1 + req[r].ioErrors

\* A request is in one place: waiting once in pending_requests or in the
\* recovery queue, or in flight, or ended.  None is dispatched twice, none
\* vanishes between the two queues.
Places(r) ==
    Cardinality({i \in DOMAIN channel : channel[i] = r})
        + Cardinality({i \in DOMAIN queue : queue[i] = r})

OnePlace == \A r \in Requests : Places(r) = IF req[r].pc = "queued" THEN 1 ELSE 0

\* The recovery queue is within its cap, and it holds requests only while a
\* recovery that will drain it is running: escalating to the initial nodes
\* leaves nothing behind.
QueueWillDrain ==
    /\ Len(queue) <= Cap
    /\ queue # <<>> => driver.state \in {"Reconnect", "RefreshingSlots"}

\* An address marked as being refreshed has a live task of its own: the mark
\* keeps every other task from being started for the address, so a mark
\* without a task would cut the node off until the next slot refresh.
EntryHasTask ==
    TypeOK /\ \A n \in Nodes : entry[n] # NoTask =>
        LET t == tasks[entry[n]]
        IN t.node = n /\ ~t.aborted /\ t.pc # "free"

\* A mark is taken away, which wakes those who wait for the address, only
\* after the task it stands for made an attempt, or when a refresh replaces
\* the container: a task that was superseded and finishes late does not end
\* the wait for its successor.
AttemptBeforeNotify ==
    [][\A n \in Nodes : (entry[n] # NoTask /\ entry'[n] # entry[n]) =>
            \/ tasks[entry[n]].pc # "dial" \/ tasks[entry[n]].status # "reconnecting"
            \/ refresher.pc = "replace" /\ refresher' = NoRefresh]_vars

\* On a runtime with one thread every request ends, whatever breaks, moves
\* or stays down while it is redirected, buffered and retried.
RequestsEnd ==
    <>[](threads = 1 => \A r \in Requests : req[r].pc \in {"new", "done"})
=============================================================================
