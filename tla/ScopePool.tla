------------------------------ MODULE ScopePool ------------------------------
(***************************************************************************)
(* Isolated execution scopes: the per-client ScopePool of                  *)
(* glide-core/src/pool.rs, the acquire loop, the connection creation, the  *)
(* database resync and the command path of glide-core/src/scope.rs, driven *)
(* by the C ABI of ffi/src/pool_ffi.rs.  One parent client, one scope pool.*)
(*                                                                         *)
(* A scope_id is allocated when a connection is created and kept for its   *)
(* whole life, so a scope id and a connection are one thing here (Conns).  *)
(* Each borrow wraps the connection in a fresh Arc<Mutex<..>>, which       *)
(* commands look up by scope id and lock later.  Only the wrapper of the   *)
(* current borrow (or of the cleanup that ends it) is ever read by the     *)
(* pool, so `conn` keeps that one; a command that still holds the wrapper  *)
(* of an earlier borrow is `stale`: what it records is read by nobody, but *)
(* it shares the socket.                                                   *)
(*                                                                         *)
(* The pool mutex is `lock`: only an acquire holds it across a step that   *)
(* others (parent close takes no pool lock) can interleave with; every     *)
(* other critical section is one step.  The pool's own state stays         *)
(* RUNNING: ScopePool::destroy has no caller.                              *)
(***************************************************************************)
EXTENDS ScopeConnection, SequencesExt

CONSTANTS
    Conns,        \* connections and their scope ids
    Users,        \* application tasks
    Dials,        \* connection creation tasks
    Targets,      \* ScopeTarget: the standalone server or cluster primaries
    NoConn, NoUser, NoTarget,
    MaxTotal,     \* ScopePoolConfig.max_total
    MaxResync,    \* bound on queued resync tasks
    Scenarios     \* what the application does

ASSUME ScopeAssumption ==
    /\ NoConn \notin Conns /\ NoUser \notin Users /\ NoTarget \notin Targets
    /\ MaxTotal \in Nat \ {0} /\ MaxResync \in Nat
    /\ IsFiniteSet(Dials) /\ IsFiniteSet(Conns)
    /\ Scenarios \subseteq
           [cmds : SUBSET Command,  \* the commands it sends on a scope
            late : BOOLEAN,         \* is a scope released while its command is unfinished?
            twice : BOOLEAN,        \* is a scope released a second time?
            close : BOOLEAN,        \* does the parent client close?
            prewarm : Nat]          \* min_idle given to glide_scope_prewarm

VARIABLES
    scenario,
    idle,         \* ScopePool.idle, oldest first
    in_use,       \* ScopePool.in_use
    total_count,  \* ScopePool.total_count
    lock,         \* acquire inside the pool mutex
    registry,     \* SCOPE_REGISTRY: ids that resolve to the current borrow's wrapper
    conn,         \* ScopedConnection: target, tracked state, and the server's own
    dial,         \* creation tasks and the reservation each owns
    prewarm,      \* prewarm tasks not started
    resyncReq,    \* resync tasks not started, by target and database
    resyncing,    \* connections out of idle while they are re-SELECTed, and to what
    cleanup,      \* cleanup task of each dirty released connection
    runtimeDb,    \* the parent's current_database
    closing,      \* how far unregister_client has come
    mapped,       \* what CLIENT_SCOPE_POOLS holds under the parent's id
    acq,          \* acquire in progress, by user
    holds,        \* the scope each user believes it has
    released,     \* the scope id each user last released
    toRelease,    \* releases deferred to a task, <<user, scope id>>
    astray,       \* history: connections whose record may not cover the server any more
    cmd           \* the command each user has in flight

poolVars == <<idle, in_use, total_count, lock, registry>>
taskVars == <<dial, prewarm, resyncReq, resyncing, cleanup>>
envVars  == <<scenario, runtimeDb, closing, mapped>>
userVars == <<holds, released, toRelease, astray>>
vars == <<poolVars, conn, taskVars, envVars, acq, userVars, cmd>>

-----------------------------------------------------------------------------
(* Derived state *)

NoCmd  == [phase |-> "none", id |-> NoConn, c |-> Op("GET"), stale |-> FALSE,
           poisoned |-> FALSE, defer |-> FALSE]
NoAcq  == [phase |-> "off", target |-> NoTarget, db |-> NoDb, notified |-> FALSE, cause |-> "none"]
NoDial == [phase |-> "free", target |-> NoTarget, db |-> NoDb, owner |-> NoUser]
NoCleanup == [phase |-> "none", pool |-> FALSE]

\* ConnectionState::with_configured_db for a connection to t.
Opened(t, d) == [target |-> t, st |-> begin_borrow(d, d), server |-> FreshServer(d)]
Closed == Opened(NoTarget, CHOOSE d \in Dbs : TRUE)

IsOpen(c) == conn[c].target # NoTarget
Db(c) == conn[c].st.selected_db

Unlocked == lock = NoUser
ParentRegistered == closing = "open"

\* A command is between taking the current wrapper's lock and its completion.
WrapperLocked(c) == \E u \in Users : cmd[u].phase = "running" /\ cmd[u].id = c /\ ~cmd[u].stale

Dialing  == {d \in Dials : dial[d].phase # "free"}
Cleaning == {c \in Conns : cleanup[c].phase # "none"}
Resyncing == {c \in Conns : resyncing[c] # NoDb}

\* allocate_scope_id never repeats: a new id is one nothing refers to.
NewConn(c) ==
    /\ ~IsOpen(c) /\ c \notin registry
    /\ \A u \in Users : /\ cmd[u].id # c /\ holds[u] # c /\ released[u] # c
                        /\ <<u, c>> \notin toRelease

saturating_dec(n) == IF n = 0 THEN 0 ELSE n - 1

\* Notify::notify_waiters reaches every acquire that has armed its `notified`.
NotifyAll(a) ==
    [u \in Users |-> IF a[u].phase \in {"armed", "resolved", "sleeping"}
                     THEN [a[u] EXCEPT !.notified = TRUE] ELSE a[u]]

Arm(a, u) == [a EXCEPT ![u].phase = "armed", ![u].notified = FALSE, ![u].cause = "none"]

\* The borrow's wrapper leaves the pool: commands that hold it keep it alive.
Orphaned(id) ==
    [u \in Users |-> IF cmd[u].id = id /\ cmd[u].phase \in {"found", "running"}
                     THEN [cmd[u] EXCEPT !.stale = TRUE] ELSE cmd[u]]

Discard(ids) == conn' = [c \in Conns |-> IF c \in ids THEN Closed ELSE conn[c]]

-----------------------------------------------------------------------------
Init ==
    /\ scenario \in Scenarios
    /\ idle = <<>> /\ in_use = {} /\ total_count = 0
    /\ lock = NoUser /\ registry = {}
    /\ conn = [c \in Conns |-> Closed]
    /\ dial = [d \in Dials |-> NoDial]
    /\ prewarm = scenario.prewarm
    /\ resyncReq = [td \in Targets \X Dbs |-> 0]
    /\ resyncing = [c \in Conns |-> NoDb]
    /\ cleanup = [c \in Conns |-> NoCleanup]
    /\ runtimeDb \in Dbs
    /\ closing = "open" /\ mapped = "pool"
    /\ acq = [u \in Users |-> NoAcq]
    /\ holds = [u \in Users |-> NoConn]
    /\ released = [u \in Users |-> NoConn]
    /\ toRelease = {}
    /\ astray = {}
    /\ cmd = [u \in Users |-> NoCmd]

-----------------------------------------------------------------------------
(* Acquire *)

\* acquire_scope: take the handle and arm the wakeup before the first attempt.
\* Without a pool in the map scope_pool_for makes one; the parent is gone by
\* then, so that acquire fails and the orphan pool stays in the map.
BeginAcquire(u, t) ==
    /\ acq[u].phase = "off" /\ holds[u] = NoConn
    /\ IF mapped = "pool"
       THEN /\ acq' = [acq EXCEPT ![u] = [NoAcq EXCEPT !.phase = "armed", !.target = t]]
            /\ UNCHANGED mapped
       ELSE /\ mapped = "none"
            /\ mapped' = "orphan"
            /\ UNCHANGED acq
    /\ UNCHANGED <<poolVars, conn, taskVars, scenario, runtimeDb, closing, userVars, cmd>>

\* classify_acquire up to try_acquire, pool mutex taken: no parent is terminal,
\* an unresolved target waits, a resolved one fixes the runtime database.
\* (MaxResync bounds how many resync tasks the attempt may find queued.)
Resolve(u) ==
    /\ acq[u].phase = "armed" /\ Unlocked
    /\ \/ /\ ~ParentRegistered
          /\ acq' = [acq EXCEPT ![u] = NoAcq]
          /\ UNCHANGED lock
       \/ /\ ParentRegistered
          /\ acq' = [acq EXCEPT ![u].phase = "sleeping", ![u].cause = "unresolved"]
          /\ UNCHANGED lock
       \/ /\ ParentRegistered
          /\ resyncReq[<<acq[u].target, runtimeDb>>] < MaxResync
          /\ acq' = [acq EXCEPT ![u].phase = "resolved", ![u].db = runtimeDb]
          /\ lock' = u
    /\ UNCHANGED <<idle, in_use, total_count, registry, conn, taskVars, envVars, userVars, cmd>>

\* Idle positions past the first n on node t, by database.
OnNode(t, n) == {i \in (n + 1)..Len(idle) : conn[idle[i]].target = t}
WrongDb(t, d, n) == {i \in OnNode(t, n) : Db(idle[i]) # d}

\* Mutant of Reusable: the stack is searched by node alone.
ReusableAnyDb(t, d, n) == OnNode(t, n)

\* Idle positions a borrow for node t and database d may take.
Reusable(t, d, n) == {i \in OnNode(t, n) : Db(idle[i]) = d}

\* The idle deque is popped from the back.
Newest(P) == CHOOSE i \in P : \A j \in P : j <= i

\* Mutant of Taken: the borrowed connection is not removed from the deque.
TakenKept(i) == idle

Taken(i) == RemoveAt(idle, i)

\* try_acquire finds an idle connection on the right node and database: it
\* enters the registry in a new wrapper, and in_use.
Reuse(u, i) ==
    LET c == idle[i] IN
    /\ idle' = Taken(i)
    /\ conn' = [conn EXCEPT ![c].st = begin_borrow(@.selected_db, acq[u].db)]
    /\ registry' = registry \cup {c}
    /\ in_use' = in_use \cup {c}
    /\ holds' = [holds EXCEPT ![u] = c]
    /\ acq' = [acq EXCEPT ![u] = NoAcq]
    /\ UNCHANGED <<total_count, dial, resyncReq>>

\* What is left when every connection past idle_timeout met on the way is dropped.
Pruned(n) == SubSeq(idle, n + 1, Len(idle))
Expired(n) == ToSet(SubSeq(idle, 1, n))

\* n saturating decrements.
DecBy(m, n) == IF n > m THEN 0 ELSE m - n

\* ScopeAcquire::NeedsResync: the resync task is spawned, the acquire waits.
NeedsResync(u, n) ==
    /\ resyncReq' = [resyncReq EXCEPT ![<<acq[u].target, acq[u].db>>] = @ + 1]
    /\ idle' = Pruned(n)
    /\ total_count' = DecBy(total_count, n)
    /\ Discard(Expired(n))
    /\ acq' = [acq EXCEPT ![u].phase = "sleeping", ![u].cause = "pending"]
    /\ UNCHANGED <<registry, in_use, holds, dial>>

\* The oldest idle connection is dropped to make room.
Evicted(n) == saturating_dec(n)

\* Room below max_total, or made by evicting the oldest idle connection:
\* ScopeAcquire::Reserved, and the creation task is spawned.
Reserve(u, n) ==
    LET full == DecBy(total_count, n) >= MaxTotal
        evicted == IF full THEN 1 ELSE 0
    IN  /\ full => Pruned(n) # <<>>
        /\ idle' = Pruned(n + evicted)
        /\ Discard(Expired(n + evicted))
        /\ total_count' = 1 + IF full THEN Evicted(DecBy(total_count, n))
                              ELSE DecBy(total_count, n)
        /\ total_count' <= MaxTotal
        /\ \E d \in Dials :
              /\ dial[d].phase = "free"
              /\ dial' = [dial EXCEPT ![d] =
                     [phase |-> "dialing", target |-> acq[u].target, db |-> NoDb, owner |-> u]]
        /\ acq' = [acq EXCEPT ![u].phase = "creating"]
        /\ UNCHANGED <<registry, in_use, holds, resyncReq>>

\* ScopeAcquire::Exhausted: nothing idle is left and there is no room.
Exhausted(u, n) ==
    /\ Pruned(n) = <<>> /\ DecBy(total_count, n) >= MaxTotal
    /\ idle' = <<>>
    /\ total_count' = DecBy(total_count, n)
    /\ Discard(Expired(n))
    /\ acq' = [acq EXCEPT ![u].phase = "sleeping", ![u].cause = "exhausted"]
    /\ UNCHANGED <<registry, in_use, holds, dial, resyncReq>>

\* try_acquire.  The first n idle connections are past idle_timeout: they were
\* pushed first, so they are the oldest.
TryAcquire(u) ==
    /\ acq[u].phase = "resolved"
    /\ \E n \in 0..Len(idle) :
          LET t == acq[u].target  d == acq[u].db IN
          IF Reusable(t, d, n) # {} THEN Reuse(u, Newest(Reusable(t, d, n)))
          ELSE IF WrongDb(t, d, n) # {} THEN NeedsResync(u, n)
          ELSE Reserve(u, n) \/ Exhausted(u, n)
    /\ lock' = NoUser
    /\ UNCHANGED <<prewarm, resyncing, cleanup, envVars, released, toRelease, astray, cmd>>

\* The armed notification fired, or SCOPE_ACQUIRE_WAIT_CAP passed: attempt again.
Wake(u) ==
    /\ acq[u].phase = "sleeping"
    /\ acq' = Arm(acq, u)
    /\ UNCHANGED <<poolVars, conn, taskVars, envVars, userVars, cmd>>

\* The redial backoff after an own failed creation; notifications do not cut it short.
BackoffElapsed(u) ==
    /\ acq[u].phase = "backoff"
    /\ acq' = Arm(acq, u)
    /\ UNCHANGED <<poolVars, conn, taskVars, envVars, userVars, cmd>>

\* Deadline, watchdog backstop or a dropped future, at any await of the loop.
\* A creation already spawned runs on and seats its connection.
GiveUp(u) ==
    /\ acq[u].phase \in {"armed", "sleeping", "creating", "backoff"}
    /\ acq' = [acq EXCEPT ![u] = NoAcq]
    /\ dial' = [d \in Dials |-> IF dial[d].owner = u THEN [dial[d] EXCEPT !.owner = NoUser]
                                ELSE dial[d]]
    /\ UNCHANGED <<poolVars, conn, prewarm, resyncReq, resyncing, cleanup, envVars, userVars, cmd>>

-----------------------------------------------------------------------------
(* Connection creation *)

\* A prewarm task resolves the parent, then reserves without looking at idle.
PrewarmStart ==
    /\ prewarm > 0 /\ Unlocked
    /\ prewarm' = prewarm - 1
    /\ IF ParentRegistered /\ total_count < MaxTotal
       THEN /\ total_count' = total_count + 1
            /\ \E d \in Dials, t \in Targets :
                  /\ dial[d].phase = "free"
                  /\ dial' = [dial EXCEPT ![d] =
                         [phase |-> "dialing", target |-> t, db |-> NoDb, owner |-> NoUser]]
       ELSE UNCHANGED <<total_count, dial>>
    /\ UNCHANGED <<idle, in_use, lock, registry, conn, resyncReq, resyncing, cleanup, envVars,
                   acq, userVars, cmd>>

\* build_scope_connection: connected, authenticated and SELECTed onto the
\* parent's database of this instant.
DialConnects(d) ==
    /\ dial[d].phase = "dialing"
    /\ dial' = [dial EXCEPT ![d].phase = "connected", ![d].db = runtimeDb]
    /\ UNCHANGED <<poolVars, conn, prewarm, resyncReq, resyncing, cleanup, envVars, acq,
                   userVars, cmd>>

\* create_scope_connection seats the connection in idle under a new scope id and
\* commits the reservation; the owner, if it still waits, attempts at once.
DialSeats(d) ==
    /\ dial[d].phase = "connected" /\ Unlocked
    /\ \E c \in Conns :
          /\ NewConn(c)
          /\ idle' = Append(idle, c)
          /\ conn' = [conn EXCEPT ![c] = Opened(dial[d].target, dial[d].db)]
          /\ astray' = astray \ {c}
    /\ LET a == NotifyAll(acq) IN
       acq' = IF dial[d].owner = NoUser THEN a ELSE Arm(a, dial[d].owner)
    /\ dial' = [dial EXCEPT ![d] = NoDial]
    /\ UNCHANGED <<in_use, total_count, lock, registry, prewarm, resyncReq, resyncing, cleanup,
                   envVars, holds, released, toRelease, cmd>>

\* Drop of an uncommitted ScopeReservation.
ReservationDropped(n) == saturating_dec(n)

\* The dial or the init pipeline failed, or the task unwound: the reservation
\* is given back.  The owner stops on a terminal cause and backs off on another.
DialFails(d) ==
    /\ dial[d].phase \in {"dialing", "connected"}
    /\ total_count' = ReservationDropped(total_count)
    /\ dial' = [dial EXCEPT ![d] = NoDial]
    /\ LET a == NotifyAll(acq)  u == dial[d].owner IN
       IF u = NoUser THEN acq' = a
       ELSE \/ acq' = [a EXCEPT ![u] = NoAcq]
            \/ acq' = [a EXCEPT ![u].phase = "backoff"]
    /\ UNCHANGED <<idle, in_use, lock, registry, conn, prewarm, resyncReq, resyncing, cleanup,
                   envVars, userVars, cmd>>

-----------------------------------------------------------------------------
(* Database resync of idle connections *)

\* take_idle_for_resync: the newest idle connection on the node and on another
\* database leaves idle, its slot guarded by a reservation; none is no error.
ResyncTake(t, d) ==
    /\ resyncReq[<<t, d>>] > 0 /\ Unlocked
    /\ resyncReq' = [resyncReq EXCEPT ![<<t, d>>] = @ - 1]
    /\ LET W == WrongDb(t, d, 0) IN
       IF W = {} THEN UNCHANGED <<idle, resyncing>>
       ELSE /\ idle' = RemoveAt(idle, Newest(W))
            /\ resyncing' = [resyncing EXCEPT ![idle[Newest(W)]] = d]
    /\ UNCHANGED <<in_use, total_count, lock, registry, conn, dial, prewarm, cleanup, envVars,
                   acq, userVars, cmd>>

\* The SELECT was accepted: recorded, back to idle, reservation committed.
ResyncSucceeds(c) ==
    /\ resyncing[c] # NoDb /\ Unlocked
    /\ conn' = [conn EXCEPT ![c].st = begin_borrow(resyncing[c], resyncing[c]),
                            ![c].server = CleanupStep(@, TRUE, Select(resyncing[c]))]
    /\ idle' = Append(idle, c)
    /\ resyncing' = [resyncing EXCEPT ![c] = NoDb]
    /\ acq' = NotifyAll(acq)
    /\ UNCHANGED <<in_use, total_count, lock, registry, dial, prewarm, resyncReq, cleanup,
                   envVars, userVars, cmd>>

\* The SELECT failed or the task unwound: connection dropped, slot reclaimed.
ResyncFails(c) ==
    /\ resyncing[c] # NoDb
    /\ resyncing' = [resyncing EXCEPT ![c] = NoDb]
    /\ Discard({c})
    /\ total_count' = ReservationDropped(total_count)
    /\ acq' = NotifyAll(acq)
    /\ UNCHANGED <<idle, in_use, lock, registry, dial, prewarm, resyncReq, cleanup, envVars,
                   userVars, cmd>>

-----------------------------------------------------------------------------
(* Commands *)

\* The record follows a command that is sent where it belongs: EXEC and DISCARD inside
\* MULTI, and what changes the connection outside it.
InPlace(s, c) ==
    IF s.multi THEN c.op \notin {"SELECT", "TRACKING_ON", "TRACKING_OFF", "ALTER", "UNWATCH"}
    ELSE c.op \notin {"EXEC", "DISCARD"}

\* Commands by which the record only claims more of the server than before.
OnlyMarks(c) == c.op \in {"WATCH", "TRACKING_ON", "ALTER", "BLPOP", "GET"}

\* glide_scope_execute_async: the parent is resolved and a task spawned.
Issue(u, c) ==
    /\ holds[u] # NoConn /\ cmd[u].phase = "none"
    /\ holds[u] \in registry /\ ParentRegistered
    /\ cmd' = [cmd EXCEPT ![u] = [NoCmd EXCEPT !.phase = "sent", !.id = holds[u], !.c = c]]
    /\ UNCHANGED <<poolVars, conn, taskVars, envVars, acq, userVars>>

\* The task runs: circuit breaker, inflight limit and compression may refuse;
\* then execute_scope_command clones the Arc registered under the scope id.
Dispatch(u) ==
    /\ cmd[u].phase = "sent"
    /\ \/ cmd' = [cmd EXCEPT ![u] = NoCmd]
       \/ /\ cmd[u].id \in registry
          /\ cmd' = [cmd EXCEPT ![u].phase = "found"]
    /\ UNCHANGED <<poolVars, conn, taskVars, envVars, acq, userVars>>

\* The record once the wrapper is locked: the command tracked, a blocking one marked.
Tracked(st, c) ==
    LET t == update_state_for_command(st, c) IN
    IF IsBlocking(c) THEN [t EXCEPT !.blocking_in_flight = TRUE] ELSE t

\* A stale wrapper's record is private to the commands that hold it.
Record(u, st) ==
    IF cmd[u].stale THEN conn ELSE [conn EXCEPT ![cmd[u].id].st = st]

\* The wrapper's lock is taken and the record updated; then the cluster slot check may
\* refuse a keyed command outside a transaction; else the command is sent.
Execute(u) ==
    LET id == cmd[u].id  c == cmd[u].c  st == conn[id].st IN
    /\ cmd[u].phase = "found"
    /\ ~cmd[u].stale => ~WrapperLocked(id)
    /\ \/ /\ IsKeyed(c) /\ ~st.multi_active
          /\ conn' = Record(u, update_state_for_command(st, c))
          /\ cmd' = [cmd EXCEPT ![u] = NoCmd]
          /\ UNCHANGED astray
       \/ /\ conn' = Record(u, Tracked(st, c))
          /\ cmd' = [cmd EXCEPT ![u].phase = "running",
                                ![u].poisoned = st.blocking_in_flight,
                                ![u].defer = st.multi_active]
          /\ astray' = IF InPlace(conn[id].server, c) THEN astray ELSE astray \cup {id}
    /\ UNCHANGED <<poolVars, taskVars, envVars, acq, holds, released, toRelease>>

\* A blocking command that ended with an answer clears its own mark, never one
\* an earlier command of the borrow left behind.
Unmarked(u, st) ==
    IF IsBlocking(cmd[u].c) THEN [st EXCEPT !.blocking_in_flight = cmd[u].poisoned] ELSE st

\* The command is answered, or a non-blocking one abandoned by its timeout: the
\* server has run it, or has refused it, or never got it.
Answered(u) ==
    LET id == cmd[u].id
        sv == conn[id].server
        r == Record(u, Unmarked(u, conn[id].st))
    IN  \/ /\ \E s \in ServerAfter(sv, cmd[u].c) :
                 conn' = IF IsOpen(id) THEN [r EXCEPT ![id].server = s] ELSE conn
           /\ UNCHANGED astray
        \/ /\ conn' = IF IsOpen(id) THEN r ELSE conn
           /\ astray' = IF OnlyMarks(cmd[u].c) THEN astray ELSE astray \cup {id}

\* A blocking command that timed out, lost its connection or was cancelled:
\* the mark stays, and the server may still serve the waiter.
Poisoned(u) ==
    LET id == cmd[u].id IN
    /\ IsBlocking(cmd[u].c)
    /\ conn' = IF IsOpen(id)
               THEN [conn EXCEPT ![id].server.waiter = @ \/ ~conn[id].server.multi] ELSE conn
    /\ UNCHANGED astray

\* IAM re-authentication, which is not attempted inside a transaction, failed:
\* nothing was sent.
AuthFailed(u) ==
    /\ ~cmd[u].defer
    /\ conn' = IF IsOpen(cmd[u].id)
               THEN Record(u, [Unmarked(u, conn[cmd[u].id].st) EXCEPT !.must_discard = TRUE])
               ELSE conn
    /\ UNCHANGED astray

\* The command ends and gives the wrapper's lock back.
Complete(u) ==
    /\ cmd[u].phase = "running"
    /\ Answered(u) \/ Poisoned(u) \/ AuthFailed(u)
    /\ cmd' = [cmd EXCEPT ![u] = NoCmd]
    /\ UNCHANGED <<poolVars, taskVars, envVars, acq, holds, released, toRelease>>

-----------------------------------------------------------------------------
(* Release *)

\* Mutant of MustDiscard: an armed blocking waiter does not force the discard.
MustDiscardUnauthenticated(st) == st.must_discard

MustDiscard(st) == st.blocking_in_flight \/ st.must_discard

\* Mutant of WakeAfterRelease: `release` does not notify.
SilentRelease(a) == a

WakeAfterRelease(a) == NotifyAll(a)

\* release_inner, pool mutex held: an id that is not lent changes nothing; a locked
\* or poisoned connection is dropped, a clean one goes back to idle, a dirty one to
\* a cleanup task; `release` then wakes the waiters.  An id without registry entry
\* only leaves in_use.  A command on it that is not finished goes astray.
DoRelease(id) ==
    LET st == conn[id].st IN
    /\ astray' = IF \E u \in Users : cmd[u].phase # "none" /\ cmd[u].id = id
                 THEN astray \cup {id} ELSE astray
    /\ IF id \notin in_use \cap registry
       THEN /\ in_use' = in_use \ {id}
            /\ UNCHANGED <<idle, total_count, registry, conn, cleanup, acq, cmd>>
       ELSE
       /\ in_use' = in_use \ {id}
       /\ registry' = registry \ {id}
       /\ acq' = WakeAfterRelease(acq)
       /\ \/ /\ WrapperLocked(id) \/ MustDiscard(st)
             /\ total_count' = saturating_dec(total_count)
             /\ Discard({id})
             /\ cmd' = Orphaned(id)
             /\ UNCHANGED <<idle, cleanup>>
          \/ /\ ~WrapperLocked(id) /\ is_clean_for(st, st.parent_db)
             /\ idle' = Append(idle, id)
             /\ conn' = [conn EXCEPT ![id].st = begin_borrow(@.selected_db, @.selected_db)]
             /\ cmd' = Orphaned(id)
             /\ UNCHANGED <<total_count, cleanup>>
          \/ /\ ~WrapperLocked(id) /\ ~MustDiscard(st) /\ ~is_clean_for(st, st.parent_db)
             /\ cleanup' = [cleanup EXCEPT ![id] = [phase |-> "queued", pool |-> mapped = "pool"]]
             /\ UNCHANGED <<idle, total_count, conn, cmd>>

\* release_scope: nothing to do without the pool; the release runs here, or in a
\* task when the pool mutex is contended.
ReleaseScope(u, id) ==
    \/ /\ mapped # "pool"
       /\ UNCHANGED <<idle, in_use, total_count, registry, conn, cleanup, acq, toRelease, astray, cmd>>
    \/ /\ mapped = "pool" /\ Unlocked
       /\ DoRelease(id)
       /\ UNCHANGED toRelease
    \/ /\ mapped = "pool"
       /\ toRelease' = toRelease \cup {<<u, id>>}
       /\ UNCHANGED <<idle, in_use, total_count, registry, conn, cleanup, acq, astray, cmd>>

Release(u) ==
    /\ holds[u] # NoConn
    /\ scenario.late \/ cmd[u].phase = "none"
    /\ ReleaseScope(u, holds[u])
    /\ holds' = [holds EXCEPT ![u] = NoConn]
    /\ released' = [released EXCEPT ![u] = IF scenario.twice THEN holds[u] ELSE NoConn]
    /\ UNCHANGED <<lock, dial, prewarm, resyncReq, resyncing, envVars>>

\* A second release of a scope the user gave back before.
ReleaseAgain(u) ==
    /\ released[u] # NoConn
    /\ ReleaseScope(u, released[u])
    /\ released' = [released EXCEPT ![u] = NoConn]
    /\ UNCHANGED <<lock, dial, prewarm, resyncReq, resyncing, envVars, holds>>

DeferredRelease(u, id) ==
    /\ <<u, id>> \in toRelease /\ Unlocked
    /\ DoRelease(id)
    /\ toRelease' = toRelease \ {<<u, id>>}
    /\ UNCHANGED <<lock, dial, prewarm, resyncReq, resyncing, envVars, holds, released>>

\* The cleanup task locks the wrapper and sends the pipeline; any error discards.
CleanupSends(c) ==
    LET st == conn[c].st IN
    /\ cleanup[c].phase = "queued" /\ ~WrapperLocked(c)
    /\ \/ /\ CleanupAccepted(st, conn[c].server)
          /\ conn' = [conn EXCEPT ![c].server = Cleaned(st, @)]
          /\ cleanup' = [cleanup EXCEPT ![c].phase = "cleaned"]
       \/ /\ cleanup' = [cleanup EXCEPT ![c].phase = "failed"]
          /\ UNCHANGED conn
    /\ UNCHANGED <<poolVars, dial, prewarm, resyncReq, resyncing, envVars, acq, userVars, cmd>>

CleanupSlot(n) == saturating_dec(n)

\* Back under the pool mutex, if the pool was known at release: the connection
\* is idle on the borrow's database, or its slot is given back.
CleanupEnds(c) ==
    /\ cleanup[c].phase \in {"cleaned", "failed"}
    /\ cleanup' = [cleanup EXCEPT ![c] = NoCleanup]
    /\ cmd' = Orphaned(c)
    /\ \/ /\ ~cleanup[c].pool
          /\ Discard({c})
          /\ UNCHANGED <<idle, total_count, acq>>
       \/ /\ cleanup[c].pool /\ Unlocked /\ cleanup[c].phase = "cleaned"
          /\ idle' = Append(idle, c)
          /\ conn' = [conn EXCEPT ![c].st = begin_borrow(@.parent_db, @.parent_db)]
          /\ acq' = NotifyAll(acq)
          /\ UNCHANGED total_count
       \/ /\ cleanup[c].pool /\ Unlocked /\ cleanup[c].phase = "failed"
          /\ total_count' = CleanupSlot(total_count)
          /\ Discard({c})
          /\ acq' = NotifyAll(acq)
          /\ UNCHANGED idle
    /\ UNCHANGED <<in_use, lock, registry, dial, prewarm, resyncReq, resyncing, envVars, userVars>>

-----------------------------------------------------------------------------
(* The parent client *)

\* A SELECT on the parent moves its runtime database.
ParentSelects(d) ==
    /\ ParentRegistered /\ d # runtimeDb
    /\ runtimeDb' = d
    /\ UNCHANGED <<poolVars, conn, taskVars, scenario, closing, mapped, acq, userVars, cmd>>

\* unregister_client and destroy_client_scope_pool, none of it under the pool
\* mutex: the client leaves its registry, the pool leaves the map and wakes the
\* waiters, the scope registry is swept.
Unregister ==
    /\ scenario.close
    /\ closing = "open"
    /\ closing' = "unregistered"
    /\ UNCHANGED <<poolVars, conn, taskVars, scenario, runtimeDb, mapped, acq, userVars, cmd>>

DropPool ==
    /\ closing = "unregistered"
    /\ closing' = "unmapped"
    /\ mapped' = "none"
    /\ acq' = NotifyAll(acq)
    /\ UNCHANGED <<poolVars, conn, taskVars, scenario, runtimeDb, userVars, cmd>>

SweepRegistry ==
    /\ closing = "unmapped"
    /\ closing' = "swept"
    /\ registry' = {}
    /\ UNCHANGED <<idle, in_use, total_count, lock, conn, taskVars, scenario, runtimeDb, mapped,
                   acq, userVars, cmd>>

-----------------------------------------------------------------------------
Next ==
    \/ \E u \in Users :
          \/ \E t \in Targets : BeginAcquire(u, t)
          \/ Resolve(u) \/ TryAcquire(u) \/ Wake(u) \/ BackoffElapsed(u) \/ GiveUp(u)
          \/ \E c \in scenario.cmds : Issue(u, c)
          \/ Dispatch(u) \/ Execute(u) \/ Complete(u)
          \/ Release(u) \/ ReleaseAgain(u)
          \/ \E id \in Conns : DeferredRelease(u, id)
    \/ PrewarmStart
    \/ \E d \in Dials : DialConnects(d) \/ DialSeats(d) \/ DialFails(d)
    \/ \E t \in Targets, d \in Dbs : ResyncTake(t, d)
    \/ \E c \in Conns : ResyncSucceeds(c) \/ ResyncFails(c)
    \/ \E c \in Conns : CleanupSends(c) \/ CleanupEnds(c)
    \/ \E d \in Dbs : ParentSelects(d)
    \/ Unregister \/ DropPool \/ SweepRegistry

Spec == Init /\ [][Next]_vars

-----------------------------------------------------------------------------
(* Properties *)

ConnType == [target : Targets \cup {NoTarget}, st : ConnectionState, server : ServerState]

DialType == [phase : {"free", "dialing", "connected"}, target : Targets \cup {NoTarget},
             db : Dbs \cup {NoDb}, owner : Users \cup {NoUser}]

CleanupType == [phase : {"none", "queued", "cleaned", "failed"}, pool : BOOLEAN]

AcqType == [phase : {"off", "armed", "resolved", "sleeping", "creating", "backoff"},
            target : Targets \cup {NoTarget}, db : Dbs \cup {NoDb}, notified : BOOLEAN,
            cause : {"none", "unresolved", "pending", "exhausted"}]

CmdType == [phase : {"none", "sent", "found", "running"}, id : Conns \cup {NoConn}, c : Command,
            stale : BOOLEAN, poisoned : BOOLEAN, defer : BOOLEAN]

\* Every variable of the pool, the registries and the tasks has its type.
TypeOK ==
    /\ scenario \in Scenarios
    /\ idle \in Seq(Conns) /\ in_use \subseteq Conns /\ total_count \in Nat
    /\ lock \in Users \cup {NoUser}
    /\ registry \subseteq Conns
    /\ conn \in [Conns -> ConnType]
    /\ dial \in [Dials -> DialType]
    /\ prewarm \in Nat /\ resyncReq \in [Targets \X Dbs -> 0..MaxResync]
    /\ resyncing \in [Conns -> Dbs \cup {NoDb}]
    /\ cleanup \in [Conns -> CleanupType]
    /\ runtimeDb \in Dbs
    /\ closing \in {"open", "unregistered", "unmapped", "swept"}
    /\ mapped \in {"pool", "none", "orphan"}
    /\ acq \in [Users -> AcqType]
    /\ holds \in [Users -> Conns \cup {NoConn}]
    /\ released \in [Users -> Conns \cup {NoConn}]
    /\ toRelease \subseteq Users \X Conns
    /\ astray \subseteq Conns
    /\ cmd \in [Users -> CmdType]

\* ScopePool.total_count counts exactly the connections and reservations that
\* exist until the parent closes: no release, eviction, failed dial, failed
\* cleanup or failed resync leaks a slot or gives one back twice (a double
\* give-back would be hidden by saturating_dec, not prevented by it).
SlotsAccounted ==
    mapped = "pool" =>
        total_count = Len(idle) + Cardinality(in_use) + Cardinality(Dialing)
                      + Cardinality(Cleaning) + Cardinality(Resyncing)

\* A connection has one owner: it is idle once, or lent, or being cleaned, or
\* being resynced, never two of these, even when releases are repeated, deferred
\* or overtaken by commands.
OneOwner ==
    /\ \A i, j \in 1..Len(idle) : idle[i] = idle[j] => i = j
    /\ ToSet(idle) \cap (in_use \cup Cleaning \cup Resyncing) = {}
    /\ in_use \cap (Cleaning \cup Resyncing) = {}
    /\ Cleaning \cap Resyncing = {}

\* While nobody releases twice, a scope that a user holds is lent and registered,
\* and held by that user alone, until the parent closes.
ScopeExclusive ==
    \A u \in Users : (holds[u] # NoConn /\ closing = "open") =>
        /\ holds[u] \in in_use \cap registry
        /\ \A v \in Users \ {u} : holds[v] # holds[u]

\* An acquire that found the pool exhausted and has not been notified sleeps
\* only while the pool still is: no release, failed dial, eviction or cleanup
\* frees a slot without waking it.
ExhaustedWakes ==
    \A u \in Users :
        (acq[u].phase = "sleeping" /\ acq[u].cause = "exhausted" /\ ~acq[u].notified)
            => idle = <<>> /\ total_count >= MaxTotal

\* A scope is its holder's alone.
ScopesIsolated == OneOwner /\ (~scenario.twice => ScopeExclusive)

\* No slot is lost, and none is free while somebody sleeps for it.
SlotsSound == TypeOK /\ SlotsAccounted /\ ExhaustedWakes

\* What borrowers did to a connection does not reach the next one: in idle it carries
\* no watched key, open transaction, tracking, name, subscription or armed waiter on
\* the server, and it is on the database the pool recorded.  Excepted are the
\* connections that went astray, because update_state_for_command believes what was
\* sent: since they were opened, a command that must undo something (or a MULTI) was
\* refused or never sent, EXEC or DISCARD was sent outside MULTI or a command that
\* changes the connection inside it, or a scope was released before its command ended.
IdleIsPristine == \A c \in ToSet(idle) \ astray : Pristine(conn[c].server, Db(c))

\* A borrower is given a connection that is on the parent's runtime database, as the
\* attempt resolved it, unless the connection went astray.
BorrowOnRuntimeDb ==
    [][\A u \in Users : (holds[u] = NoConn /\ holds'[u] \notin astray \cup {NoConn}) =>
           conn[holds'[u]].server.db = acq[u].db]_vars
=============================================================================
