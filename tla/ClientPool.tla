----------------------------- MODULE ClientPool -----------------------------
(***************************************************************************)
(* The client-instance pool: glide-core/src/pool.rs (ClientPool, the async *)
(* release task, the abandon monitor, the blocking-flag registry) driven   *)
(* by the C ABI of ffi/src/pool_ffi.rs (create, acquire, release, destroy) *)
(* and by the command dispatch of ffi/src/lib.rs.                          *)
(*                                                                         *)
(* Every access to the ClientPool's collections is made under one tokio    *)
(* mutex, so a critical section is one step, with one exception: the       *)
(* monitor reads is_blocking and then removes the client, and the command  *)
(* dispatch raises is_blocking without the mutex, so the two are separate  *)
(* steps and `condemned` is the client the monitor holds the mutex for.    *)
(* Steps of the application threads, the creation threads, the release     *)
(* tasks, the monitor task and the command tasks interleave between        *)
(* critical sections.  A try_lock that finds the mutex taken is a          *)
(* nondeterministic choice: some other thread may always be inside a       *)
(* critical section at that instant.                                       *)
(*                                                                         *)
(* Time is abstracted to its verdicts: `expired` holds the idle clients    *)
(* older than idle_timeout, `inactive` the borrowed clients whose          *)
(* borrowed_at is older than abandon_timeout.                              *)
(***************************************************************************)
EXTENDS Integers, SequencesExt

CONSTANTS
    Clients,      \* client ids; an id nothing refers to any more stands for a fresh one
    Borrowers,    \* application threads
    Commands,     \* slots for blocking commands in flight
    NoClient, NoBorrower,
    MaxSize,      \* PoolConfig.max_size
    MinIdle,      \* PoolConfig.min_idle
    CountMod      \* modulus of the AtomicU32 total_count (2^32 in the code)

ASSUME PoolAssumption ==
    /\ IsFiniteSet(Clients)
    /\ IsFiniteSet(Commands)
    /\ NoClient \notin Clients
    /\ NoBorrower \notin Borrowers
    /\ MaxSize \in Nat \ {0}
    /\ MinIdle \in 0..MaxSize
    /\ CountMod \in Nat
    /\ CountMod > MaxSize + MinIdle

VARIABLES
    poolState,     \* ClientPool.state
    registered,    \* the pool_id is in POOL_REGISTRY
    idle,          \* ClientPool.idle, most recently returned last
    in_use,        \* keys of ClientPool.in_use
    total_count,   \* ClientPool.total_count
    discarded_ids, \* ClientPool.discarded_ids
    creating,      \* background creations that hold a reserved slot
    warming,       \* warm-up creations, which hold none
    adapters,      \* keys of POOL_CLIENTS (and values of POOL_ADAPTER_MAP)
    flags,         \* keys of BLOCKING_FLAG_REGISTRY
    is_blocking,   \* PooledClient.is_blocking, by client
    expired,       \* idle clients past idle_timeout
    inactive,      \* borrowed clients whose borrowed_at is past abandon_timeout
    holds,         \* the client each borrower believes it has
    waiting,       \* borrowers inside glide_pool_acquire_blocking
    toRelease,     \* clients whose release task is spawned and has not started
    releasing,     \* clients taken out of in_use, reset in flight
    cancelled,     \* cancelled releases whose discard was handed to a task
    monitor,       \* the abandon monitor task is alive
    scanned,       \* ids its last scan collected and it has not handled yet
    condemned,     \* the client it has found abandoned, under the mutex it still holds
    cmd            \* blocking commands in flight: `by` is the borrow they were sent
                   \* under, `late` says that their client was condemned by then

coreVars  == <<poolState, idle, in_use, total_count, discarded_ids, expired>>
ffiVars   == <<registered, creating, warming, adapters>>
flagVars  == <<flags, is_blocking, inactive>>
userVars  == <<holds, waiting>>
taskVars  == <<toRelease, releasing, cancelled>>
monVars   == <<monitor, scanned, condemned>>
vars      == <<coreVars, ffiVars, flagVars, userVars, taskVars, monVars, cmd>>

-----------------------------------------------------------------------------
(* Derived state *)

FreeCmd == [client |-> NoClient, by |-> NoBorrower, phase |-> "free", late |-> FALSE]

\* The monitor is not between its revalidation and its removal.
MutexFree == condemned = NoClient

Running == poolState = "RUNNING"

\* The clients that occupy a slot: idle, lent, being reset, or about to be discarded.
Owned == ToSet(idle) \cup in_use \cup releasing \cup cancelled

CommandsOn(c) == {k \in Commands : cmd[k].client = c}

\* NEXT_CLIENT_ID never repeats: a fresh id is one that nothing refers to.
Fresh(c) ==
    /\ c \notin Owned \cup discarded_ids \cup adapters \cup flags
    /\ c \notin toRelease \cup scanned
    /\ \A b \in Borrowers : holds[b] # c
    /\ CommandsOn(c) = {}

-----------------------------------------------------------------------------
Init ==
    /\ poolState = "RUNNING"
    /\ registered = TRUE
    /\ idle = <<>>
    /\ in_use = {}
    /\ total_count = 0
    /\ discarded_ids = {}
    /\ creating = 0
    /\ warming = MinIdle
    /\ adapters = {}
    /\ flags = {}
    /\ is_blocking = [c \in Clients |-> 0]
    /\ expired = {}
    /\ inactive = {}
    /\ holds = [b \in Borrowers |-> NoClient]
    /\ waiting = {}
    /\ toRelease = {}
    /\ releasing = {}
    /\ cancelled = {}
    /\ monitor = TRUE
    /\ scanned = {}
    /\ condemned = NoClient
    /\ cmd = [k \in Commands |-> FreeCmd]

-----------------------------------------------------------------------------
(* Building blocks of the critical sections *)

\* fetch_sub on the AtomicU32 wraps.
Decrement(n) == (total_count - n) % CountMod

\* discard_client for one client: its slot, its id for the bindings, its flag.
DiscardClient(c) ==
    /\ total_count' = Decrement(1)
    /\ discarded_ids' = discarded_ids \cup {c}
    /\ flags' = flags \ {c}

\* A new client enters the idle stack (add_client, add_client_reserved and
\* the open-coded copies in pool_ffi.rs).
AddClient(c) ==
    /\ idle' = Append(idle, c)
    /\ flags' = flags \cup {c}
    /\ is_blocking' = [is_blocking EXCEPT ![c] = 0]
    /\ adapters' = adapters \cup {c}

\* return_to_idle after a successful reset.
ReturnToIdle(c) ==
    \/ /\ Running
       /\ idle' = Append(idle, c)
       /\ is_blocking' = [is_blocking EXCEPT ![c] = 0]
       /\ UNCHANGED <<total_count, discarded_ids, flags>>
    \/ /\ ~Running
       /\ DiscardClient(c)
       /\ UNCHANGED <<idle, is_blocking>>

\* refresh_client_activity: borrowed_at = now when the pool is registered and
\* try_lock succeeds, otherwise the update is silently skipped.
RefreshActivity(c) ==
    \/ /\ registered
       /\ MutexFree
       /\ inactive' = inactive \ {c}
    \/ inactive' = inactive

\* Mutant of Unmarked: a plain fetch_sub.
UnmarkedUnderflow(c) == [is_blocking EXCEPT ![c] = @ - 1]

\* The decrement-if-positive of UnmarkOnDrop.
Unmarked(c) ==
    [is_blocking EXCEPT ![c] = IF @ > 0 THEN @ - 1 ELSE 0]

-----------------------------------------------------------------------------
(* Acquire *)

\* Mutant of DrainAndEvict: evicted ids are not reported to the bindings.
DrainAndEvictUnreported(evicted) ==
    /\ adapters' = adapters \ discarded_ids
    /\ discarded_ids' = {}
    /\ flags' = flags \ evicted
    /\ expired' = expired \ evicted

\* The drain at the head of both acquire entry points, and the evictions of
\* try_acquire, which report their ids for the next drain.
DrainAndEvict(evicted) ==
    /\ adapters' = adapters \ discarded_ids
    /\ discarded_ids' = evicted
    /\ flags' = flags \ evicted
    /\ expired' = expired \ evicted

\* The idle entries popped before the one at position top.
PoppedAbove(top) == {idle[j] : j \in (top + 1)..Len(idle)}

\* try_acquire pops from the back, evicts what has expired and lends the first
\* client that has not.
Lend(b) ==
    /\ Running
    /\ \E top \in DOMAIN idle :
        /\ idle[top] \notin expired
        /\ PoppedAbove(top) \subseteq expired
        /\ DrainAndEvict(PoppedAbove(top))
        /\ idle' = SubSeq(idle, 1, top - 1)
        /\ in_use' = in_use \cup {idle[top]}
        /\ inactive' = inactive \ {idle[top]}
        /\ total_count' = Decrement(Cardinality(PoppedAbove(top)))
        /\ holds' = [holds EXCEPT ![b] = idle[top]]
    /\ UNCHANGED creating

\* should_create of a running pool: there is room below max_size.
ShouldCreate(count) == count < MaxSize

\* Every idle client has expired: try_acquire returns -3, and a slot is reserved
\* for a background creation if should_create.
Miss ==
    LET evicted == ToSet(idle)
        left == Decrement(Cardinality(evicted))
    IN
    /\ Running
    /\ evicted \subseteq expired
    /\ DrainAndEvict(evicted)
    /\ idle' = <<>>
    /\ \/ ShouldCreate(left) /\ total_count' = left + 1 /\ creating' = creating + 1
       \/ ~ShouldCreate(left) /\ total_count' = left /\ creating' = creating
    /\ UNCHANGED <<in_use, inactive, holds>>

\* try_acquire on a destroyed pool returns -1; the drain has run.
MissClosed ==
    /\ ~Running
    /\ adapters' = adapters \ discarded_ids
    /\ discarded_ids' = {}
    /\ UNCHANGED <<idle, in_use, total_count, creating, flags, expired, inactive, holds>>

Attempt(b) ==
    /\ MutexFree
    /\ Lend(b) \/ Miss \/ MissClosed
    /\ UNCHANGED <<poolState, registered, warming, is_blocking, taskVars, monVars, cmd>>

\* glide_pool_try_acquire (a contended try_lock returns -1 and changes nothing).
TryAcquire(b) ==
    /\ registered
    /\ b \notin waiting
    /\ holds[b] = NoClient
    /\ Attempt(b)
    /\ UNCHANGED waiting

\* glide_pool_acquire_blocking looks the pool up once and keeps the Arc.
AcquireBlocking(b) ==
    /\ registered
    /\ b \notin waiting
    /\ holds[b] = NoClient
    /\ waiting' = waiting \cup {b}
    /\ UNCHANGED <<coreVars, ffiVars, flagVars, holds, taskVars, monVars, cmd>>

\* One round of its loop.
AcquireRound(b) ==
    /\ b \in waiting
    /\ Attempt(b)
    /\ waiting' = IF holds'[b] = NoClient THEN waiting ELSE waiting \ {b}

\* Its deadline passes: -1.
AcquireTimeout(b) ==
    /\ b \in waiting
    /\ waiting' = waiting \ {b}
    /\ UNCHANGED <<coreVars, ffiVars, flagVars, holds, taskVars, monVars, cmd>>

-----------------------------------------------------------------------------
(* Client creation threads *)

\* A warm-up thread of glide_pool_create connects: it adds its client and only
\* then counts it; on a closed pool it drops the orphan.
WarmupDone(c) ==
    /\ warming > 0
    /\ MutexFree
    /\ Fresh(c)
    /\ warming' = warming - 1
    /\ \/ /\ Running
          /\ AddClient(c)
          /\ total_count' = (total_count + 1) % CountMod
       \/ /\ ~Running
          /\ UNCHANGED <<idle, flags, is_blocking, adapters, total_count>>
    /\ UNCHANGED <<poolState, registered, in_use, discarded_ids, creating, expired,
                   inactive, userVars, taskVars, monVars, cmd>>

WarmupFailed ==
    /\ warming > 0
    /\ warming' = warming - 1
    /\ UNCHANGED <<coreVars, registered, creating, adapters, flagVars, userVars,
                   taskVars, monVars, cmd>>

\* A background creation connects: its slot becomes a client, or is given back
\* when the pool was destroyed meanwhile (release_reservation).
CreateDone(c) ==
    /\ creating > 0
    /\ MutexFree
    /\ Fresh(c)
    /\ creating' = creating - 1
    /\ \/ /\ Running
          /\ AddClient(c)
          /\ UNCHANGED total_count
       \/ /\ ~Running
          /\ total_count' = Decrement(1)
          /\ UNCHANGED <<idle, flags, is_blocking, adapters>>
    /\ UNCHANGED <<poolState, registered, in_use, discarded_ids, warming, expired,
                   inactive, userVars, taskVars, monVars, cmd>>

\* Mutant of CreateFailed: the reserved slot is not given back.
CreateFailedKeepsSlot ==
    /\ creating > 0
    /\ MutexFree
    /\ creating' = creating - 1
    /\ UNCHANGED <<coreVars, registered, warming, adapters, flagVars, userVars, taskVars,
                   monVars, cmd>>

\* A background creation fails: release_reservation.
CreateFailed ==
    /\ creating > 0
    /\ MutexFree
    /\ creating' = creating - 1
    /\ total_count' = Decrement(1)
    /\ UNCHANGED <<poolState, registered, idle, in_use, discarded_ids, warming, adapters,
                   expired, flagVars, userVars, taskVars, monVars, cmd>>

-----------------------------------------------------------------------------
(* Release *)

\* Commands still in flight when their borrower releases belong to no borrow.
\* (The reset does not wait for them: a cluster client sends it to another node,
\* and a command task may be polled after the reset of its client.)
Orphaned(b) ==
    [k \in Commands |->
        [cmd[k] EXCEPT !.by = IF cmd[k].by = b THEN NoBorrower ELSE @]]

\* glide_pool_release spawns release_client_async, or returns -1 when the pool
\* is no longer registered.  Either way the borrower is done with the client.
Release(b) ==
    /\ holds[b] # NoClient
    /\ holds' = [holds EXCEPT ![b] = NoClient]
    /\ toRelease' = IF registered THEN toRelease \cup {holds[b]} ELSE toRelease
    /\ cmd' = Orphaned(b)
    /\ UNCHANGED <<coreVars, ffiVars, flagVars, waiting, releasing, cancelled, monVars>>

\* The task takes the client out of in_use; it returns if it is not there.
TakeForRelease(c) ==
    /\ c \in toRelease
    /\ MutexFree
    /\ toRelease' = toRelease \ {c}
    /\ \/ /\ c \in in_use
          /\ in_use' = in_use \ {c}
          /\ inactive' = inactive \ {c}
          /\ releasing' = releasing \cup {c}
       \/ /\ c \notin in_use
          /\ UNCHANGED <<in_use, inactive, releasing>>
    /\ UNCHANGED <<poolState, idle, total_count, discarded_ids, expired, ffiVars, flags,
                   is_blocking, userVars, cancelled, monVars, cmd>>

\* DISCARD + SELECT succeeded.
ResetOk(c) ==
    /\ c \in releasing
    /\ MutexFree
    /\ releasing' = releasing \ {c}
    /\ ReturnToIdle(c)
    /\ UNCHANGED <<poolState, in_use, expired, ffiVars, inactive, userVars, toRelease,
                   cancelled, monVars, cmd>>

\* The reset failed or ran past 2 x request_timeout.
ResetFailed(c) ==
    /\ c \in releasing
    /\ MutexFree
    /\ releasing' = releasing \ {c}
    /\ DiscardClient(c)
    /\ UNCHANGED <<poolState, idle, in_use, expired, ffiVars, is_blocking, inactive,
                   userVars, toRelease, cancelled, monVars, cmd>>

\* Mutant of ReleaseCancelled: without the guard the client just vanishes.
ReleaseCancelledUnguarded(c) ==
    /\ c \in releasing
    /\ releasing' = releasing \ {c}
    /\ UNCHANGED <<coreVars, ffiVars, flagVars, userVars, toRelease, cancelled, monVars, cmd>>

\* The task is cancelled: LeakGuard discards, or hands the discard to a task
\* when the mutex is taken.
ReleaseCancelled(c) ==
    /\ c \in releasing
    /\ releasing' = releasing \ {c}
    /\ \/ MutexFree /\ DiscardClient(c) /\ UNCHANGED cancelled
       \/ cancelled' = cancelled \cup {c} /\ UNCHANGED <<total_count, discarded_ids, flags>>
    /\ UNCHANGED <<poolState, idle, in_use, expired, ffiVars, is_blocking, inactive,
                   userVars, toRelease, monVars, cmd>>

DeferredDiscard(c) ==
    /\ c \in cancelled
    /\ MutexFree
    /\ cancelled' = cancelled \ {c}
    /\ DiscardClient(c)
    /\ UNCHANGED <<poolState, idle, in_use, expired, ffiVars, is_blocking, inactive,
                   userVars, toRelease, releasing, monVars, cmd>>

-----------------------------------------------------------------------------
(* The abandon monitor *)

Abandoned(c) == c \in in_use /\ is_blocking[c] = 0 /\ c \in inactive

\* One scan under the lock; the task ends when the pool is not running.
MonitorScan ==
    /\ monitor
    /\ MutexFree
    /\ scanned = {}
    /\ \/ Running /\ scanned' = {c \in Clients : Abandoned(c)} /\ UNCHANGED monitor
       \/ ~Running /\ monitor' = FALSE /\ UNCHANGED scanned
    /\ UNCHANGED <<coreVars, ffiVars, flagVars, userVars, taskVars, condemned, cmd>>

\* Mutant of MonitorRevalidate: whatever the scan collected is removed.
MonitorRevalidateStale(c) ==
    /\ monitor
    /\ MutexFree
    /\ c \in scanned
    /\ scanned' = scanned \ {c}
    /\ condemned' = IF c \in in_use THEN c ELSE NoClient
    /\ UNCHANGED <<coreVars, ffiVars, flagVars, userVars, taskVars, monitor, cmd>>

\* Each collected id is looked up and revalidated under a new lock.
MonitorRevalidate(c) ==
    /\ monitor
    /\ MutexFree
    /\ c \in scanned
    /\ scanned' = scanned \ {c}
    /\ condemned' = IF Abandoned(c) THEN c ELSE NoClient
    /\ UNCHANGED <<coreVars, ffiVars, flagVars, userVars, taskVars, monitor, cmd>>

\* Mutant of MonitorRemove: the abandoned client goes back to idle.
MonitorRemoveReturns ==
    /\ condemned # NoClient
    /\ condemned' = NoClient
    /\ in_use' = in_use \ {condemned}
    /\ inactive' = inactive \ {condemned}
    /\ ReturnToIdle(condemned)
    /\ UNCHANGED <<poolState, expired, ffiVars, userVars, taskVars, monitor, scanned, cmd>>

\* The revalidated client is removed and discarded, and the mutex released.
MonitorRemove ==
    /\ condemned # NoClient
    /\ condemned' = NoClient
    /\ in_use' = in_use \ {condemned}
    /\ inactive' = inactive \ {condemned}
    /\ DiscardClient(condemned)
    /\ UNCHANGED <<poolState, idle, expired, ffiVars, is_blocking, userVars, taskVars,
                   monitor, scanned, cmd>>

\* The abort requested by unregister_pool takes effect at an await of the task.
MonitorAborted ==
    /\ monitor
    /\ MutexFree
    /\ ~registered
    /\ monitor' = FALSE
    /\ scanned' = {}
    /\ UNCHANGED <<coreVars, ffiVars, flagVars, userVars, taskVars, condemned, cmd>>

-----------------------------------------------------------------------------
(* Command dispatch on a borrowed client *)

\* A command that is not tracked as blocking refreshes the inactivity timer.
DispatchCommand(b) ==
    /\ holds[b] \in adapters
    /\ RefreshActivity(holds[b])
    /\ UNCHANGED <<coreVars, ffiVars, flags, is_blocking, userVars, taskVars, monVars, cmd>>

\* A blocking command (and every batch or script) raises the counter before it
\* is spawned; the counter is reached through the flag registry, without the mutex.
DispatchBlocking(b, k) ==
    /\ holds[b] \in adapters \cap flags
    /\ cmd[k] = FreeCmd
    /\ RefreshActivity(holds[b])
    /\ is_blocking' = [is_blocking EXCEPT ![holds[b]] = @ + 1]
    /\ cmd' = [cmd EXCEPT ![k] = [client |-> holds[b], by |-> b, phase |-> "running",
                                  late |-> condemned = holds[b]]]
    /\ UNCHANGED <<coreVars, ffiVars, flags, userVars, taskVars, monVars>>

\* send_command returned; the timer is refreshed before the guard drops.
CommandReturned(k) ==
    /\ cmd[k].phase = "running"
    /\ RefreshActivity(cmd[k].client)
    /\ cmd' = [cmd EXCEPT ![k].phase = "returned"]
    /\ UNCHANGED <<coreVars, ffiVars, flags, is_blocking, userVars, taskVars, monVars>>

\* UnmarkOnDrop lowers the counter: at the end of the task, or when it is aborted.
Unmark(k) ==
    /\ cmd[k].phase \in {"running", "returned"}
    /\ is_blocking' = Unmarked(cmd[k].client)
    /\ cmd' = [cmd EXCEPT ![k] = FreeCmd]
    /\ UNCHANGED <<coreVars, ffiVars, flags, inactive, userVars, taskVars, monVars>>

-----------------------------------------------------------------------------
(* Destroy and time *)

\* glide_pool_destroy, first half: the registry entry goes, without the lock.
DestroyUnregister ==
    /\ registered
    /\ registered' = FALSE
    /\ UNCHANGED <<coreVars, creating, warming, adapters, flagVars, userVars, taskVars,
                   monVars, cmd>>

\* Second half, under the lock (at once or in a spawned task): the clients it
\* can see are reclaimed and ClientPool::destroy clears the pool.
DestroyCleanup ==
    LET ids == ToSet(idle) \cup in_use \cup discarded_ids IN
    /\ ~registered
    /\ Running
    /\ MutexFree
    /\ poolState' = "CLOSED"
    /\ adapters' = adapters \ ids
    /\ flags' = flags \ ids
    /\ discarded_ids' = {}
    /\ idle' = <<>>
    /\ in_use' = {}
    /\ total_count' = 0
    /\ expired' = {}
    /\ inactive' = {}
    /\ UNCHANGED <<registered, creating, warming, is_blocking, userVars, taskVars, monVars, cmd>>

\* idle_timeout passes for the longest idle client that had not expired.
IdleTimeout ==
    /\ \E i \in DOMAIN idle :
        /\ idle[i] \notin expired
        /\ \A j \in 1..(i - 1) : idle[j] \in expired
        /\ expired' = expired \cup {idle[i]}
    /\ UNCHANGED <<poolState, idle, in_use, total_count, discarded_ids, ffiVars, flagVars,
                   userVars, taskVars, monVars, cmd>>

\* abandon_timeout passes since the last refresh.  It does not pass between the
\* refresh of a returned command and its guard's drop, two adjacent statements.
AbandonTimeout(c) ==
    /\ c \in in_use \ inactive
    /\ \A k \in CommandsOn(c) : cmd[k].phase # "returned"
    /\ inactive' = inactive \cup {c}
    /\ UNCHANGED <<coreVars, ffiVars, flags, is_blocking, userVars, taskVars, monVars, cmd>>

-----------------------------------------------------------------------------
BorrowerStep(b) ==
    \/ TryAcquire(b) \/ AcquireBlocking(b) \/ AcquireRound(b) \/ AcquireTimeout(b)
    \/ Release(b) \/ DispatchCommand(b)
    \/ \E k \in Commands : DispatchBlocking(b, k)

ClientStep(c) ==
    \/ WarmupDone(c) \/ CreateDone(c)
    \/ TakeForRelease(c) \/ ResetOk(c) \/ ResetFailed(c)
    \/ ReleaseCancelled(c) \/ DeferredDiscard(c)
    \/ MonitorRevalidate(c) \/ AbandonTimeout(c)

CommandStep(k) == CommandReturned(k) \/ Unmark(k)

PoolStep ==
    \/ WarmupFailed \/ CreateFailed \/ MonitorScan \/ MonitorRemove \/ MonitorAborted
    \/ DestroyUnregister \/ DestroyCleanup \/ IdleTimeout

Next ==
    \/ \E b \in Borrowers : BorrowerStep(b)
    \/ \E c \in Clients : ClientStep(c)
    \/ \E k \in Commands : CommandStep(k)
    \/ PoolStep

Spec == Init /\ [][Next]_vars

-----------------------------------------------------------------------------
(* Properties *)

CmdType ==
    [client : Clients \cup {NoClient}, by : Borrowers \cup {NoBorrower},
     phase : {"free", "running", "returned"}, late : BOOLEAN]

\* Every variable has the type of the field it models; total_count is a u32.
TypeOK ==
    /\ poolState \in {"RUNNING", "CLOSED"}
    /\ registered \in BOOLEAN
    /\ idle \in Seq(Clients)
    /\ in_use \subseteq Clients
    /\ total_count \in 0..(CountMod - 1)
    /\ discarded_ids \subseteq Clients
    /\ creating \in Nat
    /\ warming \in 0..MinIdle
    /\ adapters \subseteq Clients
    /\ flags \subseteq Clients
    /\ is_blocking \in [Clients -> Nat]
    /\ expired \subseteq Clients
    /\ inactive \subseteq Clients
    /\ holds \in [Borrowers -> Clients \cup {NoClient}]
    /\ waiting \subseteq Borrowers
    /\ toRelease \subseteq Clients
    /\ releasing \subseteq Clients
    /\ cancelled \subseteq Clients
    /\ monitor \in BOOLEAN
    /\ scanned \subseteq Clients
    /\ condemned \in Clients \cup {NoClient}
    /\ cmd \in [Commands -> CmdType]

\* A client is in one place: once in the idle stack, or lent, or under reset, or
\* awaiting its deferred discard, or discarded (take_for_release, return_to_idle,
\* discard_client, the monitor's removal and the release tasks all race).
SingleOwner ==
    /\ IsInjective(idle)
    /\ ToSet(idle) \cap (in_use \cup releasing \cup cancelled) = {}
    /\ in_use \cap (releasing \cup cancelled) = {}
    /\ releasing \cap cancelled = {}
    /\ discarded_ids \cap Owned = {}

\* While the pool runs, total_count is the number of slots really taken: no path
\* (failed creation, failed or cancelled reset, abandonment, eviction) loses or
\* returns a slot twice.
CountMatches == Running => total_count = Cardinality(Owned) + creating

\* What max_size really bounds: reservations respect it, the min_idle warm-up
\* clients come on top.
CapacityBound == Running => total_count + warming <= MaxSize + MinIdle

\* "Discarding guarantees two borrowers never share a connection"
\* (start_abandon_monitor): no two borrowers hold the same client.
ExclusiveBorrow ==
    \A a, b \in Borrowers : holds[a] = holds[b] /\ holds[a] # NoClient => a = b

\* A client that is idle, or on its way back to idle or to the discard list, is
\* known to no borrower and to no pending release: a release that comes late, after
\* the monitor has discarded the client, finds nothing of another borrower's.
ReleasedNotHeld ==
    /\ \A b \in Borrowers :
        holds[b] \notin toRelease \cup releasing \cup cancelled \cup ToSet(idle)
    /\ toRelease \cap (releasing \cup cancelled \cup ToSet(idle)) = {}

\* Releases, resets, cancellations, abandonments, evictions and destroy may race as
\* they like: a client is in one place and has one holder.
Ownership == SingleOwner /\ ExclusiveBorrow /\ ReleasedNotHeld

\* The slots of a running pool are counted exactly and bounded.
SlotsExact == CountMatches /\ CapacityBound

\* While the pool runs, the bindings' adapter table holds exactly the live clients
\* and the discarded ones the next drain will reclaim (drain_discarded_ids).
AdaptersAccounted == Running => adapters = Owned \cup discarded_ids

\* "the registry entry must live for the entire lifetime the client_id exists in
\* the pool" (glide_pool_release): flags are kept for the live clients only.
FlagsLive == Running => flags = Owned

\* The blocking counter never exceeds the commands still in flight, so the monitor
\* is never kept away from a client by a command that has ended.
NoPhantomBlocking ==
    \A c \in Clients : is_blocking[c] <= Cardinality(CommandsOn(c))

\* What is kept per client id outside the pool (adapters, flags, blocking counters)
\* follows the clients through every release, eviction, abandonment and late command.
RegistriesExact == AdaptersAccounted /\ FlagsLive /\ NoPhantomBlocking

\* The commands dispatched on c after the monitor had condemned it.
LateOn(c) == {k \in CommandsOn(c) : cmd[k].late}

\* What the monitor's revalidation is worth.  It discards a lent client only while the
\* current borrow is inactive, whatever happened between its scan and its lock (release
\* and re-borrow of the same id, refresh, blocking dispatch), and the counted blocking
\* commands it cuts short are those dispatched after its check, in the critical section
\* that removes the client: a dispatch raises the counter without the mutex, and its
\* refresh is skipped because the mutex is taken.
AbandonRevalidated ==
    [][\A c \in in_use \ in_use' :
          c \in discarded_ids' =>
             c \in inactive /\ is_blocking[c] <= Cardinality(LateOn(c))]_vars

-----------------------------------------------------------------------------
(* Liveness *)

\* The loop of acquire_blocking polls at least every 50 ms; spawned tasks, the
\* monitor among them, are run by the pool runtime, and a task whose command has
\* returned drops its guard; a creation eventually succeeds if tried again and
\* again; the application eventually releases.  Nothing is assumed of deadlines.
Fairness ==
    /\ \A b \in Borrowers :
        /\ WF_vars(AcquireRound(b))
        /\ SF_vars(AcquireRound(b) /\ Lend(b))
        /\ WF_vars(Release(b))
    /\ SF_vars(\E c \in Clients : CreateDone(c))
    /\ \A c \in Clients :
        /\ WF_vars(TakeForRelease(c))
        /\ WF_vars(ResetOk(c) \/ ResetFailed(c) \/ ReleaseCancelled(c))
        /\ WF_vars(DeferredDiscard(c))
        /\ WF_vars(MonitorRevalidate(c))
    /\ WF_vars(MonitorRemove)
    /\ \A k \in Commands : WF_vars(cmd[k].phase = "returned" /\ Unmark(k))

FairSpec == Spec /\ Fairness

\* The pool never wedges: a blocking acquire whose deadline never comes is served
\* unless the pool is destroyed (no slot is lost by a failed creation, a failed or
\* cancelled release, an eviction or an abandonment).
WaiterServed ==
    \A b \in Borrowers : b \in waiting ~> (b \notin waiting \/ ~registered)
=============================================================================
