# A TLA+ verification of valkey-glide

Valkey GLIDE is a client library: a core in Rust (`glide-core/`, over a fork of
`redis-rs`) with a C ABI (`ffi/`) and thin bindings in Python, Node, Java, Go and
Rust. What is hard about it is not the wire protocol but the sharing: application
threads, tokio tasks, monitor threads and the network act on pools, connections,
counters, caches and maps that must stay exact through timeouts, cancellations,
failures and repeated or late calls. This project models those parts in TLA+, checks
them with TLC on small instances and proves the most important invariants with TLAPS
for every size.

Contents: [inventory](#inventory), [plan](#plan), [modules](#modules),
[runs](#runs), [bounds](#bounds), [fairness](#fairness), [proofs](#proofs),
[disagreements](#disagreements-with-the-docs), [limits](#not-modelled).

## Inventory

State, operations and what makes each part correct; **bold** parts are modelled.

| part (source) | state | operations | correct when |
|---|---|---|---|
| **Client-instance pool** (`glide-core/src/pool.rs`, `ffi/src/pool_ffi.rs`, flags in `ffi/src/lib.rs`) | idle stack, in-use map, atomic `total_count`, discarded ids, adapter table, blocking counters | create with warm-up, try / blocking acquire, background creation, async release with reset, cancellation guard, abandon monitor, command dispatch, destroy | a client has one owner; a borrow is exclusive; a slot is counted once and never lost; busy clients are not abandoned; adapters are reclaimed; a waiter is served |
| **Isolated scopes** (`pool.rs` ScopePool, `scope.rs`, `pool_ffi.rs`) | idle list, in-use set, `total_count`, scope registry, per-connection record, dial / cleanup / resync tasks | acquire loop, dial, prewarm, database resync, command, release (clean, dirty, contended, deferred, repeated), parent SELECT, parent close | slots exact; one owner; nothing of a borrow survives on an idle connection; a borrow starts on the parent's database; an exhausted acquire is woken |
| **Circuit breaker** (`client/circuit_breaker.rs`) | phase, sliding window, error count, open time, successes, stragglers, lock-free `healthy` | on_result, try_allow_probe, is_healthy | flag agrees with phase; count agrees with window; closes again once the servers answer |
| **Command dispatch and inflight limit** (`client/mod.rs`, tracker in `cluster_async/mod.rs`) | `inflight_requests_allowed`, tracker shared by clones of a command | admission, reservation, execution against the watchdog, report, return, cancel | limit holds; a slot comes back exactly once; the reported count is exact |
| **Reconnecting connection, standalone client, lazy client** (`client/reconnecting_connection.rs`, `standalone_client.rs`, `client/mod.rs`) | Connected / Reconnecting / InitializedDisconnected, availability signal, stored credentials, dropped flag, the lazy wrapper | first command, get_connection, reconnect and its task, checker, password update, drop | one creation and one reconnect at a time; no command waits for ever; fresh credentials are used; a dropped client stops |
| **IAM tokens, TLS reload** (`iam/`, `tls_reload/`) | cached token, creation time, generation, changed flag; parameters, fingerprint, the two files | refresh, reload, AUTH of borrowed connections | no token is taken for applied that was not; a connection presents a pair that was valid as a pair |
| **PubSub synchronizer** (`pubsub/synchronizer.rs`, part of `push_manager.rs`) | desired set, current set per address, pending unsubscribes, reconciliation task | subscribe, unsubscribe (lazy and blocking), confirm, topology refresh, reconcile, sink dropped | current converges to desired; a blocking call returns success only when it did; no channel ends at two nodes; the task ends with the client |
| **Multiplexed connection** (`aio/multiplexed_connection.rs`) | in-flight queue, channel to the writer task, fences, lost synchronization, last error | send_recv, pipeline, write, read, disconnect | each caller gets its own reply; "not sent" is never said of a command that was; each caller is answered |
| **Client-side cache** (`redis-rs/.../cache`) | entries, LRU or LFU order, memory counter, fills in flight | get, fill, invalidate, flush, evict, expire | no value older than an applied invalidation; fills end with their calls; memory exact |
| **Slot map and topology** (`cluster_slotmap.rs`, `cluster_topology.rs`) | ranges keyed by their end, shards, node index | MOVED edits, refresh, election among views | ranges disjoint and looked up right; an edit moves its slot only; the best view wins |
| **Cluster connection** (`cluster_async/mod.rs`, `connections_container.rs`) | connection map, refresh tasks and notifiers, pending requests, recovery queue, connection state | request, redirect, retry, recover, reconnect an address, refresh, validate | no request is executed twice or lost; a mark has a task; every request ends |
| Timeout watchdog (`timeout_watchdog.rs`) | deadline map on its own thread, published count | register, fire, drain, clean up | every live deadline fires, no closed one does |
| Cluster scan, routing, pipeline splitting, scripts container | slot bitmap and epochs; routing tables; reference counts | scan step; split and join; add, remove | no slot skipped; replies in order; no early free |
| Listener, conversion, compression, telemetry, RDMA, bindings | buffers, tables | I/O and marshalling | covered by their tests |

Interactions. A binding calls the FFI; the FFI takes a client from the client pool and
runs a command on it, raising its blocking counter, which the pool's monitor reads. A
command enters `Client::send_command`, initializes a lazy client, is admitted by the
breaker, reserves an inflight slot, runs in the standalone or cluster client against
the timeout watchdog and reports to the breaker. The standalone client gets its
connection from a reconnecting connection, whose credentials the IAM and TLS managers
renew in the background; the cluster client chooses a node by its slot map, follows
redirections and recovers. Both end in a multiplexed connection, which reads through
the client-side cache and hands pushes to the synchronizer. A scope borrows a
dedicated connection from the parent's ScopePool, follows the parent's runtime database
and shares the parent's limit and breaker.

Hard behaviours: two critical sections with a gap between them, tasks cancelled
half-way, calls that come late or twice with a reused id, a try_lock that fails,
counters kept by hand, replies matched by counting, a notifier taken before the wait,
and a client-side record of server state written before the server agrees.
`PROJECT.json` lists each as a hazard with its line.

## Plan

Done, in this order: ClientPool and its proofs; ScopeConnection and ScopePool;
CircuitBreaker, CommandPath and their proofs; IamTokens, CertReload and
ReconnectingConnection; PubSubSynchronizer with its abstract specification
SubscriptionService; ClientCache and MultiplexedConnection; SlotMap; ClusterConnection.

Next, model: the timeout watchdog and its composition with CommandPath (the timeout is
an action of the environment there); fan-out requests and pipelines over
ClusterConnection; the cluster scan over SlotMap; the scripts container.

Proved since: every invariant and every safety action property that a passing run checks, and
the safety part of the refinement of SubscriptionService. What a later model adds is to be
proved with it.

## Modules

| module | models | notes |
|---|---|---|
| `ClientPool` | the client-instance pool with its FFI, monitor and dispatch flags | every critical section of the pool mutex is one action; application threads, creation threads, release tasks, monitor and command tasks interleave between them |
| `ScopeConnection`, `ScopePool` | the record a scoped connection keeps beside the server's own state; acquire loop, dials, prewarm, resync, commands, release, cleanup, parent close | ScopePool EXTENDS ScopeConnection |
| `CircuitBreaker`, `CommandPath` | the breaker; admission, reservation, execution and report of concurrent requests | CommandPath EXTENDS CircuitBreaker, so the two form one system; `BreakerSpec` is the breaker on its own, told anything at any time. Four kinds of request: `single` checks and reports, `pubsub` checks and is answered by the synchronizer without a slot or a report, `scope` checks only, `batch` neither |
| `IamTokens`, `CertReload`, `ReconnectingConnection` | the two managers step by step; the reconnecting connection with the commands, the checker, the lazy client and the borrowed connections that use it | ReconnectingConnection EXTENDS both. Mode `static` is a password client, `cert` and `iam` one with that manager, `pool` borrowed connections that AUTH before a command unless `multi_active` says they are in a MULTI |
| `SubscriptionService` | what pub/sub promises: desired and actual sets, blocking calls, agreement in the end | abstract; no code of its own |
| `PubSubSynchronizer` | the synchronizer, its task, callers, servers and pushes | `Service` is `INSTANCE SubscriptionService WITH` actual = the union of the current sets |
| `ClientCache`, `MultiplexedConnection` | the two cache policies with their memory counter and fills; the writer task, the in-flight queue and their callers | MultiplexedConnection EXTENDS ClientCache: a read consults it, a reply fills it, a push invalidates |
| `SlotMap` | ranges, shards, MOVED edits, refresh, election of a view | the MOVED handler's look-up and edit are two steps |
| `ClusterConnection` | requests of one slot, redirections, retries, the three recoveries, reconnect tasks | the periodic validation takes its snapshot (`Validate`) and starts the reconnects (`ReconnectFailing`) in two steps; `RenewManagement` renews failed management connections; threads = 1: a task is interrupted only where it awaits; threads = 2: between any two locked sections |
| `ClientPoolProofs`, `ScopeProofs`, `CommandPathProofs`, `ReconnectingProofs`, `PubSubProofs`, `MultiplexedProofs`, `SlotMapProofs`, `ClusterProofs` | the theorems about ClientPool, ScopePool, CircuitBreaker with CommandPath, ReconnectingConnection, PubSubSynchronizer, MultiplexedConnection, SlotMap and ClusterConnection | each EXTENDS the module it is about |
| `MC*` | symmetry sets, command sets and scenarios for TLC | |

State correspondence. Variables carry the names of the fields they model; the variables
without a field are program counters of threads and tasks (`holds`, `waiting`,
`releasing`, `acq`, `dial`, `cleanup`, `cmd`, `user`, `task`, `driver`, `refresher`), the
servers, and budgets of events. `map` in `PROJECT.json` gives the lines of every
definition.

Refinement. Two specifications are shown to implement a more abstract one.
`PubSubSynchronizer` implements `SubscriptionService` under the mapping above, liveness
included (`ImplementsService`, by TLC): whatever commands, confirmations, lost sinks and
topology changes happen, the application only sees that subscriptions are gained for
channels it asked for, that a blocking call succeeds at a moment when its channels are
in step, and that in the end actual and desired agree. `CommandPath` implements
`BreakerSpec` (`PathImplementsBreaker`, by TLAPS).

Abstractions. *Time* is its verdicts: a client may become idle-expired or inactive at
any moment; instants of the breaker and of tokens are ages that a Tick increases up to
just above the bound they are compared with; sleeps and back-offs may end at any moment.
*Ids* that are never reused are drawn from a finite set, an id being free once nothing
refers to it. *try_lock* may fail whenever another thread could hold the lock.
*Condition variables and Notify*: the blocking acquire of the client pool also polls
every 50 ms, so lost notifications cost time only and each round is an action; the
scope acquire's `Notify`, the reconnect signal and the notifiers of the cluster are
modelled exactly. *Servers*: a command succeeds, is rejected, fails in transport or
times out, and the state a property is about (watch, database, subscriptions, slot
owner, number of executions) is kept beside the client's record of it. *Names* of the
servers, channels, keys and tokens are model values or versions. *The failure rate* of
the breaker, an f32 quotient, is an exact fraction. *total_count* of the client pool is
a u32 that wraps at `CountMod`.

## Runs

| run | question | answer |
|---|---|---|
| `pool` | two borrowers, one slot, warm-up, creation, eviction, reset, cancellation, abandonment, late release, destroy, in every order: are owners, slots and registries right, is the monitor's re-validation worth what the code can give it, is a waiter served? | yes |
| `command_path` | three requests of every kind over a limit of two, clones, timeouts, cancels, trips, probes, stragglers: flag, window and slots exact? | yes |
| `breaker_recovery` | the same path with two requests and fairness: does the breaker close once the servers answer? | yes |
| `scope_borrowing` | two users, two cluster primaries, one slot; a blocking command that outlives its borrow, or repeated releases, prewarm and a closing parent: slots, owners, wake-ups, exclusive holding? | yes |
| `scope_isolation` | every tracked command, inside MULTI and outside it, answered, refused or never sent, with failing cleanups and resyncs: is an idle connection pristine, does a borrow start on the parent's database? | yes, but for connections that went `astray` |
| `connection` | lazy creation, disconnects, reconnects, transactions of borrowers, new passwords, tokens and certificates, drop: one flight at a time, bookmark and certificate sound, do commands finish and dropped clients stop? | yes |
| `pubsub` | does the synchronizer implement SubscriptionService, do the servers settle with each channel at one node, does the task end? | yes |
| `multiplexed` | callers that give up, fenced commands, callers' PINGs, pushes, broken connections, reads through either cache: own replies, honest errors, no stale value without its invalidation, fills and memory exact, do calls end? | yes, but for a fence that was `mistaken` |
| `slots` | sequences of MOVED edits racing with refreshes, and elections among views in any order: ranges right, edits effective and local, election fair? | yes |
| `cluster` | requests against breaking, returning and migrating nodes with every redirection and error: executed at most once more per reply lost with an unlisted io error, in one place, queue drained, marks live, every request ended? | yes |
| `subscribe_desync` | a SUBSCRIBE of two channels, as the synchronizer sends it: do later commands get their own replies? | no |
| `reconnect_password` | a password updated while the connection is being re-established: is it used? | no |

Every property of a passing run has a mutant in `PROJECT.json`: a plausible slip in the
code (a guard dropped, a slot not given back, a stale generation accepted) that makes TLC
report that property.

## Bounds

- ClientPool: two client ids, two borrowers (the previous and the next), `max_size` and
  `min_idle` 1, so that reservation, warm-up, full pool and re-lending all happen; one
  command. `CountMod = 256` is far above every count reached, so only a real underflow
  wraps.
- ScopePool: two connections, two users, one or two dials and targets, `MaxTotal` 1 so
  that the pool is often exhausted; `MaxResync` bounds resync tasks queued per target and
  database. `Scenarios` lists what an application does: the commands it sends, whether it
  releases a scope `late` (a command unfinished) or `twice`, whether the parent closes,
  how many connections are prewarmed. A behaviour follows one scenario; with all of it at
  once the state space is out of reach. The commands of a scenario come in any order, each
  answered, refused or never sent; a scenario with MULTI has those commands beside it that
  are queued there.
- CommandPath: `MinErrors` and `ConsecutiveSuccesses` 2 (the first values that need a
  sequence), a window one tick long, `MaxWindowRecords` 2 so that the cap is reached, three
  requests over a limit of two (two requests in the liveness run), one clone in the
  pipeline.
- ReconnectingConnection: two commands and two connections; one disconnect, one password,
  token and certificate each, so that a late report of the old connection meets the new
  one and a refresh falls between any two steps. `Bounds` gives each mode its number of commands
  and breaks, whether tokens age and whether borrowers use MULTI: two commands race where
  creation or the reconcile lock is contended, three where a transaction comes first, elsewhere
  one races with the tasks.
- PubSubSynchronizer: three deployments (a standalone client with two channels; a cluster
  client with an exact and with a sharded channel), two nodes, and at most two or three
  events out of two changes, a failed command, a disconnect and two slot moves, in any
  mixture: enough for a change, a loss and a confirmation to be late with respect to each
  other.
- MultiplexedConnection: three calls over a channel of capacity 1, among them one or two
  fences, a caller's PING and a pipeline that contains one; two faults, one broken connection and
  two writes by another client; a cache of three units of memory and two keys,
  so that replacing and evicting differ.
- SlotMap: four slots, four nodes, three topologies (two shards; a shard in two ranges; an
  uncovered slot), three MOVED errors and two refreshes, three views in an election with
  one retry.
- ClusterConnection: two nodes, one or two requests, one retry, a recovery queue of one,
  five task identities (each node superseded twice). `Settings` lists the mixtures of
  events: one request with two or three of break, return, migration, refusal, timeout, a reply
  lost with an unlisted io error and a failed management connection, two requests with one, and
  the loss of both nodes for good.

`CHECK_DEADLOCK FALSE` stands where a run really stops: a destroyed pool, a closed parent,
a dropped client, or budgets of calls and events that are used up.

## Fairness

- ClientPool: the acquire loop runs at least every 50 ms (weak fairness; and strong
  fairness of the round that finds an idle client, as the code's other waiters retry on the
  same clock); spawned release tasks and deferred discards are run by the pool's runtime, the
  monitor checks and removes what it scanned, and the task of a returned command drops its guard; the
  application releases what it holds; of creations tried again and again one succeeds.
  Nothing is assumed of deadlines, resets or cancellations.
- CommandPath: the application keeps sending single commands and does not cancel every
  one of them, the runtime runs the tasks of a command to their end, time passes, and
  `try_write` does not lose the race for ever. `Recovers` speaks of behaviours in which
  from some moment on the servers answer (`healed`).
- ReconnectingConnection: the runtime polls ready commands, the tasks and the checker
  (weak); of the dials and token requests the loop repeats, one succeeds, and the two
  managers' timers are not avoided for ever (strong): the reconnect loop retries without end,
  so without a server that accepts in the end nothing can be said.
- PubSubSynchronizer: the runtime polls the task and the callers, each connection is read,
  the sink of a broken one is dropped, and the periodic check refreshes a stale map (weak).
  A subscription the client has lost track of receives a message some day: that is how the
  code learns of it.
- MultiplexedConnection and ClusterConnection: weak fairness of `Progress`, the disjunction
  of what the runtime and the server do by themselves. Timeouts, disconnects, refusals,
  migrations and returning nodes are never assumed.

## Proofs

Checked by TLAPS for every value of the constants. The assumptions on the constants are
named in the module that declares them, and TLC evaluates each of them on a run:

- `PoolAssumption`: finite sets, `max_size >= 1`, `min_idle <= max_size`, counts below the
  modulus;
- `BreakerConfig` (the assertions of `ClientCircuitBreaker::new`, a threshold as a fraction in
  (0, 1], a positive cap), `PathConfig` (finitely many requests, limit and clones natural
  numbers);
- `ConnAssumption`, `IamAssumption`, `CertAssumption`: the bounds are natural numbers, the
  markers for "nobody" and "no connection" are none of the names, every mode is one of four;
- `ScopeAssumption`, `DbAssumption`: likewise, with finitely many connections and dials;
- `ShardsAssumption` and the two beside it: finitely many nodes and more identities for shard
  objects than nodes (an `Arc` is always new), slots as an interval, topologies well formed;
- `ScenariosAssumption`, `MemoryAssumption`: capacities are natural numbers, finitely many keys,
  and a command that reads through the cache has one reply and is no fence;
- `KindsAssumption`, `DeploymentsAssumption`: finitely many channels, each of one kind, and at
  least one node;
- `ClusterAssumption`: at least one node, bounds natural numbers.

*ClientPoolProofs*: `TypeCorrect`, `OwnershipSafe`, `SlotsAccounted`, `RegistriesAccounted`,
`AbandonSafe`. None of the
properties is inductive alone. The ownership invariant joins single ownership, exclusive
borrows and that a released client is held by nobody: a client lent from idle stays
exclusive only if no earlier borrower still holds an idle client, and a late release stays
harmless only if a client pending release is in no other place. The count invariant joins
the match of `total_count` and the capacity bound; it needs single ownership, because a slot
is given back for a client removed from exactly one place. Each action has a lemma per
invariant, over lemmas about removing one element from the idle stack and about
cardinalities. The wrapped decrement equals the true one while the pool runs because what
is removed was counted. The registries follow: an adapter and its flags exist exactly for the
clients that are somewhere, given that every client the pool forgets is also on its way to
the adapter table. `AbandonSafe` is an action property: what the monitor takes away is inactive at
the moment it is taken, not only when it was scanned, and every counted blocking command on it
was dispatched after the monitor's check, while the monitor held the mutex. The check
(`MonitorRevalidate`, `pool.rs:707`) and the removal (`MonitorRemove`, `pool.rs:716`) are two steps,
because a dispatch raises the counter without the mutex. The invariant behind it says of the
client between them (`condemned`) that it is lent and inactive (`CondemnedLent`: nobody can
refresh it while the mutex is taken) and that its counter is at most the number of commands that
came `late` (`LateCounted`).

*ScopeProofs*: `ScopeInvariant`, `SlotsAlwaysSound`, `ScopesAlwaysIsolated`,
`IdleAlwaysPristine`, `BorrowsOnRuntimeDb`. The pool's part joins that a connection has one
owner among idle list, in-use set, dials and cleanups, that the open scopes are those in use, that
`total_count` is the number of owned slots, and what a closing parent leaves. `ExhaustedWakes`
says that a sleeping acquire has a notification coming, which needs all of that. The
connection's part relates the client's record to the server, for every connection that did not go
astray (`BorrowInv`): spotless while idle, covered by the record while it is lent (`Tracks`), fit for
the pipeline when a cleanup is queued, and a command on it is alone there and has the wrapper of
the current borrow. A command in flight is ahead of the server or behind it, so `Ahead` says what
the record must cover already. No theorem assumes anything of the application. `astray` is the
history of the connections for which the record is wrong, and each of its causes is necessary:
the record is written from what was sent, so a command that undoes something and is refused, EXEC
outside MULTI, a change inside MULTI, and a scope released before its command ended all leave it
behind the server, see [disagreements](#disagreements-with-the-docs). Slots and isolation of
the scopes hold for astray connections too.

*CommandPathProofs*: `TypeCorrect`, `InflightCounted`, `BreakerAgrees`,
`PathImplementsBreaker`. The breaker's invariant `BreakerInv` adds to the checked properties
that the window is sorted by age (so popping from the front removes every expired record)
and that a half-open phase is short of its successes. The key lemmas split the errors of a
window at the eviction point and bound the expired prefix. The path's invariant `PathInv` adds
that the caller holds its Cmd exactly from reservation to return and that clones exist only
from then on, which makes the set of live requests change by at most one per step.
`PathImplementsBreaker` shows that every step of the composed path is a step of `BreakerSpec`
or leaves the breaker alone, so the breaker's invariant carries over: what is reported is
always a count that on_result accepts.

*ReconnectingProofs*: `ReconnectsOnce`, `BookmarkNeverAhead`, `CertificatePresented`. One flight
at a time needs that each state of the connection has exactly the tasks it should: a reconnect
task lives exactly while the state is Reconnecting, and whoever creates the lazy client or
reconciles holds the lock it took. The bookmark needs a chain of comparisons: the generation
a task read before its request is at most the generation it stores, which is at most the
manager's, so a token that failed to apply is never recorded as applied. An AUTH sent into an open
MULTI is the exception: its +QUEUED counts as success. `TxnInv` shows that `multi_active` prevents it for a
borrower within the contract: such a borrower runs one command at a time, and the flag tells whether
the live connection is in a MULTI except while the EXEC or DISCARD that ends it is on its way; so
BookmarkSound excepts the connection concerned, and only for borrowers out of contract. The certificate needs
that a pair of files read while the fingerprint stood still was valid as a pair.

*PubSubProofs*: `SynchronizerInvariant`, `SynchronizerTypes`, `RefinesService`. The last one is
the refinement `Spec => Service!Safety`, step by step: reading a confirmation gains or
loses a channel, a dropped sink and a topology refresh lose channels, a caller's check that
succeeds is a return, a deadline is a timeout, dropping the client closes the service, and
every other step of callers, task, servers and topology stutters. What carries it is that
commands, confirmations and server subscriptions are only ever about channels some
caller asked for, and that a call names channels or a whole kind and never both.
`ImplementsService`, which TLC checks, adds Agreement, a liveness property.

*MultiplexedProofs*: `LinesHold`, `NeverResent`, `RepliesMatched`, `FillsAlwaysHeld`,
`StaleAlwaysAnnounced`, `CacheAlwaysExact`. A reply carries no identity, so
the invariant behind `RepliesMatched` (`MatchInv`) compares three lines: the entries in flight, the
commands written and not yet executed, and the items on their way back. Everything still to
come belongs to an entry, entries and items stand in the same order, and an entry lacks exactly
the items that are still to come for it. A read pops the first item and the first entry
together, whoever still waits for it; after a lost fence nothing is matched until the next
connection. Its hypothesis `RepliesCounted` is necessary: a SUBSCRIBE of several channels has
more replies than are counted (`subscribe_desync` violates it and the property). Any number of
fences and of PINGs is allowed; the exception of OwnReplies is `mistaken`, the history of a fence
whose own PING was refused and that took the PONG of another command for its own, after which
every later reply on the connection goes to the wrong caller. `MatchInv` holds until then, and
`mistaken` stays (`MistakenStays`). `NeverResent` needs no hypothesis: a message is in the channel or was written, never
both.

The three theorems about the cache use the same hypothesis and are stated with the same exception,
`[](mistaken \/ ...)`, since a call fills the cache with the reply it is given. `ReplyInv` says that this reply has a value for every key the call asked
for, wherever it is: on the stream, in the oneshot or with the caller. `CacheInv` says that a
fill belongs to a key its call still has to offer or drop. `StaleInv` then follows a value from
the server to the cache: a reply that is no longer the server's stands before an invalidation
of its key as long as the fill is registered, because an invalidation that overtakes the
caller takes the fill with it; so the value is refused or is in the cache before the
invalidation is read. This holds for commands of every kind beside the reads; after a fence
that failed the connection ignores invalidations, which counts them as lost (the scenarios TLC
enumerates have either a cache or a fence, to keep them small). The loops of the cache, eviction
until there is room and the invalidation of several keys, are again handled by least
counterexample.

`CacheAlwaysExact` is about the books the cache keeps by hand beside its entries. `Books` is the
inductive form of CacheExact: the order is a sequence without repetition of exactly the cached
keys, the kept minimum is attained by an entry and below none, and the charge is the sum of the
entries' sizes and within the limit. The sum is a fold over a set in an arbitrary order; that any
one entry can be split off it (`MemorySplit`) and that entries of equal value weigh the same
(`MemorySame`) are lemmas, from which each operation follows: because the charge is exact, the
saturating subtraction of `uncharge` never saturates. Eviction takes at least one key per turn or
has room; should it empty the cache the charge is 0, so a value within the limit always finds
room, and an entry is charged only after that. Because the order lists what is cached and the
minimum is attained, `evict_one` always finds a victim among the cached keys.

*SlotMapProofs*: `SlotMapInvariant`, `MapAlwaysConsistent`, `MovedAlwaysTakesEffect`,
`ElectionAlwaysFair`, `OnlyTheSlotMoves`. `Sound` says that ranges, shard objects and the node
index fit together, the object the MOVED handler holds between its two locks included. Editing a
range cuts it into at most three, so disjointness and the look-ups of all other slots are
shown for the edited map once and used by every edit. That a new shard object has a new
identity is a counting argument: at most one live object per node. The election's loop over
the views and the other recursive functions are handled by least counterexample on the number
of rounds, since induction itself is out of the prover's reach.

*ClusterProofs*: `NothingLost`, `ExecutedOnce`, `QueueDrains`, `MarkedIsTended`,
`NotifiedAfterAttempt`. The invariant joins where each request is (`ReqInv`: a command that can
still be sent was executed at most as often as its reply was lost with an io error that is
retried at once, `Even`, and once more than that only when nothing sends it again, `Ahead`), the order of the queues (`LineInv`: they hold exactly
the queued requests, each once), the driver's recovery, the node maps and the reconnect tasks
(`TaskInv`: every mark has a live task with the mark's identity, and a superseded task cannot
remove its successor's mark).

Only model-checked: the liveness properties, Agreement in ImplementsService included, since
fairness and ENABLED are out of the prover's reach.

## Disagreements with the docs

Two runs report a violation, each of a sentence in the repository (`findings`):

- `subscribe_desync` (`multiplexed_connection.rs:413`): a SUBSCRIBE of several channels is
  counted as one reply while the server confirms each channel;
- `reconnect_password` (`reconnecting_connection.rs:474`): without IAM and certificate reload
  the client is cloned once before the retry loop, so a password stored while it retries is
  not used by it; a database selected meanwhile likewise.

Seen while modelling, each reproduced by a variation of a run, and not kept as one:

*Pools and scopes*
- warm-up clients reserve nothing, so a pool can exceed `max_size` (`pool_ffi.rs:293`);
- a blocking guard that ends after its client was lent again lowers the new borrower's
  counter (`ffi/src/lib.rs:68`);
- destroying a pool while a client is under reset leaves that client's adapter entry
  (`pool_ffi.rs:608`);
- the activity refresh is skipped when the pool mutex is taken, so an active client can look
  abandoned (the code accepts this); for the same reason a blocking command dispatched between
  the monitor's check and its removal (`pool.rs:707` and `716`, `ffi/src/lib.rs:3757`) is on a
  client that is then discarded, which AbandonRevalidated excepts as `late`;
- EXEC or DISCARD outside MULTI marks a watched connection clean (`pool.rs:881`); a refused UNWATCH
  or SELECT back to the parent's database is recorded as done (`scope.rs:264`), and so is a SELECT
  that was queued and dropped with its MULTI: the next borrower gets the state left behind. These
  connections are `astray`, and IdleIsPristine and BorrowOnRuntimeDb except them;
- a command issued on a scope and run after its release executes on the idle connection or
  in the next borrow (scenarios with `late`), and releasing a scope id again after it was
  lent anew releases the new borrower (scenarios with `twice`); slots and ownership survive
  both, and are proved to.

*Command path*
- in the half-open phase, successes of requests admitted before the trip, and timeouts when
  they are not counted, pass for successful probes ("N consecutive probe successes",
  `circuit_breaker.rs:262`);
- batches neither consult nor inform the breaker; a script run through the socket listener
  reserves an inflight slot twice.

*Connections*
- a create_client that fails drops its nodes without `mark_as_dropped`, so their reconnect
  tasks keep running (`standalone_client.rs`, create_client);
- the +QUEUED of an AUTH sent into an open MULTI counts as a successful AUTH and advances the bookmark
  (`client/mod.rs:3391`). The `multi_active` check before it stops this for borrowers that run one
  command at a time; with concurrent commands, or after an EXEC that never reached the wire, the
  flag is wrong, which the comment at `3366` concedes (`misfiled` and `outOfContract`);
- `mark_as_dropped` lowers the telemetry count also of a connection already counted out
  (`reconnecting_connection.rs:409` and `455`).

*PubSub*
- UNSUBSCRIBE_BLOCKING of a whole kind with timeout 0 waits for ever if another caller
  subscribes to a channel of that kind (`Overruled` in SubscriptionService);
- a channel can stay subscribed at two nodes after a pending unsubscribe failed, which is only
  logged, after a sink dropped late together with a slot move, or after two topology changes
  in a row (comment at `synchronizer.rs:726`); NoDoubleDelivery therefore speaks of behaviours
  without these.

*Multiplexed connection and cache*
- the cache is not flushed when a connection ends, nor when a fence fails and invalidations are
  no longer processed (`send_result` returns first), so an entry whose invalidation was lost
  stays until its TTL (`lost` in the model, which StaleIsAnnounced excepts);
- the PING of a fence answered with an error leaves the command waiting for the next reply,
  after which synchronization counts as lost and commands in flight end by timeout only; if the
  command's own reply was an error too, synchronization counts as lost although nothing is shifted;
- that next reply is accepted when it is a PONG (`multiplexed_connection.rs:538`), also that of a
  caller's PING, of a PING in a pipeline or of another fence. Then nothing is reported and every later
  caller gets the reply of the command before its own (`mistaken`).

*Slot map and cluster*
- `shard_addrs_for_slot` (`cluster_slotmap.rs:215`) does not check that the range it finds starts
  at or below the slot: a MOVED for an uncovered slot is applied to the next range's shard, and
  the slot stays uncovered;
- a request takes the notifier of an address under conn_lock and calls `notified()` later
  (`cluster_async/mod.rs:3564` and `3610`): on a runtime with several worker threads
  (`java/src/jni_client.rs:134`, `node/rust-client/src/pool.rs:35`) the wake-up can fall in between
  and the request waits until its timeout. RequestsEnd is checked for one thread, the safety
  properties for two;
- an io error that `retry_method` does not list is retried at once (`types.rs:1283`,
  `cluster_async/mod.rs:1566`); it reaches the oldest command in flight, which the server may have
  executed and then executes again (`ioErrors`, which AtMostOnce counts);
- with retries exhausted, a MOVED does not update the slot map; merging a Reconnect into a
  RebuildSlots forgets the addresses (the periodic validation repairs it); the periodic check
  compares the topology of the last refresh only, so a stale MOVED edit is not seen
  (`mod.rs:2793`); a request that found no connection and is queued again is failed by the
  `fail_pending_requests` it triggers.

## Not modelled

`components` in `PROJECT.json` gives the reason for every part. The timeout watchdog, the cluster
scan, routing with pipeline splitting and the scripts container are stateful and next in the plan.
Left to tests for good: value conversion, compression, protobuf framing, telemetry, RDMA
and the bindings, which keep no shared state or only move bytes; they are most of the
repository's lines. Within the modelled parts: the JNI and N-API front ends of the pools
repeat the calls of the C ABI; slot pinning of cluster scopes is a local refusal of keyed
commands; RESET and HELLO after a command, the choice of a replica, the removal of nodes without
slots by the periodic validation, fan-out requests, the IP reverse index and the statistics counters are left
out. The runtimes are assumed not to panic inside a critical section.
