---------------------- MODULE ReconnectingConnection ----------------------
(***************************************************************************)
(* One node of the standalone client: the lazily created client, its       *)
(* ReconnectingConnection, the commands that use it, the reconnect task,   *)
(* the connection checker, and the credentials a reconnect dials with (a   *)
(* stored password, an IAM token or a reloaded client certificate).        *)
(* Sources: glide-core/src/client/{reconnecting_connection,                *)
(* standalone_client,mod}.rs.                                              *)
(***************************************************************************)
EXTENDS IamTokens, CertReload

CONSTANTS
    Users,         \* concurrent commands of one client
    Conns,         \* identities of multiplexed connections, reused when free
    Tasks,         \* identities of spawned reconnect tasks
    NoConn, NoUser,
    Modes,         \* subset of {"static", "cert", "iam", "pool"}
    Bounds,        \* bounds of a behaviour, a choice of them per mode
    MaxPasswords   \* bound: password changes on the server (static mode)

\* MULTI, either of EXEC and DISCARD, and any other command.
Kind == {"plain", "multi", "end"}

\* How many commands are issued and connections break, whether tokens grow old, and
\* of which kinds the commands are.
Bound == [commands : Nat, breaks : Nat, ages : BOOLEAN, kinds : SUBSET Kind]

ASSUME ConnAssumption ==
    /\ Modes \subseteq {"static", "cert", "iam", "pool"}
    /\ Bounds \in [Modes -> SUBSET Bound] /\ MaxPasswords \in Nat
    /\ NoConn \notin Conns /\ NoUser \notin Users

VARIABLES
    bound,         \* the bounds of this behaviour
    mode,          \* which credentials the client was configured with
    wrapper,       \* "lazy" until get_or_initialize_client created the client
    clients,       \* history: clients created
    state,         \* ConnectionState
    cur,           \* the connection inside Connected
    signal,        \* connection_available_signal
    dropped,       \* client_dropped_flagged
    stored,        \* connection_info: password and TLS parameters
    task,          \* reconnect tasks
    checker,       \* the periodic check: connection it looked at, or "stopped"
    user,          \* commands
    lock,          \* iam_reconcile_lock
    bookmark,      \* last_iam_generation
    open,          \* connections the network still carries
    session,       \* generation seen when the token of a connection was read; says
                   \* nothing of a misfiled one, where EXEC may run a queued AUTH
    serverPass,    \* password the server accepts (static mode)
    begun,         \* commands issued so far
    breaks,        \* connections closed so far
    multi_active,  \* a raw MULTI was dispatched and no EXEC or DISCARD after it
    multi,         \* connections on which the server has a MULTI open
    misfiled,      \* history: connections whose last AUTH was queued into a MULTI
    outOfContract  \* history: a borrower ran two commands at once, or its EXEC or
                   \* DISCARD was given up before it was written

connVars == <<bound, mode, wrapper, clients, state, cur, signal, dropped, stored, task, checker,
              user, lock, bookmark, open, session, serverPass, begun, breaks, multi_active,
              multi, misfiled, outOfContract>>

vars == <<connVars, iamVars, certVars>>

madeVars == <<bound, mode, wrapper, clients>>
linkVars == <<state, cur, signal, task>>
authVars == <<lock, bookmark, session>>
txnVars == <<multi, misfiled, outOfContract>>
worldVars == <<open, serverPass, begun, breaks, multi_active, txnVars>>
lifeVars == <<dropped, checker>>

\* "iam" is a direct client, "pool" one that belongs to a pool (mark_pool_managed).
Iam == mode \in {"iam", "pool"}

PoolManaged == mode = "pool"

Password == 0..(Ttl + MaxPasswords)

Seen == 0..(MaxGenerations + 1)

Client == [pass : Password, seen : Seen, tls : Material]

ConnOrNone == Conns \cup {NoConn}

TaskStep == {"none", "clone", "loop", "expiry", "mint", "write", "stamp", "cached",
             "password", "cert", "dial", "connect", "ping", "sleep"}

UserStep == {"idle", "gate", "lock", "token", "clear", "store", "upgrade", "create",
             "wait", "sent"}

TaskType == [pc : TaskStep, client : Client, conn : ConnOrNone, since : Seen, cert : Version]

UserType == [kind : Kind, pc : UserStep, next : UserStep, conn : ConnOrNone, gen : Seen,
             token : Password, seen : Seen, auth : BOOLEAN]

TypeOK ==
    /\ IamTypeOK
    /\ CertTypeOK
    /\ mode \in Modes
    /\ bound \in Bound
    /\ wrapper \in {"lazy", "real"}
    /\ clients \in Nat
    /\ state \in {"InitializedDisconnected", "Connected", "Reconnecting"}
    /\ cur \in ConnOrNone
    /\ signal \in BOOLEAN /\ dropped \in BOOLEAN
    /\ stored \in Client
    /\ task \in [Tasks -> TaskType]
    /\ checker \in ConnOrNone \cup {"stopped"}
    /\ user \in [Users -> UserType]
    /\ lock \in Users \cup {NoUser}
    /\ bookmark \in Seen
    /\ open \subseteq Conns
    /\ session \in [Conns -> Seen]
    /\ serverPass \in 0..MaxPasswords
    /\ begun \in 0..bound.commands
    /\ breaks \in 0..bound.breaks
    /\ multi_active \in BOOLEAN /\ outOfContract \in BOOLEAN
    /\ multi \subseteq Conns /\ misfiled \subseteq Conns

Idle == [kind |-> "plain", pc |-> "idle", next |-> "idle", conn |-> NoConn, gen |-> 0, token |-> 0,
         seen |-> 0, auth |-> FALSE]

NoTask == [pc |-> "none", client |-> [pass |-> 0, seen |-> 0, tls |-> [cert |-> 0, key |-> 0]],
           conn |-> NoConn, since |-> 0, cert |-> 0]

Init ==
    /\ IamInit
    /\ CertInit
    /\ mode \in Modes
    /\ bound \in Bounds[mode]
    /\ wrapper = "lazy"
    /\ clients = 0
    /\ state = "InitializedDisconnected"
    /\ cur = NoConn
    /\ signal = TRUE
    /\ dropped = FALSE
    /\ stored = NoTask.client
    /\ task = [t \in Tasks |-> NoTask]
    /\ checker = NoConn
    /\ user = [u \in Users |-> Idle]
    /\ lock = NoUser
    /\ bookmark = 0
    /\ open = {}
    /\ session = [c \in Conns |-> 0]
    /\ serverPass = 0
    /\ begun = 0
    /\ breaks = 0
    /\ multi_active = FALSE
    /\ multi = {}
    /\ misfiled = {}
    /\ outOfContract = FALSE

----------------------------------------------------------------------------
(* Shared pieces *)

\* A connection nobody holds a clone of is closed; its identity can be reused.
Unused(c) ==
    /\ c # cur
    /\ checker # c
    /\ \A t \in Tasks : task[t].conn # c
    /\ \A u \in Users : user[u].conn # c

\* What the server accepts when a connection is set up or AUTH is sent.
Accepts(client) ==
    CASE Iam             -> ~IsExpired(client.pass)
      [] mode = "static" -> client.pass = serverPass
      [] mode = "cert"   -> /\ Matching(client.tls)
                            /\ client.tls.cert >= (IF disk.cert < disk.key THEN disk.cert
                                                                           ELSE disk.key)

Running == {t \in Tasks : task[t].pc # "none"}

\* Identities of tasks and connections are arbitrary, so one free one is chosen.
Spawn ==
    /\ Running # Tasks
    /\ task' = [task EXCEPT ![CHOOSE t \in Tasks \ Running : TRUE] = [NoTask EXCEPT !.pc = "clone"]]

Free == {c \in Conns : Unused(c)}

SpawnAlways ==    \* mutant: the early return of reconnect() is missing
    /\ signal' = FALSE
    /\ state' = "Reconnecting"
    /\ cur' = NoConn
    /\ Spawn

\* ReconnectingConnection::reconnect: returns at once when a reconnect is on its
\* way, otherwise resets the signal, drops the connection and spawns the task.
reconnect ==
    \/ /\ state = "Reconnecting"
       /\ UNCHANGED <<signal, state, cur, task>>
    \/ /\ state # "Reconnecting"
       /\ signal' = FALSE
       /\ state' = "Reconnecting"
       /\ cur' = NoConn
       /\ Spawn

Released(u) == IF lock = u THEN NoUser ELSE lock

Step(u, to) == user' = [user EXCEPT ![u].pc = to]

\* A new connection has no MULTI open.
NewSession(c) ==
    /\ multi' = multi \ {c}
    /\ misfiled' = misfiled \ {c}

\* What the server does with a command of u: MULTI opens a transaction, EXEC and
\* DISCARD end it.
Served(u) ==
    multi' = CASE user[u].kind = "multi" -> multi \cup {user[u].conn}
               [] user[u].kind = "end"   -> multi \ {user[u].conn}
               [] user[u].kind = "plain" -> multi

\* What the server does with the AUTH of u: inside a MULTI it is queued.
ServedAuth(u) ==
    \/ /\ user[u].conn \in multi
       /\ misfiled' = misfiled \cup {user[u].conn}
       /\ UNCHANGED session
    \/ /\ user[u].conn \notin multi
       /\ misfiled' = misfiled \ {user[u].conn}
       /\ session' = [session EXCEPT ![user[u].conn] = user[u].seen]

TaskStepTo(t, to) == task' = [task EXCEPT ![t].pc = to]

----------------------------------------------------------------------------
(* Commands *)

\* Identities of commands are arbitrary too.
Begin(u) ==
    /\ user[u].pc = "idle"
    /\ u = CHOOSE v \in Users : user[v].pc = "idle"
    /\ ~dropped
    /\ begun < bound.commands
    /\ begun' = begun + 1
    /\ Step(u, "gate")
    /\ outOfContract' = (outOfContract \/ \E v \in Users : user[v].pc # "idle")
    /\ UNCHANGED <<stored, open, serverPass, breaks, multi_active, multi, misfiled,
                   madeVars, linkVars, authVars, lifeVars, iamVars, certVars>>

\* The read lock of get_or_initialize_client, taken before the step "next".
EnterClient(u, next) ==
    user' = [user EXCEPT ![u].pc = IF wrapper = "real" THEN next ELSE "upgrade",
                         ![u].next = next]

\* Only a pool-managed client asks whether a MULTI is open, so the kind of a command
\* is told apart there only, and not before track_transaction_state looks at it.
track_transaction_state(k) ==
    multi_active' = CASE k = "multi" -> TRUE [] k = "end" -> FALSE [] k = "plain" -> multi_active

\* reconcile_iam_before_dispatch lets u through.
Dispatch(u) ==
    \E k \in bound.kinds :
        /\ track_transaction_state(k)
        /\ user' = [user EXCEPT ![u].pc = IF wrapper = "real" THEN "wait" ELSE "upgrade",
                                ![u].next = "wait", ![u].kind = k]

NeverDeferred == FALSE    \* mutant: the AUTH does not wait for the end of a MULTI

\* prepare_for_borrow puts the AUTH off while a raw MULTI is open.
Deferred == multi_active

\* reconcile_iam_before_dispatch, up to its first test and, in a pool-managed client,
\* the test of multi_active after it.  A pool-managed client compares generations, a
\* direct one tests token_changed.
Gate(u) ==
    /\ user[u].pc = "gate"
    /\ \/ /\ mode = "pool" /\ generation # bookmark /\ ~Deferred
          /\ Step(u, "lock")
          /\ UNCHANGED multi_active
       \/ /\ mode = "iam" /\ changed
          /\ Step(u, "token")
          /\ UNCHANGED multi_active
       \/ /\ mode = "pool" => generation = bookmark \/ Deferred
          /\ mode = "iam" => ~changed
          /\ Dispatch(u)
    /\ UNCHANGED <<stored, open, serverPass, begun, breaks, txnVars, madeVars, linkVars, authVars,
                   lifeVars, iamVars, certVars>>

\* prepare_for_borrow takes iam_reconcile_lock and compares again: a prior holder may have sent
\* the AUTH.
Lock(u) ==
    /\ user[u].pc = "lock"
    /\ lock = NoUser
    /\ \/ /\ generation = bookmark
          /\ Dispatch(u)
          /\ UNCHANGED lock
       \/ /\ generation # bookmark
          /\ user' = [user EXCEPT ![u].pc = "token", ![u].gen = generation]
          /\ lock' = u
          /\ UNCHANGED multi_active
    /\ UNCHANGED <<dropped, stored, checker, bookmark, session, open, serverPass, begun, breaks,
                   txnVars, madeVars, linkVars, iamVars, certVars>>

ReadToken(u) ==
    /\ user[u].pc = "token"
    /\ user' = [user EXCEPT ![u].token = cached, ![u].seen = generation,
                            ![u].pc = IF PoolManaged THEN "store" ELSE "clear"]
    /\ UNCHANGED <<stored, madeVars, linkVars, authVars, worldVars, lifeVars, iamVars,
                   certVars>>

\* clear_token_changed of a direct client, after the token was read.
ClearChanged(u) ==
    /\ user[u].pc = "clear"
    /\ changed' = FALSE
    /\ Step(u, "store")
    /\ UNCHANGED <<stored, cached, createdAt, generation, refresh, madeVars, linkVars,
                   authVars, worldVars, lifeVars, certVars>>

\* update_connection_password(token, false), which itself needs the client; a borrow
\* then sends AUTH itself.
StorePassword(u) ==
    /\ user[u].pc = "store"
    /\ \/ /\ wrapper = "lazy"
          /\ EnterClient(u, "store")
          /\ UNCHANGED stored
       \/ /\ wrapper = "real"
          /\ stored' = [stored EXCEPT !.pass = user[u].token, !.seen = user[u].seen]
          /\ user' = [user EXCEPT ![u].pc = "wait", ![u].auth = PoolManaged]
    /\ UNCHANGED <<madeVars, linkVars, authVars, worldVars, lifeVars, iamVars, certVars>>

\* get_or_initialize_client: the first write lock, which copies the configuration, ...
CopyConfig(u) ==
    /\ user[u].pc = "upgrade"
    /\ Step(u, IF wrapper = "real" THEN user[u].next ELSE "create")
    /\ UNCHANGED <<stored, madeVars, linkVars, authVars, worldVars, lifeVars, iamVars,
                   certVars>>

\* The test of the second write lock.
AlreadyCreated == wrapper = "real"

InitialClient == [pass |-> IF Iam THEN cached ELSE stored.pass,
                  seen |-> generation, tls |-> adopted]

\* ... and the second write lock, held while create_client connects.  The node
\* connects, or it does not and is left to its reconnect task (another node is the
\* primary), or the creation fails and the wrapper stays lazy.
CreateClient(u) ==
    /\ user[u].pc = "create"
    /\ \/ /\ AlreadyCreated
          /\ Step(u, user[u].next)
          /\ UNCHANGED <<wrapper, clients, stored, lock, open, session, txnVars, linkVars>>
       \/ /\ ~AlreadyCreated
          /\ wrapper' = "real"
          /\ clients' = clients + 1
          /\ stored' = InitialClient
          /\ Step(u, user[u].next)
          /\ UNCHANGED lock
          /\ \/ LET c == CHOOSE c \in Free : TRUE IN
                   /\ Accepts(InitialClient)
                   /\ Free # {}
                   /\ open' = open \cup {c}
                   /\ session' = [session EXCEPT ![c] = generation]
                   /\ NewSession(c)
                   /\ cur' = c
                   /\ state' = "Connected"
                   /\ UNCHANGED <<signal, task, outOfContract>>
             \/ reconnect /\ UNCHANGED <<open, session, txnVars>>
       \/ /\ ~AlreadyCreated
          /\ user' = [user EXCEPT ![u] = Idle]
          /\ lock' = Released(u)
          /\ UNCHANGED <<wrapper, clients, stored, open, session, txnVars, linkVars>>
    /\ UNCHANGED <<bound, mode, bookmark, serverPass, begun, breaks, multi_active, lifeVars,
                   iamVars, certVars>>

\* get_connection: wait for the signal, then take a clone of the connection; when the
\* state is not Connected (any more) keep waiting.
GetConnection(u) ==
    /\ user[u].pc = "wait"
    /\ signal
    /\ state = "Connected"
    /\ user' = [user EXCEPT ![u].pc = "sent", ![u].conn = cur]
    /\ UNCHANGED <<stored, madeVars, linkVars, authVars, worldVars, lifeVars, iamVars, certVars>>

\* The reply of a command.
Reply(u) ==
    /\ user[u].pc = "sent" /\ user[u].conn \in open /\ ~user[u].auth
    /\ user' = [user EXCEPT ![u] = Idle]
    /\ Served(u)
    /\ UNCHANGED <<stored, open, serverPass, begun, breaks, multi_active, misfiled, outOfContract,
                   madeVars, linkVars, authVars, lifeVars, iamVars, certVars>>

RereadGeneration(u) == generation    \* mutant: the bookmark takes what is current now

\* The generation prepare_for_borrow records is the one read before the token.
RecordedGeneration(u) == user[u].gen

\* The reply of the AUTH of prepare_for_borrow: accepted (+QUEUED inside a MULTI),
\* then the command itself follows; or refused, then the command fails.
AuthReply(u) ==
    /\ user[u].pc = "sent" /\ user[u].conn \in open /\ user[u].auth
    /\ lock' = NoUser
    /\ \/ /\ user[u].conn \in multi \/ ~IsExpired(user[u].token)
          /\ ServedAuth(u)
          /\ changed' = FALSE
          /\ bookmark' = RecordedGeneration(u)
          /\ \E k \in bound.kinds :
                /\ track_transaction_state(k)
                /\ user' = [user EXCEPT ![u] = [Idle EXCEPT !.pc = "wait", !.kind = k]]
       \/ /\ user[u].conn \notin multi /\ IsExpired(user[u].token)
          /\ user' = [user EXCEPT ![u] = Idle]
          /\ UNCHANGED <<session, changed, bookmark, multi_active, misfiled>>
    /\ UNCHANGED <<stored, cached, createdAt, generation, refresh, open, serverPass, begun, breaks,
                   multi, outOfContract, madeVars, linkVars, lifeVars, certVars>>

\* send_request receives a disconnect error and calls reconnect.
RequestBroken(u) ==
    /\ user[u].pc = "sent" /\ user[u].conn \notin open
    /\ user' = [user EXCEPT ![u] = Idle]
    /\ lock' = Released(u)
    /\ reconnect
    /\ UNCHANGED <<stored, bookmark, session, madeVars, worldVars, lifeVars, iamVars,
                   certVars>>

\* The request timeout drops the future, and with it the lock guard.  What was written
\* is still executed, before whatever the connection carries next; what was not
\* written, or was refused before it could be, is not.
RequestTimeout(u) ==
    /\ user[u].pc \in {"wait", "sent"}
    /\ user' = [user EXCEPT ![u] = Idle]
    /\ lock' = Released(u)
    /\ \/ /\ outOfContract' = (outOfContract \/ user[u].kind = "end")
          /\ UNCHANGED <<multi, misfiled, session>>
       \/ /\ user[u].pc = "sent" /\ user[u].conn \in open
          /\ \/ ~user[u].auth /\ Served(u) /\ UNCHANGED <<misfiled, session>>
             \/ user[u].auth /\ ServedAuth(u) /\ UNCHANGED multi
          /\ UNCHANGED outOfContract
    /\ UNCHANGED <<stored, bookmark, open, serverPass, begun, breaks, multi_active, madeVars,
                   linkVars, lifeVars, iamVars, certVars>>

----------------------------------------------------------------------------
(* The reconnect task *)

\* Without IAM and certificate reload the client is cloned once, before the loop.
CloneClient(t) ==
    /\ task[t].pc = "clone"
    /\ task' = [task EXCEPT ![t].pc = "loop",
                            ![t].client = IF mode = "static" THEN stored ELSE @]
    /\ UNCHANGED <<state, cur, signal, stored, user, madeVars, authVars, worldVars, lifeVars,
                   iamVars, certVars>>

NeverDropped == FALSE    \* mutant: the loop does not look at the flag

is_dropped == dropped

\* The head of the loop: stop once the client is dropped, else refresh the
\* credentials.  since and cert remember what was current when the attempt began.
LoopHead(t) ==
    /\ task[t].pc = "loop"
    /\ IF is_dropped
       THEN task' = [task EXCEPT ![t] = NoTask]
       ELSE task' = [task EXCEPT ![t].pc = CASE Iam             -> "expiry"
                                             [] mode = "cert"   -> "cert"
                                             [] mode = "static" -> "connect",
                                 ![t].since = generation, ![t].cert = adopted.cert]
    /\ UNCHANGED <<state, cur, signal, stored, user, madeVars, authVars, worldVars, lifeVars,
                   iamVars, certVars>>

\* get_valid_token_inner: is the cached token expired?
CheckExpiry(t) ==
    /\ task[t].pc = "expiry"
    /\ TaskStepTo(t, IF IsExpired(createdAt) THEN "mint" ELSE "cached")
    /\ UNCHANGED <<state, cur, signal, stored, user, madeVars, authVars, worldVars, lifeVars,
                   iamVars, certVars>>

\* A fresh token on demand; on failure the cached one is used.
MintOk(t) ==
    /\ task[t].pc = "mint"
    /\ task' = [task EXCEPT ![t].pc = "write", ![t].client.pass = 0,
                            ![t].client.seen = generation]
    /\ UNCHANGED <<state, cur, signal, stored, user, madeVars, authVars, worldVars, lifeVars,
                   iamVars, certVars>>

MintFails(t) ==
    /\ task[t].pc = "mint"
    /\ TaskStepTo(t, "cached")
    /\ UNCHANGED <<state, cur, signal, stored, user, madeVars, authVars, worldVars, lifeVars,
                   iamVars, certVars>>

WriteMinted(t) ==
    /\ task[t].pc = "write"
    /\ cached' = task[t].client.pass
    /\ TaskStepTo(t, "stamp")
    /\ UNCHANGED <<state, cur, signal, stored, user, madeVars, authVars, worldVars, lifeVars,
                   createdAt, changed, generation, refresh, certVars>>

StampMinted(t) ==
    /\ task[t].pc = "stamp"
    /\ createdAt' = 0
    /\ TaskStepTo(t, "password")
    /\ UNCHANGED <<state, cur, signal, stored, user, madeVars, authVars, worldVars, lifeVars,
                   cached, changed, generation, refresh, certVars>>

ReadCached(t) ==
    /\ task[t].pc = "cached"
    /\ task' = [task EXCEPT ![t].pc = "password", ![t].client.pass = cached,
                            ![t].client.seen = generation]
    /\ UNCHANGED <<state, cur, signal, stored, user, madeVars, authVars, worldVars, lifeVars,
                   iamVars, certVars>>

KeepPassword(t) == stored    \* mutant: the token is read but not stored

\* update_password with the valid token.
WithToken(t) == [stored EXCEPT !.pass = task[t].client.pass, !.seen = task[t].client.seen]

UpdatePassword(t) ==
    /\ task[t].pc = "password"
    /\ stored' = WithToken(t)
    /\ TaskStepTo(t, "dial")
    /\ UNCHANGED <<state, cur, signal, user, madeVars, authVars, worldVars, lifeVars,
                   iamVars, certVars>>

KeepCert == stored    \* mutant: the reloaded material is not applied

\* current_params and update_tls_params.
WithCert == [stored EXCEPT !.tls = adopted]

ApplyCert(t) ==
    /\ task[t].pc = "cert"
    /\ stored' = WithCert
    /\ TaskStepTo(t, "dial")
    /\ UNCHANGED <<state, cur, signal, user, madeVars, authVars, worldVars, lifeVars,
                   iamVars, certVars>>

\* With dynamic credentials the client is cloned again for every attempt.
ReadClient(t) ==
    /\ task[t].pc = "dial"
    /\ task' = [task EXCEPT ![t].pc = "connect", ![t].client = stored]
    /\ UNCHANGED <<state, cur, signal, stored, user, madeVars, authVars, worldVars, lifeVars,
                   iamVars, certVars>>

\* get_multiplexed_connection: the server accepts the credentials, or the attempt
\* fails (also for any other reason, and on connection_timeout).
ConnectOk(t) ==
    /\ task[t].pc = "connect"
    /\ Accepts(task[t].client)
    /\ Free # {}
    /\ LET c == CHOOSE c \in Free : TRUE IN
        /\ open' = open \cup {c}
        /\ session' = [session EXCEPT ![c] = task[t].client.seen]
        /\ NewSession(c)
        /\ task' = [task EXCEPT ![t].pc = "ping", ![t].conn = c]
    /\ UNCHANGED <<state, cur, signal, stored, user, lock, bookmark, serverPass, begun, breaks,
                   multi_active, outOfContract, madeVars, lifeVars, iamVars, certVars>>

ConnectFails(t) ==
    /\ task[t].pc = "connect"
    /\ TaskStepTo(t, "sleep")
    /\ UNCHANGED <<state, cur, signal, stored, user, madeVars, authVars, worldVars, lifeVars,
                   iamVars, certVars>>

PingFails(t) ==
    /\ task[t].pc = "ping"
    /\ task[t].conn \notin open
    /\ task' = [task EXCEPT ![t].pc = "sleep", ![t].conn = NoConn]
    /\ UNCHANGED <<state, cur, signal, stored, user, madeVars, authVars, worldVars, lifeVars,
                   iamVars, certVars>>

\* The signal the completed reconnect leaves: set, which wakes every waiter.
SignalAfterConnect == TRUE

\* PING answered: under the state lock the signal is set and the connection stored.
Install(t) ==
    /\ task[t].pc = "ping"
    /\ task[t].conn \in open
    /\ signal' = SignalAfterConnect
    /\ state' = "Connected"
    /\ cur' = task[t].conn
    /\ task' = [task EXCEPT ![t] = NoTask]
    /\ UNCHANGED <<stored, user, madeVars, authVars, worldVars, lifeVars, iamVars, certVars>>

BackoffElapsed(t) ==
    /\ task[t].pc = "sleep"
    /\ TaskStepTo(t, "loop")
    /\ UNCHANGED <<state, cur, signal, stored, user, madeVars, authVars, worldVars, lifeVars,
                   iamVars, certVars>>

TaskNext(t) ==
    \/ CloneClient(t) \/ LoopHead(t) \/ CheckExpiry(t) \/ MintOk(t) \/ MintFails(t)
    \/ WriteMinted(t) \/ StampMinted(t) \/ ReadCached(t) \/ UpdatePassword(t) \/ ApplyCert(t)
    \/ ReadClient(t) \/ ConnectOk(t) \/ ConnectFails(t) \/ PingFails(t) \/ Install(t)
    \/ BackoffElapsed(t)

UserNext(u) ==
    \/ Begin(u) \/ Gate(u) \/ Lock(u) \/ ReadToken(u) \/ ClearChanged(u)
    \/ StorePassword(u) \/ CopyConfig(u) \/ CreateClient(u) \/ GetConnection(u)
    \/ Reply(u) \/ AuthReply(u) \/ RequestBroken(u) \/ RequestTimeout(u)

----------------------------------------------------------------------------
(* The connection checker, the owner of the client, the server and the clock *)

\* start_periodic_connection_check: takes a clone of the connection, ...
CheckerLooks ==
    /\ checker = NoConn
    /\ wrapper = "real"
    /\ ~dropped
    /\ state = "Connected"
    /\ checker' = cur
    /\ UNCHANGED <<dropped, stored, user, madeVars, linkVars, authVars, worldVars, iamVars,
                   certVars>>

\* ... and reconnects if that connection is closed, whatever happened since.
CheckerActs ==
    /\ checker \in Conns
    /\ checker' = NoConn
    /\ IF checker \in open THEN UNCHANGED linkVars ELSE reconnect
    /\ UNCHANGED <<dropped, stored, user, madeVars, authVars, worldVars, iamVars, certVars>>

CheckerStops ==
    /\ checker = NoConn
    /\ dropped
    /\ checker' = "stopped"
    /\ UNCHANGED <<dropped, stored, user, madeVars, linkVars, authVars, worldVars, iamVars,
                   certVars>>

\* DropWrapper::drop: the last clone of the client is gone, so no command runs.
DropClient ==
    /\ wrapper = "real"
    /\ ~dropped
    /\ \A u \in Users : user[u].pc = "idle"
    /\ dropped' = TRUE
    /\ UNCHANGED <<checker, stored, user, madeVars, linkVars, authVars, worldVars, iamVars,
                   certVars>>

\* update_connection_password by the application, after the server's password changed.
ApplicationUpdatesPassword ==
    /\ mode = "static"
    /\ wrapper = "real"
    /\ ~dropped
    /\ stored.pass # serverPass
    /\ stored' = [stored EXCEPT !.pass = serverPass]
    /\ UNCHANGED <<user, madeVars, linkVars, authVars, worldVars, lifeVars, iamVars, certVars>>

PasswordChanges ==
    /\ mode = "static"
    /\ serverPass < MaxPasswords
    /\ serverPass' = serverPass + 1
    /\ UNCHANGED <<stored, user, open, begun, breaks, multi_active, txnVars, madeVars, linkVars,
                   authVars, lifeVars, iamVars, certVars>>

\* The server or the network closes a connection, and the server forgets its MULTI.
Break ==
    /\ breaks < bound.breaks
    /\ breaks' = breaks + 1
    /\ \E c \in open \ Free : open' = open \ {c} /\ multi' = multi \ {c}
    /\ UNCHANGED <<stored, user, serverPass, begun, multi_active, misfiled, outOfContract, madeVars,
                   linkVars, authVars, lifeVars, iamVars, certVars>>

\* Time passes for every token, wherever it is held.  A tick is minutes: none falls
\* between taking a token and dialling with it.
Tick ==
    /\ Iam
    /\ bound.ages
    /\ \A t \in Tasks : task[t].pc \notin {"write", "stamp", "password", "dial"}
    /\ IamTick
    /\ stored' = [stored EXCEPT !.pass = Older(@)]
    /\ task' = [t \in Tasks |-> IF task[t].client.seen = 0 THEN task[t]
                                ELSE [task[t] EXCEPT !.client.pass = Older(@)]]
    /\ user' = [u \in Users |-> IF user[u].seen = 0 THEN user[u]
                                ELSE [user[u] EXCEPT !.token = Older(@)]]
    /\ UNCHANGED <<state, cur, signal, madeVars, authVars, worldVars, lifeVars, certVars>>

Refresh(r) == Iam /\ handle_token_refresh(r) /\ UNCHANGED <<connVars, certVars>>

Reload == mode = "cert" /\ handle_reload /\ UNCHANGED <<connVars, iamVars>>

RotateFiles == mode = "cert" /\ Rotate /\ UNCHANGED <<connVars, iamVars>>

Next ==
    \/ \E u \in Users : UserNext(u)
    \/ \E t \in Tasks : TaskNext(t)
    \/ \E r \in Refreshers : Refresh(r)
    \/ CheckerLooks \/ CheckerActs \/ CheckerStops \/ DropClient
    \/ ApplicationUpdatesPassword \/ PasswordChanges \/ Break \/ Tick
    \/ Reload \/ RotateFiles

Spec == Init /\ [][Next]_vars

----------------------------------------------------------------------------
(***************************************************************************)
(* Fairness.  The runtime polls every ready future, so a step of a command,*)
(* of a spawned task or of a timer that stays enabled is taken; the tokio  *)
(* mutex is FIFO; a server that keeps accepting and a token service that   *)
(* keeps answering are not avoided forever.                                *)
(***************************************************************************)
UserProgress(u) ==
    \/ Gate(u) \/ Lock(u) \/ ReadToken(u) \/ ClearChanged(u) \/ StorePassword(u)
    \/ CopyConfig(u) \/ CreateClient(u) \/ GetConnection(u)
    \/ Reply(u) \/ AuthReply(u) \/ RequestBroken(u)

Checker == CheckerLooks \/ CheckerActs \/ CheckerStops

Fairness ==
    /\ \A u \in Users : WF_vars(UserProgress(u))
    /\ WF_vars(\E t \in Tasks : TaskNext(t))
    /\ SF_vars(\E t \in Tasks : MintOk(t))
    /\ SF_vars(\E t \in Tasks : ConnectOk(t))
    /\ WF_vars(Checker)
    /\ SF_vars(Tick \/ Reload)

FairSpec == Spec /\ Fairness

----------------------------------------------------------------------------
(* Properties *)

\* At most one reconnect task runs, one runs exactly while the state says so, and
\* the signal get_connection waits for is set exactly outside a reconnect: an error
\* report that comes late or twice never starts a second task.
OneReconnector ==
    /\ \A t1, t2 \in Running : t1 = t2
    /\ ~dropped => (Running # {} <=> state = "Reconnecting")
    /\ signal <=> state # "Reconnecting"

\* First commands that race through get_or_initialize_client create one client.
OneClient == clients <= 1

\* What must happen once happens once, whoever reports and whoever comes first.
SingleFlight == TypeOK /\ OneReconnector /\ OneClient

\* A generation recorded as applied was applied: the live connection was last
\* authenticated with a token read when the generation was at least the bookmark.
\* The one exception is an AUTH that the server queued into a MULTI, whose +QUEUED
\* prepare_for_borrow takes for a success; it is excepted on that connection until
\* the next AUTH there, and happens only to a borrower the code calls out of
\* contract: one that runs commands concurrently, or whose EXEC or DISCARD never
\* reached the wire.
BookmarkSound ==
    /\ Iam /\ state = "Connected" /\ cur \notin misfiled => session[cur] >= bookmark
    /\ misfiled # {} => outOfContract

\* A certificate adopted before an attempt starts is the one that attempt presents.
AttemptPresentsAdopted ==
    \A t \in Tasks : mode = "cert" /\ task[t].pc = "connect" =>
        task[t].client.tls.cert >= task[t].cert

\* Reconnecting after a rotation presents the new pair, never a torn or an old one.
PresentsAdopted == AttemptPresentsAdopted /\ AdoptedPairMatches

\* Every command ends, with a reply or an error, although connections break, tokens
\* expire while they are carried about, and error reports of replaced connections
\* start further reconnects.  (With a fixed password nothing of the kind holds once
\* the server's password changes: see PasswordUpdateReconnects.)
CommandsFinish ==
    mode # "static" /\ (\E u \in Users : user[u].pc # "idle")
        ~> (\A u \in Users : user[u].pc = "idle")

\* After the client is dropped its reconnect task and its checker end.
DroppedQuiesces == dropped ~> (Running = {} /\ checker = "stopped")

\* "It allows the client to update its password to reconnect upon disconnection":
\* once the stored password is the server's, a waiting command gets a connection.
PasswordUpdateReconnects ==
    \A u \in Users :
        <>[](stored.pass = serverPass) => (user[u].pc = "wait" ~> user[u].pc # "wait")
===========================================================================
