------------------------- MODULE ReconnectingProofs -------------------------
(***************************************************************************)
(* Proofs about ReconnectingConnection: for any number of commands, tasks, *)
(* connections, generations and certificate versions, one client is        *)
(* created, one reconnect task runs, the bookmark of a pool-managed client *)
(* never runs ahead of the live connection, and an attempt presents the    *)
(* certificate that was adopted before it began.                           *)
(***************************************************************************)
EXTENDS ReconnectingConnection, FiniteSetTheorems, TLAPS

----------------------------------------------------------------------------
(* The inductive invariant *)

\* Every refresh in flight has its generation set aside, so the last one fits.
RefreshInv ==
    /\ IsFiniteSet(Refreshing)
    /\ generation + Cardinality(Refreshing) <= MaxGenerations + 1

\* No tick falls between minting a token and writing it to the cache.
MintInv == \A t \in Tasks : task[t].pc = "write" => task[t].client.pass = 0

\* Nothing runs before the client exists.
LazyInv ==
    wrapper = "lazy" =>
        /\ state = "InitializedDisconnected"
        /\ checker = NoConn
        /\ ~dropped
        /\ \A u \in Users : user[u].pc # "sent"

CountInv == clients = IF wrapper = "real" THEN 1 ELSE 0

LinkInv ==
    /\ \A t1, t2 \in Tasks : task[t1].pc # "none" /\ task[t2].pc # "none" => t1 = t2
    /\ state # "Reconnecting" => \A t \in Tasks : task[t].pc = "none"
    /\ ~dropped /\ state = "Reconnecting" => \E t \in Tasks : task[t].pc # "none"
    /\ signal <=> state # "Reconnecting"
    /\ state = "Connected" => cur \in Conns

\* A command inside get_or_initialize_client continues where it came from, and only
\* a borrow of a pool-managed client sends AUTH.
UserInv ==
    \A u \in Users :
        /\ user[u].pc \in {"upgrade", "create"} => user[u].next \in {"wait", "store"}
        /\ user[u].auth => mode = "pool" /\ user[u].pc \in {"wait", "sent"}

\* prepare_for_borrow between taking and releasing iam_reconcile_lock.
Holding(u) ==
    \/ user[u].pc \in {"token", "store", "clear"}
    \/ user[u].pc \in {"upgrade", "create"} /\ user[u].next = "store"
    \/ user[u].auth

Authenticating(u) == user[u].auth /\ user[u].pc = "sent"

HolderInv ==
    /\ mode # "pool" => bookmark = 0
    /\ bookmark <= generation
    /\ mode = "pool" =>
        \A u \in Users : Holding(u) =>
            /\ lock = u
            /\ bookmark <= user[u].gen
            /\ user[u].gen <= generation
            /\ user[u].pc # "token" => user[u].gen <= user[u].seen

\* A token read at generation g serves the bookmark, and the one an AUTH on its
\* way is about to set.
Fresh(g) ==
    /\ bookmark <= g
    /\ \A u \in Users : Authenticating(u) => user[u].gen <= g

\* Every attempt under way, and the connection it made, is at least that fresh; so is
\* the live connection, unless its AUTH was queued into a MULTI.
FreshInv ==
    mode = "pool" =>
        /\ \A t \in Tasks :
            /\ task[t].pc \in {"write", "stamp", "password", "connect"} =>
                  Fresh(task[t].client.seen)
            /\ task[t].pc # "cert"
            /\ task[t].pc = "dial" => Fresh(stored.seen)
            /\ task[t].pc = "ping" => task[t].conn \in Conns /\ Fresh(session[task[t].conn])
        /\ state = "Connected" /\ cur \notin misfiled =>
            /\ bookmark <= session[cur]
            /\ \A u \in Users : Authenticating(u) /\ user[u].conn # cur =>
                  user[u].gen <= session[cur]

\* The command whose AUTH is not put off, from its look at multi_active on; the one
\* track_transaction_state has seen; and one that ends a transaction.
Looked(u) == user[u].pc = "lock" \/ Holding(u)

Tracked(u) ==
    /\ ~user[u].auth
    /\ \/ user[u].pc \in {"wait", "sent"}
       \/ user[u].pc \in {"upgrade", "create"} /\ user[u].next = "wait"

Closing(u) == Tracked(u) /\ user[u].kind = "end"

\* Under the contract one command runs at a time and multi_active tells the truth of
\* the live connection, except while the EXEC or DISCARD that cleared it is on its
\* way; a connection being set up has no MULTI and carries no command.
TxnInv ==
    /\ mode # "pool" => misfiled = {}
    /\ mode = "pool" /\ ~outOfContract =>
        /\ misfiled = {}
        /\ \A u, v \in Users : user[u].pc # "idle" /\ user[v].pc # "idle" => u = v
        /\ \A u \in Users :
            /\ Looked(u) => ~multi_active
            /\ Tracked(u) /\ user[u].kind = "multi" => multi_active
            /\ Authenticating(u) => user[u].conn \notin multi
        /\ state = "Connected" /\ cur \in multi =>
            /\ multi_active \/ \E u \in Users : Closing(u)
            /\ \A u \in Users : user[u].pc = "sent" => user[u].conn = cur
        /\ \A t \in Tasks : task[t].pc = "ping" =>
            /\ task[t].conn \notin multi
            /\ \A u \in Users : user[u].conn # task[t].conn

\* The reload task only ever adopts a later matching pair.
ReloadInv ==
    /\ Matching(adopted)
    /\ adopted.cert <= disk.cert
    /\ reload.pc \in {"params", "print"} => Matching(reload)
    /\ reload.pc # "idle" => adopted.cert <= reload.cert /\ reload.cert <= disk.cert

CertInv ==
    mode = "cert" =>
        \A t \in Tasks :
            /\ task[t].pc \in {"none", "clone", "loop", "cert", "dial", "connect", "ping", "sleep"}
            /\ task[t].cert <= adopted.cert
            /\ task[t].pc = "dial" => task[t].cert <= stored.tls.cert
            /\ task[t].pc = "connect" => task[t].cert <= task[t].client.tls.cert

Inv ==
    /\ TypeOK /\ RefreshInv /\ MintInv /\ LazyInv /\ CountInv /\ LinkInv /\ UserInv
    /\ HolderInv /\ FreshInv /\ TxnInv /\ ReloadInv /\ CertInv
----------------------------------------------------------------------------
(* Types *)

\* The ranges of passwords and generations contain everything that is stored in them.
LEMMA Ranges ==
    ASSUME TypeOK
    PROVE  /\ 0 \in Password /\ 0 \in Seen /\ Age \subseteq Password
           /\ cached \in Password /\ generation \in Seen /\ serverPass \in Password
           /\ Idle \in UserType /\ NoTask \in TaskType /\ InitialClient \in Client
           /\ NoTask.client \in Client
<1>1. /\ 0 \in Password /\ 0 \in Seen /\ Age \subseteq Password
      /\ cached \in Password /\ generation \in Seen /\ serverPass \in Password
  BY IamAssumption, ConnAssumption DEF TypeOK, IamTypeOK, Password, Seen, Age
<1>2. 0 \in Version
  BY CertAssumption DEF Version
<1>3. Idle \in UserType
  BY <1>1 DEF Idle, UserType, UserStep, Kind, ConnOrNone
<1>4. NoTask.client \in Client /\ NoTask \in TaskType
  BY <1>1, <1>2 DEF NoTask, TaskType, TaskStep, ConnOrNone, Client, Material
<1>5. InitialClient \in Client
  BY <1>1 DEF InitialClient, Client, TypeOK, CertTypeOK
<1> QED
  BY <1>1, <1>3, <1>4, <1>5

\* A token grows older and stays a token.
LEMMA OlderRange ==
    ASSUME NEW p \in Password
    PROVE  Older(p) \in Password
BY IamAssumption, ConnAssumption DEF Older, Password

LEMMA OlderAge ==
    ASSUME NEW p \in Age
    PROVE  Older(p) \in Age
BY IamAssumption DEF Older, Age

\* reconnect leaves the link well typed.
LEMMA ReconnectTypes ==
    ASSUME TypeOK, reconnect
    PROVE  /\ state' \in {"InitializedDisconnected", "Connected", "Reconnecting"}
           /\ cur' \in ConnOrNone
           /\ signal' \in BOOLEAN
           /\ task' \in [Tasks -> TaskType]
<1>1. CASE state = "Reconnecting" /\ UNCHANGED <<signal, state, cur, task>>
  BY <1>1 DEF TypeOK
<1>2. CASE state # "Reconnecting" /\ signal' = FALSE /\ state' = "Reconnecting"
           /\ cur' = NoConn /\ Spawn
  <2>1. [NoTask EXCEPT !.pc = "clone"] \in TaskType
    BY Ranges DEF NoTask, TaskType, TaskStep
  <2>2. task' \in [Tasks -> TaskType]
    BY <1>2, <2>1 DEF Spawn, TypeOK
  <2> QED
    BY <1>2, <2>2 DEF ConnOrNone
<1> QED
  BY <1>1, <1>2 DEF reconnect

\* A command that is let through: track_transaction_state, then the client.
LEMMA DispatchStep ==
    ASSUME TypeOK, NEW u \in Users, Dispatch(u)
    PROVE  /\ user' \in [Users -> UserType] /\ multi_active' \in BOOLEAN
           /\ \A v \in Users : v # u => user'[v] = user[v]
           /\ user'[u].pc \in {"wait", "upgrade"} /\ user'[u].next = "wait"
           /\ user'[u].auth = user[u].auth /\ user'[u].conn = user[u].conn
           /\ user'[u].kind \in Kind
           /\ user'[u].kind = "multi" => multi_active'
           /\ user'[u].kind = "plain" => multi_active' = multi_active
<1>1. PICK k \in Kind :
        /\ track_transaction_state(k)
        /\ user' = [user EXCEPT ![u].pc = IF wrapper = "real" THEN "wait" ELSE "upgrade",
                                ![u].next = "wait", ![u].kind = k]
  BY DEF Dispatch, TypeOK, Bound
<1>2. user[u] \in UserType /\ user \in [Users -> UserType]
  BY DEF TypeOK
<1>3. user' \in [Users -> UserType]
  BY <1>1, <1>2 DEF UserType, UserStep
<1>4. /\ \A v \in Users : v # u => user'[v] = user[v]
      /\ user'[u].pc \in {"wait", "upgrade"} /\ user'[u].next = "wait"
      /\ user'[u].auth = user[u].auth /\ user'[u].conn = user[u].conn
      /\ user'[u].kind = k
  BY <1>1, <1>2 DEF UserType
<1>5. /\ k = "multi" => multi_active' = TRUE
      /\ k = "plain" => multi_active' = multi_active
      /\ k = "end" => multi_active' = FALSE
  BY <1>1 DEF track_transaction_state
<1> QED
  BY <1>1, <1>3, <1>4, <1>5 DEF Kind, TypeOK

\* What the server makes of a written command or AUTH.
LEMMA ServedStep ==
    ASSUME TypeOK, NEW u \in Users, user[u].conn \in open, Served(u)
    PROVE  /\ multi' \subseteq Conns
           /\ user[u].kind = "multi" => multi' = multi \cup {user[u].conn}
           /\ user[u].kind = "end" => multi' = multi \ {user[u].conn}
           /\ user[u].kind = "plain" => multi' = multi
<1>1. user[u].kind \in Kind /\ user[u].conn \in Conns
  BY DEF TypeOK, UserType
<1>2. /\ user[u].kind = "multi" => multi' = multi \cup {user[u].conn}
      /\ user[u].kind = "end" => multi' = multi \ {user[u].conn}
      /\ user[u].kind = "plain" => multi' = multi
  BY DEF Served
<1> QED
  BY <1>1, <1>2 DEF Kind, TypeOK

LEMMA ServedAuthTypes ==
    ASSUME TypeOK, NEW u \in Users, user[u].conn \in open, ServedAuth(u)
    PROVE  misfiled' \subseteq Conns /\ session' \in [Conns -> Seen]
BY DEF ServedAuth, TypeOK, UserType

\* An AUTH that is answered: accepted or queued, and the command goes on, or refused.
LEMMA AuthStep ==
    ASSUME TypeOK, NEW u \in Users, AuthReply(u)
    PROVE  \/ /\ ServedAuth(u) /\ bookmark' = user[u].gen /\ changed' = FALSE
              /\ user' \in [Users -> UserType] /\ multi_active' \in BOOLEAN
              /\ \A v \in Users : v # u => user'[v] = user[v]
              /\ user'[u].pc = "wait" /\ ~user'[u].auth /\ user'[u].conn = NoConn
              /\ user'[u].kind \in Kind
              /\ user'[u].kind = "multi" => multi_active'
              /\ user'[u].kind = "plain" => multi_active' = multi_active
           \/ /\ user' = [user EXCEPT ![u] = Idle]
              /\ UNCHANGED <<session, changed, bookmark, multi_active, misfiled>>
<1>1. CASE /\ ServedAuth(u) /\ changed' = FALSE /\ bookmark' = RecordedGeneration(u)
           /\ \E k \in bound.kinds :
                /\ track_transaction_state(k)
                /\ user' = [user EXCEPT ![u] = [Idle EXCEPT !.pc = "wait", !.kind = k]]
  <2>1. PICK k \in Kind :
          /\ track_transaction_state(k)
          /\ user' = [user EXCEPT ![u] = [Idle EXCEPT !.pc = "wait", !.kind = k]]
    BY <1>1 DEF TypeOK, Bound
  <2>2. [Idle EXCEPT !.pc = "wait", !.kind = k] \in UserType
    BY Ranges DEF Idle, UserType, UserStep
  <2>3. user' \in [Users -> UserType] /\ user'[u] = [Idle EXCEPT !.pc = "wait", !.kind = k]
        /\ \A v \in Users : v # u => user'[v] = user[v]
    BY <2>1, <2>2 DEF TypeOK
  <2>4. user'[u].pc = "wait" /\ ~user'[u].auth /\ user'[u].conn = NoConn /\ user'[u].kind = k
    BY <2>3 DEF Idle
  <2>5. /\ k = "multi" => multi_active' = TRUE
        /\ k = "plain" => multi_active' = multi_active
        /\ k = "end" => multi_active' = FALSE
    BY <2>1 DEF track_transaction_state
  <2> QED
    BY <1>1, <2>1, <2>3, <2>4, <2>5 DEF Kind, TypeOK, RecordedGeneration
<1>2. CASE /\ user' = [user EXCEPT ![u] = Idle]
           /\ UNCHANGED <<session, changed, bookmark, multi_active, misfiled>>
  BY <1>2
<1> QED
  BY <1>1, <1>2 DEF AuthReply

LEMMA UserTypes ==
    ASSUME TypeOK, NEW u \in Users, UserNext(u)
    PROVE  TypeOK'
<1> USE Ranges
<1>1. user[u] \in UserType
  BY DEF TypeOK
<1>2. CASE Begin(u)
  <2>1. user' \in [Users -> UserType]
    BY <1>1, <1>2 DEF Begin, Step, UserType, UserStep, TypeOK
  <2>2. begun' \in 0..bound'.commands
    BY <1>2 DEF Begin, TypeOK, Bound, madeVars
  <2> QED
    BY <1>2, <2>1, <2>2 DEF Begin, TypeOK, IamTypeOK, CertTypeOK, madeVars, linkVars, authVars,
       lifeVars, iamVars, certVars
<1>3. CASE Gate(u)
  <2>1. user' \in [Users -> UserType] /\ multi_active' \in BOOLEAN
    BY <1>1, <1>3, DispatchStep DEF Gate, Step, UserType, UserStep, TypeOK
  <2> QED
    BY <1>3, <2>1 DEF Gate, TypeOK, IamTypeOK, CertTypeOK, madeVars, linkVars, authVars,
       worldVars, txnVars, lifeVars, iamVars, certVars
<1>4. CASE Lock(u)
  <2>1. user' \in [Users -> UserType] /\ multi_active' \in BOOLEAN
    BY <1>1, <1>4, DispatchStep DEF Lock, UserType, UserStep, TypeOK
  <2> QED
    BY <1>4, <2>1 DEF Lock, TypeOK, IamTypeOK, CertTypeOK, madeVars, linkVars,
       worldVars, txnVars, iamVars, certVars
<1>5. CASE ReadToken(u)
  <2>1. user' \in [Users -> UserType]
    BY <1>1, <1>5 DEF ReadToken, UserType, UserStep, TypeOK
  <2> QED
    BY <1>5, <2>1 DEF ReadToken, TypeOK, IamTypeOK, CertTypeOK, madeVars, linkVars, authVars,
       worldVars, txnVars, lifeVars, iamVars, certVars
<1>6. CASE ClearChanged(u)
  <2>1. user' \in [Users -> UserType]
    BY <1>1, <1>6 DEF ClearChanged, Step, UserType, UserStep, TypeOK
  <2>2. IamTypeOK'
    BY <1>6 DEF ClearChanged, TypeOK, IamTypeOK
  <2> QED
    BY <1>6, <2>1, <2>2 DEF ClearChanged, TypeOK, CertTypeOK, madeVars, linkVars, authVars,
       worldVars, txnVars, lifeVars, certVars
<1>7. CASE StorePassword(u)
  <2>1. user' \in [Users -> UserType]
    BY <1>1, <1>7 DEF StorePassword, EnterClient, PoolManaged, UserType, UserStep, TypeOK
  <2>2. stored' \in Client
    BY ZenonT(60), <1>1, <1>7 DEF StorePassword, UserType, Client, TypeOK
  <2> QED
    BY <1>7, <2>1, <2>2 DEF StorePassword, TypeOK, IamTypeOK, CertTypeOK, madeVars, linkVars,
       authVars, worldVars, txnVars, lifeVars, iamVars, certVars
<1>8. CASE CopyConfig(u)
  <2>1. user' \in [Users -> UserType]
    BY <1>1, <1>8 DEF CopyConfig, Step, UserType, UserStep, TypeOK
  <2> QED
    BY <1>8, <2>1 DEF CopyConfig, TypeOK, IamTypeOK, CertTypeOK, madeVars, linkVars, authVars,
       worldVars, txnVars, lifeVars, iamVars, certVars
<1>9. CASE CreateClient(u)
  <2>1. user' \in [Users -> UserType]
    BY <1>1, <1>9 DEF CreateClient, Step, UserType, UserStep, TypeOK
  <2>2. stored' \in Client /\ wrapper' \in {"lazy", "real"} /\ clients' \in Nat
        /\ lock' \in Users \cup {NoUser}
    BY <1>9 DEF CreateClient, Released, TypeOK
  <2>3. ASSUME NEW c \in Conns
        PROVE  c \in ConnOrNone /\ [session EXCEPT ![c] = generation] \in [Conns -> Seen]
               /\ open \cup {c} \in SUBSET Conns
    BY <2>3 DEF TypeOK, ConnOrNone
  <2>4. /\ state' \in {"InitializedDisconnected", "Connected", "Reconnecting"}
        /\ cur' \in ConnOrNone /\ signal' \in BOOLEAN /\ task' \in [Tasks -> TaskType]
        /\ open' \subseteq Conns /\ session' \in [Conns -> Seen]
        /\ multi' \subseteq Conns /\ misfiled' \subseteq Conns /\ outOfContract' \in BOOLEAN
    <3> DEFINE c == CHOOSE c \in Free : TRUE
    <3>1. CASE UNCHANGED <<open, session, txnVars, linkVars>>
      BY <3>1 DEF TypeOK, txnVars, linkVars
    <3>2. CASE /\ Free # {} /\ open' = open \cup {c} /\ session' = [session EXCEPT ![c] = generation]
               /\ NewSession(c)
               /\ cur' = c /\ state' = "Connected" /\ UNCHANGED <<signal, task, outOfContract>>
      <4>1. c \in Conns
        BY <3>2 DEF Free
      <4> HIDE DEF c
      <4> QED
        BY <3>2, <4>1, <2>3 DEF TypeOK, NewSession
    <3>3. CASE reconnect /\ UNCHANGED <<open, session, txnVars>>
      BY <3>3, ReconnectTypes DEF TypeOK, txnVars
    <3> HIDE DEF c
    <3> QED
      BY <1>9, <3>1, <3>2, <3>3 DEF CreateClient, c
  <2> QED
    BY <1>9, <2>1, <2>2, <2>4 DEF CreateClient, TypeOK, IamTypeOK, CertTypeOK, lifeVars, iamVars,
       certVars
<1>10. CASE GetConnection(u)
  <2>1. user' \in [Users -> UserType]
    BY <1>1, <1>10 DEF GetConnection, UserType, UserStep, TypeOK
  <2> QED
    BY <1>10, <2>1 DEF GetConnection, TypeOK, IamTypeOK, CertTypeOK, madeVars, linkVars, authVars,
       worldVars, txnVars, lifeVars, iamVars, certVars
<1>11. CASE Reply(u)
  <2>1. user' \in [Users -> UserType]
    BY <1>11 DEF Reply, TypeOK
  <2>2. multi' \subseteq Conns
    BY <1>11, ServedStep DEF Reply
  <2> QED
    BY <1>11, <2>1, <2>2 DEF Reply, TypeOK, IamTypeOK, CertTypeOK, madeVars, linkVars, authVars,
       lifeVars, iamVars, certVars
<1>12. CASE AuthReply(u)
  <2>1. user' \in [Users -> UserType]
    BY <1>12, AuthStep DEF TypeOK
  <2>2. bookmark' \in Seen /\ multi_active' \in BOOLEAN /\ changed' \in BOOLEAN
    BY <1>1, <1>12, AuthStep DEF UserType, TypeOK, IamTypeOK
  <2>3. session' \in [Conns -> Seen] /\ misfiled' \subseteq Conns
    BY <1>12, AuthStep, ServedAuthTypes DEF AuthReply, TypeOK
  <2>4. lock' \in Users \cup {NoUser}
    BY <1>12 DEF AuthReply
  <2> QED
    BY <1>12, <2>1, <2>2, <2>3, <2>4 DEF AuthReply, TypeOK, IamTypeOK, CertTypeOK, madeVars,
       linkVars, lifeVars, certVars
<1>13. CASE RequestBroken(u)
  BY <1>13, ReconnectTypes DEF RequestBroken, Released, TypeOK, IamTypeOK, CertTypeOK, madeVars,
       worldVars, txnVars, lifeVars, iamVars, certVars
<1>14. CASE RequestTimeout(u)
  <2>1. user' \in [Users -> UserType] /\ lock' \in Users \cup {NoUser}
    BY <1>14 DEF RequestTimeout, Released, TypeOK
  <2>2. multi' \subseteq Conns /\ misfiled' \subseteq Conns /\ session' \in [Conns -> Seen]
    BY <1>14, ServedStep, ServedAuthTypes DEF RequestTimeout, TypeOK
  <2>3. outOfContract' \in BOOLEAN
    BY <1>14 DEF RequestTimeout, TypeOK
  <2> QED
    BY <1>14, <2>1, <2>2, <2>3 DEF RequestTimeout, TypeOK, IamTypeOK, CertTypeOK, madeVars, linkVars,
       lifeVars, iamVars, certVars
<1> QED
  BY <1>2, <1>3, <1>4, <1>5, <1>6, <1>7, <1>8, <1>9, <1>10, <1>11, <1>12, <1>13, <1>14 DEF UserNext

LEMMA TaskTypes ==
    ASSUME TypeOK, MintInv, NEW t \in Tasks, TaskNext(t)
    PROVE  TypeOK'
<1> USE Ranges
<1>1. task[t] \in TaskType /\ task[t].client \in Client
  BY DEF TypeOK, TaskType
<1>2. CASE CloneClient(t)
  <2>1. task' \in [Tasks -> TaskType]
    BY <1>1, <1>2 DEF CloneClient, TaskType, TaskStep, Client, TypeOK
  <2> QED
    BY <1>2, <2>1 DEF CloneClient, TypeOK, IamTypeOK, CertTypeOK, madeVars, authVars,
       worldVars, txnVars, lifeVars, iamVars, certVars
<1>3. CASE LoopHead(t)
  <2>1. task' \in [Tasks -> TaskType]
    BY <1>1, <1>3, ConnAssumption DEF LoopHead, Iam, TaskType, TaskStep, CertTypeOK, Material, TypeOK
  <2> QED
    BY <1>3, <2>1 DEF LoopHead, TypeOK, IamTypeOK, CertTypeOK, madeVars, authVars,
       worldVars, txnVars, lifeVars, iamVars, certVars
<1>4. CASE CheckExpiry(t)
  <2>1. task' \in [Tasks -> TaskType]
    BY <1>1, <1>4 DEF CheckExpiry, TaskStepTo, TaskType, TaskStep, TypeOK
  <2> QED
    BY <1>4, <2>1 DEF CheckExpiry, TypeOK, IamTypeOK, CertTypeOK, madeVars, authVars,
       worldVars, txnVars, lifeVars, iamVars, certVars
<1>5. CASE MintOk(t)
  <2>1. task' \in [Tasks -> TaskType]
    BY <1>1, <1>5 DEF MintOk, TaskType, TaskStep, Client, TypeOK
  <2> QED
    BY <1>5, <2>1 DEF MintOk, TypeOK, IamTypeOK, CertTypeOK, madeVars, authVars,
       worldVars, txnVars, lifeVars, iamVars, certVars
<1>6. CASE MintFails(t)
  <2>1. task' \in [Tasks -> TaskType]
    BY <1>1, <1>6 DEF MintFails, TaskStepTo, TaskType, TaskStep, TypeOK
  <2> QED
    BY <1>6, <2>1 DEF MintFails, TypeOK, IamTypeOK, CertTypeOK, madeVars, authVars,
       worldVars, txnVars, lifeVars, iamVars, certVars
<1>7. CASE WriteMinted(t)
  <2>1. task' \in [Tasks -> TaskType]
    BY <1>1, <1>7 DEF WriteMinted, TaskStepTo, TaskType, TaskStep, TypeOK
  <2>2. cached' \in Age
    BY <1>7, IamAssumption DEF WriteMinted, MintInv, Age
  <2> QED
    BY <1>7, <2>1, <2>2 DEF WriteMinted, TypeOK, IamTypeOK, CertTypeOK, madeVars, authVars,
       worldVars, txnVars, lifeVars, iamVars, certVars
<1>8. CASE StampMinted(t)
  <2>1. task' \in [Tasks -> TaskType]
    BY <1>1, <1>8 DEF StampMinted, TaskStepTo, TaskType, TaskStep, TypeOK
  <2>2. createdAt' \in Age
    BY <1>1, <1>8, IamAssumption DEF StampMinted, Age, TypeOK
  <2> QED
    BY <1>8, <2>1, <2>2 DEF StampMinted, TypeOK, IamTypeOK, CertTypeOK, madeVars, authVars,
       worldVars, txnVars, lifeVars, iamVars, certVars
<1>9. CASE ReadCached(t)
  <2>1. task' \in [Tasks -> TaskType]
    BY <1>1, <1>9 DEF ReadCached, TaskType, TaskStep, Client, TypeOK
  <2> QED
    BY <1>9, <2>1 DEF ReadCached, TypeOK, IamTypeOK, CertTypeOK, madeVars, authVars,
       worldVars, txnVars, lifeVars, iamVars, certVars
<1>10. CASE UpdatePassword(t)
  <2>1. task' \in [Tasks -> TaskType]
    BY <1>1, <1>10 DEF UpdatePassword, TaskStepTo, TaskType, TaskStep, TypeOK
  <2>2. stored' \in Client
    BY <1>1, <1>10 DEF UpdatePassword, WithToken, WithCert, Client, TypeOK, CertTypeOK
  <2> QED
    BY <1>10, <2>1, <2>2 DEF UpdatePassword, TypeOK, IamTypeOK, CertTypeOK, madeVars, authVars,
       worldVars, txnVars, lifeVars, iamVars, certVars
<1>11. CASE ApplyCert(t)
  <2>1. task' \in [Tasks -> TaskType]
    BY <1>1, <1>11 DEF ApplyCert, TaskStepTo, TaskType, TaskStep, TypeOK
  <2>2. stored' \in Client
    BY <1>1, <1>11 DEF ApplyCert, WithToken, WithCert, Client, TypeOK, CertTypeOK
  <2> QED
    BY <1>11, <2>1, <2>2 DEF ApplyCert, TypeOK, IamTypeOK, CertTypeOK, madeVars, authVars,
       worldVars, txnVars, lifeVars, iamVars, certVars
<1>12. CASE ReadClient(t)
  <2>1. task' \in [Tasks -> TaskType]
    BY <1>1, <1>12 DEF ReadClient, TaskType, TaskStep, TypeOK
  <2> QED
    BY <1>12, <2>1 DEF ReadClient, TypeOK, IamTypeOK, CertTypeOK, madeVars, authVars,
       worldVars, txnVars, lifeVars, iamVars, certVars
<1>13. CASE ConnectOk(t)
  <2> DEFINE c == CHOOSE c \in Free : TRUE
  <2>1. c \in Conns
    BY <1>13 DEF ConnectOk, Free
  <2>2. /\ open' = open \cup {c} /\ session' = [session EXCEPT ![c] = task[t].client.seen]
        /\ task' = [task EXCEPT ![t].pc = "ping", ![t].conn = c]
    BY <1>13 DEF ConnectOk
  <2> HIDE DEF c
  <2>3. task' \in [Tasks -> TaskType]
    BY <1>1, <2>1, <2>2 DEF TaskType, TaskStep, ConnOrNone, TypeOK
  <2>4. open' \subseteq Conns /\ session' \in [Conns -> Seen]
    BY <1>1, <2>1, <2>2 DEF Client, TypeOK
  <2>5. multi' \subseteq Conns /\ misfiled' \subseteq Conns
    BY <1>13 DEF ConnectOk, NewSession, TypeOK
  <2> QED
    BY <1>13, <2>3, <2>4, <2>5 DEF ConnectOk, TypeOK, IamTypeOK, CertTypeOK, madeVars, authVars,
       worldVars, txnVars, lifeVars, iamVars, certVars
<1>14. CASE ConnectFails(t)
  <2>1. task' \in [Tasks -> TaskType]
    BY <1>1, <1>14 DEF ConnectFails, TaskStepTo, TaskType, TaskStep, TypeOK
  <2> QED
    BY <1>14, <2>1 DEF ConnectFails, TypeOK, IamTypeOK, CertTypeOK, madeVars, authVars,
       worldVars, txnVars, lifeVars, iamVars, certVars
<1>15. CASE PingFails(t)
  <2>1. task' \in [Tasks -> TaskType]
    BY <1>1, <1>15 DEF PingFails, TaskType, TaskStep, ConnOrNone, TypeOK
  <2> QED
    BY <1>15, <2>1 DEF PingFails, TypeOK, IamTypeOK, CertTypeOK, madeVars, authVars,
       worldVars, txnVars, lifeVars, iamVars, certVars
<1>16. CASE Install(t)
  <2>1. cur' \in ConnOrNone /\ task' \in [Tasks -> TaskType]
    BY <1>1, <1>16 DEF Install, TaskType, TypeOK
  <2> QED
    BY <1>16, <2>1 DEF Install, SignalAfterConnect, TypeOK, IamTypeOK, CertTypeOK, madeVars, authVars,
       worldVars, txnVars, lifeVars, iamVars, certVars
<1>17. CASE BackoffElapsed(t)
  <2>1. task' \in [Tasks -> TaskType]
    BY <1>1, <1>17 DEF BackoffElapsed, TaskStepTo, TaskType, TaskStep, TypeOK
  <2> QED
    BY <1>17, <2>1 DEF BackoffElapsed, TypeOK, IamTypeOK, CertTypeOK, madeVars, authVars,
       worldVars, txnVars, lifeVars, iamVars, certVars
<1> QED
  BY <1>2, <1>3, <1>4, <1>5, <1>6, <1>7, <1>8, <1>9, <1>10, <1>11, <1>12, <1>13, <1>14, <1>15, <1>16, <1>17 DEF TaskNext

\* The refreshes: one that starts sets a generation aside, one that ends takes it.
LEMMA TokenRefresh ==
    ASSUME TypeOK, RefreshInv, NEW r \in Refreshers, handle_token_refresh(r)
    PROVE  IamTypeOK' /\ RefreshInv' /\ generation <= generation'
<1>0. /\ refresh \in [Refreshers -> [pc : RefreshStep, token : Age]] /\ generation \in Nat
      /\ refresh[r] \in [pc : RefreshStep, token : Age]
      /\ MaxGenerations \in Nat /\ 0 \in Age /\ Ttl \in Age
  BY IamAssumption DEF TypeOK, IamTypeOK, Age
<1>1. IsFiniteSet(Refreshing) /\ Cardinality(Refreshing) \in Nat
  BY FS_CardinalityType DEF RefreshInv
<1>2. CASE Generate(r)
  <2>1. refresh' \in [Refreshers -> [pc : RefreshStep, token : Age]]
    BY <1>0, <1>2 DEF Generate, RefreshStep
  <2>2. Refreshing' = Refreshing \cup {r} /\ r \notin Refreshing
    BY <1>0, <1>2 DEF Generate, Refreshing, RefreshStep
  <2>3. IsFiniteSet(Refreshing') /\ Cardinality(Refreshing') = Cardinality(Refreshing) + 1
    BY <1>1, <2>2, FS_AddElement
  <2>4. generation' = generation /\ generation + Cardinality(Refreshing) <= MaxGenerations
    BY <1>2 DEF Generate
  <2>5. RefreshInv'
    BY <1>0, <1>1, <2>3, <2>4 DEF RefreshInv
  <2> QED
    BY <1>0, <1>2, <2>1, <2>4, <2>5 DEF Generate, IamTypeOK, TypeOK
<1>3. CASE WriteToken(r)
  <2>1. refresh' \in [Refreshers -> [pc : RefreshStep, token : Age]]
    BY <1>0, <1>3 DEF WriteToken, Goto, RefreshStep
  <2>2. Refreshing' = Refreshing /\ generation' = generation
    BY <1>0, <1>3 DEF WriteToken, Goto, Refreshing
  <2> QED
    BY <1>0, <1>3, <2>1, <2>2 DEF WriteToken, IamTypeOK, TypeOK, RefreshInv
<1>4. CASE StampCreated(r)
  <2>1. refresh' \in [Refreshers -> [pc : RefreshStep, token : Age]]
    BY <1>0, <1>4 DEF StampCreated, Goto, RefreshStep
  <2>2. Refreshing' = Refreshing /\ generation' = generation
    BY <1>0, <1>4 DEF StampCreated, Goto, Refreshing
  <2> QED
    BY <1>0, <1>4, <2>1, <2>2 DEF StampCreated, IamTypeOK, TypeOK, RefreshInv
<1>5. CASE Announce(r)
  <2>1. refresh' \in [Refreshers -> [pc : RefreshStep, token : Age]]
    BY <1>0, <1>5 DEF Announce, RefreshStep
  <2>2. Refreshing' = Refreshing \ {r} /\ r \in Refreshing
    BY <1>0, <1>5 DEF Announce, Refreshing
  <2>3. IsFiniteSet(Refreshing') /\ Cardinality(Refreshing') = Cardinality(Refreshing) - 1
    BY <1>1, <2>2, FS_RemoveElement
  <2>4. generation' = generation + 1
    BY <1>5 DEF Announce, NextGeneration
  <2>5. Cardinality(Refreshing') \in Nat
    BY <2>3, FS_CardinalityType
  <2>6. RefreshInv' /\ generation' \in 1..(MaxGenerations + 1)
    BY <1>0, <1>1, <2>3, <2>4, <2>5 DEF RefreshInv
  <2> QED
    BY <1>0, <1>5, <2>1, <2>4, <2>6 DEF Announce, IamTypeOK, TypeOK
<1> QED
  BY <1>2, <1>3, <1>4, <1>5 DEF handle_token_refresh

\* The reload task and the operator: what is adopted stays matched and only grows.
LEMMA ReloadStep ==
    ASSUME TypeOK, ReloadInv, handle_reload \/ Rotate
    PROVE  CertTypeOK' /\ ReloadInv' /\ adopted.cert <= adopted'.cert
<1>0. /\ disk \in Material /\ adopted \in Material /\ fingerprint \in Version
      /\ reload \in [pc : {"idle", "key", "validate", "params", "print"},
                     cert : Version, key : Version]
  BY DEF TypeOK, CertTypeOK
<1>1. CASE ReadCert
  <2>1. /\ reload' \in [pc : {"idle", "key", "validate", "params", "print"},
                        cert : Version, key : Version]
        /\ reload'.pc = "key" /\ reload'.cert = disk.cert
    BY <1>0, <1>1 DEF ReadCert, Material
  <2>2. UNCHANGED <<disk, adopted, fingerprint>> /\ reload.pc = "idle"
    BY <1>1 DEF ReadCert
  <2>3. adopted.cert \in Nat /\ disk.cert \in Nat
    BY <1>0 DEF Material, Version
  <2> QED
    BY <1>0, <2>1, <2>2, <2>3 DEF CertTypeOK, ReloadInv
<1>2. CASE ReadKey
  <2>1. /\ reload' \in [pc : {"idle", "key", "validate", "params", "print"},
                        cert : Version, key : Version]
        /\ reload'.pc = "validate" /\ reload'.cert = reload.cert
    BY <1>0, <1>2 DEF ReadKey, Material
  <2>2. UNCHANGED <<disk, adopted, fingerprint>> /\ reload.pc = "key"
    BY <1>2 DEF ReadKey
  <2>3. adopted.cert \in Nat /\ disk.cert \in Nat
    BY <1>0 DEF Material, Version
  <2> QED
    BY <1>0, <2>1, <2>2, <2>3 DEF CertTypeOK, ReloadInv
<1>3. CASE Validate
  BY <1>0, <1>3 DEF Validate, Validates, CertTypeOK, ReloadInv, Matching, Material, Version
<1>4. CASE WriteParams
  BY <1>0, <1>4 DEF WriteParams, CertTypeOK, ReloadInv, Matching, Material, Version
<1>5. CASE WriteFingerprint
  BY <1>0, <1>5 DEF WriteFingerprint, CertTypeOK, ReloadInv, Matching, Material, Version
<1>6. CASE Rotate
  BY <1>0, <1>6, CertAssumption DEF Rotate, CertTypeOK, ReloadInv, Matching, Material, Version
<1> QED
  BY <1>1, <1>2, <1>3, <1>4, <1>5, <1>6 DEF handle_reload

\* The clock: every token keeps its range and nothing else of a record changes.
LEMMA TickStep ==
    ASSUME TypeOK, Tick
    PROVE  /\ TypeOK'
           /\ UNCHANGED <<changed, generation, certVars, mode, wrapper, clients, state, cur, signal,
                          dropped, checker, lock, bookmark, open, session, serverPass, begun, breaks,
                          bound, multi_active, multi, misfiled, outOfContract>>
           /\ Refreshing' = Refreshing
           /\ stored'.seen = stored.seen /\ stored'.tls = stored.tls
           /\ \A t \in Tasks :
                /\ task'[t].pc = task[t].pc /\ task'[t].conn = task[t].conn
                /\ task'[t].cert = task[t].cert
                /\ task'[t].client.seen = task[t].client.seen
                /\ task'[t].client.tls = task[t].client.tls
                /\ task[t].pc # "write"
           /\ \A u \in Users :
                /\ user'[u].pc = user[u].pc /\ user'[u].next = user[u].next
                /\ user'[u].conn = user[u].conn /\ user'[u].gen = user[u].gen
                /\ user'[u].seen = user[u].seen /\ user'[u].auth = user[u].auth
                /\ user'[u].kind = user[u].kind
<1>1. stored' \in Client /\ stored'.seen = stored.seen /\ stored'.tls = stored.tls
  BY OlderRange DEF Tick, TypeOK, Client
<1>2. ASSUME NEW t \in Tasks
      PROVE  /\ task'[t] \in TaskType
             /\ task'[t].pc = task[t].pc /\ task'[t].conn = task[t].conn
             /\ task'[t].cert = task[t].cert
             /\ task'[t].client.seen = task[t].client.seen
             /\ task'[t].client.tls = task[t].client.tls
             /\ task[t].pc # "write"
  BY OlderRange DEF Tick, TypeOK, TaskType, Client
<1>3. ASSUME NEW u \in Users
      PROVE  /\ user'[u] \in UserType
             /\ user'[u].pc = user[u].pc /\ user'[u].next = user[u].next
             /\ user'[u].conn = user[u].conn /\ user'[u].gen = user[u].gen
             /\ user'[u].seen = user[u].seen /\ user'[u].auth = user[u].auth
             /\ user'[u].kind = user[u].kind
  BY OlderRange DEF Tick, TypeOK, UserType
<1>4. /\ task' \in [Tasks -> TaskType] /\ user' \in [Users -> UserType]
  <2>1. DOMAIN task' = Tasks /\ DOMAIN user' = Users
    BY DEF Tick
  <2>2. task' = [t \in Tasks |-> task'[t]] /\ user' = [u \in Users |-> user'[u]]
    BY DEF Tick
  <2> QED
    BY <1>2, <1>3, <2>1, <2>2
<1>5. cached' \in Age /\ createdAt' \in Age
  BY OlderAge DEF Tick, IamTick, TypeOK, IamTypeOK
<1>6. /\ refresh' \in [Refreshers -> [pc : RefreshStep, token : Age]]
      /\ \A r \in Refreshers : refresh'[r].pc = refresh[r].pc
  BY OlderAge DEF Tick, IamTick, TypeOK, IamTypeOK
<1>7. Refreshing' = Refreshing
  BY <1>6 DEF Refreshing
<1>8. UNCHANGED <<changed, generation, certVars, mode, wrapper, clients, state, cur, signal,
                  dropped, checker, lock, bookmark, open, session, serverPass, begun, breaks,
                  bound, multi_active, multi, misfiled, outOfContract>>
  BY DEF Tick, IamTick, madeVars, authVars, worldVars, txnVars, lifeVars, certVars
<1>9. TypeOK'
  BY <1>1, <1>4, <1>5, <1>6, <1>8 DEF TypeOK, IamTypeOK, CertTypeOK, certVars
<1> QED
  BY <1>1, <1>2, <1>3, <1>7, <1>8, <1>9

----------------------------------------------------------------------------
(* What a step leaves alone *)

Spawned == [NoTask EXCEPT !.pc = "clone"]

\* reconnect: nothing, or one task that starts from scratch.
LEMMA ReconnectFrame ==
    ASSUME TypeOK, LinkInv, reconnect
    PROVE  /\ state' = "Reconnecting" /\ ~signal'
           /\ \A t \in Tasks : task'[t] = task[t] \/ task'[t] = Spawned
           /\ \A t1, t2 \in Tasks : task'[t1].pc # "none" /\ task'[t2].pc # "none" => t1 = t2
           /\ ~dropped => \E t \in Tasks : task'[t].pc # "none"
<1>1. CASE state = "Reconnecting" /\ UNCHANGED <<signal, state, cur, task>>
  BY <1>1 DEF LinkInv, TypeOK
<1>2. CASE state # "Reconnecting" /\ signal' = FALSE /\ state' = "Reconnecting"
           /\ cur' = NoConn /\ Spawn
  <2> DEFINE n == CHOOSE t \in Tasks \ Running : TRUE
  <2>1. n \in Tasks
    BY <1>2 DEF Spawn, Running
  <2>2. task' = [task EXCEPT ![n] = Spawned]
    BY <1>2 DEF Spawn, Spawned
  <2> HIDE DEF n
  <2>3. task'[n] = Spawned /\ \A t \in Tasks : t # n => task'[t] = task[t]
    BY <2>1, <2>2 DEF TypeOK
  <2>4. \A t \in Tasks : task[t].pc = "none"
    BY <1>2 DEF LinkInv
  <2>5. Spawned.pc = "clone"
    BY DEF Spawned, NoTask
  <2> QED
    BY <1>2, <2>1, <2>3, <2>4, <2>5
<1> QED
  BY <1>1, <1>2 DEF reconnect

\* A step of a command changes no other command, no clock and no certificate.
LEMMA UserFrame ==
    ASSUME TypeOK, NEW u \in Users, UserNext(u)
    PROVE  /\ \A v \in Users : v # u => user'[v] = user[v]
           /\ UNCHANGED <<bound, mode, dropped, checker, generation, refresh, serverPass, breaks, certVars>>
<1> USE DEF UserNext, TypeOK, Step, EnterClient, madeVars, lifeVars, worldVars, txnVars, iamVars
<1>1. \A v \in Users : v # u => user'[v] = user[v]
  BY DispatchStep, AuthStep DEF Begin, Gate, Lock, ReadToken, ClearChanged, StorePassword, CopyConfig, CreateClient,
         GetConnection, Reply, RequestBroken, RequestTimeout
<1>2. UNCHANGED <<bound, mode, dropped, checker, generation, refresh, serverPass, breaks, certVars>>
  BY DEF Begin, Gate, Lock, ReadToken, ClearChanged, StorePassword, CopyConfig, CreateClient,
         GetConnection, Reply, AuthReply, RequestBroken, RequestTimeout
<1> QED
  BY <1>1, <1>2

\* Only the creation of the client and the report of a broken connection touch the
\* link between the client and its connection.
LEMMA UserQuiet ==
    ASSUME NEW u \in Users, UserNext(u), ~CreateClient(u), ~RequestBroken(u)
    PROVE  UNCHANGED <<madeVars, linkVars>>
BY DEF UserNext, Begin, Gate, Lock, ReadToken, ClearChanged, StorePassword, CopyConfig,
       GetConnection, Reply, AuthReply, RequestTimeout

\* A step of a reconnect task changes no command, no other task and no bookmark.
LEMMA TaskFrame ==
    ASSUME TypeOK, NEW t \in Tasks, TaskNext(t)
    PROVE  /\ \A s \in Tasks : s # t => task'[s] = task[s]
           /\ UNCHANGED <<madeVars, dropped, checker, user, lock, bookmark, generation, refresh,
                          certVars, serverPass, begun, breaks>>
           /\ task[t].pc # "none"
<1> USE DEF TaskNext, TypeOK, TaskStepTo, lifeVars, worldVars, txnVars, iamVars, authVars
<1>1. \A s \in Tasks : s # t => task'[s] = task[s]
  BY DEF CloneClient, LoopHead, CheckExpiry, MintOk, MintFails, WriteMinted, StampMinted,
         ReadCached, UpdatePassword, ApplyCert, ReadClient, ConnectOk, ConnectFails, PingFails,
         Install, BackoffElapsed
<1>2. /\ UNCHANGED <<madeVars, dropped, checker, user, lock, bookmark, generation, refresh,
                     certVars, serverPass, begun, breaks>>
      /\ task[t].pc # "none"
  BY DEF CloneClient, LoopHead, CheckExpiry, MintOk, MintFails, WriteMinted, StampMinted,
         ReadCached, UpdatePassword, ApplyCert, ReadClient, ConnectOk, ConnectFails, PingFails,
         Install, BackoffElapsed
<1> QED
  BY <1>1, <1>2

\* The task goes on until it installs a connection or finds the client dropped.
LEMMA TaskGoesOn ==
    ASSUME TypeOK, NEW t \in Tasks, TaskNext(t), ~Install(t), ~(LoopHead(t) /\ dropped)
    PROVE  UNCHANGED <<state, cur, signal>> /\ task'[t].pc # "none"
<1>1. task[t] \in TaskType
  BY DEF TypeOK
<1>2. UNCHANGED <<state, cur, signal>>
  BY DEF TaskNext, CloneClient, LoopHead, CheckExpiry, MintOk, MintFails, WriteMinted, StampMinted,
         ReadCached, UpdatePassword, ApplyCert, ReadClient, ConnectOk, ConnectFails, PingFails,
         BackoffElapsed
<1>3. CASE LoopHead(t)
  <2>1. mode \in {"static", "cert", "iam", "pool"}
    BY ConnAssumption DEF TypeOK
  <2> DEFINE to == CASE Iam             -> "expiry"
                    [] mode = "cert"   -> "cert"
                    [] mode = "static" -> "connect"
  <2>2. to # "none"
    BY <2>1 DEF Iam
  <2> HIDE DEF to
  <2>3. task' = [task EXCEPT ![t].pc = to, ![t].since = generation, ![t].cert = adopted.cert]
    BY <1>3 DEF LoopHead, is_dropped, to
  <2>4. task'[t].pc = to
    BY <1>1, <2>3 DEF TypeOK, TaskType
  <2> QED
    BY <1>2, <2>2, <2>4
<1>4. CASE ~LoopHead(t)
  <2>1. CASE CloneClient(t) \/ CheckExpiry(t) \/ MintOk(t) \/ MintFails(t) \/ WriteMinted(t)
    BY <1>1, <1>2, <2>1 DEF TypeOK, TaskType, TaskStepTo, CloneClient, CheckExpiry, MintOk, MintFails,
       WriteMinted
  <2>2. CASE StampMinted(t) \/ ReadCached(t) \/ UpdatePassword(t) \/ ApplyCert(t) \/ ReadClient(t)
    BY <1>1, <1>2, <2>2 DEF TypeOK, TaskType, TaskStepTo, StampMinted, ReadCached, UpdatePassword,
       ApplyCert, ReadClient
  <2>3. CASE ConnectOk(t) \/ ConnectFails(t) \/ PingFails(t) \/ BackoffElapsed(t)
    BY <1>1, <1>2, <2>3 DEF TypeOK, TaskType, TaskStepTo, ConnectOk, ConnectFails, PingFails,
       BackoffElapsed
  <2> QED
    BY <1>2, <1>4, <2>1, <2>2, <2>3 DEF TaskNext
<1> QED
  BY <1>3, <1>4

----------------------------------------------------------------------------
(* Every part of the invariant is kept by every step *)

\* The steps of the checker, of the owner and of the server.
Surroundings ==
    \/ CheckerLooks \/ CheckerActs \/ CheckerStops \/ DropClient
    \/ ApplicationUpdatesPassword \/ PasswordChanges \/ Break

LEMMA SurroundingsFrame ==
    ASSUME Surroundings
    PROVE  /\ UNCHANGED <<madeVars, user, authVars, begun, iamVars, certVars>>
           /\ UNCHANGED <<multi_active, misfiled, outOfContract>> /\ multi' \subseteq multi
           /\ CheckerActs \/ UNCHANGED linkVars
BY DEF Surroundings, CheckerLooks, CheckerActs, CheckerStops, DropClient,
       ApplicationUpdatesPassword, PasswordChanges, Break, worldVars, txnVars

LEMMA SurroundingsTypes ==
    ASSUME TypeOK, Surroundings
    PROVE  TypeOK'
<1> USE SurroundingsFrame, Ranges DEF madeVars, linkVars, authVars, lifeVars, iamVars, certVars
<1>1. CASE CheckerLooks
  BY <1>1 DEF CheckerLooks, TypeOK, IamTypeOK, CertTypeOK, worldVars, txnVars
<1>2. CASE CheckerActs
  <2>1. /\ state' \in {"InitializedDisconnected", "Connected", "Reconnecting"}
        /\ cur' \in ConnOrNone /\ signal' \in BOOLEAN /\ task' \in [Tasks -> TaskType]
    BY <1>2, ReconnectTypes DEF CheckerActs, TypeOK
  <2> QED
    BY <1>2, <2>1 DEF CheckerActs, TypeOK, IamTypeOK, CertTypeOK, worldVars, txnVars, ConnOrNone
<1>3. CASE CheckerStops
  BY <1>3 DEF CheckerStops, TypeOK, IamTypeOK, CertTypeOK, worldVars, txnVars
<1>4. CASE DropClient
  BY <1>4 DEF DropClient, TypeOK, IamTypeOK, CertTypeOK, worldVars, txnVars
<1>5. CASE ApplicationUpdatesPassword
  BY <1>5 DEF ApplicationUpdatesPassword, TypeOK, IamTypeOK, CertTypeOK, worldVars, txnVars, Client
<1>6. CASE PasswordChanges
  BY <1>6, ConnAssumption DEF PasswordChanges, TypeOK, IamTypeOK, CertTypeOK, txnVars
<1>7. CASE Break
  <2>1. breaks' \in 0..bound'.breaks
    BY <1>7 DEF Break, TypeOK, Bound
  <2> QED
    BY <1>7, <2>1 DEF Break, TypeOK, IamTypeOK, CertTypeOK
<1> QED
  BY <1>1, <1>2, <1>3, <1>4, <1>5, <1>6, <1>7 DEF Surroundings

LEMMA NextCases ==
    ASSUME [Next]_vars
    PROVE  \/ \E u \in Users : UserNext(u)
           \/ \E t \in Tasks : TaskNext(t)
           \/ \E r \in Refreshers : Refresh(r)
           \/ Surroundings
           \/ Tick
           \/ (Reload \/ RotateFiles) /\ UNCHANGED <<connVars, iamVars>>
           \/ UNCHANGED <<connVars, iamVars, certVars>>
BY DEF Next, vars, Surroundings, Reload, RotateFiles

LEMMA NextTypes ==
    ASSUME Inv, [Next]_vars
    PROVE  TypeOK' /\ RefreshInv' /\ ReloadInv' /\ generation <= generation'
           /\ adopted.cert <= adopted'.cert
<1> USE DEF Inv
<1>0. generation \in Nat /\ adopted.cert \in Nat
  BY DEF TypeOK, IamTypeOK, CertTypeOK, Material, Version
<1>1. ASSUME UNCHANGED <<generation, refresh, certVars>>
      PROVE  RefreshInv' /\ ReloadInv' /\ generation <= generation' /\ adopted.cert <= adopted'.cert
  BY <1>0, <1>1 DEF RefreshInv, Refreshing, ReloadInv, Matching, certVars
<1>2. ASSUME NEW u \in Users, UserNext(u)
      PROVE  UNCHANGED <<generation, refresh, certVars>> /\ TypeOK'
  BY <1>2, UserFrame, UserTypes
<1>3. ASSUME NEW t \in Tasks, TaskNext(t)
      PROVE  UNCHANGED <<generation, refresh, certVars>> /\ TypeOK'
  BY <1>3, TaskFrame, TaskTypes
<1>4. ASSUME NEW r \in Refreshers, Refresh(r)
      PROVE  TypeOK' /\ RefreshInv' /\ ReloadInv' /\ generation <= generation'
             /\ adopted.cert <= adopted'.cert
  <2>1. handle_token_refresh(r) /\ UNCHANGED <<connVars, certVars>>
    BY <1>4 DEF Refresh
  <2>2. IamTypeOK' /\ RefreshInv' /\ generation <= generation'
    BY <2>1, TokenRefresh
  <2>3. TypeOK'
    BY <2>1, <2>2 DEF TypeOK, CertTypeOK, connVars, certVars
  <2> QED
    BY <1>0, <2>1, <2>2, <2>3 DEF ReloadInv, Matching, certVars
<1>5. CASE Surroundings
  BY <1>1, <1>5, SurroundingsFrame, SurroundingsTypes DEF iamVars
<1>6. CASE Tick
  <2>1. TypeOK' /\ UNCHANGED <<generation, certVars>> /\ Refreshing' = Refreshing
    BY <1>6, TickStep
  <2> QED
    BY <1>0, <2>1 DEF RefreshInv, ReloadInv, Matching, certVars
<1>7. CASE (Reload \/ RotateFiles) /\ UNCHANGED <<connVars, iamVars>>
  <2>1. handle_reload \/ Rotate
    BY <1>7 DEF Reload, RotateFiles
  <2>2. CertTypeOK' /\ ReloadInv' /\ adopted.cert <= adopted'.cert
    BY <2>1, ReloadStep
  <2>3. TypeOK' /\ RefreshInv'
    BY <1>7, <2>2 DEF TypeOK, IamTypeOK, RefreshInv, Refreshing, connVars, iamVars
  <2> QED
    BY <1>0, <1>7, <2>2, <2>3 DEF iamVars
<1>8. CASE UNCHANGED <<connVars, iamVars, certVars>>
  <2>1. TypeOK'
    BY <1>8 DEF TypeOK, IamTypeOK, CertTypeOK, connVars, iamVars, certVars
  <2> QED
    BY <1>1, <1>8, <2>1 DEF iamVars
<1> QED
  BY <1>1, <1>2, <1>3, <1>4, <1>5, <1>6, <1>7, <1>8, NextCases

\* One client, one reconnect task, one signal.
LEMMA LinkSame ==
    ASSUME LazyInv, CountInv, LinkInv, UNCHANGED <<madeVars, linkVars, dropped, checker>>,
           \A u \in Users : user'[u].pc = "sent" => user[u].pc = "sent" \/ wrapper = "real"
    PROVE  LazyInv' /\ CountInv' /\ LinkInv'
BY DEF LazyInv, CountInv, LinkInv, madeVars, linkVars

LEMMA NextLink ==
    ASSUME Inv, [Next]_vars
    PROVE  LazyInv' /\ CountInv' /\ LinkInv'
<1>0. TypeOK /\ LazyInv /\ CountInv /\ LinkInv /\ UserInv /\ NoConn \notin Conns
  BY ConnAssumption DEF Inv
<1>1. ASSUME reconnect, UNCHANGED <<madeVars, dropped>>, wrapper = "real"
      PROVE  LazyInv' /\ CountInv' /\ LinkInv'
  BY <1>0, <1>1, ReconnectFrame DEF LazyInv, CountInv, LinkInv, madeVars
<1>2. ASSUME NEW u \in Users, UserNext(u)
      PROVE  LazyInv' /\ CountInv' /\ LinkInv'
  <2>1. CASE CreateClient(u)
    <3>1. CASE AlreadyCreated
      BY <1>0, <1>2, <2>1, <3>1, UserFrame DEF CreateClient, AlreadyCreated, LazyInv, CountInv,
         LinkInv, linkVars
    <3>2. CASE ~AlreadyCreated /\ wrapper' = "real" /\ clients' = clients + 1
      <4>1. LazyInv' /\ CountInv' /\ wrapper = "lazy"
        BY <1>0, <3>2 DEF LazyInv, CountInv, AlreadyCreated, TypeOK
      <4>2. CASE reconnect
        BY <1>0, <1>2, <4>1, <4>2, ReconnectFrame, UserFrame DEF LinkInv
      <4>3. CASE /\ Free # {} /\ cur' = CHOOSE c \in Free : TRUE
                 /\ state' = "Connected" /\ UNCHANGED <<signal, task>>
        <5>1. cur' \in Conns
          BY <4>3 DEF Free
        <5>2. state = "InitializedDisconnected"
          BY <1>0, <4>1 DEF LazyInv
        <5> QED
          BY <1>0, <4>1, <4>3, <5>1, <5>2 DEF LinkInv
      <4> QED
        BY <2>1, <3>2, <4>2, <4>3 DEF CreateClient
    <3>3. CASE ~AlreadyCreated /\ user' = [user EXCEPT ![u] = Idle]
               /\ UNCHANGED <<wrapper, clients, linkVars>>
      <4>1. \A v \in Users : user'[v].pc = "sent" => user[v].pc = "sent"
        BY <1>0, <3>3 DEF Idle, TypeOK
      <4> QED
        BY <1>0, <1>2, <3>3, <4>1, LinkSame, UserFrame DEF madeVars
    <3> QED
      BY <2>1, <3>1, <3>2, <3>3 DEF CreateClient
  <2>2. CASE RequestBroken(u)
    BY <1>0, <1>1, <1>2, <2>2, UserFrame DEF RequestBroken, LazyInv, TypeOK
  <2>3. CASE ~CreateClient(u) /\ ~RequestBroken(u)
    <3>1. UNCHANGED <<madeVars, linkVars, dropped, checker>>
      BY <1>0, <1>2, <2>3, UserQuiet, UserFrame
    <3>2. ASSUME user'[u].pc = "sent"
          PROVE  user[u].pc = "sent" \/ wrapper = "real"
      <4>1. user[u].next # "sent" \/ user[u].pc \notin {"upgrade", "create"}
        BY <1>0 DEF UserInv
      <4>2. user[u] \in UserType
        BY <1>0 DEF TypeOK
      <4>3. CASE GetConnection(u)
        BY <1>0, <4>3 DEF GetConnection, LazyInv, TypeOK
      <4>4. CASE Gate(u) \/ Lock(u)
        BY <1>0, <3>2, <4>2, <4>4, DispatchStep DEF Gate, Lock, TypeOK, Step, UserType
      <4>5. CASE AuthReply(u)
        BY <4>5 DEF AuthReply
      <4>6. CASE ~GetConnection(u) /\ ~Gate(u) /\ ~Lock(u) /\ ~AuthReply(u)
        BY <1>0, <1>2, <2>3, <3>2, <4>1, <4>2, <4>6 DEF UserNext, TypeOK, Begin, ReadToken,
           ClearChanged, StorePassword, CopyConfig, Reply, RequestTimeout, Step,
           EnterClient, Idle, UserType
      <4> QED
        BY <4>3, <4>4, <4>5, <4>6
    <3> QED
      BY <1>0, <1>2, <3>1, <3>2, LinkSame, UserFrame
  <2> QED
    BY <2>1, <2>2, <2>3
<1>3. ASSUME NEW t \in Tasks, TaskNext(t)
      PROVE  LazyInv' /\ CountInv' /\ LinkInv'
  <2>1. /\ \A s \in Tasks : s # t => task'[s] = task[s]
        /\ UNCHANGED <<madeVars, dropped, checker, user>> /\ task[t].pc # "none"
    BY <1>0, <1>3, TaskFrame
  <2>2. \A s \in Tasks : s # t => task[s].pc = "none"
    BY <1>0, <2>1 DEF LinkInv
  <2>3. wrapper = "real" /\ state = "Reconnecting" /\ CountInv' /\ LazyInv'
    <3>1. wrapper = "real" /\ state = "Reconnecting"
      BY <1>0, <2>1 DEF LinkInv, LazyInv, TypeOK
    <3> QED
      BY <1>0, <2>1, <3>1 DEF CountInv, LazyInv, madeVars
  <2>4. CASE Install(t)
    <3>1. task'[t].pc = "none" /\ cur' \in Conns
      BY <1>0, <2>4 DEF Install, NoTask, TypeOK
    <3> QED
      BY <1>0, <2>1, <2>2, <2>3, <2>4, <3>1 DEF Install, SignalAfterConnect, LinkInv
  <2>5. CASE LoopHead(t) /\ dropped
    <3>1. task'[t].pc = "none"
      BY <1>0, <2>5 DEF LoopHead, is_dropped, NoTask, TypeOK
    <3> QED
      BY <1>0, <2>1, <2>2, <2>3, <2>5, <3>1 DEF LoopHead, LinkInv
  <2>6. CASE ~Install(t) /\ ~(LoopHead(t) /\ dropped)
    BY <1>0, <1>3, <2>1, <2>2, <2>3, <2>6, TaskGoesOn DEF LinkInv
  <2> QED
    BY <2>4, <2>5, <2>6
<1>4. ASSUME NEW r \in Refreshers, Refresh(r)
      PROVE  LazyInv' /\ CountInv' /\ LinkInv'
  BY <1>0, <1>4, LinkSame DEF Refresh, connVars, madeVars, linkVars
<1>5. CASE Surroundings
  <2>1. UNCHANGED <<madeVars, user>>
    BY <1>5, SurroundingsFrame
  <2>2. CASE CheckerActs
    <3>1. wrapper = "real" /\ UNCHANGED dropped
      BY <1>0, <2>2 DEF CheckerActs, LazyInv, TypeOK
    <3>2. reconnect \/ UNCHANGED linkVars
      BY <2>2 DEF CheckerActs
    <3> QED
      BY <1>0, <1>1, <2>1, <3>1, <3>2 DEF LazyInv, CountInv, LinkInv, madeVars, linkVars
  <2>3. CASE ~CheckerActs
    <3>1. UNCHANGED linkVars /\ (dropped' \/ UNCHANGED dropped)
      BY <1>5, <2>3, SurroundingsFrame DEF Surroundings, CheckerLooks, CheckerStops, DropClient,
         ApplicationUpdatesPassword, PasswordChanges, Break, lifeVars
    <3>2. LinkInv' /\ CountInv'
      BY <1>0, <2>1, <3>1 DEF LinkInv, CountInv, linkVars, madeVars
    <3>3. wrapper = "lazy" => checker' = NoConn /\ ~dropped'
      BY <1>0, <1>5, <2>3 DEF Surroundings, CheckerLooks, CheckerStops, DropClient,
         ApplicationUpdatesPassword, PasswordChanges, Break, lifeVars, LazyInv
    <3> QED
      BY <1>0, <2>1, <3>1, <3>2, <3>3 DEF LazyInv, linkVars, madeVars
  <2> QED
    BY <2>2, <2>3
<1>6. CASE Tick
  BY <1>0, <1>6, TickStep DEF LazyInv, CountInv, LinkInv
<1>7. CASE UNCHANGED <<connVars, iamVars>>
  BY <1>0, <1>7, LinkSame DEF connVars, madeVars, linkVars
<1> QED
  BY <1>2, <1>3, <1>4, <1>5, <1>6, <1>7, NextCases

\* One command's part of UserInv and HolderInv.
UserOk(u) ==
    /\ user[u].pc \in {"upgrade", "create"} => user[u].next \in {"wait", "store"}
    /\ user[u].auth => mode = "pool" /\ user[u].pc \in {"wait", "sent"}

HolderOk(u) ==
    mode = "pool" /\ Holding(u) =>
        /\ lock = u
        /\ bookmark <= user[u].gen
        /\ user[u].gen <= generation
        /\ user[u].pc # "token" => user[u].gen <= user[u].seen

LEMMA HolderParts ==
    /\ UserInv <=> \A u \in Users : UserOk(u)
    /\ HolderInv <=> /\ mode # "pool" => bookmark = 0
                     /\ bookmark <= generation
                     /\ \A u \in Users : HolderOk(u)
BY DEF UserInv, HolderInv, UserOk, HolderOk

\* A later generation takes nothing from a holder.
LEMMA HolderKept ==
    ASSUME TypeOK, TypeOK', NEW u \in Users, UserOk(u), HolderOk(u), generation <= generation',
           UNCHANGED <<mode, bookmark>>, lock = u => lock' = u,
           user'[u].pc = user[u].pc, user'[u].next = user[u].next, user'[u].auth = user[u].auth,
           user'[u].gen = user[u].gen, user'[u].seen = user[u].seen
    PROVE  UserOk(u)' /\ HolderOk(u)'
<1>1. user[u].gen \in Nat /\ generation \in Nat /\ generation' \in Nat
  BY DEF TypeOK, IamTypeOK, UserType, Seen
<1>2. Holding(u)' = Holding(u)
  BY DEF Holding
<1> QED
  BY <1>1, <1>2 DEF UserOk, HolderOk

\* The command that steps, one action at a time.
LEMMA UserStepsOn ==
    ASSUME Inv, TypeOK', NEW u \in Users, UserNext(u)
    PROVE  /\ UserOk(u)' /\ HolderOk(u)'
           /\ \/ UNCHANGED lock
              \/ lock = NoUser /\ lock' = u
              \/ lock = u
              \/ AuthReply(u)
           /\ UNCHANGED bookmark \/ (AuthReply(u) /\ bookmark' = user[u].gen)
<1>0. /\ TypeOK /\ UserOk(u) /\ HolderOk(u) /\ bookmark <= generation
      /\ user[u] \in UserType /\ user \in [Users -> UserType]
      /\ generation \in Nat /\ bookmark \in Nat /\ user[u].gen \in Nat /\ user[u].seen \in Nat
  BY HolderParts DEF Inv, TypeOK, IamTypeOK, UserType, Seen
<1>1. UNCHANGED <<mode, generation>>
  BY <1>0, UserFrame
<1> DEFINE Quiet == user'[u].pc \notin {"upgrade", "create"} /\ ~user'[u].auth
                    /\ user'[u].pc \notin {"token", "store", "clear"}
<1>2. ASSUME Quiet
      PROVE  UserOk(u)' /\ HolderOk(u)'
  BY <1>2 DEF UserOk, HolderOk, Holding
<1>3. ASSUME Dispatch(u), ~user[u].auth
      PROVE  UserOk(u)' /\ HolderOk(u)'
  <2>1. /\ user'[u].pc \in {"wait", "upgrade"} /\ user'[u].next = "wait" /\ ~user'[u].auth
    BY <1>0, <1>3, DispatchStep
  <2> QED
    BY <2>1 DEF UserOk, HolderOk, Holding
<1>4. CASE Begin(u)
  <2>1. Quiet
    BY <1>0, <1>4 DEF Begin, Step, UserOk, UserType
  <2> QED
    BY <1>2, <1>4, <2>1 DEF Begin, authVars
<1>5. CASE Gate(u)
  <2>1. ~user[u].auth /\ UNCHANGED <<lock, bookmark>>
    BY <1>0, <1>5 DEF Gate, UserOk, authVars
  <2>2. CASE Step(u, "lock")
    BY <1>0, <1>2, <2>1, <2>2 DEF Step, UserType
  <2>3. CASE mode = "iam" /\ Step(u, "token")
    BY <1>0, <1>1, <2>1, <2>3 DEF Step, UserType, UserOk, HolderOk
  <2> QED
    BY <1>3, <1>5, <2>1, <2>2, <2>3 DEF Gate
<1>6. CASE Lock(u)
  <2>1. ~user[u].auth /\ UNCHANGED bookmark
    BY <1>0, <1>6 DEF Lock, UserOk
  <2>2. CASE Dispatch(u) /\ UNCHANGED lock
    BY <1>3, <2>1, <2>2
  <2>3. CASE user' = [user EXCEPT ![u].pc = "token", ![u].gen = generation] /\ lock' = u
    <3>1. user'[u].pc = "token" /\ user'[u].gen = generation /\ ~user'[u].auth
      BY <1>0, <2>1, <2>3 DEF UserType
    <3> QED
      BY <1>0, <1>1, <1>6, <2>1, <2>3, <3>1 DEF Lock, UserOk, HolderOk
  <2> QED
    BY <1>6, <2>2, <2>3 DEF Lock
<1>7. CASE ReadToken(u)
  <2>1. /\ user'[u].pc \in {"store", "clear"} /\ user'[u].gen = user[u].gen
        /\ user'[u].seen = generation /\ ~user'[u].auth /\ UNCHANGED <<lock, bookmark>>
    BY <1>0, <1>7 DEF ReadToken, UserType, UserOk, authVars
  <2>2. Holding(u)
    BY <1>7 DEF ReadToken, Holding
  <2> QED
    BY <1>0, <1>1, <2>1, <2>2 DEF UserOk, HolderOk
<1>8. CASE ClearChanged(u)
  <2>1. /\ user'[u].pc = "store" /\ user'[u].gen = user[u].gen
        /\ user'[u].seen = user[u].seen /\ ~user'[u].auth /\ UNCHANGED <<lock, bookmark>>
    BY <1>0, <1>8 DEF ClearChanged, Step, UserType, UserOk, authVars
  <2>2. Holding(u) /\ user[u].pc = "clear"
    BY <1>8 DEF ClearChanged, Holding
  <2> QED
    BY <1>0, <1>1, <2>1, <2>2 DEF UserOk, HolderOk
<1>9. CASE StorePassword(u)
  <2>1. Holding(u) /\ user[u].pc = "store" /\ UNCHANGED <<lock, bookmark>>
    BY <1>9 DEF StorePassword, Holding, authVars
  <2>2. /\ user'[u].pc \in {"store", "upgrade", "wait"} /\ user'[u].gen = user[u].gen
        /\ user'[u].seen = user[u].seen /\ (user'[u].pc = "upgrade" => user'[u].next = "store")
        /\ user'[u].auth => PoolManaged /\ user'[u].pc = "wait"
    BY <1>0, <1>9 DEF StorePassword, EnterClient, UserType, UserOk, PoolManaged
  <2> QED
    BY <1>0, <1>1, <2>1, <2>2 DEF UserOk, HolderOk, PoolManaged
<1>10. CASE CopyConfig(u)
  <2>1. user[u].pc = "upgrade" /\ user[u].next \in {"wait", "store"} /\ ~user[u].auth
        /\ UNCHANGED <<lock, bookmark>>
    BY <1>0, <1>10 DEF CopyConfig, UserOk, authVars
  <2>2. /\ user'[u].pc \in {user[u].next, "create"} /\ user'[u].gen = user[u].gen
        /\ user'[u].seen = user[u].seen /\ user'[u].next = user[u].next /\ ~user'[u].auth
    BY <1>0, <1>10, <2>1 DEF CopyConfig, Step, UserType
  <2> QED
    BY <1>0, <1>1, <2>1, <2>2 DEF UserOk, HolderOk, Holding
<1>11. CASE CreateClient(u)
  <2>1. user[u].pc = "create" /\ user[u].next \in {"wait", "store"} /\ ~user[u].auth
        /\ UNCHANGED bookmark
    BY <1>0, <1>11 DEF CreateClient, UserOk
  <2>2. CASE Step(u, user[u].next) /\ UNCHANGED lock
    <3>1. /\ user'[u].pc = user[u].next /\ user'[u].gen = user[u].gen
          /\ user'[u].seen = user[u].seen /\ user'[u].next = user[u].next /\ ~user'[u].auth
      BY <1>0, <2>1, <2>2 DEF Step, UserType
    <3> QED
      BY <1>0, <1>1, <2>1, <2>2, <3>1 DEF UserOk, HolderOk, Holding
  <2>3. CASE user' = [user EXCEPT ![u] = Idle] /\ lock' = Released(u)
    <3>1. Quiet
      BY <1>0, <2>3 DEF Idle
    <3> QED
      BY <1>2, <2>1, <2>3, <3>1 DEF Released
  <2> QED
    BY <1>11, <2>2, <2>3 DEF CreateClient
<1>12. CASE GetConnection(u)
  <2>1. /\ user[u].pc = "wait" /\ UNCHANGED <<lock, bookmark>>
        /\ user'[u].pc = "sent" /\ user'[u].gen = user[u].gen
        /\ user'[u].seen = user[u].seen /\ user'[u].auth = user[u].auth
    BY <1>0, <1>12 DEF GetConnection, UserType, authVars
  <2> QED
    BY <1>0, <1>1, <2>1 DEF UserOk, HolderOk, Holding
<1>13. CASE Reply(u)
  <2>1. Quiet
    BY <1>0, <1>13 DEF Reply, Idle
  <2> QED
    BY <1>2, <1>13, <2>1 DEF Reply, authVars
<1>14. CASE AuthReply(u)
  <2>3. Quiet
    <3>1. CASE user'[u].pc = "wait" /\ ~user'[u].auth
      BY <3>1
    <3>2. CASE user' = [user EXCEPT ![u] = Idle]
      BY <1>0, <3>2 DEF Idle
    <3> QED
      BY <1>0, <1>14, <3>1, <3>2, AuthStep
  <2> QED
    BY <1>0, <1>2, <1>14, <2>3, AuthStep
<1>15. CASE RequestBroken(u) \/ RequestTimeout(u)
  <2>1. Quiet
    BY <1>0, <1>15 DEF RequestBroken, RequestTimeout, Idle
  <2> QED
    BY <1>2, <1>15, <2>1 DEF RequestBroken, RequestTimeout, Released
<1> QED
  BY <1>4, <1>5, <1>6, <1>7, <1>8, <1>9, <1>10, <1>11, <1>12, <1>13, <1>14, <1>15 DEF UserNext

\* An AUTH is on its way while its sender holds iam_reconcile_lock, so no other command
\* is between the two.
LEMMA AuthHolds ==
    ASSUME Inv, NEW u \in Users, Authenticating(u)
    PROVE  /\ mode = "pool" /\ lock = u
           /\ bookmark <= user[u].gen /\ user[u].gen <= generation /\ user[u].gen <= user[u].seen
           /\ \A v \in Users : v # u => ~Holding(v)
<1>1. user[u].auth /\ user[u].pc = "sent"
  BY DEF Authenticating
<1>2. mode = "pool" /\ Holding(u)
  BY <1>1 DEF Inv, UserInv, Holding
<1>3. \A v \in Users : Holding(v) => lock = v
  BY <1>2 DEF Inv, HolderInv
<1> QED
  BY <1>1, <1>2, <1>3 DEF Inv, HolderInv, Authenticating

LEMMA NextHolder ==
    ASSUME Inv, [Next]_vars
    PROVE  UserInv' /\ HolderInv'
<1>0. /\ TypeOK /\ TypeOK' /\ generation <= generation' /\ bookmark <= generation
      /\ generation \in Nat /\ generation' \in Nat /\ bookmark \in Nat
      /\ mode # "pool" => bookmark = 0
      /\ \A u \in Users : UserOk(u) /\ HolderOk(u)
      /\ NoUser \notin Users
  BY NextTypes, HolderParts, ConnAssumption DEF Inv, TypeOK, IamTypeOK, Seen
<1>1. ASSUME UNCHANGED <<mode, bookmark, lock>>,
             \A u \in Users :
                /\ user'[u].pc = user[u].pc /\ user'[u].next = user[u].next
                /\ user'[u].auth = user[u].auth /\ user'[u].gen = user[u].gen
                /\ user'[u].seen = user[u].seen
      PROVE  UserInv' /\ HolderInv'
  <2>1. \A u \in Users : UserOk(u)' /\ HolderOk(u)'
    BY <1>0, <1>1, HolderKept
  <2>2. bookmark' <= generation' /\ (mode' # "pool" => bookmark' = 0)
    BY <1>0, <1>1
  <2> QED
    BY <2>1, <2>2 DEF UserInv, HolderInv, UserOk, HolderOk
<1>2. ASSUME NEW u \in Users, UserNext(u)
      PROVE  UserInv' /\ HolderInv'
  <2>1. /\ \A v \in Users : v # u => user'[v] = user[v]
        /\ UNCHANGED <<mode, generation>>
    BY <1>0, <1>2, UserFrame
  <2>2. UserOk(u)' /\ HolderOk(u)'
    BY <1>0, <1>2, UserStepsOn
  <2>3. CASE AuthReply(u)
    <3>0. Authenticating(u)
      BY <2>3 DEF AuthReply, Authenticating
    <3>1. bookmark' = user[u].gen
          \/ UNCHANGED bookmark
      BY <1>0, <1>2, UserStepsOn
    <3>2. bookmark' <= generation' /\ mode = "pool"
      BY <1>0, <2>1, <3>0, <3>1, AuthHolds
    <3>3. ASSUME NEW v \in Users, v # u
          PROVE  UserOk(v)' /\ HolderOk(v)'
      <4>1. ~Holding(v) /\ user'[v] = user[v]
        BY <2>1, <3>0, <3>3, AuthHolds
      <4> QED
        BY <1>0, <2>1, <4>1 DEF UserOk, HolderOk, Holding
    <3> QED
      BY <2>1, <2>2, <3>2, <3>3 DEF UserInv, HolderInv, UserOk, HolderOk
  <2>4. CASE ~AuthReply(u)
    <3>1. UNCHANGED bookmark /\ (UNCHANGED lock \/ (lock = NoUser /\ lock' = u) \/ lock = u)
      BY <1>0, <1>2, <2>4, UserStepsOn
    <3>2. ASSUME NEW v \in Users, v # u
          PROVE  UserOk(v)' /\ HolderOk(v)'
      <4>1. lock = v => lock' = v
        BY <1>0, <3>1, <3>2
      <4>2. user'[v] = user[v]
        BY <2>1, <3>2
      <4> QED
        BY <1>0, <2>1, <3>1, <4>1, <4>2, HolderKept
    <3>3. bookmark' <= generation' /\ (mode' # "pool" => bookmark' = 0)
      BY <1>0, <2>1, <3>1
    <3> QED
      BY <2>2, <3>2, <3>3 DEF UserInv, HolderInv, UserOk, HolderOk
  <2> QED
    BY <2>3, <2>4
<1>3. ASSUME NEW t \in Tasks, TaskNext(t)
      PROVE  UserInv' /\ HolderInv'
  BY <1>0, <1>1, <1>3, TaskFrame DEF madeVars
<1>4. ASSUME NEW r \in Refreshers, Refresh(r)
      PROVE  UserInv' /\ HolderInv'
  BY <1>1, <1>4 DEF Refresh, connVars
<1>5. CASE Surroundings
  BY <1>1, <1>5, SurroundingsFrame DEF madeVars, authVars
<1>6. CASE Tick
  BY <1>0, <1>1, <1>6, TickStep
<1>7. CASE UNCHANGED <<connVars, iamVars>>
  BY <1>1, <1>7 DEF connVars
<1> QED
  BY <1>2, <1>3, <1>4, <1>5, <1>6, <1>7, NextCases

\* One task's part of MintInv and CertInv.
TaskOk(t) ==
    /\ task[t].pc = "write" => task[t].client.pass = 0
    /\ mode = "cert" =>
        /\ task[t].pc \in {"none", "clone", "loop", "cert", "dial", "connect", "ping", "sleep"}
        /\ task[t].cert <= adopted.cert
        /\ task[t].pc = "dial" => task[t].cert <= stored.tls.cert
        /\ task[t].pc = "connect" => task[t].cert <= task[t].client.tls.cert

LEMMA TaskParts ==
    MintInv /\ CertInv <=> \A t \in Tasks : TaskOk(t)
BY DEF MintInv, CertInv, TaskOk

\* What is adopted or stored later is no older.
LEMMA TaskOkKept ==
    ASSUME TypeOK, TypeOK', NEW t \in Tasks, TaskOk(t), task'[t] = task[t] \/ task'[t] = Spawned,
           UNCHANGED mode, adopted.cert <= adopted'.cert,
           stored'.tls.cert = stored.tls.cert \/ stored'.tls = adopted
    PROVE  TaskOk(t)'
<1>1. /\ task[t].cert \in Nat /\ adopted.cert \in Nat /\ adopted'.cert \in Nat
  BY DEF TypeOK, TaskType, CertTypeOK, Material, Version
<1>2. Spawned.pc = "clone" /\ Spawned.cert = 0
  BY DEF Spawned, NoTask
<1>3. CASE task'[t] = Spawned
  BY <1>1, <1>2, <1>3 DEF TaskOk
<1>4. CASE task'[t] = task[t]
  BY <1>1, <1>4 DEF TaskOk
<1> QED
  BY <1>3, <1>4

LEMMA TaskStepsOn ==
    ASSUME Inv, NEW t \in Tasks, TaskNext(t)
    PROVE  TaskOk(t)'
<1>0. /\ TaskOk(t) /\ task \in [Tasks -> TaskType] /\ task[t] \in TaskType
      /\ task[t].client \in Client /\ stored \in Client
      /\ mode \in {"static", "cert", "iam", "pool"}
      /\ UNCHANGED <<mode, adopted>>
      /\ task[t].cert \in Nat /\ adopted.cert \in Nat
  BY TaskParts, TaskFrame, ConnAssumption DEF Inv, TypeOK, TaskType, CertTypeOK, Material, Version,
     madeVars, certVars
<1>1. CASE CloneClient(t)
  <2>1. task'[t].pc = "loop" /\ task'[t].cert = task[t].cert
    BY <1>0, <1>1 DEF CloneClient, TaskType
  <2> QED
    BY <1>0, <1>1, <2>1 DEF CloneClient, TaskOk
<1>2. CASE LoopHead(t)
  <2>1. CASE is_dropped
    <3>1. task'[t].pc = "none" /\ task'[t].cert = 0
      BY <1>0, <1>2, <2>1 DEF LoopHead, NoTask
    <3> QED
      BY <1>0, <3>1 DEF TaskOk
  <2>2. CASE ~is_dropped
    <3> DEFINE to == CASE Iam             -> "expiry"
                      [] mode = "cert"   -> "cert"
                      [] mode = "static" -> "connect"
    <3>1. to # "write" /\ (mode = "cert" => to = "cert")
      BY <1>0 DEF Iam
    <3> HIDE DEF to
    <3>2. task' = [task EXCEPT ![t].pc = to, ![t].since = generation, ![t].cert = adopted.cert]
      BY <1>2, <2>2 DEF LoopHead, to
    <3>3. task'[t].pc = to /\ task'[t].cert = adopted.cert
      BY <1>0, <3>2 DEF TaskType
    <3> QED
      BY <1>0, <3>1, <3>3 DEF TaskOk
  <2> QED
    BY <2>1, <2>2
<1>3. CASE CheckExpiry(t) \/ MintFails(t) \/ ReadCached(t)
  <2>1. task'[t].pc \in {"mint", "cached", "password"} /\ mode # "cert"
    BY <1>0, <1>3 DEF CheckExpiry, MintFails, ReadCached, TaskStepTo, TaskType, TaskOk
  <2> QED
    BY <1>0, <2>1 DEF TaskOk
<1>4. CASE MintOk(t)
  <2>1. task'[t].client.pass = 0 /\ mode # "cert"
    BY <1>0, <1>4 DEF MintOk, TaskType, Client, TaskOk
  <2> QED
    BY <1>0, <2>1 DEF TaskOk
<1>5. CASE WriteMinted(t) \/ StampMinted(t) \/ UpdatePassword(t)
  <2>1. task'[t].pc \in {"stamp", "password", "dial"} /\ mode # "cert"
    BY <1>0, <1>5 DEF WriteMinted, StampMinted, UpdatePassword, TaskStepTo, TaskType, TaskOk
  <2> QED
    BY <1>0, <2>1 DEF TaskOk
<1>6. CASE ApplyCert(t)
  <2>1. task'[t].pc = "dial" /\ task'[t].cert = task[t].cert /\ stored'.tls = adopted
    BY <1>0, <1>6 DEF ApplyCert, WithCert, TaskStepTo, TaskType, Client
  <2> QED
    BY <1>0, <2>1 DEF TaskOk
<1>7. CASE ReadClient(t)
  <2>1. task'[t].pc = "connect" /\ task'[t].cert = task[t].cert /\ task'[t].client = stored
        /\ task[t].pc = "dial"
    BY <1>0, <1>7 DEF ReadClient, TaskType
  <2> QED
    BY <1>0, <2>1 DEF TaskOk
<1>8. CASE ConnectOk(t) \/ ConnectFails(t) \/ PingFails(t) \/ BackoffElapsed(t)
  <2>1. task'[t].pc \in {"ping", "sleep", "loop"} /\ task'[t].cert = task[t].cert
    BY <1>0, <1>8 DEF ConnectOk, ConnectFails, PingFails, BackoffElapsed, TaskStepTo, TaskType
  <2> QED
    BY <1>0, <2>1 DEF TaskOk
<1>9. CASE Install(t)
  <2>1. task'[t].pc = "none" /\ task'[t].cert = 0
    BY <1>0, <1>9 DEF Install, NoTask
  <2> QED
    BY <1>0, <2>1 DEF TaskOk
<1> QED
  BY <1>1, <1>2, <1>3, <1>4, <1>5, <1>6, <1>7, <1>8, <1>9 DEF TaskNext

LEMMA NextTask ==
    ASSUME Inv, [Next]_vars
    PROVE  MintInv' /\ CertInv'
<1>0. /\ TypeOK /\ TypeOK' /\ LinkInv /\ adopted.cert <= adopted'.cert
      /\ \A t \in Tasks : TaskOk(t)
  BY NextTypes, TaskParts DEF Inv
<1>1. ASSUME \A t \in Tasks : TaskOk(t)'
      PROVE  MintInv' /\ CertInv'
  BY <1>1 DEF MintInv, CertInv, TaskOk
<1>2. ASSUME UNCHANGED <<mode, task>>, stored'.tls.cert = stored.tls.cert \/ stored'.tls = adopted
      PROVE  MintInv' /\ CertInv'
  BY <1>0, <1>1, <1>2, TaskOkKept
<1>3. ASSUME reconnect, UNCHANGED mode, stored' = stored \/ stored'.tls = adopted
      PROVE  MintInv' /\ CertInv'
  BY <1>0, <1>1, <1>3, TaskOkKept, ReconnectFrame
<1>4. ASSUME NEW u \in Users, UserNext(u)
      PROVE  MintInv' /\ CertInv'
  <2>0. UNCHANGED mode
    BY <1>0, <1>4, UserFrame
  <2>1. CASE CreateClient(u)
    <3>1. stored' = stored \/ stored'.tls = adopted
      BY <2>1 DEF CreateClient, InitialClient
    <3>2. reconnect \/ UNCHANGED task
      BY <2>1 DEF CreateClient, linkVars
    <3> QED
      BY <1>2, <1>3, <2>0, <3>1, <3>2
  <2>2. CASE RequestBroken(u)
    BY <1>3, <2>0, <2>2 DEF RequestBroken
  <2>3. CASE ~CreateClient(u) /\ ~RequestBroken(u)
    <3>1. UNCHANGED task
      BY <1>4, <2>3, UserQuiet DEF linkVars
    <3>2. stored'.tls.cert = stored.tls.cert
      BY <1>0, <1>4, <2>3 DEF UserNext, Begin, Gate, Lock, ReadToken, ClearChanged, StorePassword, CopyConfig,
         GetConnection, Reply, AuthReply, RequestTimeout, TypeOK, Client
    <3> QED
      BY <1>2, <2>0, <3>1, <3>2
  <2> QED
    BY <2>1, <2>2, <2>3
<1>5. ASSUME NEW t \in Tasks, TaskNext(t)
      PROVE  MintInv' /\ CertInv'
  <2>1. TaskOk(t)' /\ task[t].pc # "none" /\ UNCHANGED <<mode, adopted>>
        /\ \A s \in Tasks : s # t => task'[s] = task[s]
    BY <1>0, <1>5, TaskStepsOn, TaskFrame DEF madeVars, certVars
  <2>2. ASSUME NEW s \in Tasks, s # t
        PROVE  TaskOk(s)'
    <3>1. task[s].pc = "none" /\ task'[s] = task[s]
      BY <1>0, <2>1, <2>2 DEF LinkInv
    <3> QED
      BY <1>0, <2>1, <3>1 DEF TaskOk
  <2> QED
    BY <1>1, <2>1, <2>2
<1>6. ASSUME NEW r \in Refreshers, Refresh(r)
      PROVE  MintInv' /\ CertInv'
  BY <1>2, <1>6 DEF Refresh, connVars
<1>7. CASE Surroundings
  <2>1. UNCHANGED mode
    BY <1>7, SurroundingsFrame DEF madeVars
  <2>2. CASE CheckerActs
    BY <1>2, <1>3, <2>1, <2>2 DEF CheckerActs, linkVars
  <2>3. CASE ~CheckerActs
    <3>1. UNCHANGED task
      BY <1>7, <2>3, SurroundingsFrame DEF linkVars
    <3>2. stored'.tls.cert = stored.tls.cert
      BY <1>0, <1>7, <2>3 DEF Surroundings, CheckerLooks, CheckerStops, DropClient,
         ApplicationUpdatesPassword, PasswordChanges, Break, TypeOK, Client
    <3> QED
      BY <1>2, <2>1, <3>1, <3>2
  <2> QED
    BY <2>2, <2>3
<1>8. CASE Tick
  <2>1. ASSUME NEW t \in Tasks
        PROVE  TaskOk(t)'
    <3>1. UNCHANGED mode /\ mode # "cert" /\ task'[t].pc # "write"
      BY <1>0, <1>8, TickStep DEF Tick, Iam
    <3> QED
      BY <3>1 DEF TaskOk
  <2> QED
    BY <1>1, <2>1
<1>9. CASE UNCHANGED <<connVars, iamVars>>
  BY <1>2, <1>9 DEF connVars
<1> QED
  BY <1>4, <1>5, <1>6, <1>7, <1>8, <1>9, NextCases

----------------------------------------------------------------------------
(* The bookmark *)

TaskFresh(t) ==
    /\ task[t].pc \in {"write", "stamp", "password", "connect"} => Fresh(task[t].client.seen)
    /\ task[t].pc # "cert"
    /\ task[t].pc = "dial" => Fresh(stored.seen)
    /\ task[t].pc = "ping" => task[t].conn \in Conns /\ Fresh(session[task[t].conn])

CurFresh ==
    state = "Connected" /\ cur \notin misfiled =>
        /\ bookmark <= session[cur]
        /\ \A u \in Users : Authenticating(u) /\ user[u].conn # cur => user[u].gen <= session[cur]

LEMMA FreshParts ==
    FreshInv <=> (mode = "pool" => CurFresh /\ \A t \in Tasks : TaskFresh(t))
BY DEF FreshInv, TaskFresh, CurFresh

\* A token read now is fresh.
LEMMA NowFresh ==
    ASSUME Inv, mode = "pool"
    PROVE  Fresh(generation)
BY DEF Inv, Fresh, HolderInv, Holding, Authenticating

\* The steps that start no AUTH and leave the bookmark alone lose no freshness.
NoNewAuth ==
    /\ UNCHANGED bookmark
    /\ \A u \in Users : Authenticating(u)' =>
          Authenticating(u) /\ user'[u].gen = user[u].gen /\ user'[u].conn = user[u].conn

LEMMA StaysFresh ==
    ASSUME NoNewAuth, NEW g, Fresh(g)
    PROVE  bookmark' <= g /\ \A u \in Users : Authenticating(u)' => user'[u].gen <= g
BY DEF NoNewAuth, Fresh

LEMMA TaskFreshKept ==
    ASSUME NoNewAuth, NEW t \in Tasks, TaskFresh(t), UNCHANGED session,
           task'[t].pc = task[t].pc, task'[t].conn = task[t].conn,
           task'[t].client.seen = task[t].client.seen,
           stored'.seen = stored.seen \/ Fresh(stored'.seen)
    PROVE  TaskFresh(t)'
<1>1. CASE task[t].pc = "dial"
  BY <1>1, StaysFresh DEF TaskFresh, Fresh
<1>2. CASE task[t].pc = "ping"
  <2>1. task[t].conn \in Conns /\ Fresh(session[task[t].conn])
    BY <1>2 DEF TaskFresh
  <2>2. Fresh(session[task[t].conn])'
    BY <2>1, StaysFresh DEF Fresh
  <2> QED
    BY <1>2, <2>1, <2>2 DEF TaskFresh
<1>3. CASE task[t].pc \notin {"dial", "ping"}
  BY <1>3, StaysFresh DEF TaskFresh, Fresh
<1> QED
  BY <1>1, <1>2, <1>3

LEMMA NotAttempting ==
    ASSUME NEW t \in Tasks, task[t].pc \notin {"write", "stamp", "password", "connect", "cert",
                                              "dial", "ping"}
    PROVE  TaskFresh(t)
BY DEF TaskFresh

LEMMA CurFreshKept ==
    ASSUME NoNewAuth, CurFresh, UNCHANGED <<state, cur, session, misfiled>>
    PROVE  CurFresh'
<1>1. CASE state = "Connected" /\ cur \notin misfiled
  BY <1>1 DEF CurFresh, NoNewAuth
<1>2. CASE ~(state = "Connected" /\ cur \notin misfiled)
  BY <1>2 DEF CurFresh
<1> QED
  BY <1>1, <1>2

\* A report of a broken connection.
LEMMA ReconnectFresh ==
    ASSUME TypeOK, LinkInv, reconnect, NoNewAuth, UNCHANGED session,
           stored'.seen = stored.seen \/ Fresh(stored'.seen), \A t \in Tasks : TaskFresh(t)
    PROVE  CurFresh' /\ \A t \in Tasks : TaskFresh(t)'
<1>1. state' = "Reconnecting" /\ \A t \in Tasks : task'[t] = task[t] \/ task'[t] = Spawned
  BY ReconnectFrame
<1>2. ASSUME NEW t \in Tasks
      PROVE  TaskFresh(t)'
  <2>1. CASE task'[t] = Spawned
    BY <2>1 DEF TaskFresh, Spawned, NoTask
  <2>2. CASE task'[t] = task[t]
    BY <2>2, TaskFreshKept
  <2> QED
    BY <1>1, <2>1, <2>2
<1> QED
  BY <1>1, <1>2 DEF CurFresh

\* The server serves an AUTH, whose sender may have given up on it.
LEMMA AuthFresh ==
    ASSUME Inv, NEW u \in Users, Authenticating(u), ServedAuth(u), user[u].conn \in Conns,
           UNCHANGED <<stored, linkVars>>, user'[u].pc # "sent",
           \A v \in Users : v # u => user'[v] = user[v],
           bookmark' = user[u].gen \/ bookmark' = bookmark
    PROVE  CurFresh' /\ \A t \in Tasks : TaskFresh(t)'
<1>0. /\ TypeOK /\ LinkInv /\ CurFresh /\ \A t \in Tasks : TaskFresh(t)
      /\ session \in [Conns -> Seen]
      /\ bookmark \in Nat /\ user[u].gen \in Nat /\ user[u].seen \in Nat
  BY AuthHolds, FreshParts DEF Inv, TypeOK, UserType, Seen
<1>1. /\ bookmark <= user[u].gen /\ user[u].gen <= user[u].seen
      /\ \A v \in Users : v # u => ~Holding(v)
  BY AuthHolds
<1>2. bookmark' <= user[u].gen /\ bookmark' <= user[u].seen
  BY <1>0, <1>1
<1>3. \A v \in Users : ~Authenticating(v)'
  BY <1>1 DEF Authenticating, Holding
<1>4. ASSUME NEW g, Fresh(g)
      PROVE  bookmark' <= g
  BY <1>4 DEF Fresh
<1>5. ASSUME NEW c \in Conns
      PROVE  /\ session'[c] = session[c] \/ session'[c] = user[u].seen
             /\ c # user[u].conn => session'[c] = session[c] /\ (c \in misfiled' <=> c \in misfiled)
             /\ c = user[u].conn => session'[c] = user[u].seen \/ c \in misfiled'
  BY <1>0, <1>5 DEF ServedAuth
<1>6. CurFresh'
  <2>1. ASSUME state = "Connected", cur \notin misfiled'
        PROVE  bookmark' <= session'[cur]
    <3>1. cur \in Conns
      BY <1>0, <2>1 DEF LinkInv
    <3>2. CASE user[u].conn = cur
      BY <1>2, <1>5, <2>1, <3>1, <3>2
    <3>3. CASE user[u].conn # cur
      <4>1. session'[cur] = session[cur] /\ cur \notin misfiled
        BY <1>5, <2>1, <3>1, <3>3
      <4>2. bookmark <= session[cur] /\ user[u].gen <= session[cur]
        BY <1>0, <2>1, <3>3, <4>1 DEF CurFresh
      <4> QED
        BY <4>1, <4>2
    <3> QED
      BY <3>2, <3>3
  <2> QED
    BY <1>3, <2>1 DEF CurFresh, linkVars
<1>7. ASSUME NEW t \in Tasks
      PROVE  TaskFresh(t)'
  <2>0. UNCHANGED <<task, stored>> /\ TaskFresh(t)
    BY <1>0 DEF linkVars
  <2>1. CASE task[t].pc = "ping"
    <3>1. task[t].conn \in Conns /\ Fresh(session[task[t].conn])
      BY <2>0, <2>1 DEF TaskFresh
    <3>2. bookmark' <= session[task[t].conn]
      BY <1>4, <3>1
    <3>3. bookmark' <= session'[task[t].conn]
      BY <1>2, <1>5, <3>1, <3>2
    <3> QED
      BY <1>3, <2>0, <2>1, <3>1, <3>3 DEF TaskFresh, Fresh
  <2>2. CASE task[t].pc # "ping"
    BY <1>3, <1>4, <2>0, <2>2 DEF TaskFresh, Fresh
  <2> QED
    BY <2>1, <2>2
<1> QED
  BY <1>6, <1>7

\* The commands.
LEMMA UserFresh ==
    ASSUME Inv, mode = "pool", NEW u \in Users, UserNext(u)
    PROVE  CurFresh' /\ \A t \in Tasks : TaskFresh(t)'
<1>0. /\ TypeOK /\ LinkInv /\ CurFresh /\ \A t \in Tasks : TaskFresh(t)
      /\ user \in [Users -> UserType] /\ user[u] \in UserType
      /\ \A v \in Users : v # u => user'[v] = user[v]
      /\ \A v \in Users : Holding(v) => lock = v
  BY FreshParts, UserFrame DEF Inv, TypeOK, HolderInv
<1>1. ASSUME ~(user'[u].auth /\ user'[u].pc = "sent"), UNCHANGED bookmark
      PROVE  NoNewAuth
  BY <1>0, <1>1 DEF NoNewAuth, Authenticating
<1>2. ASSUME NoNewAuth, UNCHANGED <<linkVars, session, misfiled>>, stored'.seen = stored.seen \/ Fresh(stored'.seen)
      PROVE  CurFresh' /\ \A t \in Tasks : TaskFresh(t)'
  BY <1>0, <1>2, TaskFreshKept, CurFreshKept DEF linkVars
<1>3. CASE Begin(u) \/ Gate(u) \/ Lock(u)
  <2>1. user'[u].pc # "sent"
    BY <1>0, <1>3, DispatchStep DEF Begin, Gate, Lock, Step, UserType
  <2> QED
    BY <1>1, <1>2, <1>3, <2>1 DEF Begin, Gate, Lock, authVars, txnVars
<1>4. CASE ReadToken(u) \/ ClearChanged(u)
  <2>1. user'[u].pc # "sent"
    BY <1>0, <1>4 DEF ReadToken, ClearChanged, Step, UserType
  <2> QED
    BY <1>1, <1>2, <1>4, <2>1 DEF ReadToken, ClearChanged, authVars, worldVars, txnVars
<1>5. CASE StorePassword(u)
  <2>1. user'[u].pc # "sent"
    BY <1>0, <1>5 DEF StorePassword, EnterClient, UserType
  <2>2. Fresh(user[u].seen)
    <3>1. user[u].pc = "store" /\ Holding(u)
      BY <1>5 DEF StorePassword, Holding
    <3>2. \A v \in Users : ~Authenticating(v)
      BY <1>0, <3>1 DEF Authenticating, Holding
    <3>3. bookmark <= user[u].gen /\ user[u].gen <= user[u].seen
      BY <3>1 DEF Inv, HolderInv
    <3>4. bookmark \in Nat /\ user[u].gen \in Nat /\ user[u].seen \in Nat
      BY <1>0 DEF TypeOK, UserType, Seen
    <3> QED
      BY <3>2, <3>3, <3>4 DEF Fresh
  <2>3. stored'.seen = stored.seen \/ stored'.seen = user[u].seen
    BY <1>0, <1>5 DEF StorePassword, TypeOK, Client
  <2> QED
    BY <1>1, <1>2, <1>5, <2>1, <2>2, <2>3 DEF StorePassword, authVars, worldVars, txnVars
<1>6. CASE CopyConfig(u)
  <2>1. user'[u].pc # "sent"
    BY <1>0, <1>6 DEF CopyConfig, Step, UserType, Inv, UserInv
  <2> QED
    BY <1>1, <1>2, <1>6, <2>1 DEF CopyConfig, authVars, worldVars, txnVars
<1>7. CASE CreateClient(u)
  <2>1. user'[u].pc # "sent" /\ UNCHANGED bookmark
    BY <1>0, <1>7 DEF CreateClient, Step, UserType, Inv, UserInv, Idle
  <2>2. NoNewAuth
    BY <1>1, <2>1
  <2>3. CASE UNCHANGED <<stored, session, linkVars, txnVars>>
    BY <1>2, <2>2, <2>3 DEF txnVars
  <2>4. CASE reconnect /\ UNCHANGED session /\ stored' = InitialClient
    <3>1. stored'.seen = generation
      BY <2>4 DEF InitialClient
    <3> QED
      BY <1>0, <2>2, <2>4, <3>1, NowFresh, ReconnectFresh
  <2>5. CASE /\ wrapper = "lazy" /\ Free # {}
             /\ session' = [session EXCEPT ![CHOOSE c \in Free : TRUE] = generation]
             /\ cur' = CHOOSE c \in Free : TRUE
             /\ state' = "Connected" /\ UNCHANGED <<signal, task>>
    <3>1. cur' \in Conns
      BY <2>5 DEF Free
    <3>2. session'[cur'] = generation
      BY <1>0, <2>5, <3>1 DEF TypeOK
    <3>3. bookmark' <= generation /\ \A v \in Users : Authenticating(v)' => user'[v].gen <= generation
      BY <2>2, NowFresh, StaysFresh
    <3>4. CurFresh'
      BY <3>2, <3>3 DEF CurFresh
    <3>5. \A t \in Tasks : task'[t].pc = "none"
      BY <1>0, <2>5 DEF Inv, LazyInv, LinkInv
    <3> QED
      BY <3>4, <3>5 DEF TaskFresh
  <2> QED
    BY <1>0, <1>7, <2>3, <2>4, <2>5 DEF CreateClient, AlreadyCreated, TypeOK
<1>8. CASE GetConnection(u)
  <2>1. /\ UNCHANGED <<state, cur, session, bookmark, task, misfiled>> /\ state = "Connected"
        /\ user'[u].conn = cur
    BY <1>0, <1>8 DEF GetConnection, UserType, linkVars, authVars, worldVars, txnVars
  <2>2. \A t \in Tasks : task'[t].pc = "none"
    BY <1>0, <2>1 DEF LinkInv
  <2>3. CurFresh'
    <3>0. SUFFICES ASSUME cur' \notin misfiled'
                   PROVE  CurFresh'
      BY DEF CurFresh
    <3>1. bookmark' <= session'[cur']
      BY <1>0, <2>1, <3>0 DEF CurFresh
    <3>2. ASSUME NEW v \in Users, Authenticating(v)', user'[v].conn # cur'
          PROVE  user'[v].gen <= session'[cur']
      <4>1. v # u /\ user'[v] = user[v]
        BY <1>0, <2>1, <3>2
      <4> QED
        BY <1>0, <2>1, <3>0, <3>2, <4>1 DEF CurFresh, Authenticating
    <3> QED
      BY <3>1, <3>2 DEF CurFresh
  <2> QED
    BY <2>2, <2>3 DEF TaskFresh
<1>9. CASE Reply(u) \/ RequestTimeout(u)
  <2>1. user'[u].pc # "sent" /\ UNCHANGED bookmark /\ UNCHANGED <<stored, linkVars>>
    BY <1>0, <1>9 DEF Reply, RequestTimeout, Idle, authVars
  <2>2. CASE UNCHANGED <<session, misfiled>>
    BY <1>1, <1>2, <2>1, <2>2
  <2>3. CASE user[u].pc = "sent" /\ user[u].auth /\ user[u].conn \in open /\ ServedAuth(u)
    BY <1>0, <2>1, <2>3, AuthFresh DEF Authenticating, TypeOK
  <2> QED
    BY <1>9, <2>2, <2>3 DEF Reply, RequestTimeout, authVars
<1>10. CASE RequestBroken(u)
  <2>1. user'[u].pc # "sent"
    BY <1>0, <1>10 DEF RequestBroken, Idle
  <2> QED
    BY <1>0, <1>1, <1>10, <2>1, ReconnectFresh DEF RequestBroken
<1>11. CASE AuthReply(u)
  <2>1. Authenticating(u) /\ user[u].conn \in Conns /\ UNCHANGED <<stored, linkVars>>
    BY <1>0, <1>11 DEF AuthReply, Authenticating, TypeOK
  <2>2. CASE user' = [user EXCEPT ![u] = Idle] /\ UNCHANGED <<session, bookmark, misfiled>>
    <3>1. user'[u].pc # "sent"
      BY <1>0, <2>2 DEF Idle
    <3> QED
      BY <1>1, <1>2, <2>1, <2>2, <3>1
  <2>3. CASE ServedAuth(u) /\ bookmark' = user[u].gen /\ user'[u].pc = "wait"
    BY <1>0, <2>1, <2>3, AuthFresh
  <2> QED
    BY <1>0, <1>11, <2>2, <2>3, AuthStep
<1> QED
  BY <1>3, <1>4, <1>5, <1>6, <1>7, <1>8, <1>9, <1>10, <1>11 DEF UserNext

\* The reconnect task.
LEMMA TaskStepsFresh ==
    ASSUME Inv, mode = "pool", NEW t \in Tasks, TaskNext(t)
    PROVE  CurFresh' /\ \A s \in Tasks : TaskFresh(s)'
<1>0. /\ TypeOK /\ LinkInv /\ CurFresh /\ TaskFresh(t) /\ Fresh(generation)
      /\ task \in [Tasks -> TaskType] /\ task[t] \in TaskType /\ task[t].client \in Client
      /\ stored \in Client
      /\ UNCHANGED <<user, bookmark, mode>> /\ task[t].pc # "none"
      /\ \A s \in Tasks : s # t => task'[s] = task[s]
  BY FreshParts, TaskFrame, NowFresh DEF Inv, TypeOK, TaskType, madeVars
<1>1. state = "Reconnecting" /\ \A s \in Tasks : s # t => task[s].pc = "none"
  BY <1>0 DEF LinkInv, TypeOK
<1>2. \A s \in Tasks : s # t => TaskFresh(s)'
  BY <1>0, <1>1 DEF TaskFresh
<1>3. NoNewAuth
  BY <1>0 DEF NoNewAuth, Authenticating
<1>4. ASSUME NEW g, Fresh(g)
      PROVE  /\ bookmark' <= g
             /\ \A u \in Users : Authenticating(u)' => user'[u].gen <= g
  BY <1>3, <1>4, StaysFresh
<1>5. ~Install(t) => CurFresh'
  <2>1. ~Install(t) => UNCHANGED state
    BY DEF TaskNext, CloneClient, LoopHead, CheckExpiry, MintOk, MintFails, WriteMinted,
       StampMinted, ReadCached, UpdatePassword, ApplyCert, ReadClient, ConnectOk, ConnectFails,
       PingFails, BackoffElapsed
  <2> QED
    BY <1>1, <2>1 DEF CurFresh
<1>6. ASSUME task'[t].pc \notin {"write", "stamp", "password", "connect", "cert", "dial", "ping"}
      PROVE  TaskFresh(t)'
  BY <1>6 DEF TaskFresh
<1>7. CASE CloneClient(t) \/ CheckExpiry(t) \/ MintFails(t)
  <2>1. task'[t].pc \in {"loop", "mint", "cached"} /\ ~Install(t)
    BY <1>0, <1>7 DEF CloneClient, CheckExpiry, MintFails, Install, TaskStepTo, TaskType
  <2> QED
    BY <1>2, <1>5, <1>6, <2>1
<1>8. CASE LoopHead(t)
  <2>1. CASE is_dropped
    BY <1>0, <1>2, <1>5, <1>6, <1>8, <2>1 DEF LoopHead, NoTask, Install
  <2>2. CASE ~is_dropped
    <3>1. task'[t].pc = "expiry" /\ ~Install(t)
      BY <1>0, <1>8, <2>2 DEF LoopHead, Iam, TaskType, Install
    <3> QED
      BY <1>2, <1>5, <1>6, <3>1
  <2> QED
    BY <2>1, <2>2
<1>9. CASE MintOk(t) \/ ReadCached(t)
  <2>1. /\ task'[t].pc \in {"write", "password"} /\ task'[t].client.seen = generation /\ ~Install(t)
    BY <1>0, <1>9 DEF MintOk, ReadCached, TaskType, Client, Install
  <2> QED
    BY <1>0, <1>2, <1>4, <1>5, <2>1 DEF TaskFresh, Fresh
<1>10. CASE WriteMinted(t) \/ StampMinted(t)
  <2>1. /\ task'[t].pc \in {"stamp", "password"} /\ task[t].pc \in {"write", "stamp"}
        /\ task'[t].client = task[t].client /\ ~Install(t)
    BY <1>0, <1>10 DEF WriteMinted, StampMinted, TaskStepTo, TaskType, Install
  <2>2. Fresh(task[t].client.seen)
    BY <1>0, <2>1 DEF TaskFresh
  <2> QED
    BY <1>2, <1>4, <1>5, <2>1, <2>2 DEF TaskFresh, Fresh
<1>11. CASE UpdatePassword(t)
  <2>1. /\ task'[t].pc = "dial" /\ task[t].pc = "password" /\ ~Install(t)
        /\ stored'.seen = task[t].client.seen
    BY <1>0, <1>11 DEF UpdatePassword, WithToken, TaskStepTo, TaskType, Client, Install
  <2>2. Fresh(task[t].client.seen)
    BY <1>0, <2>1 DEF TaskFresh
  <2> QED
    BY <1>2, <1>4, <1>5, <2>1, <2>2 DEF TaskFresh, Fresh
<1>12. CASE ApplyCert(t)
  BY <1>0, <1>12 DEF ApplyCert, TaskFresh
<1>13. CASE ReadClient(t)
  <2>1. /\ task'[t].pc = "connect" /\ task[t].pc = "dial" /\ ~Install(t)
        /\ task'[t].client = stored
    BY <1>0, <1>13 DEF ReadClient, TaskType, Install
  <2>2. Fresh(stored.seen)
    BY <1>0, <2>1 DEF TaskFresh
  <2> QED
    BY <1>2, <1>4, <1>5, <2>1, <2>2 DEF TaskFresh, Fresh
<1>14. CASE ConnectOk(t)
  <2> DEFINE c == CHOOSE c \in Free : TRUE
  <2>1. c \in Conns
    BY <1>14 DEF ConnectOk, Free
  <2>2. /\ session' = [session EXCEPT ![c] = task[t].client.seen]
        /\ task' = [task EXCEPT ![t].pc = "ping", ![t].conn = c]
    BY <1>14 DEF ConnectOk
  <2> HIDE DEF c
  <2>3. task'[t].pc = "ping" /\ task'[t].conn = c /\ session'[c] = task[t].client.seen
    BY <1>0, <2>1, <2>2 DEF TypeOK, TaskType
  <2>4. Fresh(task[t].client.seen) /\ ~Install(t)
    BY <1>0, <1>14 DEF ConnectOk, TaskFresh, Install
  <2> QED
    BY <1>2, <1>4, <1>5, <2>1, <2>3, <2>4 DEF TaskFresh, Fresh
<1>15. CASE ConnectFails(t) \/ PingFails(t) \/ BackoffElapsed(t)
  <2>1. task'[t].pc \in {"sleep", "loop"} /\ ~Install(t)
    BY <1>0, <1>15 DEF ConnectFails, PingFails, BackoffElapsed, Install, TaskStepTo, TaskType
  <2> QED
    BY <1>2, <1>5, <1>6, <2>1
<1>16. CASE Install(t)
  <2>1. /\ task[t].pc = "ping" /\ cur' = task[t].conn /\ UNCHANGED session /\ task'[t].pc = "none"
    BY <1>0, <1>16 DEF Install, NoTask, authVars
  <2>2. Fresh(session[task[t].conn])
    BY <1>0, <2>1 DEF TaskFresh
  <2>3. CurFresh'
    BY <1>4, <2>1, <2>2 DEF CurFresh
  <2> QED
    BY <1>2, <1>6, <2>1, <2>3
<1> QED
  BY <1>7, <1>8, <1>9, <1>10, <1>11, <1>12, <1>13, <1>14, <1>15, <1>16 DEF TaskNext

LEMMA NextFresh ==
    ASSUME Inv, [Next]_vars
    PROVE  FreshInv'
<1>1. SUFFICES ASSUME mode' = "pool"
               PROVE  CurFresh' /\ \A t \in Tasks : TaskFresh(t)'
  BY DEF FreshInv, CurFresh, TaskFresh
<1>2. mode = "pool"
  BY <1>1, NextCases, UserFrame, TaskFrame, SurroundingsFrame, TickStep DEF Inv, Refresh, connVars,
     madeVars
<1>0. TypeOK /\ LinkInv /\ CurFresh /\ \A t \in Tasks : TaskFresh(t)
  BY <1>2, FreshParts DEF Inv
<1>3. ASSUME UNCHANGED <<state, cur, session, bookmark, misfiled>>,
             \A u \in Users : /\ user'[u].pc = user[u].pc /\ user'[u].auth = user[u].auth
                              /\ user'[u].gen = user[u].gen /\ user'[u].conn = user[u].conn,
             \A t \in Tasks : /\ task'[t].pc = task[t].pc /\ task'[t].conn = task[t].conn
                              /\ task'[t].client.seen = task[t].client.seen,
             stored'.seen = stored.seen
      PROVE  CurFresh' /\ \A t \in Tasks : TaskFresh(t)'
  <2>1. NoNewAuth
    BY <1>3 DEF NoNewAuth, Authenticating
  <2> QED
    BY <1>0, <1>3, <2>1, TaskFreshKept, CurFreshKept
<1>4. ASSUME NEW u \in Users, UserNext(u)
      PROVE  CurFresh' /\ \A t \in Tasks : TaskFresh(t)'
  BY <1>2, <1>4, UserFresh
<1>5. ASSUME NEW t \in Tasks, TaskNext(t)
      PROVE  CurFresh' /\ \A s \in Tasks : TaskFresh(s)'
  BY <1>2, <1>5, TaskStepsFresh
<1>6. ASSUME NEW r \in Refreshers, Refresh(r)
      PROVE  CurFresh' /\ \A t \in Tasks : TaskFresh(t)'
  BY <1>3, <1>6 DEF Refresh, connVars
<1>7. CASE Surroundings
  <2>1. UNCHANGED <<user, session, bookmark, misfiled>>
    BY <1>7, SurroundingsFrame DEF authVars
  <2>2. CASE CheckerActs /\ reconnect
    <3>1. NoNewAuth /\ UNCHANGED stored
      BY <2>1, <2>2 DEF NoNewAuth, Authenticating, CheckerActs
    <3> QED
      BY <1>0, <2>1, <2>2, <3>1, ReconnectFresh
  <2>3. CASE UNCHANGED linkVars
    <3>1. stored' = stored
      BY <1>2, <1>7, <2>3 DEF Surroundings, CheckerLooks, CheckerActs, CheckerStops, DropClient,
         ApplicationUpdatesPassword, PasswordChanges, Break
    <3> QED
      BY <1>3, <2>1, <2>3, <3>1 DEF linkVars
  <2> QED
    BY <1>7, <2>2, <2>3, SurroundingsFrame DEF CheckerActs
<1>8. CASE Tick
  BY <1>0, <1>3, <1>8, TickStep
<1>9. CASE UNCHANGED <<connVars, iamVars>>
  BY <1>3, <1>9 DEF connVars
<1> QED
  BY <1>4, <1>5, <1>6, <1>7, <1>8, <1>9, NextCases

----------------------------------------------------------------------------
(* The contract of a borrower *)

\* TxnInv while u is the only command that runs.
TxnOne(u) ==
    /\ misfiled = {}
    /\ \A v \in Users : v # u => user[v].pc = "idle" /\ ~user[v].auth
    /\ Looked(u) => ~multi_active
    /\ Tracked(u) /\ user[u].kind = "multi" => multi_active
    /\ Authenticating(u) => user[u].conn \notin multi
    /\ state = "Connected" /\ cur \in multi =>
        /\ multi_active \/ Closing(u)
        /\ user[u].pc = "sent" => user[u].conn = cur
    /\ \A t \in Tasks : task[t].pc = "ping" =>
        /\ task[t].conn \notin multi
        /\ \A v \in Users : user[v].conn # task[t].conn

LEMMA TxnSplits ==
    ASSUME UserInv, TxnInv, mode = "pool", ~outOfContract, NEW u \in Users,
           user[u].pc # "idle" \/ \A v \in Users : user[v].pc = "idle"
    PROVE  TxnOne(u)
<1>1. \A v \in Users : v # u => user[v].pc = "idle"
  BY DEF TxnInv
<1>2. \A v \in Users : v # u => ~user[v].auth /\ ~Closing(v)
  BY <1>1 DEF UserInv, Closing, Tracked
<1> QED
  BY <1>1, <1>2 DEF TxnInv, TxnOne

LEMMA TxnJoins ==
    ASSUME NEW u \in Users, mode' = "pool", TxnOne(u)'
    PROVE  TxnInv'
<1>1. \A v \in Users : v # u => user'[v].pc = "idle" /\ ~user'[v].auth
  BY DEF TxnOne
<1>2. ASSUME NEW v \in Users, v # u
      PROVE  ~Looked(v)' /\ ~Tracked(v)' /\ ~Authenticating(v)'
  BY <1>1, <1>2 DEF Looked, Holding, Tracked, Authenticating
<1> QED
  BY <1>1, <1>2 DEF TxnInv, TxnOne

\* A connection being set up.
SetUp(t) ==
    task[t].pc = "ping" =>
        /\ task[t].conn \notin multi
        /\ \A u \in Users : user[u].conn # task[t].conn

\* A step that leaves the commands alone and opens no MULTI.
LEMMA TxnKept ==
    ASSUME TxnInv, UNCHANGED <<mode, outOfContract, multi_active>>, misfiled' \subseteq misfiled,
           multi' \subseteq multi,
           \A u \in Users :
              /\ user'[u].pc = user[u].pc /\ user'[u].next = user[u].next
              /\ user'[u].auth = user[u].auth /\ user'[u].kind = user[u].kind
              /\ user'[u].conn = user[u].conn,
           mode = "pool" /\ ~outOfContract =>
              /\ state' # "Connected" \/ cur' \notin multi' \/ UNCHANGED <<state, cur>>
              /\ \A t \in Tasks : SetUp(t)'
    PROVE  TxnInv'
<1>1. ASSUME NEW u \in Users
      PROVE  /\ Looked(u)' = Looked(u) /\ Tracked(u)' = Tracked(u)
             /\ Authenticating(u)' = Authenticating(u) /\ Closing(u)' = Closing(u)
  BY DEF Looked, Holding, Tracked, Authenticating, Closing
<1>2. mode' # "pool" => misfiled' = {}
  BY DEF TxnInv
<1> SUFFICES ASSUME mode = "pool", ~outOfContract
             PROVE  TxnInv'
  BY <1>2 DEF TxnInv
<1>3. misfiled' = {} /\ \A u, v \in Users : user'[u].pc # "idle" /\ user'[v].pc # "idle" => u = v
  BY DEF TxnInv
<1>4. \A u \in Users :
        /\ Looked(u)' => ~multi_active'
        /\ Tracked(u)' /\ user'[u].kind = "multi" => multi_active'
        /\ Authenticating(u)' => user'[u].conn \notin multi'
  BY <1>1 DEF TxnInv
<1>5. state' = "Connected" /\ cur' \in multi' =>
        /\ multi_active' \/ \E u \in Users : Closing(u)'
        /\ \A u \in Users : user'[u].pc = "sent" => user'[u].conn = cur'
  BY <1>1 DEF TxnInv
<1> QED
  BY <1>2, <1>3, <1>4, <1>5 DEF TxnInv, SetUp

\* A task that is where it was, or is not setting up a connection, is as before.
LEMMA StaysSetUp ==
    ASSUME NEW t \in Tasks, SetUp(t), multi' \subseteq multi,
           \A u \in Users : user'[u].conn = user[u].conn,
           task'[t].pc = "ping" => task[t].pc = "ping" /\ task'[t].conn = task[t].conn
    PROVE  SetUp(t)'
BY DEF SetUp

\* The commands of a borrower that keeps the contract.
LEMMA UserTxn ==
    ASSUME Inv, mode = "pool", NEW u \in Users, UserNext(u), ~outOfContract'
    PROVE  TxnOne(u)'
<1>0. /\ TypeOK /\ LinkInv /\ LazyInv /\ UserOk(u) /\ UserInv /\ TxnInv
      /\ user \in [Users -> UserType] /\ user[u] \in UserType
      /\ \A v \in Users : v # u => user'[v] = user[v]
      /\ NoConn \notin Conns
  BY HolderParts, UserFrame, ConnAssumption DEF Inv, TypeOK
<1>1. ~outOfContract
  BY <1>0 DEF UserNext, TypeOK, Begin, Gate, Lock, ReadToken, ClearChanged, StorePassword, CopyConfig,
     CreateClient, GetConnection, Reply, AuthReply, RequestBroken, RequestTimeout, worldVars, txnVars,
     NewSession
<1>2. CASE Begin(u)
  <2>1. \A v \in Users : user[v].pc = "idle"
    BY <1>2 DEF Begin
  <2>2. TxnOne(u)
    BY <1>0, <1>1, <2>1, TxnSplits
  <2>3. user'[u].pc = "gate" /\ ~user'[u].auth /\ user'[u].conn = user[u].conn
    BY <1>0, <1>2, <2>1 DEF Begin, Step, UserType, UserOk
  <2>4. ~Looked(u)' /\ ~Tracked(u)' /\ ~Authenticating(u)' /\ ~Closing(u)
    BY <2>1, <2>3 DEF Looked, Holding, Tracked, Authenticating, Closing
  <2>5. UNCHANGED <<multi_active, multi, misfiled, state, cur, task>>
    BY <1>2 DEF Begin, linkVars
  <2> QED
    BY <1>0, <2>2, <2>3, <2>4, <2>5 DEF TxnOne
<1>3. ASSUME ~Begin(u)
      PROVE  user[u].pc # "idle" /\ TxnOne(u)
  <2>1. user[u].pc # "idle"
    BY <1>3 DEF UserNext, Gate, Lock, ReadToken, ClearChanged, StorePassword, CopyConfig,
       CreateClient, GetConnection, Reply, AuthReply, RequestBroken, RequestTimeout
  <2> QED
    BY <1>0, <1>1, <2>1, TxnSplits
\* From a look at the flag that found it down: no MULTI is open on the live connection.
<1>4. ASSUME TxnOne(u), Looked(u)
      PROVE  ~multi_active /\ (state = "Connected" => cur \notin multi)
  <2>1. ~Closing(u)
    BY <1>0, <1>4 DEF Looked, Holding, Closing, Tracked, UserOk
  <2> QED
    BY <1>4, <2>1 DEF TxnOne
\* A command is let through.
<1>5. ASSUME TxnOne(u), Dispatch(u), ~user[u].auth, user[u].pc \in {"gate", "lock"},
             UNCHANGED <<multi, misfiled, state, cur, task>>
      PROVE  TxnOne(u)'
  <2>1. /\ user'[u].pc \in {"wait", "upgrade"} /\ user'[u].next = "wait" /\ ~user'[u].auth
        /\ user'[u].conn = user[u].conn /\ user'[u].kind \in Kind
        /\ user'[u].kind = "multi" => multi_active'
        /\ user'[u].kind = "plain" => multi_active' = multi_active
    BY <1>0, <1>5, DispatchStep
  <2>2. ~Looked(u)' /\ Tracked(u)' /\ ~Authenticating(u)' /\ ~Closing(u)
    BY <1>5, <2>1 DEF Looked, Holding, Tracked, Authenticating, Closing
  <2>3. user'[u].kind = "end" => Closing(u)'
    BY <2>2 DEF Closing
  <2>4. state' = "Connected" /\ cur' \in multi' => multi_active' \/ Closing(u)'
    BY <1>5, <2>1, <2>2, <2>3 DEF TxnOne, Kind
  <2> QED
    BY <1>0, <1>5, <2>1, <2>2, <2>4 DEF TxnOne
<1>6. CASE Gate(u)
  <2>1. TxnOne(u) /\ ~user[u].auth /\ UNCHANGED <<multi, misfiled, state, cur, task>>
    BY <1>0, <1>3, <1>6 DEF Gate, Begin, UserOk, linkVars, txnVars
  <2>2. CASE ~Deferred /\ Step(u, "lock") /\ UNCHANGED multi_active
    <3>1. user'[u].pc = "lock" /\ ~user'[u].auth /\ user'[u].conn = user[u].conn
      BY <1>0, <2>1, <2>2 DEF Step, UserType
    <3>2. ~Tracked(u)' /\ ~Authenticating(u)' /\ ~Closing(u)
      BY <1>6, <3>1 DEF Tracked, Authenticating, Closing, Gate
    <3> QED
      BY <1>0, <2>1, <2>2, <3>1, <3>2 DEF TxnOne, Deferred
  <2>3. CASE Dispatch(u)
    BY <1>5, <1>6, <2>1, <2>3 DEF Gate
  <2> QED
    BY <1>6, <2>2, <2>3 DEF Gate
<1>7. CASE Lock(u)
  <2>1. TxnOne(u) /\ ~user[u].auth /\ UNCHANGED <<multi, misfiled, state, cur, task>>
    BY <1>0, <1>3, <1>7 DEF Lock, Begin, UserOk, linkVars, txnVars
  <2>2. CASE user' = [user EXCEPT ![u].pc = "token", ![u].gen = generation] /\ UNCHANGED multi_active
    <3>1. user'[u].pc = "token" /\ ~user'[u].auth /\ user'[u].conn = user[u].conn
      BY <1>0, <2>1, <2>2 DEF UserType
    <3>2. ~Tracked(u)' /\ ~Authenticating(u)' /\ Looked(u)
      BY <1>7, <3>1 DEF Tracked, Authenticating, Looked, Lock
    <3> QED
      BY <1>0, <1>4, <2>1, <2>2, <3>1, <3>2 DEF TxnOne
  <2>3. CASE Dispatch(u)
    BY <1>5, <1>7, <2>1, <2>3 DEF Lock
  <2> QED
    BY <1>7, <2>2, <2>3 DEF Lock
\* Steps between the look and the AUTH, and on the way of a tracked command.
<1>8. ASSUME TxnOne(u), UNCHANGED <<multi_active, multi, misfiled, state, cur, task>>,
             Looked(u)' => Looked(u), Tracked(u)' <=> Tracked(u), ~Authenticating(u)',
             user'[u].kind = user[u].kind, user'[u].conn = user[u].conn, user'[u].pc # "sent"
      PROVE  TxnOne(u)'
  <2>1. Closing(u)' <=> Closing(u)
    BY <1>8 DEF Closing
  <2> QED
    BY <1>0, <1>8, <2>1 DEF TxnOne
<1>9. CASE ReadToken(u) \/ ClearChanged(u) \/ StorePassword(u) \/ CopyConfig(u)
  <2>1. TxnOne(u) /\ UNCHANGED <<multi_active, multi, misfiled, state, cur, task>>
    BY <1>3, <1>9 DEF ReadToken, ClearChanged, StorePassword, CopyConfig, Begin, linkVars, worldVars,
       txnVars
  <2>2. CASE ReadToken(u) \/ ClearChanged(u)
    <3>1. /\ user[u].pc \in {"token", "clear"} /\ ~user[u].auth
          /\ user'[u].pc \in {"store", "clear"} /\ ~user'[u].auth
          /\ user'[u].kind = user[u].kind /\ user'[u].conn = user[u].conn
      BY <1>0, <2>2 DEF ReadToken, ClearChanged, Step, UserType, UserOk
    <3> QED
      BY <1>8, <2>1, <3>1 DEF Looked, Holding, Tracked, Authenticating
  <2>3. CASE StorePassword(u)
    <3>1. /\ user[u].pc = "store" /\ ~user[u].auth
          /\ user'[u].pc \in {"store", "wait", "upgrade"}
          /\ user'[u].pc = "upgrade" => user'[u].next = "store"
          /\ user'[u].pc = "wait" => user'[u].auth
          /\ user'[u].kind = user[u].kind /\ user'[u].conn = user[u].conn
      BY <1>0, <2>3 DEF StorePassword, EnterClient, PoolManaged, UserType, UserOk
    <3> QED
      BY <1>8, <2>1, <3>1 DEF Looked, Holding, Tracked, Authenticating
  <2>4. CASE CopyConfig(u)
    <3>1. /\ user[u].pc = "upgrade" /\ ~user[u].auth /\ user[u].next \in {"wait", "store"}
          /\ user'[u].pc \in {user[u].next, "create"} /\ user'[u].next = user[u].next
          /\ ~user'[u].auth /\ user'[u].kind = user[u].kind /\ user'[u].conn = user[u].conn
      BY <1>0, <2>4 DEF CopyConfig, Step, UserType, UserOk
    <3> QED
      BY <1>8, <2>1, <3>1 DEF Looked, Holding, Tracked, Authenticating
  <2> QED
    BY <1>9, <2>2, <2>3, <2>4
\* A command ends where no MULTI of the live connection needs it any more.
<1>10. ASSUME TxnOne(u), user' = [user EXCEPT ![u] = Idle], misfiled' = {}, UNCHANGED multi_active,
              \A t \in Tasks : task'[t].pc = "ping" =>
                /\ task[t].pc = "ping" /\ task'[t].conn = task[t].conn
                /\ task'[t].conn \notin multi',
              state' = "Connected" => cur' \notin multi' \/ multi_active
       PROVE  TxnOne(u)'
  <2>1. user'[u].pc = "idle" /\ ~user'[u].auth /\ user'[u].conn = NoConn
    BY <1>0, <1>10 DEF Idle
  <2>2. ~Looked(u)' /\ ~Tracked(u)' /\ ~Authenticating(u)'
    BY <2>1 DEF Looked, Holding, Tracked, Authenticating
  <2>3. ASSUME NEW t \in Tasks, task'[t].pc = "ping"
        PROVE  task[t].conn \in Conns
    BY <2>3, <1>10 DEF Inv, FreshInv
  <2>4. \A t \in Tasks : task'[t].pc = "ping" =>
          \A v \in Users : user'[v].conn # task'[t].conn
    BY <1>0, <1>10, <2>1, <2>3 DEF TxnOne
  <2> QED
    BY <1>0, <1>10, <2>1, <2>2, <2>4 DEF TxnOne
<1>11. CASE CreateClient(u)
  <2>1. TxnOne(u) /\ UNCHANGED multi_active
    BY <1>3, <1>11 DEF CreateClient, Begin
  <2>2. /\ user[u].pc = "create" /\ ~user[u].auth /\ user[u].next \in {"wait", "store"}
        /\ user[u].pc # "sent"
    BY <1>0, <1>11 DEF CreateClient, UserOk
  <2>3. ASSUME Step(u, user[u].next)
        PROVE  /\ user'[u].pc = user[u].next /\ user'[u].next = user[u].next /\ ~user'[u].auth
               /\ user'[u].kind = user[u].kind /\ user'[u].conn = user[u].conn
               /\ Looked(u)' => Looked(u)
               /\ Tracked(u)' <=> Tracked(u)
               /\ ~Authenticating(u)' /\ user'[u].pc # "sent"
    <3>1. /\ user'[u].pc = user[u].next /\ user'[u].next = user[u].next /\ ~user'[u].auth
          /\ user'[u].kind = user[u].kind /\ user'[u].conn = user[u].conn
      BY <1>0, <2>2, <2>3 DEF Step, UserType
    <3> QED
      BY <2>2, <3>1 DEF Looked, Holding, Tracked, Authenticating
  <2>4. CASE AlreadyCreated /\ Step(u, user[u].next) /\ UNCHANGED <<txnVars, linkVars>>
    BY <1>8, <2>1, <2>3, <2>4 DEF txnVars, linkVars
  <2>5. CASE /\ ~AlreadyCreated /\ user' = [user EXCEPT ![u] = Idle]
             /\ UNCHANGED <<txnVars, linkVars>>
    <3>1. state = "InitializedDisconnected" /\ misfiled = {}
      BY <1>0, <2>1, <2>5 DEF LazyInv, AlreadyCreated, TypeOK, TxnOne
    <3> QED
      BY <1>10, <2>1, <2>5, <3>1 DEF txnVars, linkVars, TxnOne
  <2>6. ASSUME ~AlreadyCreated, Step(u, user[u].next), multi' \subseteq multi, misfiled' \subseteq misfiled,
               state' = "Connected" => cur' \notin multi', \A t \in Tasks : task'[t].pc # "ping"
        PROVE  TxnOne(u)'
    <3>1. misfiled' = {} /\ (Looked(u)' => ~multi_active')
      BY <2>1, <2>3, <2>6 DEF TxnOne
    <3>2. Tracked(u)' /\ user'[u].kind = "multi" => multi_active'
      BY <2>1, <2>3, <2>6 DEF TxnOne
    <3> QED
      BY <1>0, <2>1, <2>3, <2>6, <3>1, <3>2 DEF TxnOne
  <2>7. ASSUME ~AlreadyCreated
        PROVE  \A t \in Tasks : task[t].pc = "none"
    BY <1>0, <2>7 DEF LazyInv, LinkInv, AlreadyCreated, TypeOK
  <2>8. CASE ~AlreadyCreated /\ Step(u, user[u].next) /\ reconnect /\ UNCHANGED txnVars
    <3>1. Spawned.pc = "clone"
      BY DEF Spawned, NoTask
    <3>2. state' = "Reconnecting" /\ \A t \in Tasks : task'[t].pc # "ping"
      BY <1>0, <2>7, <2>8, <3>1, ReconnectFrame
    <3> QED
      BY <2>6, <2>8, <3>2 DEF txnVars
  <2>9. CASE /\ ~AlreadyCreated /\ Step(u, user[u].next) /\ UNCHANGED task
             /\ NewSession(CHOOSE c \in Free : TRUE) /\ cur' = CHOOSE c \in Free : TRUE
    <3>1. PICK c : NewSession(c) /\ cur' = c
      BY <2>9
    <3> QED
      BY <2>6, <2>7, <2>9, <3>1 DEF NewSession
  <2> QED
    BY <1>11, <2>4, <2>5, <2>8, <2>9 DEF CreateClient
<1>12. CASE GetConnection(u)
  <2>1. TxnOne(u) /\ UNCHANGED <<multi_active, multi, misfiled, state, cur, task>>
    BY <1>3, <1>12 DEF GetConnection, Begin, linkVars, worldVars, txnVars
  <2>2. /\ user[u].pc = "wait" /\ user'[u].pc = "sent" /\ user'[u].conn = cur
        /\ user'[u].auth = user[u].auth /\ user'[u].kind = user[u].kind
    BY <1>0, <1>12 DEF GetConnection, UserType
  <2>3. \A t \in Tasks : task'[t].pc = "none"
    BY <1>0, <1>12, <2>1 DEF LinkInv, GetConnection
  <2>4. /\ Looked(u)' => Looked(u)
        /\ Tracked(u)' <=> Tracked(u)
        /\ Authenticating(u)' => Looked(u)
    BY <2>2 DEF Looked, Holding, Tracked, Authenticating
  <2>5. Closing(u)' <=> Closing(u)
    BY <2>2, <2>4 DEF Closing
  <2>6. state = "Connected"
    BY <1>12 DEF GetConnection
  <2> QED
    BY <1>0, <1>4, <2>1, <2>2, <2>3, <2>4, <2>5, <2>6 DEF TxnOne
\* A written command is executed, and the command ends.
<1>13. ASSUME TxnOne(u), Served(u), user[u].pc = "sent", user[u].conn \in open, ~user[u].auth,
              user' = [user EXCEPT ![u] = Idle], UNCHANGED <<multi_active, misfiled, state, cur, task>>
       PROVE  TxnOne(u)'
  <2>1. user[u].kind \in Kind
    BY <1>0 DEF UserType
  <2>2. /\ user[u].kind = "multi" => multi' = multi \cup {user[u].conn}
        /\ user[u].kind = "end" => multi' = multi \ {user[u].conn}
        /\ user[u].kind = "plain" => multi' = multi
    BY <1>0, <1>13, ServedStep
  <2>3. \A t \in Tasks : task'[t].pc = "ping" => task'[t].conn \notin multi'
    BY <1>13, <2>1, <2>2 DEF TxnOne, Kind
  <2>4. Tracked(u) /\ (Closing(u) <=> user[u].kind = "end")
    BY <1>13 DEF Tracked, Closing
  <2>5. state' = "Connected" => cur' \notin multi' \/ multi_active
    BY <1>13, <2>1, <2>2, <2>4 DEF TxnOne, Kind
  <2>6. misfiled' = {}
    BY <1>13 DEF TxnOne
  <2> QED
    BY <1>10, <1>13, <2>3, <2>5, <2>6
<1>14. CASE Reply(u)
  BY <1>3, <1>13, <1>14 DEF Reply, Begin, linkVars
<1>15. CASE RequestBroken(u)
  <2>1. TxnOne(u) /\ UNCHANGED <<multi_active, multi, misfiled>>
    BY <1>3, <1>15 DEF RequestBroken, Begin, worldVars, txnVars
  <2>2. Spawned.pc = "clone"
    BY DEF Spawned, NoTask
  <2>3. state' = "Reconnecting" /\ \A t \in Tasks : task'[t] = task[t] \/ task'[t] = Spawned
    BY <1>0, <1>15, ReconnectFrame DEF RequestBroken
  <2>4. \A t \in Tasks : task'[t].pc = "ping" =>
          /\ task[t].pc = "ping" /\ task'[t].conn = task[t].conn
          /\ task'[t].conn \notin multi'
    BY <2>1, <2>2, <2>3 DEF TxnOne
  <2>5. misfiled' = {} /\ user' = [user EXCEPT ![u] = Idle]
    BY <1>15, <2>1 DEF TxnOne, RequestBroken
  <2> QED
    BY <1>10, <2>1, <2>3, <2>4, <2>5
<1>16. ASSUME TxnOne(u), Authenticating(u), ServedAuth(u)
       PROVE  misfiled' = {}
  BY <1>16 DEF TxnOne, ServedAuth
<1>17. CASE RequestTimeout(u)
  <2>1. TxnOne(u) /\ UNCHANGED <<multi_active, state, cur, task>> /\ user' = [user EXCEPT ![u] = Idle]
    BY <1>3, <1>17 DEF RequestTimeout, Begin, linkVars
  <2>2. CASE outOfContract' = (outOfContract \/ user[u].kind = "end") /\ UNCHANGED <<multi, misfiled, session>>
    <3>1. ~Closing(u) /\ misfiled' = {}
      BY <2>1, <2>2 DEF Closing, TxnOne
    <3> QED
      BY <1>10, <2>1, <2>2, <3>1 DEF TxnOne
  <2>3. CASE /\ user[u].pc = "sent" /\ user[u].conn \in open
             /\ ~user[u].auth /\ Served(u) /\ UNCHANGED <<misfiled, session>>
    BY <1>13, <2>1, <2>3
  <2>4. CASE user[u].pc = "sent" /\ user[u].auth /\ ServedAuth(u) /\ UNCHANGED multi
    <3>1. Authenticating(u) /\ ~Closing(u)
      BY <2>4 DEF Authenticating, Closing, Tracked
    <3>2. misfiled' = {}
      BY <1>16, <2>1, <2>4, <3>1
    <3> QED
      BY <1>10, <2>1, <2>4, <3>1, <3>2 DEF TxnOne
  <2> QED
    BY <1>17, <2>2, <2>3, <2>4 DEF RequestTimeout
<1>18. CASE AuthReply(u)
  <2>1. TxnOne(u) /\ UNCHANGED <<multi, state, cur, task>>
    BY <1>3, <1>18 DEF AuthReply, Begin, linkVars
  <2>2. Authenticating(u) /\ Looked(u) /\ ~Closing(u)
    BY <1>18 DEF AuthReply, Authenticating, Looked, Holding, Closing, Tracked
  <2>3. ~multi_active /\ (state = "Connected" => cur \notin multi)
    BY <1>4, <2>1, <2>2
  <2>4. CASE /\ user' = [user EXCEPT ![u] = Idle]
             /\ UNCHANGED <<session, changed, bookmark, multi_active, misfiled>>
    <3>1. misfiled' = {}
      BY <2>1, <2>4 DEF TxnOne
    <3> QED
      BY <1>10, <2>1, <2>3, <2>4, <3>1 DEF TxnOne
  <2>5. CASE /\ ServedAuth(u)
             /\ user'[u].pc = "wait" /\ ~user'[u].auth /\ user'[u].conn = NoConn
             /\ user'[u].kind \in Kind
             /\ user'[u].kind = "multi" => multi_active'
             /\ user'[u].kind = "plain" => multi_active' = multi_active
    <3>1. misfiled' = {}
      BY <1>16, <2>1, <2>2, <2>5
    <3>2. ~Looked(u)' /\ ~Authenticating(u)'
      BY <2>5 DEF Looked, Holding, Authenticating
    <3>3. \A t \in Tasks : task[t].pc = "ping" => task[t].conn \in Conns
      BY DEF Inv, FreshInv
    <3>4. \A t \in Tasks : task'[t].pc = "ping" =>
            /\ task'[t].conn \notin multi'
            /\ \A v \in Users : user'[v].conn # task'[t].conn
      BY <1>0, <2>1, <2>5, <3>3 DEF TxnOne
    <3> QED
      BY <1>0, <2>1, <2>3, <2>5, <3>1, <3>2, <3>4 DEF TxnOne
  <2> QED
    BY <1>0, <1>18, <2>4, <2>5, AuthStep
<1> QED
  BY <1>2, <1>6, <1>7, <1>9, <1>11, <1>12, <1>14, <1>15, <1>17, <1>18 DEF UserNext

\* Without the contract there is nothing to keep, and only a pool-managed client sends AUTH.
LEMMA UserStepsTxn ==
    ASSUME Inv, NEW u \in Users, UserNext(u)
    PROVE  TxnInv'
<1>1. mode' = mode
  BY UserFrame DEF Inv
<1>2. ASSUME mode # "pool"
      PROVE  misfiled' \subseteq misfiled
  <2>1. ~user[u].auth
    BY <1>2 DEF Inv, UserInv
  <2> QED
    BY <2>1 DEF UserNext, Begin, Gate, Lock, ReadToken, ClearChanged, StorePassword, CopyConfig,
       CreateClient, GetConnection, Reply, AuthReply, RequestBroken, RequestTimeout, worldVars,
       txnVars, NewSession
<1>3. CASE mode # "pool"
  BY <1>1, <1>2, <1>3 DEF Inv, TxnInv
<1>4. CASE mode = "pool" /\ outOfContract'
  BY <1>1, <1>4 DEF TxnInv
<1>5. CASE mode = "pool" /\ ~outOfContract'
  <2>1. TxnOne(u)'
    BY <1>5, UserTxn
  <2> QED
    BY <1>1, <1>5, <2>1, TxnJoins
<1> QED
  BY <1>3, <1>4, <1>5

LEMMA TaskStepsTxn ==
    ASSUME Inv, NEW t \in Tasks, TaskNext(t)
    PROVE  TxnInv'
<1>0. /\ TypeOK /\ LinkInv /\ TxnInv /\ task[t] \in TaskType /\ task \in [Tasks -> TaskType]
      /\ user' = user /\ mode' = mode
      /\ \A s \in Tasks : s # t => task'[s] = task[s]
  BY TaskFrame DEF Inv, TypeOK, madeVars
<1>1. UNCHANGED <<multi_active, outOfContract>> /\ (ConnectOk(t) \/ UNCHANGED <<multi, misfiled>>)
  BY DEF TaskNext, CloneClient, LoopHead, CheckExpiry, MintOk, MintFails, WriteMinted, StampMinted,
     ReadCached, UpdatePassword, ApplyCert, ReadClient, ConnectOk, ConnectFails, PingFails, Install,
     BackoffElapsed, worldVars, txnVars
<1>2. ASSUME mode = "pool", ~outOfContract
      PROVE  \A s \in Tasks : SetUp(s)
  BY <1>0, <1>2 DEF TxnInv, SetUp
<1>3. CASE ConnectOk(t)
  <2>1. PICK c \in Free : /\ NewSession(c)
                          /\ task' = [task EXCEPT ![t].pc = "ping", ![t].conn = c]
    <3> DEFINE c == CHOOSE c \in Free : TRUE
    <3>1. c \in Free
      BY <1>3 DEF ConnectOk
    <3>2. NewSession(c) /\ task' = [task EXCEPT ![t].pc = "ping", ![t].conn = c]
      BY <1>3 DEF ConnectOk
    <3> QED
      BY <3>1, <3>2
  <2>2. task'[t].conn = c /\ multi' = multi \ {c} /\ misfiled' \subseteq misfiled
    BY <1>0, <2>1 DEF NewSession, TaskType
  <2>3. \A u \in Users : user[u].conn # c
    BY <2>1 DEF Free, Unused
  <2>4. SetUp(t)'
    BY <1>0, <2>2, <2>3 DEF SetUp
  <2>5. ASSUME mode = "pool", ~outOfContract, NEW s \in Tasks, s # t
        PROVE  SetUp(s)'
    BY <1>0, <1>2, <2>2, <2>5, StaysSetUp
  <2>6. UNCHANGED <<state, cur>>
    BY <1>3 DEF ConnectOk
  <2>7. mode = "pool" /\ ~outOfContract =>
          /\ state' # "Connected" \/ cur' \notin multi' \/ UNCHANGED <<state, cur>>
          /\ \A s \in Tasks : SetUp(s)'
    BY <2>4, <2>5, <2>6
  <2>8. multi' \subseteq multi
    BY <2>2
  <2> QED
    BY <1>0, <1>1, <2>2, <2>7, <2>8, TxnKept
<1>4. CASE Install(t)
  <2>1. task[t].pc = "ping" /\ cur' = task[t].conn /\ task'[t].pc = "none"
    BY <1>0, <1>4 DEF Install, NoTask
  <2>2. UNCHANGED <<multi, misfiled>>
    BY <1>4 DEF Install, worldVars, txnVars
  <2>3. ASSUME mode = "pool", ~outOfContract
        PROVE  cur' \notin multi' /\ \A s \in Tasks : SetUp(s)'
    <3>1. cur' \notin multi'
      BY <1>2, <2>1, <2>2, <2>3 DEF SetUp
    <3>2. ASSUME NEW s \in Tasks
          PROVE  SetUp(s)'
      BY <1>0, <1>2, <2>1, <2>2, <2>3, StaysSetUp
    <3> QED
      BY <3>1, <3>2
  <2> QED
    BY <1>0, <1>1, <2>2, <2>3, TxnKept
<1>5. CASE ~ConnectOk(t) /\ ~Install(t)
  <2>1. UNCHANGED <<state, cur>>
    BY <1>5 DEF TaskNext, CloneClient, LoopHead, CheckExpiry, MintOk, MintFails, WriteMinted,
       StampMinted, ReadCached, UpdatePassword, ApplyCert, ReadClient, ConnectFails, PingFails,
       BackoffElapsed
  <2>2. task'[t].pc # "ping"
    <3>1. CASE LoopHead(t)
      <4>1. mode \in {"static", "cert", "iam", "pool"}
        BY <1>0, ConnAssumption DEF TypeOK
      <4> DEFINE to == CASE Iam             -> "expiry"
                        [] mode = "cert"   -> "cert"
                        [] mode = "static" -> "connect"
      <4>2. to # "ping"
        BY <4>1 DEF Iam
      <4> HIDE DEF to
      <4>3. \/ task' = [task EXCEPT ![t] = NoTask]
            \/ task' = [task EXCEPT ![t].pc = to, ![t].since = generation, ![t].cert = adopted.cert]
        BY <3>1 DEF LoopHead, is_dropped, to
      <4> QED
        BY <1>0, <4>2, <4>3 DEF TypeOK, TaskType, NoTask
    <3>2. CASE CloneClient(t) \/ CheckExpiry(t) \/ MintOk(t) \/ MintFails(t) \/ WriteMinted(t)
      BY <1>0, <3>2 DEF TypeOK, TaskType, TaskStepTo, CloneClient, CheckExpiry, MintOk, MintFails,
         WriteMinted
    <3>3. CASE StampMinted(t) \/ ReadCached(t) \/ UpdatePassword(t) \/ ApplyCert(t) \/ ReadClient(t)
      BY <1>0, <3>3 DEF TypeOK, TaskType, TaskStepTo, StampMinted, ReadCached, UpdatePassword,
         ApplyCert, ReadClient
    <3>4. CASE ConnectFails(t) \/ PingFails(t) \/ BackoffElapsed(t)
      BY <1>0, <3>4 DEF TypeOK, TaskType, TaskStepTo, ConnectFails, PingFails, BackoffElapsed
    <3> QED
      BY <1>5, <3>1, <3>2, <3>3, <3>4 DEF TaskNext
  <2>3. UNCHANGED <<multi, misfiled>>
    BY <1>1, <1>5
  <2>4. ASSUME mode = "pool", ~outOfContract, NEW s \in Tasks
        PROVE  SetUp(s)'
    BY <1>0, <1>2, <2>2, <2>3, <2>4, StaysSetUp
  <2> QED
    BY <1>0, <1>1, <2>1, <2>3, <2>4, TxnKept
<1> QED
  BY <1>3, <1>4, <1>5

LEMMA NextTxn ==
    ASSUME Inv, [Next]_vars
    PROVE  TxnInv'
<1>0. TypeOK /\ LinkInv /\ TxnInv
  BY DEF Inv
<1>1. ASSUME mode = "pool", ~outOfContract
      PROVE  \A t \in Tasks : SetUp(t)
  BY <1>0, <1>1 DEF TxnInv, SetUp
<1>2. ASSUME UNCHANGED <<mode, outOfContract, multi_active, misfiled>>, multi' \subseteq multi,
             state' # "Connected" \/ UNCHANGED <<state, cur>>,
             \A u \in Users :
                /\ user'[u].pc = user[u].pc /\ user'[u].next = user[u].next
                /\ user'[u].auth = user[u].auth /\ user'[u].kind = user[u].kind
                /\ user'[u].conn = user[u].conn,
             \A t \in Tasks : task'[t].pc = "ping" =>
                task[t].pc = "ping" /\ task'[t].conn = task[t].conn
      PROVE  TxnInv'
  <2>1. ASSUME mode = "pool", ~outOfContract, NEW t \in Tasks
        PROVE  SetUp(t)'
    BY <1>1, <1>2, <2>1, StaysSetUp
  <2> QED
    BY <1>0, <1>2, <2>1, TxnKept
<1>3. CASE Surroundings
  <2>1. UNCHANGED <<mode, user, outOfContract, multi_active, misfiled>> /\ multi' \subseteq multi
    BY <1>3, SurroundingsFrame DEF madeVars
  <2>2. CASE CheckerActs /\ reconnect
    <3>1. Spawned.pc = "clone"
      BY DEF Spawned, NoTask
    <3>2. state' = "Reconnecting" /\ \A t \in Tasks : task'[t] = task[t] \/ task'[t] = Spawned
      BY <1>0, <2>2, ReconnectFrame
    <3> QED
      BY <1>2, <2>1, <3>1, <3>2
  <2>3. CASE UNCHANGED linkVars
    BY <1>2, <2>1, <2>3 DEF linkVars
  <2> QED
    BY <1>3, <2>2, <2>3, SurroundingsFrame DEF CheckerActs
<1>4. CASE Tick
  BY <1>0, <1>2, <1>4, TickStep
<1>5. CASE UNCHANGED connVars
  BY <1>2, <1>5 DEF connVars
<1> QED
  BY <1>3, <1>4, <1>5, NextCases, UserStepsTxn, TaskStepsTxn DEF Refresh

----------------------------------------------------------------------------
(* The theorems *)

LEMMA InitInv ==
    ASSUME Init
    PROVE  Inv
<1>1. 0 \in Password /\ 0 \in Seen /\ 0 \in Age /\ Ttl \in Age /\ 0 \in Version
  BY IamAssumption, ConnAssumption, CertAssumption DEF Password, Seen, Age, Version
<1>2. Idle \in UserType /\ NoTask \in TaskType /\ NoTask.client \in Client
  BY <1>1 DEF Idle, NoTask, UserType, UserStep, Kind, TaskType, TaskStep, Client, Material, ConnOrNone
<1>3. NoTask.pc = "none" /\ NoTask.cert = 0 /\ Idle.pc = "idle" /\ Idle.auth = FALSE
      /\ Idle.next = "idle"
  BY DEF NoTask, Idle
<1>4. IamTypeOK /\ Refreshing = {} /\ generation = 1
  BY <1>1, IamAssumption DEF Init, IamInit, IamTypeOK, RefreshStep, Refreshing
<1>5. CertTypeOK /\ ReloadInv
  BY <1>1 DEF Init, CertInit, CertTypeOK, ReloadInv, Matching, Material, Version
<1>6. TypeOK
  <2>1. task \in [Tasks -> TaskType] /\ user \in [Users -> UserType] /\ stored \in Client
        /\ session \in [Conns -> Seen]
    BY <1>1, <1>2 DEF Init
  <2>0. mode \in Modes /\ bound \in Bound
    BY ConnAssumption DEF Init
  <2>2. mode \in Modes /\ begun \in 0..bound.commands /\ breaks \in 0..bound.breaks
        /\ serverPass \in 0..MaxPasswords
    BY <2>0, ConnAssumption DEF Init, Bound
  <2> QED
    BY <1>1, <1>4, <1>5, <2>0, <2>1, <2>2 DEF Init, TypeOK, ConnOrNone
<1>7. RefreshInv
  BY <1>4, FS_EmptySet, IamAssumption DEF RefreshInv
<1>8. MintInv /\ LazyInv /\ CountInv /\ LinkInv /\ UserInv /\ CertInv
  <2>1. adopted.cert = 0
    BY DEF Init, CertInit
  <2> QED
    BY <1>3, <2>1 DEF Init, MintInv, LazyInv, CountInv, LinkInv, UserInv, CertInv
<1>9. HolderInv /\ FreshInv
  BY <1>3, <1>4 DEF Init, HolderInv, Holding, FreshInv
<1>10. TxnInv
  BY <1>3 DEF Init, TxnInv, Looked, Holding, Tracked, Authenticating
<1> QED
  BY <1>5, <1>6, <1>7, <1>8, <1>9, <1>10 DEF Inv

LEMMA InvHolds == Spec => []Inv
<1>1. Init => Inv
  BY InitInv
<1>2. Inv /\ [Next]_vars => Inv'
  BY NextTypes, NextLink, NextHolder, NextTask, NextFresh, NextTxn DEF Inv
<1> QED
  BY <1>1, <1>2, PTL DEF Spec

\* However many commands race through get_or_initialize_client and however many of
\* them, and the checker, report the same broken connection, one client is created and
\* at most one reconnect task runs, exactly while the state says so.
THEOREM ReconnectsOnce == Spec => []SingleFlight
<1>1. Inv => SingleFlight
  BY DEF Inv, SingleFlight, OneReconnector, OneClient, CountInv, LinkInv, Running
<1> QED
  BY <1>1, InvHolds, PTL

\* The generation prepare_for_borrow records is never ahead of the token the live
\* connection was authenticated with, although the AUTH of a borrow and a reconnect
\* that replaces its connection overlap.  Where the server queued that AUTH into a MULTI
\* the connection is excepted; a borrower that runs one command at a time, and whose
\* EXEC or DISCARD is not given up unwritten, never comes to it, because multi_active
\* then tells the truth whenever an AUTH is about to be sent.
THEOREM BookmarkNeverAhead == Spec => []BookmarkSound
<1>1. Inv => BookmarkSound
  <2> SUFFICES ASSUME Inv, Iam, state = "Connected", cur \notin misfiled
               PROVE  session[cur] >= bookmark
    BY DEF BookmarkSound, Inv, TxnInv
  <2>1. cur \in Conns /\ session[cur] \in Nat /\ bookmark \in Nat
    BY DEF Inv, LinkInv, TypeOK, Seen
  <2>2. bookmark <= session[cur]
    BY <2>1 DEF Inv, FreshInv, HolderInv
  <2> QED
    BY <2>1, <2>2
<1> QED
  BY <1>1, InvHolds, PTL

\* A torn rotation is never adopted, and every attempt presents a certificate at least
\* as new as the one adopted when the attempt began.
THEOREM CertificatePresented == Spec => []PresentsAdopted
<1>1. Inv => PresentsAdopted
  <2> SUFFICES ASSUME Inv
               PROVE  PresentsAdopted
    OBVIOUS
  <2>1. \A t \in Tasks : task[t].client.tls.cert \in Nat /\ task[t].cert \in Nat
    BY DEF Inv, TypeOK, TaskType, Client, Material, Version
  <2>2. AttemptPresentsAdopted
    BY <2>1 DEF Inv, CertInv, AttemptPresentsAdopted
  <2> QED
    BY <2>2 DEF Inv, ReloadInv, PresentsAdopted, AdoptedPairMatches
<1> QED
  BY <1>1, InvHolds, PTL
=============================================================================
