--------------------------- MODULE ScopeConnection ---------------------------
(***************************************************************************)
(* What a scoped connection knows about itself and what the server knows   *)
(* about it: ConnectionState and update_state_for_command of               *)
(* glide-core/src/pool.rs, the cleanup pipeline of ScopePool::release, and *)
(* the server side of the few commands they track.                         *)
(*                                                                         *)
(* `altered` stands for the two marks that a borrow only ever sets and the *)
(* cleanup resets together: client_name_changed and a non-empty            *)
(* `subscriptions`.                                                        *)
(***************************************************************************)
EXTENDS Naturals

CONSTANTS
    Dbs,    \* database indexes
    NoDb    \* no SELECT queued

ASSUME DbAssumption == NoDb \notin Dbs

-----------------------------------------------------------------------------
(* Commands *)

Op(name) == [op |-> name, db |-> NoDb]
Select(d) == [op |-> "SELECT", db |-> d]

Ops == {"WATCH", "UNWATCH", "MULTI", "EXEC", "DISCARD", "TRACKING_ON",
        "TRACKING_OFF", "ALTER", "BLPOP", "GET"}

Command == {Op(name) : name \in Ops} \cup {Select(d) : d \in Dbs}

\* Commands that carry a key, which the cluster slot check may refuse locally.
IsKeyed(c) == c.op \in {"WATCH", "BLPOP", "GET"}

IsBlocking(c) == c.op = "BLPOP"

-----------------------------------------------------------------------------
(* The client's record *)

ConnectionState ==
    [watch_active : BOOLEAN, multi_active : BOOLEAN, tracking_enabled : BOOLEAN,
     altered : BOOLEAN, selected_db : Dbs, parent_db : Dbs,
     blocking_in_flight : BOOLEAN, must_discard : BOOLEAN]

\* begin_borrow: every borrow-scoped mark is reset, the actual database is kept.
begin_borrow(selected, parent) ==
    [watch_active |-> FALSE, multi_active |-> FALSE, tracking_enabled |-> FALSE,
     altered |-> FALSE, selected_db |-> selected, parent_db |-> parent,
     blocking_in_flight |-> FALSE, must_discard |-> FALSE]

is_clean_for(st, db) ==
    /\ ~st.watch_active /\ ~st.multi_active /\ ~st.tracking_enabled
    /\ st.selected_db = db
    /\ ~st.altered /\ ~st.blocking_in_flight /\ ~st.must_discard

\* The record is updated before the command is sent, whatever becomes of it.
update_state_for_command(st, c) ==
    CASE c.op = "WATCH"              -> [st EXCEPT !.watch_active = TRUE]
      [] c.op = "UNWATCH"            -> [st EXCEPT !.watch_active = FALSE]
      [] c.op = "MULTI"              -> [st EXCEPT !.multi_active = TRUE]
      [] c.op \in {"EXEC", "DISCARD"} ->
             [st EXCEPT !.watch_active = FALSE, !.multi_active = FALSE]
      [] c.op = "SELECT"             -> [st EXCEPT !.selected_db = c.db]
      [] c.op = "TRACKING_ON"        -> [st EXCEPT !.tracking_enabled = TRUE]
      [] c.op = "TRACKING_OFF"       -> [st EXCEPT !.tracking_enabled = FALSE]
      [] c.op = "ALTER"              -> [st EXCEPT !.altered = TRUE]
      [] OTHER                       -> st

-----------------------------------------------------------------------------
(* The server's side of the connection (external).  A transaction queues   *)
(* its commands; `queued` keeps what EXEC would change.                    *)

NothingQueued == [db |-> NoDb, tracking |-> "NONE", altered |-> FALSE]

ServerState ==
    [db : Dbs, watching : BOOLEAN, multi : BOOLEAN, tracking : BOOLEAN,
     altered : BOOLEAN, waiter : BOOLEAN,
     queued : [db : Dbs \cup {NoDb}, tracking : {"ON", "OFF", "NONE"}, altered : BOOLEAN]]

FreshServer(d) ==
    [db |-> d, watching |-> FALSE, multi |-> FALSE, tracking |-> FALSE,
     altered |-> FALSE, waiter |-> FALSE, queued |-> NothingQueued]

EndTransaction(s) == [s EXCEPT !.multi = FALSE, !.watching = FALSE, !.queued = NothingQueued]

\* EXEC of an open transaction whose watched keys were not touched.
Commit(s) ==
    [EndTransaction(s) EXCEPT
        !.db = IF s.queued.db = NoDb THEN s.db ELSE s.queued.db,
        !.tracking = CASE s.queued.tracking = "ON"  -> TRUE
                       [] s.queued.tracking = "OFF" -> FALSE
                       [] OTHER                     -> s.tracking,
        !.altered = s.altered \/ s.queued.altered]

Enqueue(s, c) ==
    [s EXCEPT !.queued =
        CASE c.op = "SELECT"       -> [@ EXCEPT !.db = c.db]
          [] c.op = "TRACKING_ON"  -> [@ EXCEPT !.tracking = "ON"]
          [] c.op = "TRACKING_OFF" -> [@ EXCEPT !.tracking = "OFF"]
          [] c.op = "ALTER"        -> [@ EXCEPT !.altered = TRUE]
          [] OTHER                 -> @]

\* The command outside a transaction.  EXEC and DISCARD are refused there, and
\* a refused EXEC or DISCARD leaves the watched keys watched.
RunDirect(s, c) ==
    CASE c.op = "WATCH"        -> [s EXCEPT !.watching = TRUE]
      [] c.op = "UNWATCH"      -> [s EXCEPT !.watching = FALSE]
      [] c.op = "MULTI"        -> [s EXCEPT !.multi = TRUE]
      [] c.op = "SELECT"       -> [s EXCEPT !.db = c.db]
      [] c.op = "TRACKING_ON"  -> [s EXCEPT !.tracking = TRUE]
      [] c.op = "TRACKING_OFF" -> [s EXCEPT !.tracking = FALSE]
      [] c.op = "ALTER"        -> [s EXCEPT !.altered = TRUE]
      [] c.op = "RESET_ALTER"  -> [s EXCEPT !.altered = FALSE]
      [] OTHER                 -> s

\* What the server may be in after it took the command: one state, or for EXEC
\* the committed and the aborted one.
ServerAfter(s, c) ==
    IF ~s.multi THEN {RunDirect(s, c)}
    ELSE CASE c.op = "EXEC"              -> {Commit(s), EndTransaction(s)}
           [] c.op = "DISCARD"           -> {EndTransaction(s)}
           [] c.op \in {"MULTI", "WATCH"} -> {s}
           [] OTHER                      -> {Enqueue(s, c)}

\* A server on which the next borrower finds nothing of the last one.
Pristine(s, db) ==
    /\ ~s.watching /\ ~s.multi /\ ~s.tracking /\ ~s.altered /\ ~s.waiter
    /\ s.db = db

-----------------------------------------------------------------------------
(* The cleanup pipeline a dirty release sends.                              *)

CleanupStep(s, needed, c) ==
    IF needed THEN IF s.multi THEN Enqueue(s, c) ELSE RunDirect(s, c) ELSE s

\* DISCARD or UNWATCH, the unsubscribes and SETNAME, TRACKING OFF, SELECT.
Cleaned(st, s) ==
    LET s1 == IF st.multi_active THEN EndTransaction(s)
              ELSE CleanupStep(s, st.watch_active, Op("UNWATCH"))
        s2 == CleanupStep(s1, st.altered, Op("RESET_ALTER"))
        s3 == CleanupStep(s2, st.tracking_enabled, Op("TRACKING_OFF"))
    IN  CleanupStep(s3, st.selected_db # st.parent_db, Select(st.parent_db))

\* pipeline_replies_ok: a DISCARD outside a transaction is an error reply.
CleanupAccepted(st, s) == st.multi_active => s.multi

=============================================================================
