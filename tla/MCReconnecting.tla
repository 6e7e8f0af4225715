--------------------------- MODULE MCReconnecting ---------------------------
(* Instances of ReconnectingConnection for TLC. *)
EXTENDS ReconnectingConnection

Limits(c, b, a, k) == [commands |-> c, breaks |-> b, ages |-> a, kinds |-> k]

\* Two commands race for the creation of the client (static).  In a pool they race for
\* iam_reconcile_lock: through a reconnect, on tokens that expire, and with a third
\* one after a transaction.  Elsewhere one command races with the tasks.
BoundsPerMode ==
    [m \in Modes |->
        CASE m = "static" -> {Limits(2, 1, FALSE, {"plain"})}
          [] m = "cert"   -> {Limits(1, 1, FALSE, {"plain"})}
          [] m = "iam"    -> {Limits(1, 1, TRUE, {"plain"})}
          [] m = "pool"   -> {Limits(1, 1, TRUE, {"plain"}), Limits(2, 0, TRUE, Kind),
                              Limits(2, 1, FALSE, Kind), Limits(3, 0, FALSE, Kind)}]
=============================================================================
