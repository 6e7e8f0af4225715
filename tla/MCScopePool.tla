---------------------------- MODULE MCScopePool ----------------------------
(* Instances of ScopePool for TLC. *)
EXTENDS ScopePool, TLC

ScopeSymmetry ==
    Permutations(Conns) \cup Permutations(Users)
    \cup Permutations(Dials) \cup Permutations(Targets)

\* A blocking command that may outlive its borrow; and repeated releases,
\* prewarming and a parent that closes.
Borrowing ==
    {[cmds |-> {Op("BLPOP")}, late |-> TRUE, twice |-> FALSE, close |-> FALSE, prewarm |-> 0],
     [cmds |-> {}, late |-> FALSE, twice |-> TRUE, close |-> TRUE, prewarm |-> 1]}

\* What a borrower may do to its connection, by kinds of marks, with the transaction
\* commands that queue, commit or drop it, each command awaited before the release;
\* marks of all kinds at once; and a SELECT that may outlive its borrow.
Tracking ==
    LET selects == {Select(d) : d \in Dbs}
        ops(S) == {Op(n) : n \in S}
    IN  {[cmds |-> S, late |-> FALSE, twice |-> FALSE, close |-> FALSE, prewarm |-> 0] :
            S \in {ops({"MULTI", "EXEC", "DISCARD", "WATCH", "UNWATCH"}),
                  ops({"MULTI", "EXEC", "DISCARD"}) \cup selects,
                  ops({"MULTI", "EXEC", "TRACKING_ON", "TRACKING_OFF"}),
                  ops({"MULTI", "EXEC", "DISCARD", "ALTER", "BLPOP", "GET"}),
                  ops({"WATCH", "ALTER", "TRACKING_ON"}) \cup selects}}
        \cup {[cmds |-> selects, late |-> TRUE, twice |-> FALSE, close |-> FALSE, prewarm |-> 0]}
=============================================================================
