------------------------------ MODULE MCPubSub ------------------------------
(* Instances of PubSubSynchronizer for TLC. *)
EXTENDS PubSubSynchronizer

\* A standalone client with two channels, whose commands name both, and a
\* cluster client with a channel of either kind.
Settings ==
    {[cluster |-> FALSE, replicas |-> TRUE, inUse |-> Exact, events |-> 2],
     [cluster |-> TRUE, replicas |-> FALSE, inUse |-> {CHOOSE c \in Exact : TRUE}, events |-> 3],
     [cluster |-> TRUE, replicas |-> FALSE, inUse |-> Sharded, events |-> 3]}
=============================================================================
