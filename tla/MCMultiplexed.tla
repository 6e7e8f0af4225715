--------------------------- MODULE MCMultiplexed ---------------------------
(* Instances of MultiplexedConnection for TLC. *)
EXTENDS MultiplexedConnection

CONSTANTS r1, r2, r3, k1, k2

Pinging(kind, width, pings) ==
    [kind |-> kind, keys |-> {}, width |-> width, pings |-> pings, type |-> "String"]
Plain(kind, width) == Pinging(kind, width, {})
Reading(kind, keys, type) == [kind |-> kind, keys |-> keys, width |-> 1, pings |-> {}, type |-> type]
Nothing == Plain("none", 0)

Setting(policy, events, a, b, c) ==
    [policy |-> policy, events |-> events, command |-> (r1 :> a) @@ (r2 :> b) @@ (r3 :> c)]

\* Commands that share a connection without a cache, one or two fences among
\* them with the callers' own PINGs, and reads of two keys through either kind of
\* cache.
Settings ==
    {Setting("none", 3, x, Plain("SUNSUBSCRIBE", 1), Plain("pipeline", 2))
       : x \in {Plain("SUBSCRIBE", 1), Plain("transaction", 2)}}
    \cup {Setting("none", 2, Plain("SUNSUBSCRIBE", 1), Pinging("PING", 1, {1}), x)
            : x \in {Plain("SUNSUBSCRIBE", 1), Pinging("pipeline", 2, {2})}}
    \cup {Setting(p, 0, Reading("GET", {k1}, "String"), Reading("MGET", {k1, k2}, "String"),
                  Reading("MGET", {k1, k2}, "String")) : p \in {"LRU", "LFU"}}
    \cup {Setting("LRU", 2, Reading("GET", {k1}, "String"), Reading("MGET", {k1, k2}, "String"), Nothing),
          Setting("LFU", 3, Reading("GET", {k1}, "String"), Reading("HGETALL", {k1}, "Hash"), Nothing)}

\* SUBSCRIBE of two channels as the synchronizer sends it.
TwoChannels == {Setting("none", 0, Plain("SUBSCRIBE", 2), Plain("pipeline", 1), Nothing)}
=============================================================================
