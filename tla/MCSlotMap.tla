----------------------------- MODULE MCSlotMap ------------------------------
(* Instances of SlotMap for TLC. *)
EXTENDS SlotMap

CONSTANTS na, nb, nc, nd

Slot(start, end, master, replicas) ==
    [start |-> start, end |-> end, master |-> master, replicas |-> replicas]

\* Two shards; a shard in two ranges; a slot that nobody owns, below the
\* range of a shard with a replica.
Topologies ==
    {<<Slot(0, 1, na, {nb}), Slot(2, 3, nc, {})>>,
     <<Slot(0, 0, na, {}), Slot(1, 2, nc, {nb}), Slot(3, 3, na, {})>>,
     <<Slot(0, 0, na, {nb}), Slot(2, 3, nc, {nd})>>}

Addresses == {na, nb, nc, nd}
=============================================================================
