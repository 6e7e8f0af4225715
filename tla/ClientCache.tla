---------------------------- MODULE ClientCache ----------------------------
(***************************************************************************)
(* The client-side cache of read replies (redis-rs cache/): memory         *)
(* accounting, lazy expiry, the LRU and LFU orders, and the registry of    *)
(* pending fills that keeps a reply read before a server's invalidation    *)
(* out of the cache.                                                       *)
(*                                                                         *)
(* The cache is one value, the operations that hold its write lock are     *)
(* functions of it.  Values are versions of a key; versions alternate      *)
(* between two types and two sizes.                                        *)
(***************************************************************************)
EXTENDS Naturals, FiniteSets, Sequences, SequencesExt, FiniteSetsExt

CONSTANTS
    Keys,
    MaxMemory     \* max_memory_bytes

ASSUME MemoryAssumption == MaxMemory \in Nat /\ IsFiniteSet(Keys)

VARIABLE
    cache         \* entries, recency (keys, oldest access first), minFrequency,
                  \* memory, fills, policy

CachedKeyType(v) == IF v % 2 = 1 THEN "String" ELSE "Hash"

\* calculate_entry_size: depends on the value.  The third version is too big.
EntrySize(v) == IF v = 3 THEN MaxMemory + 1 ELSE 1 + (v % 2)

\* GlideCacheImpl::new
EmptyCache(policy) ==
    [entries |-> <<>>, recency |-> <<>>, minFrequency |-> 0, memory |-> 0,
     fills |-> {}, policy |-> policy]

-----------------------------------------------------------------------------
(* The eviction strategies *)

Cached(c) == DOMAIN c.entries

Frequencies(entries) == {entries[k].frequency : k \in DOMAIN entries}

Without(seq, k) == RemoveFirst(seq, k)

\* FrequencyBuckets::remove looks for a new minimum when it emptied the bucket
\* of the old one.
Dropped(c, k) ==
    LET rest == [other \in Cached(c) \ {k} |-> c.entries[other]]
        f == c.entries[k].frequency
    IN  [c EXCEPT !.entries = rest,
                  !.recency = Without(@, k),
                  !.minFrequency =
                     IF f \in Frequencies(rest) \/ f # @ THEN @
                     ELSE IF DOMAIN rest = {} THEN 0 ELSE Min(Frequencies(rest))]

\* FrequencyBuckets::add for the bucket of frequency f.
WithMinimum(c, f) ==
    [c EXCEPT !.minFrequency = IF Cached(c) = {} \/ f < @ THEN f ELSE @]

Stored(c, k, entry) ==
    [WithMinimum(c, entry.frequency) EXCEPT
        !.entries = [other \in Cached(c) \cup {k} |->
                        IF other = k THEN entry ELSE c.entries[other]],
        !.recency = Append(@, k)]

\* promote
Promoted(c, k) ==
    IF k \notin Cached(c) THEN c
    ELSE Stored(Dropped(c, k), k, [c.entries[k] EXCEPT !.frequency = @ + 1])

\* evict_one: the oldest key, with LFU the oldest of the least frequent.
Victim(c) ==
    LET eligible(k) == c.policy = "LFU" => c.entries[k].frequency = c.minFrequency
    IN  c.recency[SelectInSeq(c.recency, eligible)]

-----------------------------------------------------------------------------
(* GlideCacheImpl: operations under the write lock *)

\* Mutant of Removed: the entry goes, its charge stays.
RemovedCharged(c, k) == IF k \notin Cached(c) THEN c ELSE Dropped(c, k)

\* remove and uncharge, which saturates.
Removed(c, k) ==
    IF k \notin Cached(c) THEN c
    ELSE LET size == EntrySize(c.entries[k].version)
         IN  [Dropped(c, k) EXCEPT !.memory = IF size > @ THEN 0 ELSE @ - size]

\* remove_if_expired
remove_if_expired(c, k) ==
    IF k \in Cached(c) /\ c.entries[k].expired THEN Removed(c, k) ELSE c

NeedsEviction(c, size) ==
    size > (IF c.memory > MaxMemory THEN 0 ELSE MaxMemory - c.memory)

evict_until_space_available(c, size) ==
    LET after[n \in 0..Cardinality(Keys)] ==
            IF n = 0 THEN c
            ELSE IF NeedsEviction(after[n - 1], size) /\ Cached(after[n - 1]) # {}
                    THEN Removed(after[n - 1], Victim(after[n - 1]))
                    ELSE after[n - 1]
    IN  after[Cardinality(Keys)]

insert_with_lock(c, k, v) ==
    LET room == evict_until_space_available(Removed(c, k), EntrySize(v))
    IN  [Stored(room, k, [version |-> v, expired |-> FALSE, frequency |-> 1])
            EXCEPT !.memory = @ + EntrySize(v)]

\* begin_cache_fill.  An id belongs to the call that began the fill.
WithFill(c, k, id) == [c EXCEPT !.fills = @ \cup {<<k, id>>}]

\* CacheFillRegistry::remove, for a claim or a dropped token.
WithoutFill(c, k, id) == [c EXCEPT !.fills = @ \ {<<k, id>>}]

\* Mutant of ActiveFill: every reply of the server is current.
AlwaysActive(c, k, id) == TRUE

ActiveFill(c, k, id) == <<k, id>> \in c.fills

\* insert_if_active_fill, whose token is dropped on the early returns.
insert_if_active_fill(c, k, v, id) ==
    LET claimed == WithoutFill(c, k, id)
    IN  IF EntrySize(v) > MaxMemory \/ ~ActiveFill(c, k, id) THEN claimed
        ELSE insert_with_lock(claimed, k, v)

invalidate_server_assisted(c, k) ==
    Removed([c EXCEPT !.fills = {f \in @ : f[1] # k}], k)

flush_all_server_assisted(c) == EmptyCache(c.policy)

-----------------------------------------------------------------------------
(* Properties of the cache's own books *)

CacheOK(ids) ==
    /\ Cached(cache) \subseteq Keys
    /\ \A k \in Cached(cache) :
         cache.entries[k] \in [version : Nat, expired : BOOLEAN, frequency : Nat \ {0}]
    /\ cache.fills \subseteq Keys \X ids
    /\ cache.memory \in Nat

\* Over insertions, replacements, evictions, expiries and invalidations the
\* charged memory is the size of what is cached, and stays within the limit.
MemoryAccounted ==
    /\ LET Size(k) == EntrySize(cache.entries[k].version)
       IN  cache.memory = MapThenSumSet(Size, Cached(cache))
    /\ cache.memory <= MaxMemory

\* The eviction candidate exists and is right: every cached key has its place
\* in the order once, and the minimum LFU evicts at is the smallest frequency.
EvictionOrderExact ==
    /\ IsInjective(cache.recency)
    /\ Range(cache.recency) = Cached(cache)
    /\ Cached(cache) # {} => cache.minFrequency = Min(Frequencies(cache.entries))

\* What evict_until_space_available decides by agrees with what is cached.
CacheExact == MemoryAccounted /\ EvictionOrderExact
=============================================================================
