----------------------------- MODULE IamTokens -----------------------------
(***************************************************************************)
(* The IAM token cache of glide-core/src/iam/mod.rs.  A token is known by  *)
(* its age: Ttl stands for "15 minutes or more", when the server refuses   *)
(* it.  The background task and explicit refresh_token calls publish a new *)
(* token in three separate steps, which readers may interleave with.  A     *)
(* failed generation changes nothing and is a stuttering step.             *)
(***************************************************************************)
EXTENDS Naturals, FiniteSets

CONSTANTS
    Refreshers,      \* the background task and the callers of refresh_token
    Ttl,             \* TOKEN_TTL_SECONDS in clock ticks
    MaxGenerations   \* bound: refreshes started

ASSUME IamAssumption == Ttl \in Nat \ {0} /\ MaxGenerations \in Nat \ {0}

VARIABLES
    cached,       \* age of cached_token
    createdAt,    \* age of token_created_at
    changed,      \* token_changed
    generation,   \* token_generation
    refresh       \* per refresher: next step and the age of its new token

iamVars == <<cached, createdAt, changed, generation, refresh>>

Age == 0..Ttl

RefreshStep == {"idle", "write", "stamp", "announce"}

IamTypeOK ==
    /\ cached \in Age
    /\ createdAt \in Age
    /\ changed \in BOOLEAN
    /\ generation \in 1..(MaxGenerations + 1)
    /\ refresh \in [Refreshers -> [pc : RefreshStep, token : Age]]

\* IAMTokenManager::new generates the first token; the flag starts raised and
\* the generation at 1.
IamInit ==
    /\ cached = 0
    /\ createdAt = 0
    /\ changed = TRUE
    /\ generation = 1
    /\ refresh = [r \in Refreshers |-> [pc |-> "idle", token |-> Ttl]]

Older(age) == IF age < Ttl THEN age + 1 ELSE Ttl

IsExpired(age) == age >= Ttl

Refreshing == {r \in Refreshers : refresh[r].pc # "idle"}

Goto(r, from, to) ==
    /\ refresh[r].pc = from
    /\ refresh' = [refresh EXCEPT ![r].pc = to]

\* generate_token_with_backoff succeeded.
Generate(r) ==
    /\ generation + Cardinality(Refreshing) <= MaxGenerations
    /\ refresh[r].pc = "idle"
    /\ refresh' = [refresh EXCEPT ![r] = [pc |-> "write", token |-> 0]]
    /\ UNCHANGED <<cached, createdAt, changed, generation>>

WriteToken(r) ==
    /\ Goto(r, "write", "stamp")
    /\ cached' = refresh[r].token
    /\ UNCHANGED <<createdAt, changed, generation>>

StampCreated(r) ==
    /\ Goto(r, "stamp", "announce")
    /\ createdAt' = 0
    /\ UNCHANGED <<cached, changed, generation>>

NextGeneration == generation + 1

\* The flag serves direct clients and the generation pool-managed ones: no reader
\* looks at both, so the two stores are one step.
Announce(r) ==
    /\ refresh[r].pc = "announce"
    /\ refresh' = [refresh EXCEPT ![r] = [pc |-> "idle", token |-> Ttl]]
    /\ changed' = TRUE
    /\ generation' = NextGeneration
    /\ UNCHANGED <<cached, createdAt>>

handle_token_refresh(r) == Generate(r) \/ WriteToken(r) \/ StampCreated(r) \/ Announce(r)

\* One tick of the clock for every token and stamp of the cache.
IamTick ==
    /\ cached' = Older(cached)
    /\ createdAt' = Older(createdAt)
    /\ refresh' = [r \in Refreshers |-> [refresh[r] EXCEPT !.token = Older(@)]]
    /\ UNCHANGED <<changed, generation>>
=============================================================================
