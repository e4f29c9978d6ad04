------------------------------ MODULE ModelList ------------------------------
(***************************************************************************)
(* GET /v1/models (src/routes/models.ts): the upstream's list, kept for a  *)
(* while for all callers, or a short fixed one when there is none.  A list *)
(* is known by the moment the upstream made it; several requests may       *)
(* fetch one at a time.                                                    *)
(***************************************************************************)
EXTENDS Integers

CONSTANTS Callers,     \* the requests for the list
          CacheTtl,    \* MODELS_CACHE_TTL_MS
          Timeout,     \* of the fetch
          MaxTime      \* bound: the clock stops here

VARIABLES clock,
          cache,       \* [expiresAt, models]; expired at first
          fetch,       \* [since, models] of each request; not sent at first
          told         \* [models, age] of each request, once answered

listVars == <<clock, cache, fetch, told>>

Fallback == -1         \* FALLBACK_MODELS
Empty == -2            \* an empty list, a refusal or a body that is none
Missing == -3          \* nothing (yet)
Lists == 0 .. MaxTime

ListTypeOK ==
  /\ clock \in 0 .. MaxTime
  /\ cache \in [expiresAt : 0 .. MaxTime + CacheTtl, models : Lists \cup {Missing}]
  /\ fetch \in [Callers -> [since : 0 .. MaxTime, models : Lists \cup {Empty, Missing}]]
  /\ told \in [Callers -> [models : Lists \cup {Fallback, Missing}, age : 0 .. MaxTime]]

ListInit ==
  /\ clock = 0
  /\ cache = [expiresAt |-> 0, models |-> Missing]
  /\ fetch = [r \in Callers |-> [since |-> 0, models |-> Missing]]
  /\ told = [r \in Callers |-> [models |-> Missing, age |-> 0]]

(* The age is for the properties: of a list, when it is told.              *)
Tell(r, models) ==
  told' = [told EXCEPT ![r] = [models |-> models,
                               age |-> IF models \in Lists THEN clock - models ELSE 0]]

CacheValid == cache.expiresAt > clock

ServeCached(r) ==
  /\ CacheValid
  /\ Tell(r, cache.models)
  /\ UNCHANGED <<clock, cache, fetch>>

(* Without a key there is nothing to fetch with.                           *)
ServeWithoutKey(r) ==
  /\ ~CacheValid
  /\ Tell(r, Fallback)
  /\ UNCHANGED <<clock, cache, fetch>>

StartFetch(r) ==
  /\ ~CacheValid
  /\ fetch' = [fetch EXCEPT ![r].since = clock]
  /\ UNCHANGED <<clock, cache, told>>

(* The upstream makes its list some time before it arrives.                *)
UpstreamLists(r) ==
  /\ fetch[r].models = Missing
  /\ \E models \in {clock, Empty} : fetch' = [fetch EXCEPT ![r].models = models]
  /\ UNCHANGED <<clock, cache, told>>

CacheAlways(models) ==
  cache' = [expiresAt |-> clock + CacheTtl,
            models |-> IF models \in Lists THEN models ELSE Fallback]
CacheList(models) ==
  cache' = IF models \in Lists THEN [expiresAt |-> clock + CacheTtl, models |-> models] ELSE cache

ListArrives(r) ==
  LET models == fetch[r].models
  IN /\ models # Missing
     /\ CacheList(models)
     /\ Tell(r, IF models \in Lists THEN models ELSE Fallback)
     /\ UNCHANGED <<clock, fetch>>

(* A lost connection, or the timeout.                                      *)
FetchFails(r) ==
  /\ fetch' = [fetch EXCEPT ![r].models = Empty]
  /\ Tell(r, Fallback)
  /\ UNCHANGED <<clock, cache>>

(* Time passes, but no fetch outlives its timeout.                         *)
TickUnlimited(fetching) ==
  /\ clock < MaxTime
  /\ clock' = clock + 1
  /\ UNCHANGED <<cache, fetch, told>>
Tick(fetching) ==
  /\ clock < MaxTime
  /\ \A r \in fetching : clock < fetch[r].since + Timeout
  /\ clock' = clock + 1
  /\ UNCHANGED <<cache, fetch, told>>
=============================================================================
