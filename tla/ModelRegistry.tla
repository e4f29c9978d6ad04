---------------------------- MODULE ModelRegistry ---------------------------
(***************************************************************************)
(* The model registry of the provider proxy (internal/models/models.go):   *)
(* the built-in list, the models that syncs add to it, models.json, and    *)
(* the schedule of the syncs (main.go), which the ticker and the panel     *)
(* start independently of each other.                                      *)
(*                                                                         *)
(* A model is its full id; names are compared as the code compares them,   *)
(* in lower case.  The order of a synced list and of a Go map is any.      *)
(***************************************************************************)
EXTENDS Integers, FiniteSets

CONSTANTS Models,       \* full ids
          Builtin,      \* BuiltinModels
          Short,        \* ShortName of each model
          None,
          Intervals,    \* sync_interval_hours the operator may choose
          Syncs,        \* syncs that may be under way at a time: "ticker", ...
          MaxTime,      \* bound: the clock, in hours
          MaxFailures   \* bound: failed reads and writes of models.json

ASSUME RegistryAssumption ==
  /\ Builtin \subseteq Models /\ None \notin Models
  /\ DOMAIN Short = Models
  /\ Intervals \subseteq Nat /\ "ticker" \in Syncs
  /\ MaxTime \in Nat /\ MaxFailures \in Nat

VARIABLES registry,    \* the ids of byID
          byShort,     \* byS: the id a short name stands for
          disk,        \* models.json
          interval,    \* intervalH
          lastSync,    \* status.LastSync, 0: ""
          nextSyncIn,  \* status.NextSyncIn
          lastResult,  \* status.LastResult
          now,
          fetching,    \* syncs that wait for the upstream's list
          booted,      \* the first sync has been started
          failures

status == <<lastSync, nextSyncIn, lastResult>>
names == <<registry, byShort>>
vars == <<names, disk, interval, status, now, fetching, booted, failures>>

Names == {Short[m] : m \in Models}

File(ids) == [torn |-> FALSE, ids |-> ids]
Torn == [torn |-> TRUE, ids |-> {}]

(* index() for each of the models new: of two with one short name the one  *)
(* indexed last counts, and a short name that is the id is not entered.    *)
Indexed(bs, new) ==
  LET for(n) == {m \in new : Short[m] = n /\ m # n}
      entered == {n \in Names : for(n) # {}}
      lasts == {f \in [entered -> new] : \A n \in entered : f[n] \in for(n)}
  IN {[n \in Names |-> IF n \in entered THEN f[n] ELSE bs[n]] : f \in lasts}

NoShort == [n \in Names |-> None]

(* Resolve: a full id, or a short name; None is passed on as it came.      *)
Resolve(n) == IF n \in registry THEN n
              ELSE IF n \in Names THEN byShort[n] ELSE None

-----------------------------------------------------------------------------
(* refreshStatusLocked, after LastSync and intervalH have been set.        *)
Refresh(last, hours) ==
  /\ lastSync' = last
  /\ nextSyncIn' = IF hours = 0 \/ last = 0 THEN -1
                   ELSE IF last + hours > now THEN last + hours - now ELSE 0

DueOrDisabled == nextSyncIn <= 0
Due == nextSyncIn = 0

PersistEntries(all, entries) ==
  /\ disk' = File(entries)
  /\ UNCHANGED failures
(* saveLocked: os.WriteFile in place.                                      *)
Persist(all, entries) ==
  \/ /\ disk' = File(all)
     /\ UNCHANGED failures
  \/ /\ failures < MaxFailures
     /\ disk' \in {disk, Torn}
     /\ failures' = failures + 1

MergeReplaces(entries) ==
  /\ registry' = Builtin \cup entries
  /\ byShort' \in Indexed(byShort, entries \ registry)
(* Known models keep their place, new ones are indexed.                    *)
Merge(entries) ==
  /\ registry' = registry \cup entries
  /\ byShort' \in Indexed(byShort, entries \ registry)

(* SetSyncResult(entries, true, ...): FetchModelList never returns an      *)
(* empty list without an error.                                            *)
SyncSucceeds(s, entries) ==
  /\ s \in fetching
  /\ fetching' = fetching \ {s}
  /\ Merge(entries)
  /\ Persist(registry', entries)
  /\ lastResult' = "ok"
  /\ Refresh(now, interval)
  /\ UNCHANGED <<interval, now, booted>>

SyncError ==
  /\ lastResult' = "error"
  /\ Refresh(now, interval)
  /\ UNCHANGED <<names, disk, interval, now, failures>>

SyncFails(s) ==
  /\ s \in fetching
  /\ fetching' = fetching \ {s}
  /\ SyncError
  /\ UNCHANGED booted

-----------------------------------------------------------------------------
(* Who starts a sync: the background goroutine, once after the start and   *)
(* then when its ticker finds one due, and the panel.  Without a key in    *)
(* the pool the sync fails at once.                                        *)

Begin(s) ==
  \/ /\ fetching' = fetching \cup {s}
     /\ UNCHANGED <<names, disk, interval, status, now, failures>>
  \/ SyncError /\ UNCHANGED fetching

FirstSync ==
  /\ ~booted
  /\ booted' = TRUE
  /\ Begin("ticker")

TickerSync ==
  /\ booted /\ "ticker" \notin fetching
  /\ Due
  /\ Begin("ticker")
  /\ UNCHANGED booted

PanelSync(s) ==
  /\ s \notin fetching \cup {"ticker"}
  /\ Begin(s)
  /\ UNCHANGED booted

(* The settings form of the panel.                                         *)
SetInterval(h) ==
  /\ interval' = h
  /\ Refresh(lastSync, h)
  /\ UNCHANGED <<names, disk, lastResult, now, fetching, booted, failures>>

Tick ==
  /\ now < MaxTime
  /\ now' = now + 1
  /\ UNCHANGED <<names, disk, interval, status, fetching, booted, failures>>

(* NewModelStore: the built-in models, then what models.json adds to them  *)
(* unless it cannot be read.  The interval is kept in config.json; the     *)
(* status is not kept.                                                     *)
Restart ==
  /\ \E bs \in Indexed(NoShort, Builtin) :
       \/ /\ registry' = Builtin \cup disk.ids
          /\ byShort' \in Indexed(bs, disk.ids \ Builtin)
          /\ UNCHANGED failures
       \/ /\ failures < MaxFailures
          /\ failures' = failures + 1
          /\ registry' = Builtin
          /\ byShort' = bs
  /\ lastSync' = 0 /\ nextSyncIn' = -1 /\ lastResult' = ""
  /\ fetching' = {}
  /\ booted' = FALSE
  /\ UNCHANGED <<disk, interval, now>>

Init ==
  /\ registry = Builtin
  /\ byShort \in Indexed(NoShort, Builtin)
  /\ disk = File({})
  /\ interval \in Intervals
  /\ lastSync = 0 /\ nextSyncIn = -1 /\ lastResult = ""
  /\ now = 1
  /\ fetching = {}
  /\ booted = FALSE
  /\ failures = 0

Next ==
  \/ FirstSync \/ TickerSync
  \/ \E s \in Syncs : PanelSync(s) \/ SyncFails(s)
  \/ \E s \in Syncs, entries \in SUBSET Models \ {{}} : SyncSucceeds(s, entries)
  \/ \E h \in Intervals : SetInterval(h)
  \/ Tick \/ Restart

Spec == Init /\ [][Next]_vars

-----------------------------------------------------------------------------
TypeOK ==
  /\ registry \in SUBSET Models
  /\ byShort \in [Names -> Models \cup {None}]
  /\ disk \in [torn : BOOLEAN, ids : SUBSET Models]
  /\ interval \in Intervals
  /\ lastSync \in Nat /\ nextSyncIn \in Nat \cup {-1}
  /\ lastResult \in {"", "ok", "error"}
  /\ now \in Nat
  /\ fetching \subseteq Syncs
  /\ booted \in BOOLEAN
  /\ failures \in Nat

(* Every model of the registry can be asked for by its short name: it      *)
(* resolves to a model of the registry with that very short name, in       *)
(* whatever order syncs and restarts indexed them (models.go:67-76,        *)
(* 112-126).                                                               *)
ShortNamesResolve ==
  \A m \in registry :
     LET r == Resolve(Short[m])
     IN r \in registry /\ (r = Short[m] \/ Short[r] = Short[m])

(* What a client could name keeps its name's meaning through every later   *)
(* sync, whatever part of the list that sync brought, and through every    *)
(* restart: the name stands for the same model, or for another one that    *)
(* has that very name (models.go:178-199, 67-76).  Only a restart may take *)
(* the name away, and only once models.json could not be read or written   *)
(* (models.go:78-82, 222-224).                                             *)
NamesKeepResolving ==
  [][\A n \in Models \cup Names :
       Resolve(n) # None =>
         \/ Resolve(n)' = Resolve(n)
         \/ \E m \in registry' : Resolve(n)' = m /\ n \in {m, Short[m]}
         \/ Restart /\ failures' > 0]_vars

(* Until models.json could not be read or written, a restart finds every   *)
(* model that any sync has brought (models.go:204-225).                    *)
ModelsSurvive == failures = 0 => registry = Builtin \cup disk.ids

(* The ticker never syncs early, and never when the operator has switched  *)
(* the interval off (models.go:151-165, 235-239).                          *)
NeverEarly == Due => interval > 0 /\ lastSync > 0 /\ now >= lastSync + interval

(* "Due reports whether a periodic sync is due" (models.go:234): once the  *)
(* interval has passed since the last sync, it does.                       *)
DueWhenElapsed ==
  interval > 0 /\ lastSync > 0 /\ now >= lastSync + interval => Due
=============================================================================
