------------------------ MODULE ModelRegistry_proofs ------------------------
(***************************************************************************)
(* The names and the schedule of the model registry, for any models, short *)
(* names, intervals and number of concurrent syncs.                        *)
(***************************************************************************)
EXTENDS ModelRegistry, TLAPS

(* The table of short names holds models of the registry under their own   *)
(* short name, and one for every model whose short name is not its id.     *)
Sound(bs, models) ==
  \A n \in Names : bs[n] # None => bs[n] \in models /\ Short[bs[n]] = n
Complete(bs, models) == \A m \in models : Short[m] # m => bs[Short[m]] # None

NamesInv == Builtin \subseteq registry /\ Sound(byShort, registry) /\ Complete(byShort, registry)

IInv == TypeOK /\ NamesInv /\ ModelsSurvive /\ NeverEarly

-----------------------------------------------------------------------------
(* index() keeps the table sound and makes it complete for the new models. *)
LEMMA IndexedKeeps ==
  ASSUME NEW bs \in [Names -> Models \cup {None}],
         NEW models \in SUBSET Models, NEW new \in SUBSET Models,
         Sound(bs, models), Complete(bs, models), NEW ix \in Indexed(bs, new)
  PROVE  /\ ix \in [Names -> Models \cup {None}]
         /\ Sound(ix, models \cup new) /\ Complete(ix, models \cup new)
<1> USE RegistryAssumption
<1> DEFINE for(n) == {m \in new : Short[m] = n /\ m # n}
           entered == {n \in Names : for(n) # {}}
<1>1. PICK f \in [entered -> new] :
        /\ \A n \in entered : f[n] \in for(n)
        /\ ix = [n \in Names |-> IF n \in entered THEN f[n] ELSE bs[n]]
  BY DEF Indexed
<1>2. \A n \in entered : f[n] \in new /\ Short[f[n]] = n /\ f[n] # None
  BY <1>1
<1>3. \A m \in new : Short[m] # m => Short[m] \in entered
  BY DEF Names
<1>4. \A m \in models : Short[m] \in Names
  BY DEF Names
<1> HIDE DEF entered
<1>5. entered \subseteq Names
  BY DEF entered
<1>6. \A n \in Names : ix[n] = IF n \in entered THEN f[n] ELSE bs[n]
  BY <1>1
<1>7. ix \in [Names -> Models \cup {None}]
  BY <1>1, <1>2
<1>8. Sound(ix, models \cup new)
  BY <1>2, <1>6 DEF Sound
<1>9. Complete(ix, models \cup new)
  BY <1>2, <1>3, <1>4, <1>5, <1>6 DEF Complete
<1>10. QED
  BY <1>7, <1>8, <1>9

LEMMA NoShortFits ==
  /\ NoShort \in [Names -> Models \cup {None}]
  /\ Sound(NoShort, {}) /\ Complete(NoShort, {})
BY DEF NoShort, Sound, Complete

LEMMA BuiltinIndexed ==
  ASSUME NEW bs \in Indexed(NoShort, Builtin)
  PROVE  /\ bs \in [Names -> Models \cup {None}]
         /\ Sound(bs, Builtin) /\ Complete(bs, Builtin)
<1>1. {} \in SUBSET Models /\ Builtin \in SUBSET Models /\ {} \cup Builtin = Builtin
  BY RegistryAssumption
<1> DEFINE Fits(models) == /\ bs \in [Names -> Models \cup {None}]
                           /\ Sound(bs, models) /\ Complete(bs, models)
<1>2. Fits({} \cup Builtin)
  BY <1>1, NoShortFits, IndexedKeeps
<1> HIDE DEF Fits
<1>3. Fits(Builtin)
  BY <1>1, <1>2
<1>4. QED
  BY <1>3 DEF Fits

(* What can be named: the models of the registry, by id or short name.     *)
LEMMA Resolvable ==
  ASSUME TypeOK, NamesInv, NEW n \in Models \cup Names
  PROVE  Resolve(n) # None <=> n \in registry \/ \E m \in registry : Short[m] = n
<1> USE RegistryAssumption
<1>1. CASE n \in registry
  BY <1>1 DEF Resolve, TypeOK
<1>2. CASE n \notin registry /\ n \in Names
  BY <1>2 DEF Resolve, TypeOK, NamesInv, Sound, Complete
<1>3. CASE n \notin registry /\ n \notin Names
  BY <1>3 DEF Resolve, TypeOK, Names
<1>4. QED
  BY <1>1, <1>2, <1>3

-----------------------------------------------------------------------------
LEMMA MinusOne == -1 # 0
OBVIOUS

LEMMA InitHolds == Init => IInv
<1> SUFFICES ASSUME Init PROVE IInv
  OBVIOUS
<1> USE RegistryAssumption
<1>1. /\ byShort \in [Names -> Models \cup {None}]
      /\ Sound(byShort, Builtin) /\ Complete(byShort, Builtin)
  BY BuiltinIndexed DEF Init
<1>2. /\ interval \in Nat /\ File({}) \in [torn : BOOLEAN, ids : SUBSET Models]
      /\ File({}).ids = {}
  BY DEF Init, File
<1>3. TypeOK
  BY <1>1, <1>2 DEF Init, TypeOK
<1>4. NamesInv
  BY <1>1 DEF Init, NamesInv
<1>5. ModelsSurvive
  BY <1>2 DEF Init, ModelsSurvive
<1>6. NeverEarly
  BY MinusOne DEF Init, NeverEarly, Due
<1>7. QED
  BY <1>3, <1>4, <1>5, <1>6 DEF IInv

(* The status after a sync or a change of the interval.                    *)
LEMMA RefreshKeeps ==
  ASSUME now \in Nat, UNCHANGED now, NEW last \in Nat, NEW hours \in Nat,
         interval' = hours, Refresh(last, hours)
  PROVE  lastSync' \in Nat /\ nextSyncIn' \in Nat \cup {-1} /\ NeverEarly'
<1>1. lastSync' = last
  BY DEF Refresh
<1>2. CASE hours = 0 \/ last = 0
  BY <1>1, <1>2 DEF Refresh, NeverEarly, Due
<1>3. CASE hours # 0 /\ last # 0 /\ last + hours > now
  BY <1>1, <1>3 DEF Refresh, NeverEarly, Due
<1>4. CASE hours # 0 /\ last # 0 /\ ~(last + hours > now)
  BY <1>1, <1>4 DEF Refresh, NeverEarly, Due
<1>5. QED
  BY <1>2, <1>3, <1>4

(* A step that leaves the names and the file as they are.                  *)
LEMMA NamesUnchanged ==
  ASSUME IInv, UNCHANGED <<names, disk, failures>>
  PROVE  NamesInv' /\ ModelsSurvive'
BY DEF IInv, NamesInv, ModelsSurvive, names, Sound, Complete

LEMMA SyncErrorKeeps ==
  ASSUME IInv, SyncError, fetching' \subseteq Syncs, booted' \in BOOLEAN
  PROVE  IInv'
<1>1. UNCHANGED <<names, disk, interval, now, failures>> /\ lastResult' = "error"
  BY DEF SyncError
<1>2. lastSync' \in Nat /\ nextSyncIn' \in Nat \cup {-1} /\ NeverEarly'
  BY <1>1, RefreshKeeps, RegistryAssumption DEF SyncError, IInv, TypeOK
<1>3. TypeOK'
  BY <1>1, <1>2 DEF IInv, TypeOK, names
<1>4. QED
  BY <1>1, <1>2, <1>3, NamesUnchanged DEF IInv

LEMMA SyncSucceedsKeeps ==
  ASSUME IInv, NEW s \in Syncs, NEW entries \in SUBSET Models, SyncSucceeds(s, entries)
  PROVE  IInv' /\ registry \subseteq registry'
<1> USE RegistryAssumption
<1>1. /\ registry' = registry \cup entries /\ UNCHANGED <<interval, now, booted>>
      /\ byShort' \in Indexed(byShort, entries \ registry)
      /\ fetching' = fetching \ {s} /\ lastResult' = "ok"
  BY DEF SyncSucceeds, Merge
<1>2. PICK r : r = registry \cup (entries \ registry)
  OBVIOUS
<1>3. /\ byShort' \in [Names -> Models \cup {None}]
      /\ Sound(byShort', registry') /\ Complete(byShort', registry')
  <2>1. /\ byShort' \in [Names -> Models \cup {None}]
        /\ Sound(byShort', r) /\ Complete(byShort', r)
    <3>1. /\ registry \in SUBSET Models /\ entries \ registry \in SUBSET Models
          /\ byShort \in [Names -> Models \cup {None}]
          /\ Sound(byShort, registry) /\ Complete(byShort, registry)
      BY DEF IInv, TypeOK, NamesInv
    <3>2. QED
      BY <1>1, <1>2, <3>1, IndexedKeeps
  <2>2. r = registry'
    BY <1>1, <1>2
  <2>3. QED
    BY <2>1, <2>2
<1>4. /\ disk' \in [torn : BOOLEAN, ids : SUBSET Models] /\ failures' \in Nat
      /\ failures' = 0 => disk' = File(registry')
  <2>1. registry' \in SUBSET Models
    BY <1>1 DEF IInv, TypeOK
  <2>2. CASE disk' = File(registry') /\ UNCHANGED failures
    <3>1. File(registry') \in [torn : BOOLEAN, ids : SUBSET Models]
      BY <2>1 DEF File
    <3>2. QED
      BY <2>2, <3>1 DEF IInv, TypeOK
  <2>3. CASE disk' \in {disk, Torn} /\ failures' = failures + 1
    <3>1. Torn \in [torn : BOOLEAN, ids : SUBSET Models]
      BY DEF Torn
    <3>2. failures \in Nat /\ disk \in [torn : BOOLEAN, ids : SUBSET Models]
      BY DEF IInv, TypeOK
    <3>3. QED
      BY <2>3, <3>1, <3>2
  <2>4. QED
    BY <2>2, <2>3 DEF SyncSucceeds, Persist
<1>5. lastSync' \in Nat /\ nextSyncIn' \in Nat \cup {-1} /\ NeverEarly'
  BY <1>1, RefreshKeeps DEF SyncSucceeds, IInv, TypeOK
<1>6. TypeOK'
  BY <1>1, <1>3, <1>4, <1>5 DEF IInv, TypeOK
<1>7. NamesInv'
  BY <1>1, <1>3 DEF IInv, NamesInv, Sound, Complete
<1>8. ModelsSurvive'
  BY <1>1, <1>4 DEF IInv, NamesInv, ModelsSurvive, File
<1>9. QED
  BY <1>1, <1>5, <1>6, <1>7, <1>8 DEF IInv

LEMMA RestartKeeps ==
  ASSUME IInv, Restart
  PROVE  IInv' /\ (registry \subseteq registry' \/ failures' > 0)
<1> USE RegistryAssumption
<1>0. lastResult' = ""
  BY DEF Restart
<1>1. /\ UNCHANGED <<disk, interval, now>>
      /\ lastSync' = 0 /\ nextSyncIn' = -1 /\ fetching' = {}
      /\ booted' = FALSE /\ disk.ids \in SUBSET Models /\ failures \in Nat
  BY DEF Restart, IInv, TypeOK
<1>2. NeverEarly'
  <2>1. nextSyncIn' # 0
    BY MinusOne DEF Restart
  <2>2. QED
    BY <2>1 DEF NeverEarly, Due
<1>3. PICK bs \in Indexed(NoShort, Builtin) :
        \/ /\ registry' = Builtin \cup disk.ids /\ UNCHANGED failures
           /\ byShort' \in Indexed(bs, disk.ids \ Builtin)
        \/ /\ failures' = failures + 1 /\ registry' = Builtin /\ byShort' = bs
  BY DEF Restart
<1>4. bs \in [Names -> Models \cup {None}] /\ Sound(bs, Builtin) /\ Complete(bs, Builtin)
  BY BuiltinIndexed
<1>5. CASE /\ registry' = Builtin \cup disk.ids /\ UNCHANGED failures
           /\ byShort' \in Indexed(bs, disk.ids \ Builtin)
  <2>1. PICK r : r = Builtin \cup (disk.ids \ Builtin)
    OBVIOUS
  <2>2. /\ byShort' \in [Names -> Models \cup {None}]
        /\ Sound(byShort', r) /\ Complete(byShort', r)
    <3>1. Builtin \in SUBSET Models /\ disk.ids \ Builtin \in SUBSET Models
      BY <1>1
    <3>2. QED
      BY <1>4, <1>5, <2>1, <3>1, IndexedKeeps
  <2>3. r = registry'
    BY <1>5, <2>1
  <2>4. TypeOK'
    BY <1>0, <1>1, <1>5, <2>2 DEF IInv, TypeOK
  <2>5. NamesInv'
    BY <1>5, <2>2, <2>3 DEF NamesInv, Sound, Complete
  <2>6. ModelsSurvive'
    BY <1>1, <1>5 DEF ModelsSurvive
  <2>7. registry \subseteq registry' \/ failures' > 0
    BY <1>1, <1>5 DEF IInv, ModelsSurvive
  <2>8. QED
    BY <1>2, <2>4, <2>5, <2>6, <2>7 DEF IInv
<1>6. CASE failures' = failures + 1 /\ registry' = Builtin /\ byShort' = bs
  <2>1. failures' \in Nat /\ failures' > 0
    BY <1>1, <1>6
  <2>2. TypeOK'
    <3>1. registry' \in SUBSET Models /\ byShort' \in [Names -> Models \cup {None}]
      BY <1>4, <1>6
    <3>2. QED
      BY <1>0, <1>1, <2>1, <3>1 DEF IInv, TypeOK
  <2>3. NamesInv'
    BY <1>4, <1>6 DEF NamesInv, Sound, Complete
  <2>4. ModelsSurvive'
    BY <2>1 DEF ModelsSurvive
  <2>5. QED
    BY <1>2, <2>1, <2>2, <2>3, <2>4 DEF IInv
<1>7. QED
  BY <1>3, <1>5, <1>6

(* Every step keeps the invariant, and no model leaves the registry but    *)
(* at a restart once a read or write has failed.                           *)
LEMMA StepKeeps ==
  ASSUME IInv, [Next]_vars
  PROVE  IInv' /\ (registry \subseteq registry' \/ (Restart /\ failures' > 0))
<1> DEFINE Goal == IInv' /\ (registry \subseteq registry' \/ (Restart /\ failures' > 0))
<1>1. ASSUME UNCHANGED <<names, disk, interval, status, now, failures>>,
             fetching' \subseteq Syncs, booted' \in BOOLEAN
      PROVE  Goal
  <2>1. TypeOK' /\ NeverEarly'
    BY <1>1 DEF IInv, TypeOK, NeverEarly, Due, names, status
  <2>2. QED
    BY <1>1, <2>1, NamesUnchanged DEF IInv, names
<1>2. ASSUME SyncError, fetching' \subseteq Syncs, booted' \in BOOLEAN
      PROVE  Goal
  BY <1>2, SyncErrorKeeps DEF SyncError, names
<1>3. ASSUME NEW s \in Syncs, Begin(s), booted' \in BOOLEAN PROVE Goal
  BY <1>1, <1>2, <1>3 DEF Begin, IInv, TypeOK
<1>4. CASE FirstSync \/ TickerSync
  BY <1>3, <1>4, RegistryAssumption DEF FirstSync, TickerSync, IInv, TypeOK
<1>5. ASSUME NEW s \in Syncs, PanelSync(s) PROVE Goal
  BY <1>3, <1>5 DEF PanelSync, IInv, TypeOK
<1>6. ASSUME NEW s \in Syncs, SyncFails(s) PROVE Goal
  BY <1>2, <1>6 DEF SyncFails, IInv, TypeOK
<1>7. ASSUME NEW s \in Syncs, NEW entries \in SUBSET Models, SyncSucceeds(s, entries)
      PROVE  Goal
  BY <1>7, SyncSucceedsKeeps
<1>8. ASSUME NEW h \in Intervals, SetInterval(h) PROVE Goal
  <2>1. /\ interval' = h /\ Refresh(lastSync, h)
        /\ UNCHANGED <<names, disk, lastResult, now, fetching, booted, failures>>
    BY <1>8 DEF SetInterval
  <2>2. lastSync' \in Nat /\ nextSyncIn' \in Nat \cup {-1} /\ NeverEarly'
    BY <2>1, RefreshKeeps, RegistryAssumption DEF IInv, TypeOK
  <2>3. TypeOK'
    BY <2>1, <2>2 DEF IInv, TypeOK, names
  <2>4. QED
    BY <2>1, <2>2, <2>3, NamesUnchanged DEF IInv, names
<1>9. CASE Tick
  <2>1. /\ now' = now + 1
        /\ UNCHANGED <<names, disk, interval, status, fetching, booted, failures>>
    BY <1>9 DEF Tick
  <2>2. interval \in Nat /\ lastSync \in Nat /\ now \in Nat
    BY RegistryAssumption DEF IInv, TypeOK
  <2>3. TypeOK'
    <3>1. now' \in Nat
      BY <2>1, <2>2
    <3>2. QED
      BY <2>1, <3>1 DEF IInv, TypeOK, names, status
  <2>4. NeverEarly'
    BY <2>1, <2>2 DEF IInv, NeverEarly, Due, status
  <2>5. QED
    BY <2>1, <2>3, <2>4, NamesUnchanged DEF IInv, names
<1>10. CASE Restart
  BY <1>10, RestartKeeps
<1>11. CASE UNCHANGED vars
  BY <1>1, <1>11 DEF vars, IInv, TypeOK
<1>12. QED
  BY <1>4, <1>5, <1>6, <1>7, <1>8, <1>9, <1>10, <1>11 DEF Next

(* The invariant holds in every reachable state.                           *)
THEOREM InvariantHolds == Spec => []IInv
<1>1. IInv /\ [Next]_vars => IInv'
  BY StepKeeps
<1>2. QED
  BY <1>1, InitHolds, PTL DEF Spec

(* Every variable keeps its type.                                          *)
THEOREM TypeCorrect == Spec => []TypeOK
<1>1. IInv => TypeOK
  BY DEF IInv
<1>2. QED
  BY <1>1, InvariantHolds, PTL

(* Every model of the registry can be asked for by its short name.         *)
THEOREM ShortNamesResolveHolds == Spec => []ShortNamesResolve
<1>1. IInv => ShortNamesResolve
  <2> SUFFICES ASSUME IInv, NEW m \in registry
               PROVE  /\ Resolve(Short[m]) \in registry
                      /\ Resolve(Short[m]) = Short[m] \/ Short[Resolve(Short[m])] = Short[m]
    BY DEF ShortNamesResolve
  <2>1. m \in Models /\ Short[m] \in Names
    BY DEF IInv, TypeOK, Names
  <2>2. CASE Short[m] \in registry
    BY <2>2 DEF Resolve
  <2>3. CASE Short[m] \notin registry
    BY <2>1, <2>3 DEF Resolve, IInv, NamesInv, Sound, Complete
  <2>4. QED
    BY <2>2, <2>3
<1>2. QED
  BY <1>1, InvariantHolds, PTL

(* Until a write fails, the file and the built-in list hold every model.   *)
THEOREM ModelsSurviveHolds == Spec => []ModelsSurvive
<1>1. IInv => ModelsSurvive
  BY DEF IInv
<1>2. QED
  BY <1>1, InvariantHolds, PTL

(* The ticker never syncs early, nor when the interval is off.             *)
THEOREM NeverEarlyHolds == Spec => []NeverEarly
<1>1. IInv => NeverEarly
  BY DEF IInv
<1>2. QED
  BY <1>1, InvariantHolds, PTL

(* A name keeps standing for its model, or for another one of that name,   *)
(* through every sync and restart, unless models.json failed before the    *)
(* restart or at it.                                                       *)
THEOREM NamesKeepResolvingHolds == Spec => NamesKeepResolving
<1> DEFINE Kept == \A n \in Models \cup Names :
                     Resolve(n) # None =>
                       \/ Resolve(n)' = Resolve(n)
                       \/ \E m \in registry' : Resolve(n)' = m /\ n \in {m, Short[m]}
                       \/ Restart /\ failures' > 0
<1>1. IInv /\ IInv' /\ [Next]_vars => [Kept]_vars
  <2> SUFFICES ASSUME IInv, IInv', [Next]_vars, NEW n \in Models \cup Names,
                      Resolve(n) # None, ~(Restart /\ failures' > 0)
               PROVE  \E m \in registry' : Resolve(n)' = m /\ n \in {m, Short[m]}
    OBVIOUS
  <2>1. registry \subseteq registry'
    BY StepKeeps
  <2>2. n \in registry \/ \E m \in registry : Short[m] = n
    BY Resolvable DEF IInv
  <2>3. Resolve(n)' # None
    <3>1. CASE n \in registry'
      BY <3>1, RegistryAssumption DEF Resolve, IInv, TypeOK
    <3>2. CASE n \notin registry'
      <4>1. PICK m \in registry' : Short[m] = n
        BY <2>1, <2>2, <3>2
      <4>2. n \in Names /\ m # n
        BY <3>2, <4>1 DEF Names, IInv, TypeOK
      <4>3. byShort'[n] # None
        BY <4>1, <4>2 DEF IInv, NamesInv, Complete
      <4>4. QED
        BY <3>2, <4>2, <4>3 DEF Resolve
    <3>3. QED
      BY <3>1, <3>2
  <2>4. Resolve(n)' \in registry' /\ n \in {Resolve(n)', Short[Resolve(n)']}
    <3>1. CASE n \in registry'
      BY <3>1 DEF Resolve
    <3>2. CASE n \notin registry'
      BY <2>3, <3>2 DEF Resolve, IInv, NamesInv, Sound
    <3>3. QED
      BY <3>1, <3>2
  <2>5. QED
    BY <2>4
<1>2. QED
  BY <1>1, InvariantHolds, PTL DEF Spec, NamesKeepResolving
=============================================================================
