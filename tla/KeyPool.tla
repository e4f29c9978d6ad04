------------------------------ MODULE KeyPool -------------------------------
(***************************************************************************)
(* The pool of upstream API keys of the provider proxy                     *)
(* (internal/keypool/keypool.go): round-robin selection, cooldown after an *)
(* error, automatic disabling, the operator's edits, and keys.json, which  *)
(* is written at once after an edit and at most every SaveInterval seconds *)
(* after a request.                                                        *)
(*                                                                         *)
(* Every method of KeyManager runs under one mutex, so each is one action. *)
(* The clock is discrete (the code compares whole Unix seconds) and        *)
(* bounded by MaxTime; the counters are bounded by MaxCount.               *)
(***************************************************************************)
EXTENDS Integers, Sequences, FiniteSets

CONSTANTS Keys,          \* API keys an operator may add
          None,          \* what GetNext returns when no key is available
          CooldownSec,   \* cooldown_seconds
          RecentWindow,  \* the 60 seconds of MarkError
          AutoDisable,   \* auto_disable.enabled
          RecoverThreshold, MinSamples, RatePercent,  \* auto_disable.*
          SaveInterval,  \* saveInterval, in seconds
          MaxTime,       \* bound: the clock
          MaxCount,      \* bound: requests and errors of a key
          MaxFailures    \* bound: reads and writes of keys.json that fail

ASSUME PoolAssumption ==
  /\ None \notin Keys
  /\ CooldownSec \in Nat \ {0} /\ RecentWindow \in Nat
  /\ AutoDisable \in BOOLEAN
  /\ RecoverThreshold \in Int /\ MinSamples \in Nat /\ RatePercent \in Nat
  /\ SaveInterval \in Nat
  /\ MaxTime \in Nat /\ MaxCount \in Nat /\ MaxFailures \in Nat

VARIABLES order,     \* km.keys: the order of the keys
          rec,       \* the state of each key (Fresh for one not in the pool)
          index,     \* km.index
          now,       \* the wall clock, in seconds
          dirty,     \* km.dirty
          lastSave,  \* km.lastSave
          disk,      \* keys.json
          failures,  \* reads and writes that failed so far
          picked     \* what the last GetNext returned

poolVars == <<order, rec>>
saveVars == <<dirty, lastSave, disk, failures>>
vars == <<order, rec, index, now, dirty, lastSave, disk, failures, picked>>

Reasons == {"", "manual", "5h_quota", "period_quota"}

Fresh == [enabled |-> TRUE, until |-> 0, requests |-> 0, errors |-> 0,
          reason |-> "", recovers |-> 0, escalation |-> 0]

(* keys.json: an image of the pool, or bytes json.Unmarshal rejects.       *)
Image(o, r) == [torn |-> FALSE, order |-> o, rec |-> r]
EmptyPool == Image(<<>>, [k \in Keys |-> Fresh])
Torn == [EmptyPool EXCEPT !.torn = TRUE]

InPool(k) == \E i \in 1 .. Len(order) : order[i] = k
IsCooling(r) == r.until > now
IsAvailable(r) == r.enabled /\ ~IsCooling(r) /\ r.reason = ""

-----------------------------------------------------------------------------
(* Persistence.                                                            *)

(* flush(): os.WriteFile truncates and writes in place, so a failed write  *)
(* may leave the old file or a torn one.  It leaves the dirty flag as its  *)
(* caller has it: raised by save(), untouched by the shutdown.             *)
Flush(flag) ==
  \/ /\ disk' = Image(order', rec')
     /\ lastSave' = now
     /\ dirty' = FALSE
     /\ UNCHANGED failures
  \/ /\ failures < MaxFailures
     /\ failures' = failures + 1
     /\ disk' \in {disk, Torn}
     /\ dirty' = flag
     /\ UNCHANGED lastSave

SaveCleanly(force) ==
  \/ /\ ~force /\ now - lastSave < SaveInterval
     /\ UNCHANGED saveVars
  \/ /\ force \/ now - lastSave >= SaveInterval
     /\ Flush(TRUE)
SaveSliding(force) ==
  \/ /\ ~force /\ now - lastSave < SaveInterval
     /\ dirty' = TRUE
     /\ lastSave' = now
     /\ UNCHANGED <<disk, failures>>
  \/ /\ force \/ now - lastSave >= SaveInterval
     /\ Flush(TRUE)
SaveThrottled(force) ==
  \/ /\ now - lastSave < SaveInterval
     /\ dirty' = TRUE
     /\ UNCHANGED <<lastSave, disk, failures>>
  \/ /\ now - lastSave >= SaveInterval
     /\ Flush(TRUE)
Save(force) ==
  \/ /\ ~force /\ now - lastSave < SaveInterval
     /\ dirty' = TRUE
     /\ UNCHANGED <<lastSave, disk, failures>>
  \/ /\ force \/ now - lastSave >= SaveInterval
     /\ Flush(TRUE)

(* load(): a file that is missing or cannot be parsed is an empty pool.    *)
Load(d) == IF d.torn THEN EmptyPool ELSE d

-----------------------------------------------------------------------------
(* The operator's edits (the panel's handlers).                            *)

AddKeyTwice(k) ==
  /\ Len(order) < Cardinality(Keys)
  /\ order' = Append(order, k)
  /\ rec' = [rec EXCEPT ![k] = Fresh]
  /\ Save(TRUE)
  /\ UNCHANGED <<index, now, picked>>
AddKey(k) ==
  /\ ~InPool(k)
  /\ order' = Append(order, k)
  /\ rec' = [rec EXCEPT ![k] = Fresh]
  /\ Save(TRUE)
  /\ UNCHANGED <<index, now, picked>>

RemoveKey(k) ==
  \E i \in 1 .. Len(order) :
    /\ order[i] = k
    /\ order' = SubSeq(order, 1, i - 1) \o SubSeq(order, i + 1, Len(order))
    /\ rec' = [rec EXCEPT ![k] = Fresh]
    /\ Save(TRUE)
    /\ UNCHANGED <<index, now, picked>>

(* The three cases of ToggleKey.                                           *)
Toggled(r) ==
  IF ~r.enabled \/ r.reason = "manual"
    THEN [r EXCEPT !.enabled = TRUE, !.reason = "", !.until = 0]
  ELSE IF r.reason # ""
    THEN [r EXCEPT !.reason = "", !.until = 0, !.escalation = 0]
  ELSE [r EXCEPT !.enabled = FALSE, !.reason = "manual"]

(* A method that updates one key of the pool and saves.                    *)
Update(k, r, force) ==
  /\ InPool(k)
  /\ rec' = [rec EXCEPT ![k] = r]
  /\ UNCHANGED <<order, index, now, picked>>
  /\ Save(force)

ToggleKey(k) == Update(k, Toggled(rec[k]), TRUE)

-----------------------------------------------------------------------------
(* The verdicts of requests, health probes and the restore scan.           *)

RestoreKey(k) ==
  Update(k, [rec[k] EXCEPT !.reason = "", !.until = 0, !.recovers = 0], TRUE)

MarkDisabledByQuota(k, reason) ==
  Update(k, [rec[k] EXCEPT !.reason = reason], TRUE)

MarkSuccessForgetful(k) ==
  /\ rec[k].requests < MaxCount
  /\ Update(k, [rec[k] EXCEPT !.requests = @ + 1,
                              !.until = IF IsCooling(rec[k]) THEN 0 ELSE @],
            FALSE)
MarkSuccessEnables(k) ==
  /\ rec[k].requests < MaxCount
  /\ Update(k, [rec[k] EXCEPT !.requests = @ + 1, !.enabled = TRUE,
                              !.until = IF IsCooling(rec[k]) THEN 0 ELSE @,
                              !.recovers = 0],
            FALSE)
MarkSuccessLifts(k) ==
  /\ rec[k].requests < MaxCount
  /\ Update(k, [rec[k] EXCEPT !.requests = @ + 1, !.reason = "",
                              !.until = IF IsCooling(rec[k]) THEN 0 ELSE @,
                              !.recovers = 0],
            FALSE)
MarkSuccess(k) ==
  /\ rec[k].requests < MaxCount
  /\ Update(k, [rec[k] EXCEPT !.requests = @ + 1,
                              !.until = IF IsCooling(rec[k]) THEN 0 ELSE @,
                              !.recovers = 0],
            FALSE)

Threshold == IF RecoverThreshold <= 0 THEN 3 ELSE RecoverThreshold

(* checkAutoDisable: enough recover-then-fail errors, or a high error rate *)
(* (errors per successful request, in per cent).                           *)
Disabled(r) ==
  LET escalation == IF r.reason = "5h_quota" THEN r.escalation + 1 ELSE 1
      requests == IF r.requests > 1 THEN r.requests ELSE 1
  IN IF ~AutoDisable THEN r
     ELSE IF r.recovers >= Threshold
       THEN [r EXCEPT !.escalation = escalation,
                      !.reason = IF escalation >= 2 THEN "period_quota"
                                                    ELSE "5h_quota"]
     ELSE IF r.errors >= MinSamples /\ 100 * r.errors > RatePercent * requests
       THEN [r EXCEPT !.reason = "period_quota"]
     ELSE r

RecentlyRecovered(r) == r.until > 0 /\ r.until - now < RecentWindow

MarkError(k) ==
  /\ rec[k].errors < MaxCount
  /\ Update(k, Disabled([rec[k] EXCEPT
                  !.errors = @ + 1,
                  !.until = now + CooldownSec,
                  !.recovers = IF RecentlyRecovered(rec[k]) THEN @ + 1 ELSE 0]),
            FALSE)

-----------------------------------------------------------------------------
(* Selection.                                                              *)

Available == {i \in 1 .. Len(order) : IsAvailable(rec[order[i]])}

(* available[km.index % len(available)]: the available key with that many  *)
(* available ones before it.                                               *)
GetNextOverAll ==
  /\ \/ /\ Available = {}
        /\ picked' = None
        /\ UNCHANGED index
     \/ /\ \E i \in Available :
             /\ Cardinality({j \in Available : j < i})
                  = index % Cardinality(Available)
             /\ picked' = order[i]
        /\ index' = (index + 1) % Len(order)
  /\ UNCHANGED <<order, rec, now, saveVars>>
GetNext ==
  /\ \/ /\ Available = {}
        /\ picked' = None
        /\ UNCHANGED index
     \/ /\ \E i \in Available :
             /\ Cardinality({j \in Available : j < i})
                  = index % Cardinality(Available)
             /\ picked' = order[i]
        /\ index' = (index + 1) % Cardinality(Available)
  /\ UNCHANGED <<order, rec, now, saveVars>>

-----------------------------------------------------------------------------
(* The clock, and the process around the pool.                             *)

Tick ==
  /\ now < MaxTime
  /\ now' = now + 1
  /\ UNCHANGED <<order, rec, index, saveVars, picked>>

(* Flush() of the shutdown handler, whatever the dirty flag says.          *)
FlushPool ==
  /\ UNCHANGED <<order, rec, index, now, picked>>
  /\ Flush(dirty)

(* The process ends (orderly or not) and NewKeyManager starts from what    *)
(* keys.json holds, or, when the file is there and cannot be read, from an *)
(* empty pool, which the next save writes over it.                         *)
Restart ==
  /\ \/ /\ order' = Load(disk).order
        /\ rec' = Load(disk).rec
        /\ UNCHANGED failures
     \/ /\ failures < MaxFailures
        /\ failures' = failures + 1
        /\ order' = <<>>
        /\ rec' = [k \in Keys |-> Fresh]
  /\ index' = 0
  /\ dirty' = FALSE
  /\ lastSave' = now
  /\ picked' = None
  /\ UNCHANGED <<now, disk>>

(* No keys.json yet, and the process started at a time of its own.         *)
Init ==
  /\ order = <<>>
  /\ rec = [k \in Keys |-> Fresh]
  /\ index = 0
  /\ now = 1
  /\ dirty = FALSE
  /\ lastSave = 1
  /\ disk = EmptyPool
  /\ failures = 0
  /\ picked = None

Next ==
  \/ \E k \in Keys :
       \/ AddKey(k) \/ RemoveKey(k) \/ ToggleKey(k)
       \/ RestoreKey(k) \/ MarkDisabledByQuota(k, "5h_quota")
       \/ MarkSuccess(k) \/ MarkError(k)
  \/ GetNext \/ Tick \/ FlushPool \/ Restart

Spec == Init /\ [][Next]_vars

-----------------------------------------------------------------------------
KeyRecord == [enabled : BOOLEAN, until : Nat, requests : Nat, errors : Nat,
              reason : Reasons, recovers : Nat, escalation : Nat]

PoolImage == [torn : BOOLEAN, order : Seq(Keys), rec : [Keys -> KeyRecord]]

TypeOK ==
  /\ order \in Seq(Keys)
  /\ rec \in [Keys -> KeyRecord]
  /\ index \in Nat
  /\ now \in Nat
  /\ dirty \in BOOLEAN
  /\ lastSave \in Nat
  /\ disk \in PoolImage
  /\ failures \in Nat
  /\ picked \in Keys \cup {None}

(* A key is in the pool at most once, whatever was added, removed and      *)
(* reloaded: otherwise MarkError and MarkSuccess, which stop at the first  *)
(* match (keypool.go:260-279), would leave a copy that is never cooled.    *)
Distinct(o) == \A i, j \in 1 .. Len(o) : o[i] = o[j] => i = j
NoDuplicates == Distinct(order) /\ Distinct(disk.order)

(* A lowered dirty flag never stands over a stale file: reloading          *)
(* keys.json gives the pool as it is, every verdict and counter included   *)
(* (keypool.go:133-156).  Two things may stand under it all the same: a    *)
(* file cut off by a write that failed, since the shutdown's Flush() does  *)
(* not raise the flag (keypool.go:425-429), and, under an empty pool, a    *)
(* file that could not be read at the start (keypool.go:112-117).          *)
CleanMeansSaved ==
  ~dirty => Load(disk) = Image(order, rec) \/ disk.torn \/ order = <<>>

(* The throttle holds cooldowns back for one interval only: as long as no  *)
(* read or write has failed, a cooldown that a crash would lose or undo    *)
(* comes from an error less than SaveInterval seconds after the last write *)
(* (keypool.go:133-139, 264), whatever errors and successes of how many    *)
(* keys came since.                                                        *)
LossIsRecent ==
  failures = 0 =>
    \A k \in Keys :
      rec[k].until \notin {0, Load(disk).rec[k].until} =>
        LET t == rec[k].until - CooldownSec
        IN lastSave <= t /\ t < lastSave + SaveInterval

(* As long as no read or write has failed, a crash at any moment loses no  *)
(* edit of the operator, however recent: the keys in the pool, their       *)
(* order, and which are enabled (save(true), keypool.go:177, 196, 230).    *)
(* What the throttle holds back are the verdicts of requests.              *)
EditsSurvive ==
  failures = 0 =>
    /\ Load(disk).order = order
    /\ \A k \in Keys : Load(disk).rec[k].enabled = rec[k].enabled

(* A key the operator switched off is brought back by the operator only:   *)
(* no probe, restore scan, late verdict or throttled save enables it       *)
(* (keypool.go:204-235), since none but ToggleKey has that effect.  The    *)
(* one way around it is a restart after a write that failed: the file is   *)
(* then the one from before the switch.  A torn or unread file is none:    *)
(* the key is then gone until it is added again.                           *)
OffStaysOff ==
  [][\A k \in Keys :
       InPool(k) /\ ~rec[k].enabled /\ InPool(k)' /\ rec'[k].enabled =>
          ToggleKey(k) \/ (Restart /\ failures > 0)]_vars

(* The inductive invariant of the proofs.                                  *)
IInv == /\ TypeOK /\ NoDuplicates /\ CleanMeansSaved /\ EditsSurvive
        /\ LossIsRecent /\ lastSave <= now
        /\ failures = 0 => ~disk.torn
=============================================================================
