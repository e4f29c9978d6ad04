--------------------------- MODULE KeyProxy_proofs ---------------------------
(***************************************************************************)
(* The proxy around the key pool, for any number of requests, checks,      *)
(* scans and keys: what the pool promises it promises under the proxy too, *)
(* and what the verdicts of concurrent calls can do to it.                 *)
(***************************************************************************)
EXTENDS KeyProxy, KeyPool_proofs

Stages == {"new", "first", "limited", "second", "done"}
Answers == {"none", "ok", "noKeys", "limited", "refused", "failed"}

(* Up to the retry a request has used one key only.                        *)
RequestsOK ==
  /\ stage \in [Requests -> Stages]
  /\ first \in [Requests -> Keys \cup {None}]
  /\ usedKey \in [Requests -> Keys \cup {None}]
  /\ answer \in [Requests -> Answers]
  /\ \A r \in Requests :
       stage[r] \in {"first", "limited"} => usedKey[r] = first[r]

WalksOK ==
  /\ left \in [Walkers -> Seq(Keys) \cup {<<"new">>}]
  /\ probed \in [Walkers -> Keys \cup {None}]
  /\ stale \in [Walkers -> SUBSET Keys]

ProxyInv == IInv /\ RequestsOK /\ WalksOK

-----------------------------------------------------------------------------
LEMMA ProxyInitHolds == ProxyInit => ProxyInv
<1> SUFFICES ASSUME ProxyInit PROVE ProxyInv
  OBVIOUS
<1>1. PICK S \in SUBSET Keys : order \in SetToSeqs(S)
  BY DEF ProxyInit
<1>2. PICK n \in Nat : n = Cardinality(S)
  <2>1. IsFiniteSet(S)
    BY ProxyAssumption, FS_Subset
  <2>2. QED
    BY <2>1, FS_CardinalityType
<1>3. /\ order \in [1 .. n -> S]
      /\ \A i, j \in 1 .. n : i # j => order[i] # order[j]
  BY <1>1, <1>2 DEF SetToSeqs
<1>4. order \in Seq(Keys) /\ Len(order) = n
  BY <1>3
<1>5. Distinct(order)
  BY <1>3, <1>4 DEF Distinct
<1>6. rec \in [Keys -> KeyRecord]
  BY FreshType DEF ProxyInit
<1>7. disk \in PoolImage /\ disk.order = order /\ disk.rec = rec /\ ~disk.torn
  BY <1>4, <1>6, ImageType DEF ProxyInit
<1>8. Load(disk) = disk /\ disk = Image(order, rec)
  BY <1>7 DEF ProxyInit, Load
<1>9. IInv
  <2>1. TypeOK
    BY <1>4, <1>6, <1>7 DEF ProxyInit, TypeOK
  <2>2. NoDuplicates
    BY <1>5, <1>7 DEF NoDuplicates
  <2>3. CleanMeansSaved /\ EditsSurvive /\ LossIsRecent
    BY <1>7, <1>8 DEF CleanMeansSaved, EditsSurvive, LossIsRecent
  <2>4. lastSave <= now
    BY DEF ProxyInit
  <2>5. QED
    BY <1>7, <2>1, <2>2, <2>3, <2>4 DEF IInv
<1>10. RequestsOK
  BY DEF ProxyInit, RequestsOK, Stages, Answers
<1>11. WalksOK
  BY DEF ProxyInit, WalksOK
<1>12. QED
  BY <1>9, <1>10, <1>11 DEF ProxyInv

-----------------------------------------------------------------------------
(* To the pool, every step of the proxy is one of its own or none.         *)

LEMMA FinishPool ==
  ASSUME IInv, NEW r, NEW o, Finish(r, o)
  PROVE  [Next]_vars
<1> DEFINE k == usedKey[r]
<1>1. InPool(k) => k \in Keys
  BY Parts DEF InPool, PoolOK
<1>2. CASE Marked(MarkSuccess(k), k)
  BY <1>1, <1>2 DEF Marked, Next
<1>3. CASE Marked(MarkError(k), k)
  BY <1>1, <1>3 DEF Marked, Next
<1>4. QED
  BY <1>2, <1>3 DEF Finish

LEMMA RequestPool ==
  ASSUME IInv, NEW r \in Requests, RequestStep(r)
  PROVE  [Next]_vars /\ UNCHANGED walkVars
<1>1. CASE PickFirst(r) \/ PickSecond(r)
  BY <1>1 DEF PickFirst, PickSecond, Next
<1>2. ASSUME NEW o \in CallOutcomes, FirstAnswers(r, o)
      PROVE  [Next]_vars /\ UNCHANGED walkVars
  <2>1. CASE Finish(r, o)
    BY <1>2, <2>1, FinishPool DEF FirstAnswers
  <2>2. CASE Marked(MarkError(first[r]), first[r])
    <3>1. InPool(first[r]) => first[r] \in Keys
      BY Parts DEF InPool, PoolOK
    <3>2. QED
      BY <1>2, <2>2, <3>1 DEF FirstAnswers, Marked, Next
  <2>3. QED
    BY <1>2, <2>1, <2>2 DEF FirstAnswers
<1>3. ASSUME NEW o \in CallOutcomes, SecondAnswers(r, o)
      PROVE  [Next]_vars /\ UNCHANGED walkVars
  <2>1. CASE Finish(r, o)
    BY <1>3, <2>1, FinishPool DEF SecondAnswers
  <2>2. CASE UNCHANGED vars
    BY <1>3, <2>2 DEF SecondAnswers
  <2>3. QED
    BY <1>3, <2>1, <2>2 DEF SecondAnswers
<1>4. QED
  BY <1>1, <1>2, <1>3 DEF RequestStep

LEMMA WalkPool ==
  ASSUME NEW w \in Walkers, WalkStep(w)
  PROVE  [Next]_vars /\ UNCHANGED requestVars
<1>1. CASE WalkBegins(w) \/ Skip(w) \/ Probe(w)
  BY <1>1 DEF WalkBegins, Skip, Probe, Advance
<1>2. ASSUME NEW o \in ProbeOutcomes, NEW k \in Keys, CheckAnswers(w, o, k)
      PROVE  [Next]_vars /\ UNCHANGED requestVars
  BY <1>2 DEF CheckAnswers, Verdict, Marked, Next
<1>3. ASSUME NEW o \in ProbeOutcomes, NEW k \in Keys, ScanAnswers(w, o, k)
      PROVE  [Next]_vars /\ UNCHANGED requestVars
  BY <1>3 DEF ScanAnswers, Verdict, Marked, Next
<1>4. QED
  BY <1>1, <1>2, <1>3 DEF WalkStep

LEMMA AroundPool == Around => Next /\ UNCHANGED requestVars
BY DEF Around, Next

-----------------------------------------------------------------------------
(* The requests and the walkers.                                           *)

LEMMA RequestKeeps ==
  ASSUME ProxyInv, IInv', NEW r \in Requests, RequestStep(r)
  PROVE  RequestsOK'
<1>1. picked' \in Keys \cup {None}
  BY DEF IInv, TypeOK
<1>2. ASSUME NEW a \in Answers, Answer(r, a)
      PROVE  RequestsOK'
  BY <1>2 DEF ProxyInv, RequestsOK, Stages, Answers, Answer
<1>3. ASSUME NEW o, Finish(r, o)
      PROVE  RequestsOK'
  <2>1. PICK a \in Answers : Answer(r, a)
    BY <1>3 DEF Finish, Answers
  <2>2. QED
    BY <1>2, <2>1
<1>4. CASE PickFirst(r)
  <2>1. CASE Answer(r, "noKeys")
    BY <1>2, <2>1 DEF Answers
  <2>2. CASE /\ Call(r, "first", picked') /\ first' = [first EXCEPT ![r] = picked']
    BY <1>1, <2>2 DEF ProxyInv, RequestsOK, Stages, Call
  <2>3. QED
    BY <1>4, <2>1, <2>2 DEF PickFirst
<1>5. CASE PickSecond(r)
  <2>1. CASE Answer(r, "limited")
    BY <1>2, <2>1 DEF Answers
  <2>2. CASE /\ picked' # first[r] /\ Call(r, "second", picked') /\ UNCHANGED first
    BY <1>1, <2>2 DEF ProxyInv, RequestsOK, Stages, Call
  <2>3. QED
    BY <1>5, <2>1, <2>2 DEF PickSecond
<1>6. ASSUME NEW o \in CallOutcomes, FirstAnswers(r, o)
      PROVE  RequestsOK'
  <2>1. CASE Finish(r, o)
    BY <1>3, <2>1
  <2>2. CASE /\ stage[r] = "first" /\ stage' = [stage EXCEPT ![r] = "limited"]
             /\ UNCHANGED <<first, usedKey, answer>>
    BY <2>2 DEF ProxyInv, RequestsOK, Stages
  <2>3. QED
    BY <1>6, <2>1, <2>2 DEF FirstAnswers
<1>7. ASSUME NEW o \in CallOutcomes, SecondAnswers(r, o)
      PROVE  RequestsOK'
  BY <1>2, <1>3, <1>7 DEF SecondAnswers, Answers
<1>8. QED
  BY <1>4, <1>5, <1>6, <1>7 DEF RequestStep

LEMMA WalkKeeps ==
  ASSUME ProxyInv, NEW w \in Walkers, WalkStep(w)
  PROVE  WalksOK'
<1> USE DEF ProxyInv, WalksOK
<1>0. order \in Seq(Keys)
  BY Parts DEF PoolOK
<1>1. Walking(w) => /\ left[w] \in Seq(Keys) /\ left[w] # <<>>
                    /\ Head(left[w]) \in Keys /\ Tail(left[w]) \in Seq(Keys)
  <2> SUFFICES ASSUME Walking(w)
               PROVE  /\ left[w] \in Seq(Keys) /\ left[w] # <<>>
                      /\ Head(left[w]) \in Keys /\ Tail(left[w]) \in Seq(Keys)
    OBVIOUS
  <2>1. left[w] \in Seq(Keys) /\ left[w] # <<>>
    BY DEF Walking
  <2>2. QED
    BY <2>1, HeadTailProperties
<1>2. CASE WalkBegins(w)
  BY <1>0, <1>2 DEF WalkBegins
<1>3. CASE Skip(w)
  BY <1>1, <1>3 DEF Skip, Advance
<1>4. CASE Probe(w)
  BY <1>1, <1>4 DEF Probe, Advance
<1>5. ASSUME NEW o, NEW k, Verdict(w, o, k)
      PROVE  WalksOK'
  BY <1>5 DEF Verdict
<1>6. QED
  BY <1>2, <1>3, <1>4, <1>5 DEF WalkStep, CheckAnswers, ScanAnswers

LEMMA AroundKeeps == WalksOK /\ Around => WalksOK'
BY DEF WalksOK, Around, Outdated

LEMMA RequestsStay == RequestsOK /\ UNCHANGED requestVars => RequestsOK'
BY DEF RequestsOK, requestVars

LEMMA WalksStay == WalksOK /\ UNCHANGED walkVars => WalksOK'
BY DEF WalksOK, walkVars

LEMMA ProxyStepKeeps == ProxyInv /\ [ProxyNext]_proxyVars => ProxyInv' /\ [Next]_vars
<1> SUFFICES ASSUME ProxyInv, [ProxyNext]_proxyVars PROVE ProxyInv' /\ [Next]_vars
  OBVIOUS
<1>0. ProxyInv <=> IInv /\ RequestsOK /\ WalksOK
  BY DEF ProxyInv
<1>1. ASSUME [Next]_vars PROVE IInv'
  BY <1>0, <1>1, NextInv
<1>2. (IInv /\ RequestsOK /\ WalksOK)' => ProxyInv'
  BY DEF ProxyInv
<1>3. ASSUME NEW r \in Requests, RequestStep(r) PROVE ProxyInv' /\ [Next]_vars
  BY <1>0, <1>1, <1>2, <1>3, RequestPool, RequestKeeps, WalksStay
<1>4. ASSUME NEW w \in Walkers, WalkStep(w) PROVE ProxyInv' /\ [Next]_vars
  BY <1>0, <1>1, <1>2, <1>4, WalkPool, WalkKeeps, RequestsStay
<1>5. CASE Around
  BY <1>0, <1>1, <1>2, <1>5, AroundPool, AroundKeeps, RequestsStay
<1>6. CASE UNCHANGED proxyVars
  <2>1. UNCHANGED vars /\ UNCHANGED requestVars /\ UNCHANGED walkVars
    BY <1>6 DEF proxyVars
  <2>2. QED
    BY <1>0, <1>1, <1>2, <2>1, RequestsStay, WalksStay
<1>7. QED
  BY <1>3, <1>4, <1>5, <1>6 DEF ProxyNext

(* The invariant of the proxy holds in every reachable state.              *)
THEOREM ProxyInvariantHolds == ProxySpec => []ProxyInv
<1>1. ProxyInv /\ [ProxyNext]_proxyVars => ProxyInv'
  BY ProxyStepKeeps
<1>2. QED
  BY <1>1, ProxyInitHolds, PTL DEF ProxySpec

(* The proxy, its probes and scans use the pool only through its methods:  *)
(* every step is one of the pool's own or leaves the pool alone.           *)
THEOREM ProxyUsesThePool == ProxySpec => [][Next]_vars
<1>1. ProxyInv /\ [ProxyNext]_proxyVars => [Next]_vars
  BY ProxyStepKeeps
<1>2. QED
  BY <1>1, ProxyInvariantHolds, PTL DEF ProxySpec

(* So what a crash may cost under concurrent requests is what the pool     *)
(* alone promises, and no key is ever in it twice.                         *)
THEOREM PoolPromisesHold ==
  ProxySpec => [](NoDuplicates /\ CleanMeansSaved /\ LossIsRecent /\ EditsSurvive)
<1>1. ProxyInv => NoDuplicates /\ CleanMeansSaved /\ LossIsRecent /\ EditsSurvive
  BY DEF ProxyInv, IInv
<1>2. QED
  BY <1>1, ProxyInvariantHolds, PTL

(* Every variable of the proxy keeps its type.                             *)
THEOREM ProxyTypeCorrect == ProxySpec => []ProxyTypeOK
<1>1. ProxyInv => ProxyTypeOK
  BY DEF ProxyInv, IInv, RequestsOK, WalksOK, ProxyTypeOK, Stages, Answers
<1>2. QED
  BY <1>1, ProxyInvariantHolds, PTL

-----------------------------------------------------------------------------
(* What the pool's methods do to a key's counters and to the reason it is  *)
(* disabled for.                                                           *)

Quota == {"5h_quota", "period_quota"}

Uncounted(k) == rec'[k].errors <= rec[k].errors /\ rec'[k].requests <= rec[k].requests
Held(k) == rec[k].reason \in Quota => rec'[k].reason \in Quota

LEMMA UpdateEffect ==
  ASSUME IInv, NEW l, NEW r, NEW force, Update(l, r, force), NEW k \in Keys
  PROVE  rec'[k] = IF k = l THEN r ELSE rec[k]
<1>1. rec \in [Keys -> KeyRecord]
  BY Parts DEF PoolOK
<1>2. QED
  BY <1>1 DEF Update

LEMMA RecordFacts ==
  ASSUME IInv, NEW k \in Keys
  PROVE  /\ rec[k] \in KeyRecord /\ rec[k].errors \in Nat /\ rec[k].requests \in Nat
         /\ (rec'[k] = rec[k] => Uncounted(k) /\ Held(k))
<1>1. rec[k] \in KeyRecord
  BY Parts DEF PoolOK
<1>2. QED
  BY <1>1 DEF KeyRecord, Uncounted, Held

LEMMA DisabledEffect ==
  ASSUME NEW r \in KeyRecord
  PROVE  /\ Disabled(r).requests = r.requests
         /\ Disabled(r).reason \in {r.reason} \cup Quota
<1> DEFINE e == IF r.reason = "5h_quota" THEN r.escalation + 1 ELSE 1
<1>1. PICK x : x = e
  OBVIOUS
<1>2. r.requests \in Nat
  BY DEF KeyRecord
<1>3. QED
  BY <1>1, <1>2 DEF Disabled, Quota, KeyRecord

LEMMA SuccessEffect ==
  ASSUME IInv, NEW l \in Keys, MarkSuccess(l), NEW k \in Keys
  PROVE  /\ Held(k) /\ rec'[k].errors <= rec[k].errors
         /\ k # l => Uncounted(k)
<1>1. PICK until : until = IF IsCooling(rec[l]) THEN 0 ELSE rec[l].until
  OBVIOUS
<1>2. Update(l, [rec[l] EXCEPT !.requests = rec[l].requests + 1, !.until = until,
                               !.recovers = 0], FALSE)
  BY <1>1 DEF MarkSuccess
<1>3. rec'[k] = IF k = l THEN [rec[l] EXCEPT !.requests = rec[l].requests + 1,
                                             !.until = until, !.recovers = 0] ELSE rec[k]
  BY <1>2, UpdateEffect
<1>4. CASE k = l
  <2>1. rec'[k].reason = rec[k].reason /\ rec'[k].errors = rec[k].errors
    BY <1>3, <1>4, RecordFacts DEF KeyRecord
  <2>2. QED
    BY <1>4, <2>1, RecordFacts DEF Held
<1>5. CASE k # l
  BY <1>3, <1>5, RecordFacts DEF Uncounted
<1>6. QED
  BY <1>4, <1>5

LEMMA ErrorEffect ==
  ASSUME IInv, NEW l \in Keys, MarkError(l), NEW k \in Keys
  PROVE  /\ Held(k) /\ rec'[k].requests <= rec[k].requests
         /\ k # l => Uncounted(k)
<1>1. PICK recovers \in Nat :
        recovers = IF RecentlyRecovered(rec[l]) THEN rec[l].recovers + 1 ELSE 0
  BY RecordFacts DEF KeyRecord
<1>2. PICK r : r = [rec[l] EXCEPT !.errors = rec[l].errors + 1,
                                  !.until = now + CooldownSec, !.recovers = recovers]
  OBVIOUS
<1>3. Update(l, Disabled(r), FALSE)
  BY <1>1, <1>2 DEF MarkError
<1>4. r \in KeyRecord /\ r.requests = rec[l].requests /\ r.reason = rec[l].reason
  <2>1. now + CooldownSec \in Nat
    BY Parts, PoolAssumption
  <2>2. rec[l] \in KeyRecord /\ rec[l].errors + 1 \in Nat
    BY RecordFacts
  <2>3. QED
    BY <1>1, <1>2, <2>1, <2>2 DEF KeyRecord
<1>5. rec'[k] = IF k = l THEN Disabled(r) ELSE rec[k]
  BY <1>3, UpdateEffect
<1>6. CASE k = l
  <2>1. /\ rec'[k].requests = rec[k].requests
        /\ rec'[k].reason \in {rec[k].reason} \cup Quota
    BY <1>4, <1>5, <1>6, DisabledEffect
  <2>2. QED
    BY <1>6, <2>1, RecordFacts DEF Held
<1>7. CASE k # l
  BY <1>5, <1>7, RecordFacts DEF Uncounted
<1>8. QED
  BY <1>6, <1>7

LEMMA OtherEffect ==
  ASSUME IInv, NEW l \in Keys, NEW k \in Keys
  PROVE  /\ MarkDisabledByQuota(l, "5h_quota") => Uncounted(k) /\ Held(k)
         /\ RestoreKey(l) => Uncounted(k)
         /\ ToggleKey(l) => Uncounted(k) /\ (Held(k) \/ k = l)
<1> USE RecordFacts
<1>1. ASSUME MarkDisabledByQuota(l, "5h_quota") PROVE Uncounted(k) /\ Held(k)
  <2>1. rec'[k] = IF k = l THEN [rec[l] EXCEPT !.reason = "5h_quota"] ELSE rec[k]
    BY <1>1, UpdateEffect DEF MarkDisabledByQuota
  <2>2. QED
    BY <2>1 DEF Uncounted, Held, Quota, KeyRecord
<1>2. ASSUME RestoreKey(l) PROVE Uncounted(k)
  <2>1. rec'[k] = IF k = l THEN [rec[l] EXCEPT !.reason = "", !.until = 0, !.recovers = 0]
                           ELSE rec[k]
    BY <1>2, UpdateEffect DEF RestoreKey
  <2>2. QED
    BY <2>1 DEF Uncounted, KeyRecord
<1>3. ASSUME ToggleKey(l) PROVE Uncounted(k) /\ (Held(k) \/ k = l)
  <2>1. rec'[k] = IF k = l THEN Toggled(rec[l]) ELSE rec[k]
    BY <1>3, UpdateEffect DEF ToggleKey
  <2>2. /\ Toggled(rec[l]).errors = rec[l].errors
        /\ Toggled(rec[l]).requests = rec[l].requests
    BY DEF Toggled, KeyRecord
  <2>3. QED
    BY <2>1, <2>2 DEF Uncounted
<1>4. QED
  BY <1>1, <1>2, <1>3

LEMMA EditEffect ==
  ASSUME IInv, NEW l \in Keys, AddKey(l) \/ RemoveKey(l), NEW k \in Keys
  PROVE  Uncounted(k) /\ (Held(k) \/ ~InPool(k) \/ ~InPool(k)')
<1>1. order \in Seq(Keys) /\ Distinct(order) /\ rec \in [Keys -> KeyRecord]
  BY Parts DEF PoolOK
<1>2. rec'[k] = IF k = l THEN Fresh ELSE rec[k]
  BY <1>1 DEF AddKey, RemoveKey
<1>3. Fresh.errors = 0 /\ Fresh.requests = 0
  BY DEF Fresh
<1>4. Uncounted(k)
  BY <1>2, <1>3, RecordFacts DEF Uncounted
<1>5. CASE k # l
  BY <1>2, <1>4, <1>5, RecordFacts
<1>6. CASE k = l /\ AddKey(l)
  BY <1>4, <1>6 DEF AddKey
<1>7. CASE k = l /\ RemoveKey(l)
  BY <1>1, <1>4, <1>7, RemovedIsGone
<1>8. QED
  BY <1>5, <1>6, <1>7

-----------------------------------------------------------------------------
(* Who may have counted for a key, and who has lifted its quota.           *)

ErrorCounted(k) ==
  \/ \E r \in Requests : usedKey[r] = k /\
       (FirstAnswers(r, "429") \/ FirstAnswers(r, "auth") \/ SecondAnswers(r, "auth"))
  \/ \E w \in Checks : CheckAnswers(w, "429", k) \/ CheckAnswers(w, "auth", k)

SuccessCounted(k) ==
  \/ \E r \in Requests : usedKey[r] = k /\ (FirstAnswers(r, "ok") \/ SecondAnswers(r, "ok"))
  \/ \E w \in Checks : CheckAnswers(w, "ok", k)

Justified(k) ==
  /\ rec'[k].errors > rec[k].errors => ErrorCounted(k)
  /\ rec'[k].requests > rec[k].requests => SuccessCounted(k)

Lifted(k) ==
  /\ InPool(k) /\ InPool(k)'
  /\ rec[k].reason \in Quota /\ rec'[k].reason = ""
  => \/ ToggleKey(k)
     \/ \E w \in Scans : ScanAnswers(w, "ok", k)

LEMMA UncountedSuffices ==
  ASSUME IInv, IInv', NEW k \in Keys, Uncounted(k) PROVE Justified(k)
<1>1. /\ rec[k].errors \in Nat /\ rec'[k].errors \in Nat
      /\ rec[k].requests \in Nat /\ rec'[k].requests \in Nat
  BY DEF IInv, TypeOK, KeyRecord
<1>2. QED
  BY <1>1 DEF Uncounted, Justified

LEMMA HeldSuffices ==
  ASSUME NEW k, Held(k) PROVE Lifted(k)
BY DEF Held, Lifted, Quota

LEMMA MarkJustified ==
  ASSUME IInv, IInv', NEW l, NEW k \in Keys
  PROVE  /\ Marked(MarkSuccess(l), l) => /\ Held(k)
                                         /\ SuccessCounted(l) => Justified(k)
         /\ Marked(MarkError(l), l) => /\ Held(k)
                                       /\ ErrorCounted(l) => Justified(k)
         /\ UNCHANGED vars => Held(k) /\ Justified(k)
<1>1. InPool(l) => l \in Keys
  BY Parts DEF InPool, PoolOK
<1>2. /\ rec[k].errors \in Nat /\ rec'[k].errors \in Nat
      /\ rec[k].requests \in Nat /\ rec'[k].requests \in Nat
  BY DEF IInv, TypeOK, KeyRecord
<1>3. ASSUME UNCHANGED vars PROVE Held(k) /\ Justified(k)
  <2>1. rec'[k] = rec[k]
    BY <1>3 DEF vars
  <2>2. QED
    BY <2>1, RecordFacts, UncountedSuffices
<1>4. ASSUME InPool(l), MarkSuccess(l)
      PROVE  Held(k) /\ (SuccessCounted(l) => Justified(k))
  <2>1. Held(k) /\ rec'[k].errors <= rec[k].errors /\ (k # l => Uncounted(k))
    BY <1>1, <1>4, SuccessEffect
  <2>2. CASE k # l
    BY <2>1, <2>2, UncountedSuffices
  <2>3. CASE k = l
    BY <1>2, <2>1, <2>3 DEF Justified
  <2>4. QED
    BY <2>1, <2>2, <2>3
<1>5. ASSUME InPool(l), MarkError(l)
      PROVE  Held(k) /\ (ErrorCounted(l) => Justified(k))
  <2>1. Held(k) /\ rec'[k].requests <= rec[k].requests /\ (k # l => Uncounted(k))
    BY <1>1, <1>5, ErrorEffect
  <2>2. CASE k # l
    BY <2>1, <2>2, UncountedSuffices
  <2>3. CASE k = l
    BY <1>2, <2>1, <2>3 DEF Justified
  <2>4. QED
    BY <2>1, <2>2, <2>3
<1>6. QED
  BY <1>3, <1>4, <1>5 DEF Marked

LEMMA RequestJustified ==
  ASSUME ProxyInv, IInv', NEW r \in Requests, RequestStep(r), NEW k \in Keys
  PROVE  Justified(k) /\ Held(k)
<1>0. IInv
  BY DEF ProxyInv
<1>1. CASE PickFirst(r) \/ PickSecond(r)
  <2>1. rec' = rec
    BY <1>1 DEF PickFirst, PickSecond, GetNext
  <2>2. QED
    BY <1>0, <2>1, RecordFacts, UncountedSuffices
<1>2. ASSUME NEW o \in CallOutcomes, FirstAnswers(r, o), Finish(r, o)
      PROVE  Justified(k) /\ Held(k)
  <2>1. CASE o = "ok" /\ Marked(MarkSuccess(usedKey[r]), usedKey[r])
    BY <1>0, <1>2, <2>1, MarkJustified DEF SuccessCounted
  <2>2. CASE o = "auth" /\ Marked(MarkError(usedKey[r]), usedKey[r])
    BY <1>0, <1>2, <2>2, MarkJustified DEF ErrorCounted
  <2>3. CASE UNCHANGED vars
    BY <1>0, <2>3, MarkJustified
  <2>4. QED
    BY <1>2, <2>1, <2>2, <2>3 DEF Finish
<1>3. CASE FirstAnswers(r, "429")
  <2>1. usedKey[r] = first[r] /\ Marked(MarkError(first[r]), first[r])
    BY <1>3 DEF FirstAnswers, ProxyInv, RequestsOK
  <2>2. ErrorCounted(first[r])
    BY <1>3, <2>1 DEF ErrorCounted
  <2>3. QED
    BY <1>0, <2>1, <2>2, MarkJustified
<1>4. ASSUME NEW o \in CallOutcomes, SecondAnswers(r, o), Finish(r, o)
      PROVE  Justified(k) /\ Held(k)
  <2>1. CASE o = "ok" /\ Marked(MarkSuccess(usedKey[r]), usedKey[r])
    BY <1>0, <1>4, <2>1, MarkJustified DEF SuccessCounted
  <2>2. CASE o = "auth" /\ Marked(MarkError(usedKey[r]), usedKey[r])
    BY <1>0, <1>4, <2>2, MarkJustified DEF ErrorCounted
  <2>3. CASE UNCHANGED vars
    BY <1>0, <2>3, MarkJustified
  <2>4. QED
    BY <1>4, <2>1, <2>2, <2>3 DEF Finish
<1>5. CASE SecondAnswers(r, "429") /\ UNCHANGED vars
  BY <1>0, <1>5, MarkJustified
<1>6. \A o \in CallOutcomes : FirstAnswers(r, o) => Finish(r, o) \/ o = "429"
  BY DEF FirstAnswers
<1>7. \A o \in CallOutcomes :
        SecondAnswers(r, o) => Finish(r, o) \/ (o = "429" /\ UNCHANGED vars)
  BY DEF SecondAnswers
<1>8. QED
  BY <1>1, <1>2, <1>3, <1>4, <1>5, <1>6, <1>7 DEF RequestStep

LEMMA WalkJustified ==
  ASSUME IInv, IInv', NEW w \in Walkers, WalkStep(w), NEW k \in Keys
  PROVE  Justified(k) /\ Lifted(k)
<1> USE HeldSuffices
<1>1. CASE WalkBegins(w) \/ Skip(w) \/ Probe(w)
  <2>1. UNCHANGED vars
    BY <1>1 DEF WalkBegins, Skip, Probe
  <2>2. QED
    BY <2>1, MarkJustified
<1>2. ASSUME NEW o \in ProbeOutcomes, NEW l \in Keys, w \in Checks, CheckAnswers(w, o, l)
      PROVE  Justified(k) /\ Lifted(k)
  <2>1. CASE o = "ok" /\ Marked(MarkSuccess(l), l)
    BY <1>2, <2>1, MarkJustified DEF SuccessCounted
  <2>2. CASE o = "quota" /\ Marked(MarkDisabledByQuota(l, "5h_quota"), l)
    <3>1. CASE InPool(l)
      BY <2>2, <3>1, OtherEffect, UncountedSuffices DEF Marked
    <3>2. CASE ~InPool(l)
      BY <2>2, <3>2, MarkJustified DEF Marked
    <3>3. QED
      BY <3>1, <3>2
  <2>3. CASE o \in {"429", "auth"} /\ Marked(MarkError(l), l)
    <3>1. ErrorCounted(l)
      BY <1>2, <2>3 DEF ErrorCounted
    <3>2. QED
      BY <2>3, <3>1, MarkJustified
  <2>4. CASE UNCHANGED vars
    BY <2>4, MarkJustified
  <2>5. QED
    BY <1>2, <2>1, <2>2, <2>3, <2>4 DEF CheckAnswers
<1>3. ASSUME NEW o \in ProbeOutcomes, NEW l \in Keys, w \in Scans, ScanAnswers(w, o, l)
      PROVE  Justified(k) /\ Lifted(k)
  <2>1. CASE o = "ok" /\ InPool(l) /\ RestoreKey(l)
    <3>1. Justified(k)
      BY <2>1, OtherEffect, UncountedSuffices
    <3>2. CASE k = l
      BY <1>3, <2>1, <3>1, <3>2 DEF Lifted
    <3>3. CASE k # l
      <4>1. rec'[k] = rec[k]
        BY <2>1, <3>3, UpdateEffect DEF RestoreKey
      <4>2. QED
        BY <3>1, <4>1, RecordFacts
    <3>4. QED
      BY <3>2, <3>3
  <2>2. CASE UNCHANGED vars
    BY <2>2, MarkJustified
  <2>3. QED
    BY <1>3, <2>1, <2>2 DEF ScanAnswers, Marked
<1>4. QED
  BY <1>1, <1>2, <1>3 DEF WalkStep

LEMMA AroundJustified ==
  ASSUME IInv, IInv', Around, NEW k \in Keys
  PROVE  Justified(k) /\ Lifted(k)
<1>1. ASSUME NEW l \in Keys, AddKey(l) \/ RemoveKey(l)
      PROVE  Justified(k) /\ Lifted(k)
  <2>1. Uncounted(k) /\ (Held(k) \/ ~InPool(k) \/ ~InPool(k)')
    BY <1>1, EditEffect
  <2>2. Justified(k)
    BY <2>1, UncountedSuffices
  <2>3. CASE Held(k)
    BY <2>2, <2>3, HeldSuffices
  <2>4. CASE ~InPool(k) \/ ~InPool(k)'
    BY <2>2, <2>4 DEF Lifted
  <2>5. QED
    BY <2>1, <2>3, <2>4
<1>2. ASSUME NEW l \in Keys, ToggleKey(l)
      PROVE  Justified(k) /\ Lifted(k)
  <2>1. Uncounted(k) /\ (Held(k) \/ k = l)
    BY <1>2, OtherEffect
  <2>2. Justified(k)
    BY <2>1, UncountedSuffices
  <2>3. CASE k = l
    BY <1>2, <2>2, <2>3 DEF Lifted
  <2>4. QED
    BY <2>1, <2>2, <2>3, HeldSuffices
<1>3. CASE GetNext \/ Tick
  <2>1. rec' = rec
    BY <1>3 DEF GetNext, Tick
  <2>2. QED
    BY <2>1, RecordFacts, UncountedSuffices, HeldSuffices
<1>4. QED
  BY <1>1, <1>2, <1>3 DEF Around

LEMMA StepJustified ==
  ASSUME ProxyInv, ProxyInv', ProxyNext, NEW k \in Keys
  PROVE  Justified(k) /\ Lifted(k)
<1>1. IInv /\ IInv'
  BY DEF ProxyInv
<1>2. QED
  BY <1>1, RequestJustified, WalkJustified, AroundJustified, HeldSuffices DEF ProxyNext

(* A key's counters change only by the verdict of a call made with it.     *)
THEOREM VerdictsHitTheKeyCalled == ProxySpec => VerdictOnTheKeyCalled
<1>1. ProxyInv /\ ProxyInv' /\ [ProxyNext]_proxyVars => [\A k \in Keys : Justified(k)]_proxyVars
  BY StepJustified
<1>2. ProxySpec => [][\A k \in Keys : Justified(k)]_proxyVars
  BY <1>1, ProxyInvariantHolds, PTL DEF ProxySpec
<1>3. QED
  BY <1>2 DEF VerdictOnTheKeyCalled, Justified, ErrorCounted, SuccessCounted

(* Only the operator, or a probe of the scan answered with 200, brings a   *)
(* key back that was disabled for a quota.                                 *)
THEOREM EvidenceLiftsQuota == ProxySpec => QuotaLiftedByEvidence
<1>1. ProxyInv /\ ProxyInv' /\ [ProxyNext]_proxyVars => [\A k \in Keys : Lifted(k)]_proxyVars
  BY StepJustified
<1>2. ProxySpec => [][\A k \in Keys : Lifted(k)]_proxyVars
  BY <1>1, ProxyInvariantHolds, PTL DEF ProxySpec
<1>3. QED
  BY <1>2 DEF QuotaLiftedByEvidence, Lifted, Quota
=============================================================================
