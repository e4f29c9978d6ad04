------------------------------ MODULE KeyProxy ------------------------------
(***************************************************************************)
(* The provider proxy around the key pool: chat requests, each of which    *)
(* calls the upstream with a pooled key and once more with the next one    *)
(* after a 429 (internal/proxy/proxy.go), the panel's health check and the *)
(* restore scan (internal/server/server.go), all concurrent with the       *)
(* operator's edits.                                                       *)
(*                                                                         *)
(* Every use of the pool is one critical section, and the upstream call    *)
(* between two of them takes as long as it takes: an action is a section   *)
(* together with the answer that leads to it.  A verdict may therefore     *)
(* arrive long after the key was chosen.                                   *)
(***************************************************************************)
EXTENDS KeyPool, SequencesExt

CONSTANTS Requests,   \* chat requests, one pass each
          Checks,     \* health checks
          Scans       \* passes of the restore scan

ASSUME ProxyAssumption ==
  /\ Requests \cap (Checks \cup Scans) = {} /\ Checks \cap Scans = {}
  /\ IsFiniteSet(Keys)

VARIABLES stage,    \* how far a request has come
          first,    \* the key of a request's first call
          usedKey,  \* the key of its current or last call
          answer,   \* what its client was told
          left,     \* a walker's snapshot of the pool, what is left of it
          probed,   \* the key a walker is probing
          stale     \* those keys left whose record has been removed

requestVars == <<stage, first, usedKey, answer>>
walkVars == <<left, probed, stale>>
proxyVars == <<vars, requestVars, walkVars>>

Walkers == Checks \cup Scans

(* What a call may come back with: 200, 429, 401 or 403, another status,   *)
(* or an error of the transport (the client's disconnect and the timeout   *)
(* of http.Client included).                                               *)
CallOutcomes == {"ok", "429", "auth", "status", "error"}
(* What testSingleKey tells: "quota" is a 429 that speaks of a limit.      *)
ProbeOutcomes == {"ok", "quota", "429", "auth", "error"}

(* The mark of a key that has been removed meanwhile does nothing.         *)
Marked(mark, k) == IF InPool(k) THEN mark ELSE UNCHANGED vars

(* The server starts on the keys that keys.json lists.                     *)
ProxyInit ==
  /\ order \in UNION {SetToSeqs(S) : S \in SUBSET Keys}
  /\ rec = [k \in Keys |-> Fresh]
  /\ index = 0
  /\ now = 1
  /\ dirty = FALSE
  /\ lastSave = 1
  /\ disk = Image(order, rec)
  /\ failures = 0
  /\ picked = None
  /\ stage = [r \in Requests |-> "new"]
  /\ first = [r \in Requests |-> None]
  /\ usedKey = [r \in Requests |-> None]
  /\ answer = [r \in Requests |-> "none"]
  /\ left = [w \in Walkers |-> <<"new">>]
  /\ probed = [w \in Walkers |-> None]
  /\ stale = [w \in Walkers |-> {}]

-----------------------------------------------------------------------------
(* A chat request.                                                         *)

Answer(r, a) ==
  /\ stage' = [stage EXCEPT ![r] = "done"]
  /\ answer' = [answer EXCEPT ![r] = a]
  /\ UNCHANGED <<first, usedKey>>

Call(r, s, k) ==
  /\ stage' = [stage EXCEPT ![r] = s]
  /\ usedKey' = [usedKey EXCEPT ![r] = k]
  /\ UNCHANGED answer

PickFirst(r) ==
  /\ stage[r] = "new"
  /\ GetNext
  /\ \/ /\ picked' = None
        /\ Answer(r, "noKeys")
     \/ /\ picked' # None
        /\ Call(r, "first", picked')
        /\ first' = [first EXCEPT ![r] = picked']
  /\ UNCHANGED walkVars

FinishMarksFirst(r, outcome) ==
  \/ /\ outcome = "ok"
     /\ Marked(MarkSuccess(first[r]), first[r])
     /\ Answer(r, "ok")
  \/ /\ outcome = "auth"
     /\ Marked(MarkError(first[r]), first[r])
     /\ Answer(r, "refused")
  \/ /\ outcome \in {"status", "error"}
     /\ UNCHANGED vars
     /\ Answer(r, IF outcome = "error" THEN "failed" ELSE "refused")
(* What HandleChatCompletions does with an answer that is not a 429.       *)
Finish(r, outcome) ==
  \/ /\ outcome = "ok"
     /\ Marked(MarkSuccess(usedKey[r]), usedKey[r])
     /\ Answer(r, "ok")
  \/ /\ outcome = "auth"
     /\ Marked(MarkError(usedKey[r]), usedKey[r])
     /\ Answer(r, "refused")
  \/ /\ outcome \in {"status", "error"}
     /\ UNCHANGED vars
     /\ Answer(r, IF outcome = "error" THEN "failed" ELSE "refused")

FirstAnswers(r, outcome) ==
  /\ stage[r] = "first"
  /\ \/ /\ outcome # "429"
        /\ Finish(r, outcome)
     \/ /\ outcome = "429"
        /\ Marked(MarkError(first[r]), first[r])
        /\ stage' = [stage EXCEPT ![r] = "limited"]
        /\ UNCHANGED <<first, usedKey, answer>>
  /\ UNCHANGED walkVars

(* callUpstreamWithRetry takes the pool's lock again for the next key.     *)
PickSecond(r) ==
  /\ stage[r] = "limited"
  /\ GetNext
  /\ \/ /\ picked' \in {None, first[r]}
        /\ Answer(r, "limited")
     \/ /\ picked' \notin {None, first[r]}
        /\ Call(r, "second", picked')
        /\ UNCHANGED first
  /\ UNCHANGED walkVars

SecondRetries(r, outcome) ==
  /\ stage[r] = "second"
  /\ \/ /\ outcome # "429"
        /\ Finish(r, outcome)
     \/ /\ outcome = "429"
        /\ UNCHANGED <<vars, first, usedKey, answer>>
        /\ stage' = [stage EXCEPT ![r] = "limited"]
  /\ UNCHANGED walkVars
(* A second 429 is reported as it is: the key is not marked.               *)
SecondAnswers(r, outcome) ==
  /\ stage[r] = "second"
  /\ \/ /\ outcome # "429"
        /\ Finish(r, outcome)
     \/ /\ outcome = "429"
        /\ UNCHANGED vars
        /\ Answer(r, "limited")
  /\ UNCHANGED walkVars

-----------------------------------------------------------------------------
(* The health check and the restore scan walk over the keys the pool held  *)
(* when they began, one probe at a time; the state of a key is read when   *)
(* its turn comes, since the snapshot holds pointers.  A key that has been *)
(* removed meanwhile, and perhaps added again, is judged by its old        *)
(* record: either way.                                                     *)

WalkBegins(w) ==
  /\ left[w] = <<"new">>
  /\ left' = [left EXCEPT ![w] = order]
  /\ UNCHANGED <<vars, requestVars, probed, stale>>

Walking(w) == left[w] \notin {<<"new">>, <<>>} /\ probed[w] = None

(* Which keys a walker passes over.                                        *)
Skips(w, r) ==
  IF w \in Checks THEN ~r.enabled
                  ELSE ~r.enabled \/ r.reason \in {"", "manual"}

Advance(w) ==
  /\ left' = [left EXCEPT ![w] = Tail(@)]
  /\ stale' = [stale EXCEPT ![w] = @ \ {Head(left[w])}]

Skip(w) ==
  /\ Walking(w)
  /\ Head(left[w]) \in stale[w] \/ Skips(w, rec[Head(left[w])])
  /\ Advance(w)
  /\ UNCHANGED <<vars, requestVars, probed>>

Probe(w) ==
  /\ Walking(w)
  /\ Head(left[w]) \in stale[w] \/ ~Skips(w, rec[Head(left[w])])
  /\ probed' = [probed EXCEPT ![w] = Head(left[w])]
  /\ Advance(w)
  /\ UNCHANGED <<vars, requestVars>>

(* The record a snapshot points to leaves the pool with its key.           *)
Outdated(k) ==
  stale' = [w \in Walkers |->
              IF Contains(left[w], k) THEN stale[w] \cup {k} ELSE stale[w]]

Verdict(w, outcome, k) ==
  /\ probed[w] = k /\ k # None
  /\ probed' = [probed EXCEPT ![w] = None]
  /\ UNCHANGED <<requestVars, left, stale>>

CheckAnswers(w, outcome, k) ==
  /\ Verdict(w, outcome, k)
  /\ \/ outcome = "ok" /\ Marked(MarkSuccess(k), k)
     \/ outcome = "quota" /\ Marked(MarkDisabledByQuota(k, "5h_quota"), k)
     \/ outcome \in {"429", "auth"} /\ Marked(MarkError(k), k)
     \/ outcome = "error" /\ UNCHANGED vars

ScanAnswers(w, outcome, k) ==
  /\ Verdict(w, outcome, k)
  /\ IF outcome = "ok" THEN Marked(RestoreKey(k), k) ELSE UNCHANGED vars

-----------------------------------------------------------------------------
(* The operator, the clock, and the model sync, which takes a key of the   *)
(* rotation for its own request.                                           *)
Around ==
  /\ \/ \E k \in Keys : RemoveKey(k) /\ Outdated(k)
     \/ /\ \/ \E k \in Keys : AddKey(k) \/ ToggleKey(k)
           \/ GetNext \/ Tick
        /\ UNCHANGED stale
  /\ UNCHANGED <<requestVars, left, probed>>

RequestStep(r) ==
  \/ PickFirst(r) \/ PickSecond(r)
  \/ \E o \in CallOutcomes : FirstAnswers(r, o) \/ SecondAnswers(r, o)

WalkStep(w) ==
  \/ WalkBegins(w) \/ Skip(w) \/ Probe(w)
  \/ \E o \in ProbeOutcomes, k \in Keys :
       \/ w \in Checks /\ CheckAnswers(w, o, k)
       \/ w \in Scans /\ ScanAnswers(w, o, k)

ProxyNext ==
  \/ \E r \in Requests : RequestStep(r)
  \/ \E w \in Walkers : WalkStep(w)
  \/ Around

ProxySpec == ProxyInit /\ [][ProxyNext]_proxyVars

(* http.Client has a timeout of 300 s (15 s for a probe), so every call    *)
(* comes back, and the handler's goroutine runs on.                        *)
ProxyFairness ==
  /\ \A r \in Requests : WF_proxyVars(RequestStep(r))
  /\ \A w \in Walkers : WF_proxyVars(WalkStep(w))

FairProxySpec == ProxySpec /\ ProxyFairness

-----------------------------------------------------------------------------
ProxyTypeOK ==
  /\ TypeOK
  /\ stage \in [Requests -> {"new", "first", "limited", "second", "done"}]
  /\ first \in [Requests -> Keys \cup {None}]
  /\ usedKey \in [Requests -> Keys \cup {None}]
  /\ answer \in [Requests -> {"none", "ok", "noKeys", "limited", "refused", "failed"}]
  /\ left \in [Walkers -> Seq(Keys) \cup {<<"new">>}]
  /\ probed \in [Walkers -> Keys \cup {None}]
  /\ stale \in [Walkers -> SUBSET Keys]

(* A key's counters change only by the verdict of a call made with that    *)
(* very key, whichever of its two calls a request is at and whatever the   *)
(* others do meanwhile (proxy.go:134, 156-163).                            *)
VerdictOnTheKeyCalled ==
  [][\A k \in Keys :
       /\ rec'[k].errors > rec[k].errors =>
            \/ \E r \in Requests : usedKey[r] = k /\
                 (FirstAnswers(r, "429") \/ FirstAnswers(r, "auth") \/ SecondAnswers(r, "auth"))
            \/ \E w \in Checks : CheckAnswers(w, "429", k) \/ CheckAnswers(w, "auth", k)
       /\ rec'[k].requests > rec[k].requests =>
            \/ \E r \in Requests :
                 usedKey[r] = k /\ (FirstAnswers(r, "ok") \/ SecondAnswers(r, "ok"))
            \/ \E w \in Checks : CheckAnswers(w, "ok", k)]_proxyVars

(* A key disabled for a quota comes back only when the operator says so or *)
(* a probe of the scan was answered with 200 (server.go:319-336): no late  *)
(* success of a request, and no failed probe, lifts the verdict.           *)
QuotaLiftedByEvidence ==
  [][\A k \in Keys :
       /\ InPool(k) /\ InPool(k)'
       /\ rec[k].reason \in {"5h_quota", "period_quota"} /\ rec'[k].reason = ""
       => \/ ToggleKey(k)
          \/ \E w \in Scans : ScanAnswers(w, "ok", k)]_proxyVars

(* Every request is answered and every health check ends, whatever becomes *)
(* of the keys meanwhile: calls have a timeout, a limited request makes at *)
(* most one more (proxy.go:172-207), and a check takes each key of the     *)
(* snapshot it began with once (server.go:197-206).                        *)
EveryoneAnswered ==
  /\ \A r \in Requests : <>(stage[r] = "done")
  /\ \A w \in Checks : <>(left[w] = <<>> /\ probed[w] = None)

-----------------------------------------------------------------------------
(* A claim of the repository that the code does not keep.                  *)

(* "repeated 5h hits escalate to period" (keypool.go:326): a key that was  *)
(* disabled for the 5h quota before and is again, is disabled for the      *)
(* period.                                                                 *)
RepeatedHitsEscalate ==
  [][\A k \in Keys :
       rec[k].reason = "" /\ rec[k].escalation > 0 =>
          rec'[k].reason # "5h_quota"]_proxyVars
=============================================================================
