------------------------------- MODULE Server --------------------------------
(***************************************************************************)
(* The concurrent requests of one server process and what they share.  A   *)
(* request either wants an answer of the upstream or the list of models.   *)
(* The first downloads its images (the routes' await of                    *)
(* materializeRemoteImages), then awaits the working directory (the begin  *)
(* of stream()), and then asks the upstream, which is GenerateStream's     *)
(* part.  The second is ModelList's.                                       *)
(***************************************************************************)
EXTENDS WorkingDir, ImageDownloads, ModelList

CONSTANTS ImagesOf,      \* the images of each request
          Keyless        \* requests without a key, which ask for the list only

ASSUME ServerAssumption ==
  /\ MaxBytes \in Nat /\ CacheTtl \in Nat \ {0} /\ Timeout \in Nat /\ MaxTime \in Nat
  /\ Callers = Requests /\ Keyless \subseteq Requests
  /\ ImagesOf \in [Requests -> SUBSET Images]
  /\ \A r, s \in Requests : r # s => ImagesOf[r] \cap ImagesOf[s] = {}

VARIABLES stage,         \* of each request
          gone           \* clients that have disconnected

vars == <<dirVars, imageVars, listVars, stage, gone>>

Ended == {"asked", "refused", "failed", "stopped", "listed"}

TypeOK ==
  /\ DirTypeOK /\ ImageTypeOK /\ ListTypeOK
  /\ stage \in [Requests -> {"new", "images", "dir", "list"} \cup Ended]
  /\ gone \subseteq Requests

Init ==
  /\ DirInit /\ ImageInit /\ ListInit
  /\ stage = [r \in Requests |-> "new"]
  /\ gone = {}

MoveTo(r, from, to) == stage[r] = from /\ stage' = [stage EXCEPT ![r] = to]

-----------------------------------------------------------------------------
(* A request for an answer.                                                *)

Arrive(r) ==
  /\ r \notin Keyless
  /\ MoveTo(r, "new", "images")
  /\ StartDownloads(ImagesOf[r])
  /\ UNCHANGED <<dirVars, listVars, gone>>

Download(i) ==
  /\ \/ HostResolved(i) \/ ImageAnswered(i) \/ ImageChunk(i)
     \/ ImageComplete(i) \/ ImageTimeout(i)
  /\ UNCHANGED <<dirVars, listVars, stage, gone>>

ImageRefused(r) ==
  /\ Rejected(ImagesOf[r])
  /\ MoveTo(r, "images", "refused")
  /\ UNCHANGED <<dirVars, imageVars, listVars, gone>>

(* The route looks at the client again, and stream() begins.               *)
Begin(r) ==
  /\ Materialized(ImagesOf[r])
  /\ r \notin gone
  /\ MoveTo(r, "images", "dir")
  /\ GetWorkingDir(r)
  /\ UNCHANGED <<imageVars, listVars, gone>>

BeginGone(r) ==
  /\ Materialized(ImagesOf[r])
  /\ r \in gone
  /\ MoveTo(r, "images", "stopped")
  /\ UNCHANGED <<dirVars, imageVars, listVars, gone>>

CreationEnds(c) ==
  /\ CreationSucceeds(c) \/ CreationFails(c)
  /\ UNCHANGED <<imageVars, listVars, stage, gone>>

DirReady(r) ==
  /\ DirSettled(r)
  /\ MoveTo(r, "dir", IF HasDir(r) THEN "asked" ELSE "failed")
  /\ UNCHANGED <<dirVars, imageVars, listVars, gone>>

(* abortable: the budget ends, or the client goes.                         *)
StopWaiting(r) ==
  /\ MoveTo(r, "dir", "stopped")
  /\ UNCHANGED <<dirVars, imageVars, listVars, gone>>

(* The downloads do not notice.                                            *)
ClientGone(r) ==
  /\ stage[r] = "images"
  /\ gone' = gone \cup {r}
  /\ UNCHANGED <<dirVars, imageVars, listVars, stage>>

-----------------------------------------------------------------------------
(* A request for the list.                                                 *)

GetModels(r) ==
  /\ \/ ServeCached(r) /\ MoveTo(r, "new", "listed")
     \/ r \in Keyless /\ ServeWithoutKey(r) /\ MoveTo(r, "new", "listed")
     \/ r \notin Keyless /\ StartFetch(r) /\ MoveTo(r, "new", "list")
  /\ UNCHANGED <<dirVars, imageVars, gone>>

UpstreamAnswers(r) ==
  /\ stage[r] = "list"
  /\ UpstreamLists(r)
  /\ UNCHANGED <<dirVars, imageVars, stage, gone>>

ModelsArrive(r) ==
  /\ ListArrives(r) \/ FetchFails(r)
  /\ MoveTo(r, "list", "listed")
  /\ UNCHANGED <<dirVars, imageVars, gone>>

TimePasses ==
  /\ Tick({r \in Requests : stage[r] = "list"})
  /\ UNCHANGED <<dirVars, imageVars, stage, gone>>

Next ==
  \/ \E r \in Requests :
       \/ Arrive(r) \/ ImageRefused(r) \/ Begin(r) \/ BeginGone(r)
       \/ DirReady(r) \/ StopWaiting(r) \/ ClientGone(r)
       \/ GetModels(r) \/ UpstreamAnswers(r) \/ ModelsArrive(r)
  \/ \E i \in Images : Download(i)
  \/ \E c \in DOMAIN creations : CreationEnds(c)
  \/ TimePasses

(* The event loop goes on; a lookup ends (the resolver has timeouts), a    *)
(* download and a fetch end by their timeouts, a wait for the directory by *)
(* the request's budget.  The creation itself may hang.                    *)
Fairness ==
  /\ \A r \in Requests :
       /\ WF_vars(ImageRefused(r)) /\ WF_vars(Begin(r)) /\ WF_vars(BeginGone(r))
       /\ WF_vars(DirReady(r)) /\ WF_vars(StopWaiting(r)) /\ WF_vars(ModelsArrive(r))
  /\ \A i \in Images :
       WF_vars(HostResolved(i) /\ UNCHANGED <<dirVars, listVars, stage, gone>>)
       /\ WF_vars(ImageTimeout(i) /\ UNCHANGED <<dirVars, listVars, stage, gone>>)

Spec == Init /\ [][Next]_vars /\ Fairness

-----------------------------------------------------------------------------
(* The promise that is kept is that of the one creation that has not       *)
(* failed: concurrent first requests share it, a directory once made is    *)
(* never replaced (it is part of the prompt's prefix), and a failure or an *)
(* abort keeps no later request from one (client.ts:327-341).              *)
OneDirectory ==
  \A c \in DOMAIN creations : creations[c] # "failed" <=> workingDirPromise = c

(* The upstream is asked only with the shared directory and when each      *)
(* remote image has been replaced by the bytes it was fetched for          *)
(* (messages.ts:92-137, client.ts:382).                                    *)
AskedWithEverything ==
  \A r \in Requests :
    stage[r] = "asked" => /\ \A i \in ImagesOf[r] : image[i] = "ready" /\ ~connected[i]
                          /\ holds[r] = workingDirPromise

(* Whichever of the concurrent fetches filled the cache, a list that is    *)
(* told is one the upstream made less than the lifetime of the cache and a *)
(* fetch ago; and the fallback is told only to a caller without a key or   *)
(* whose own fetch failed, never kept for another (models.ts:111-131).     *)
ListsAreTrue ==
  \A r \in Requests :
    /\ told[r].age < CacheTtl + Timeout
    /\ told[r].models = Fallback /\ r \notin Keyless => fetch[r].models = Empty

(* Every request that has come is answered or asks the upstream, also when *)
(* an image, a list or the creation of the directory never ends.           *)
RequestsEnd == \A r \in Requests : stage[r] # "new" ~> stage[r] \in Ended

(* No connection of a download stays open, also of one whose body nobody   *)
(* reads or whose request has been refused (messages.ts:111-122).          *)
ConnectionsReleased == \A i \in Images : connected[i] ~> ~connected[i]
=============================================================================
