---------------------------- MODULE Server_proofs ----------------------------
(***************************************************************************)
(* What the concurrent requests of the server share, for any number of     *)
(* requests and images, any lifetime of the cache and any timeout.         *)
(***************************************************************************)
EXTENDS Server, SequenceTheorems, TLAPS

(* Images are replaced, and stay so, before the directory is awaited; a    *)
(* request that asks the upstream has awaited a creation that succeeded.   *)
AskedInv ==
  /\ \A i \in Images : connected[i] => image[i] \in {"asking", "reading", "bad"}
  /\ \A r \in Requests :
       /\ stage[r] = "new" => \A i \in ImagesOf[r] : image[i] = "waiting"
       /\ stage[r] \in {"dir", "asked"} => \A i \in ImagesOf[r] : image[i] = "ready"
       /\ stage[r] \in {"dir", "asked"} => holds[r] # Unset
       /\ stage[r] = "asked" => creations[holds[r]] = "made"

(* How old the lists are that are on their way, in the cache and told.     *)
ListInv ==
  /\ cache.models = Missing => cache.expiresAt = 0
  /\ cache.models \in Lists => /\ cache.models <= clock
                               /\ cache.expiresAt <= cache.models + Timeout + CacheTtl
  /\ \A r \in Requests :
       /\ fetch[r].since <= clock
       /\ stage[r] = "new" => fetch[r].models = Missing
       /\ stage[r] = "list" => clock <= fetch[r].since + Timeout
       /\ fetch[r].models \in Lists => /\ fetch[r].since <= fetch[r].models
                                       /\ fetch[r].models <= clock
  /\ ListsAreTrue

IInv == TypeOK /\ OneDirectory /\ AskedInv /\ ListInv

LEMMA InitHolds == Init => IInv
<1> SUFFICES ASSUME Init PROVE IInv
  OBVIOUS
<1> USE ServerAssumption DEF Init
<1>1. DirTypeOK
  BY DEF DirInit, DirTypeOK, Unset
<1>2. ImageTypeOK
  BY DEF ImageInit, ImageTypeOK
<1>3. ListTypeOK
  BY DEF ListInit, ListTypeOK, Lists, Missing, Empty, Fallback
<1>4. TypeOK
  BY <1>1, <1>2, <1>3 DEF TypeOK
<1>5. OneDirectory
  BY DEF OneDirectory, DirInit
<1>6. AskedInv
  BY DEF AskedInv, ImageInit
<1>7. ListInv
  BY DEF ListInv, ListInit, ListsAreTrue, Lists, Missing, Empty, Fallback
<1>8. QED
  BY <1>4, <1>5, <1>6, <1>7 DEF IInv

(* The working directory: what each step does to the three variables.      *)
LEMMA GetWorkingDirKeeps ==
  ASSUME DirTypeOK, OneDirectory, NEW r \in Requests, GetWorkingDir(r)
  PROVE  /\ DirTypeOK' /\ OneDirectory'
         /\ holds'[r] # Unset
         /\ \A s \in Requests \ {r} : holds'[s] = holds[s]
         /\ \A c \in DOMAIN creations : creations'[c] = creations[c]
<1> USE DEF DirTypeOK, OneDirectory, GetWorkingDir, Unset
<1>1. CASE workingDirPromise = Unset
  <2>1. PICK n : n = Len(creations) + 1
    OBVIOUS
  <2>2. /\ creations' \in Seq({"pending", "made", "failed"})
        /\ Len(creations') = n /\ DOMAIN creations' = 1 .. n
        /\ DOMAIN creations = 1 .. n - 1 /\ n \in Nat \ {0}
        /\ creations'[n] = "pending"
        /\ \A c \in 1 .. n - 1 : creations'[c] = creations[c]
    BY <1>1, <2>1, AppendProperties
  <2>3. workingDirPromise' = n /\ holds' = [holds EXCEPT ![r] = n]
    BY <1>1, <2>1
  <2>4. \A c \in 1 .. n - 1 : creations[c] = "failed"
    BY <1>1, <2>2
  <2>5. QED
    BY <2>2, <2>3, <2>4
<1>2. CASE workingDirPromise # Unset
  BY <1>2
<1>3. QED
  BY <1>1, <1>2

LEMMA CreationEndsKeeps ==
  ASSUME DirTypeOK, OneDirectory, NEW c \in DOMAIN creations,
         CreationSucceeds(c) \/ CreationFails(c)
  PROVE  /\ DirTypeOK' /\ OneDirectory' /\ UNCHANGED holds
         /\ DOMAIN creations' = DOMAIN creations
         /\ \A d \in DOMAIN creations : creations[d] = "made" => creations'[d] = "made"
<1> USE DEF DirTypeOK, OneDirectory, Unset
<1>1. /\ creations' \in Seq({"pending", "made", "failed"})
      /\ DOMAIN creations' = DOMAIN creations
      /\ UNCHANGED holds
      /\ creations[c] = "pending"
      /\ \A d \in DOMAIN creations : d # c => creations'[d] = creations[d]
  BY DEF CreationSucceeds, CreationFails
<1>2. CASE CreationSucceeds(c)
  BY <1>1, <1>2 DEF CreationSucceeds
<1>3. CASE CreationFails(c)
  <2>1. workingDirPromise = c /\ workingDirPromise' = 0 /\ creations'[c] = "failed"
    BY <1>1, <1>3 DEF CreationFails
  <2>2. 0 \notin DOMAIN creations
    OBVIOUS
  <2>3. QED
    BY <1>1, <2>1, <2>2
<1>4. QED
  BY <1>2, <1>3

-----------------------------------------------------------------------------
(* The images and the stages.                                              *)

LEMMA DownloadKeeps ==
  ASSUME IInv, NEW i \in Images, Download(i)
  PROVE  ImageTypeOK' /\ AskedInv'
<1> USE ServerAssumption DEF IInv, TypeOK
<1>1. ImageTypeOK'
  <2> USE DEF ImageTypeOK
  <2>1. CASE HostResolved(i)
    BY <2>1 DEF HostResolved
  <2>2. CASE ImageAnswered(i)
    BY <2>2 DEF ImageAnswered
  <2>3. CASE ImageChunk(i)
    <3>1. CASE size[i] < MaxBytes
      BY <2>3, <3>1 DEF ImageChunk
    <3>2. CASE ~(size[i] < MaxBytes)
      BY <2>3, <3>2 DEF ImageChunk
    <3>3. QED
      BY <3>1, <3>2
  <2>4. CASE ImageComplete(i)
    BY <2>4 DEF ImageComplete
  <2>5. CASE ImageTimeout(i)
    BY <2>5 DEF ImageTimeout
  <2>6. QED
    BY <2>1, <2>2, <2>3, <2>4, <2>5 DEF Download
<1>2. /\ image[i] \in {"resolving", "asking", "reading", "bad"}
      /\ image'[i] # "waiting"
      /\ connected'[i] => image'[i] \in {"asking", "reading", "bad"}
      /\ \A j \in Images : j # i => image'[j] = image[j] /\ connected'[j] = connected[j]
  BY DEF ImageTypeOK, AskedInv, Download, HostResolved, ImageAnswered, ImageChunk,
         ImageComplete, ImageTimeout
<1>3. UNCHANGED <<stage, holds, creations>>
  BY DEF Download, dirVars
<1>4. \A j \in Images : connected'[j] => image'[j] \in {"asking", "reading", "bad"}
  BY <1>2 DEF AskedInv
<1>5. \A r \in Requests : ImagesOf[r] \subseteq Images
  OBVIOUS
<1>6. ASSUME NEW r \in Requests, NEW j \in ImagesOf[r]
      PROVE  /\ stage[r] = "new" => image'[j] = "waiting"
             /\ stage[r] \in {"dir", "asked"} => image'[j] = "ready"
  BY <1>2, <1>5, <1>6 DEF AskedInv
<1>7. QED
  BY <1>1, <1>3, <1>4, <1>6 DEF AskedInv

LEMMA ArriveKeeps ==
  ASSUME IInv, NEW r \in Requests, Arrive(r)
  PROVE  ImageTypeOK' /\ AskedInv'
<1> USE ServerAssumption DEF IInv, TypeOK
<1>1. PICK f \in [ImagesOf[r] -> {"ready", "bad", "resolving"}] :
        image' = [i \in Images |-> IF i \in ImagesOf[r] THEN f[i] ELSE image[i]]
  BY DEF Arrive, StartDownloads
<1>2. /\ UNCHANGED <<size, connected, holds, creations>>
      /\ stage[r] = "new" /\ stage' = [stage EXCEPT ![r] = "images"]
  BY DEF Arrive, StartDownloads, MoveTo, dirVars
<1>3. ImageTypeOK'
  BY <1>1, <1>2 DEF ImageTypeOK
<1>4. \A i \in ImagesOf[r] : ~connected[i]
  BY <1>2 DEF AskedInv, ImageTypeOK
<1>5. \A i \in Images : connected'[i] => image'[i] \in {"asking", "reading", "bad"}
  BY <1>1, <1>2, <1>4 DEF AskedInv
<1>6. \A s \in Requests \ {r} : \A i \in ImagesOf[s] : image'[i] = image[i]
  BY <1>1
<1>7. QED
  BY <1>2, <1>3, <1>5, <1>6 DEF AskedInv

(* A step that only moves a request on.                                    *)
LEMMA MoveKeepsAsked ==
  ASSUME IInv, NEW r \in Requests, NEW from, NEW to, MoveTo(r, from, to),
         UNCHANGED <<imageVars, dirVars>>, to # "new",
         to = "dir" => FALSE,
         to = "asked" => from = "dir" /\ HasDir(r)
  PROVE  AskedInv'
<1>1. UNCHANGED <<image, connected, holds, creations>>
  BY DEF imageVars, dirVars
<1>2. /\ stage'[r] = to /\ stage[r] = from
      /\ \A s \in Requests : s # r => stage'[s] = stage[s]
  BY DEF MoveTo, IInv, TypeOK
<1>3. QED
  BY <1>1, <1>2 DEF IInv, AskedInv, HasDir

LEMMA BeginKeeps ==
  ASSUME IInv, NEW r \in Requests, Begin(r)
  PROVE  DirTypeOK' /\ OneDirectory' /\ AskedInv'
<1>1. /\ DirTypeOK' /\ OneDirectory' /\ holds'[r] # Unset
      /\ \A s \in Requests \ {r} : holds'[s] = holds[s]
      /\ \A c \in DOMAIN creations : creations'[c] = creations[c]
  BY GetWorkingDirKeeps DEF IInv, TypeOK, Begin
<1>2. /\ stage'[r] = "dir" /\ UNCHANGED <<image, connected>>
      /\ \A s \in Requests \ {r} : stage'[s] = stage[s]
      /\ \A i \in ImagesOf[r] : image[i] = "ready"
  BY DEF IInv, TypeOK, Begin, MoveTo, Materialized, imageVars
<1>3. ASSUME NEW s \in Requests, stage'[s] = "asked"
      PROVE  creations'[holds'[s]] = "made"
  BY <1>1, <1>2, <1>3 DEF IInv, TypeOK, DirTypeOK, AskedInv, Unset
<1>4. QED
  BY <1>1, <1>2, <1>3 DEF IInv, AskedInv

LEMMA CreationKeeps ==
  ASSUME IInv, NEW c \in DOMAIN creations, CreationEnds(c)
  PROVE  DirTypeOK' /\ OneDirectory' /\ AskedInv'
<1>1. /\ DirTypeOK' /\ OneDirectory' /\ UNCHANGED holds
      /\ \A d \in DOMAIN creations : creations[d] = "made" => creations'[d] = "made"
  BY CreationEndsKeeps DEF IInv, TypeOK, CreationEnds
<1>2. UNCHANGED <<image, connected, stage>>
  BY DEF CreationEnds, imageVars
<1>3. \A s \in Requests : stage[s] = "asked" => holds[s] \in DOMAIN creations
  BY DEF IInv, TypeOK, DirTypeOK, AskedInv, Unset
<1>4. QED
  BY <1>1, <1>2, <1>3 DEF IInv, AskedInv

-----------------------------------------------------------------------------
(* The list of models.                                                     *)

LEMMA ListUnchanged ==
  ASSUME IInv, UNCHANGED listVars,
         \A r \in Requests : stage'[r] \in {"new", "list"} => stage'[r] = stage[r]
  PROVE  ListTypeOK' /\ ListInv'
<1>1. UNCHANGED <<clock, cache, fetch, told>>
  BY DEF listVars
<1>2. ListTypeOK'
  BY <1>1 DEF IInv, TypeOK, ListTypeOK
<1>3. ListsAreTrue'
  BY <1>1 DEF IInv, ListInv, ListsAreTrue
<1>4. QED
  BY <1>1, <1>2, <1>3 DEF IInv, ListInv

LEMMA GetModelsKeeps ==
  ASSUME IInv, NEW r \in Requests, GetModels(r)
  PROVE  ListTypeOK' /\ ListInv'
<1> USE ServerAssumption
<1> USE DEF IInv, TypeOK, ListTypeOK, Lists, Missing, Empty, Fallback
<1>1. /\ UNCHANGED <<clock, cache>>
      /\ stage[r] = "new" /\ stage'[r] # "new"
      /\ \A s \in Requests \ {r} : stage'[s] = stage[s]
  BY DEF GetModels, MoveTo, ServeCached, ServeWithoutKey, StartFetch
<1>2. CASE ServeCached(r) /\ stage'[r] = "listed"
  <2>1. /\ UNCHANGED fetch
        /\ told' = [told EXCEPT ![r] = [models |-> cache.models,
              age |-> IF cache.models \in Lists THEN clock - cache.models ELSE 0]]
    BY <1>2 DEF ServeCached, Tell
  <2>2. cache.models \in Lists
    BY <1>2 DEF ServeCached, CacheValid, ListInv
  <2>3. clock - cache.models \in 0 .. MaxTime /\ clock - cache.models < CacheTtl + Timeout
    BY <1>2, <2>2 DEF ServeCached, CacheValid, ListInv
  <2>4. ListTypeOK'
    BY <1>1, <2>1, <2>2, <2>3
  <2>5. ListsAreTrue'
    BY <2>1, <2>2, <2>3 DEF ListInv, ListsAreTrue
  <2>6. QED
    BY <1>1, <1>2, <2>1, <2>4, <2>5 DEF ListInv
<1>3. CASE r \in Keyless /\ ServeWithoutKey(r) /\ stage'[r] = "listed"
  <2>1. /\ UNCHANGED fetch
        /\ told' = [told EXCEPT ![r] = [models |-> Fallback, age |-> 0]]
    BY <1>3 DEF ServeWithoutKey, Tell
  <2>2. ListTypeOK'
    BY <1>1, <2>1
  <2>3. ListsAreTrue'
    BY <1>3, <2>1 DEF ListInv, ListsAreTrue
  <2>4. QED
    BY <1>1, <1>3, <2>1, <2>2, <2>3 DEF ListInv
<1>4. CASE StartFetch(r)
  <2>1. UNCHANGED told /\ fetch' = [fetch EXCEPT ![r].since = clock]
    BY <1>4 DEF StartFetch
  <2>2. ListTypeOK'
    BY <1>1, <2>1
  <2>3. fetch'[r].since = clock /\ fetch'[r].models = Missing
    BY <1>1, <2>1 DEF ListInv
  <2>4. ListsAreTrue'
    BY <2>1 DEF ListInv, ListsAreTrue
  <2>5. QED
    BY <1>1, <2>1, <2>2, <2>3, <2>4 DEF ListInv
<1>5. QED
  BY <1>2, <1>3, <1>4 DEF GetModels, MoveTo

LEMMA UpstreamAnswersKeeps ==
  ASSUME IInv, NEW r \in Requests, UpstreamAnswers(r)
  PROVE  ListTypeOK' /\ ListInv'
<1> USE ServerAssumption
<1> USE DEF IInv, TypeOK, ListTypeOK, Lists, Missing, Empty, Fallback
<1>1. PICK models \in {clock, Empty} : fetch' = [fetch EXCEPT ![r].models = models]
  BY DEF UpstreamAnswers, UpstreamLists
<1>2. /\ UNCHANGED <<clock, cache, told, stage>> /\ stage[r] = "list"
      /\ fetch[r].models = Missing
  BY DEF UpstreamAnswers, UpstreamLists
<1>3. ListTypeOK'
  BY <1>1, <1>2
<1>4. ListsAreTrue'
  BY <1>1, <1>2 DEF ListInv, ListsAreTrue
<1>5. fetch'[r].since = fetch[r].since /\ fetch'[r].models = models
  BY <1>1
<1>6. QED
  BY <1>1, <1>2, <1>3, <1>4, <1>5 DEF ListInv

LEMMA ModelsArriveKeeps ==
  ASSUME IInv, NEW r \in Requests, ModelsArrive(r)
  PROVE  ListTypeOK' /\ ListInv'
<1> USE ServerAssumption
<1> USE DEF IInv, TypeOK, ListTypeOK, Lists, Missing, Empty, Fallback
<1>1. /\ UNCHANGED clock
      /\ stage[r] = "list" /\ stage'[r] = "listed"
      /\ \A s \in Requests \ {r} : stage'[s] = stage[s]
  BY DEF ModelsArrive, MoveTo, ListArrives, FetchFails
<1>2. CASE FetchFails(r)
  <2>1. /\ UNCHANGED cache
        /\ fetch' = [fetch EXCEPT ![r].models = Empty]
        /\ told' = [told EXCEPT ![r] = [models |-> Fallback, age |-> 0]]
    BY <1>2 DEF FetchFails, Tell
  <2>2. ListTypeOK'
    BY <1>1, <2>1
  <2>3. /\ told'[r].models = Fallback /\ told'[r].age = 0 /\ fetch'[r].models = Empty
        /\ \A s \in Requests \ {r} : told'[s] = told[s] /\ fetch'[s] = fetch[s]
    BY <2>1
  <2>4. ListsAreTrue'
    BY <2>3 DEF ListInv, ListsAreTrue
  <2>5. QED
    BY <1>1, <2>1, <2>2, <2>4 DEF ListInv
<1>3. CASE ListArrives(r) /\ fetch[r].models \in Lists
  <2> DEFINE m == fetch[r].models
  <2>1. /\ UNCHANGED fetch
        /\ cache' = [expiresAt |-> clock + CacheTtl, models |-> m]
        /\ told' = [told EXCEPT ![r] = [models |-> m, age |-> clock - m]]
    BY <1>3 DEF ListArrives, Tell, CacheList
  <2>2. /\ m \in 0 .. MaxTime /\ m <= clock /\ clock <= m + Timeout
        /\ clock - m \in 0 .. MaxTime /\ clock - m < CacheTtl + Timeout
    BY <1>1, <1>3 DEF ListInv
  <2> HIDE DEF m
  <2>3. ListTypeOK'
    BY <1>1, <2>1, <2>2
  <2>4. ListsAreTrue'
    BY <2>1, <2>2 DEF ListInv, ListsAreTrue
  <2>5. QED
    BY <1>1, <2>1, <2>2, <2>3, <2>4 DEF ListInv
<1>4. CASE ListArrives(r) /\ fetch[r].models \notin Lists
  <2>1. UNCHANGED <<cache, fetch>>
    BY <1>4 DEF ListArrives, CacheList
  <2> HIDE DEF Lists, Missing, Empty, Fallback
  <2>2. fetch[r].models = Empty
    BY <1>4 DEF ListArrives
  <2>3. Fallback \notin Lists
    BY DEF Fallback, Lists
  <2>4. told' = [told EXCEPT ![r] = [models |-> Fallback, age |-> 0]]
    BY <1>4, <2>3 DEF ListArrives, Tell
  <2> USE DEF Lists, Missing, Empty, Fallback
  <2>5. ListTypeOK'
    BY <1>1, <2>1, <2>4
  <2>6. ListsAreTrue'
    BY <2>1, <2>2, <2>4 DEF ListInv, ListsAreTrue
  <2>7. QED
    BY <1>1, <2>1, <2>4, <2>5, <2>6 DEF ListInv
<1>5. QED
  BY <1>2, <1>3, <1>4 DEF ModelsArrive

LEMMA TimePassesKeeps == IInv /\ TimePasses => ListTypeOK' /\ ListInv'
<1> SUFFICES ASSUME IInv, TimePasses PROVE ListTypeOK' /\ ListInv'
  OBVIOUS
<1> USE ServerAssumption
<1> USE DEF IInv, TypeOK, ListTypeOK, Lists, Missing, Empty, Fallback
<1>1. /\ clock < MaxTime /\ clock' = clock + 1
      /\ UNCHANGED <<cache, fetch, told, stage>>
      /\ \A r \in Requests : stage[r] = "list" => clock < fetch[r].since + Timeout
  BY DEF TimePasses, Tick
<1>2. ListTypeOK'
  BY <1>1
<1>3. ListsAreTrue'
  BY <1>1 DEF ListInv, ListsAreTrue
<1>4. QED
  BY <1>1, <1>2, <1>3 DEF ListInv

-----------------------------------------------------------------------------
(* Every step keeps the invariant.                                         *)

LEMMA ImageUnchanged == ImageTypeOK /\ UNCHANGED imageVars => ImageTypeOK'
BY DEF ImageTypeOK, imageVars

LEMMA DirUnchanged ==
  DirTypeOK /\ OneDirectory /\ UNCHANGED dirVars => DirTypeOK' /\ OneDirectory'
BY DEF DirTypeOK, OneDirectory, dirVars

LEMMA StageTyped ==
  ASSUME IInv, NEW r \in Requests, NEW from,
         NEW to \in {"new", "images", "dir", "list"} \cup Ended, MoveTo(r, from, to)
  PROVE  stage' \in [Requests -> {"new", "images", "dir", "list"} \cup Ended]
BY DEF IInv, TypeOK, MoveTo

LEMMA StepKeeps == IInv /\ [Next]_vars => IInv'
<1> SUFFICES ASSUME IInv, [Next]_vars PROVE IInv'
  OBVIOUS
<1> DEFINE StageOK == /\ stage \in [Requests -> {"new", "images", "dir", "list"} \cup Ended]
                      /\ gone \subseteq Requests
           Goal == IInv'
<1>0. /\ DirTypeOK /\ OneDirectory /\ ImageTypeOK /\ ListTypeOK /\ StageOK
  BY DEF IInv, TypeOK
<1>1. (DirTypeOK /\ OneDirectory /\ ImageTypeOK /\ ListTypeOK /\ StageOK
         /\ AskedInv /\ ListInv)' => IInv'
  BY DEF IInv, TypeOK
<1>2. ASSUME NEW r \in Requests, Arrive(r) PROVE Goal
  <2>1. /\ UNCHANGED <<dirVars, listVars, gone>>
        /\ MoveTo(r, "new", "images")
    BY <1>2 DEF Arrive
  <2>2. StageOK'
    BY <1>0, <2>1, StageTyped DEF Ended
  <2>3. ListTypeOK' /\ ListInv'
    BY <2>1, ListUnchanged DEF IInv, TypeOK, MoveTo
  <2>4. QED
    BY <1>0, <1>1, <1>2, <2>1, <2>2, <2>3, ArriveKeeps, DirUnchanged
<1>3. ASSUME NEW r \in Requests, NEW from, NEW to, MoveTo(r, from, to),
             UNCHANGED <<dirVars, imageVars, listVars, gone>>,
             to \in Ended, to = "asked" => from = "dir" /\ HasDir(r)
      PROVE  Goal
  <2>1. to # "new" /\ to # "dir" /\ to # "list"
    BY <1>3 DEF Ended
  <2>2. StageOK'
    BY <1>0, <1>3, StageTyped
  <2>3. ListTypeOK' /\ ListInv'
    BY <1>3, <2>1, ListUnchanged DEF IInv, TypeOK, MoveTo
  <2>4. AskedInv'
    BY <1>3, <2>1, MoveKeepsAsked
  <2>5. QED
    BY <1>0, <1>1, <1>3, <2>2, <2>3, <2>4, DirUnchanged, ImageUnchanged
<1>4. ASSUME NEW r \in Requests, ImageRefused(r) \/ BeginGone(r) \/ DirReady(r) \/ StopWaiting(r)
      PROVE  Goal
  BY <1>3, <1>4 DEF ImageRefused, BeginGone, DirReady, StopWaiting, Ended
<1>5. ASSUME NEW r \in Requests, Begin(r) PROVE Goal
  <2>1. /\ UNCHANGED <<imageVars, listVars, gone>>
        /\ MoveTo(r, "images", "dir")
    BY <1>5 DEF Begin
  <2>2. StageOK'
    BY <1>0, <2>1, StageTyped
  <2>3. ListTypeOK' /\ ListInv'
    BY <2>1, ListUnchanged DEF IInv, TypeOK, MoveTo
  <2>4. QED
    BY <1>0, <1>1, <1>5, <2>1, <2>2, <2>3, BeginKeeps, ImageUnchanged
<1>6. ASSUME NEW r \in Requests, ClientGone(r) PROVE Goal
  <2>1. /\ UNCHANGED <<dirVars, imageVars, listVars, stage>>
        /\ gone' = gone \cup {r}
    BY <1>6 DEF ClientGone
  <2>2. AskedInv'
    BY <2>1 DEF IInv, AskedInv, dirVars, imageVars
  <2>3. StageOK' /\ ListTypeOK' /\ ListInv'
    BY <1>0, <2>1, ListUnchanged
  <2>4. QED
    BY <1>0, <1>1, <2>1, <2>2, <2>3, DirUnchanged, ImageUnchanged
<1>7. ASSUME UNCHANGED <<dirVars, imageVars, gone>>, ListTypeOK', ListInv', AskedInv', StageOK'
      PROVE  Goal
  BY <1>0, <1>1, <1>7, DirUnchanged, ImageUnchanged
<1>8. ASSUME NEW r \in Requests, GetModels(r) PROVE Goal
  <2>1. PICK to \in {"listed", "list"} : MoveTo(r, "new", to)
    BY <1>8 DEF GetModels
  <2>2. UNCHANGED <<dirVars, imageVars, gone>>
    BY <1>8 DEF GetModels
  <2>3. AskedInv'
    BY <2>1, <2>2, MoveKeepsAsked
  <2>4. StageOK'
    BY <1>0, <2>1, <2>2, StageTyped DEF Ended
  <2>5. QED
    BY <1>7, <1>8, <2>2, <2>3, <2>4, GetModelsKeeps
<1>9. ASSUME NEW r \in Requests, UpstreamAnswers(r) PROVE Goal
  <2>1. UNCHANGED <<dirVars, imageVars, stage, gone>>
    BY <1>9 DEF UpstreamAnswers
  <2>2. AskedInv'
    BY <2>1 DEF IInv, AskedInv, dirVars, imageVars
  <2>3. QED
    BY <1>0, <1>7, <1>9, <2>1, <2>2, UpstreamAnswersKeeps
<1>10. ASSUME NEW r \in Requests, ModelsArrive(r) PROVE Goal
  <2>1. UNCHANGED <<dirVars, imageVars, gone>> /\ MoveTo(r, "list", "listed")
    BY <1>10 DEF ModelsArrive
  <2>2. AskedInv'
    BY <2>1, MoveKeepsAsked
  <2>3. StageOK'
    BY <1>0, <2>1, StageTyped DEF Ended
  <2>4. QED
    BY <1>7, <1>10, <2>1, <2>2, <2>3, ModelsArriveKeeps
<1>11. ASSUME NEW i \in Images, Download(i) PROVE Goal
  <2>1. UNCHANGED <<dirVars, listVars, stage, gone>>
    BY <1>11 DEF Download
  <2>2. StageOK' /\ ListTypeOK' /\ ListInv'
    BY <1>0, <2>1, ListUnchanged
  <2>3. QED
    BY <1>0, <1>1, <1>11, <2>1, <2>2, DownloadKeeps, DirUnchanged
<1>12. ASSUME NEW c \in DOMAIN creations, CreationEnds(c) PROVE Goal
  <2>1. UNCHANGED <<imageVars, listVars, stage, gone>>
    BY <1>12 DEF CreationEnds
  <2>2. StageOK' /\ ListTypeOK' /\ ListInv'
    BY <1>0, <2>1, ListUnchanged
  <2>3. QED
    BY <1>0, <1>1, <1>12, <2>1, <2>2, CreationKeeps, ImageUnchanged
<1>13. ASSUME TimePasses PROVE Goal
  <2>1. UNCHANGED <<dirVars, imageVars, stage, gone>>
    BY <1>13 DEF TimePasses
  <2>2. AskedInv'
    BY <2>1 DEF IInv, AskedInv, dirVars, imageVars
  <2>3. QED
    BY <1>0, <1>7, <1>13, <2>1, <2>2, TimePassesKeeps
<1>14. ASSUME UNCHANGED vars PROVE Goal
  <2>1. UNCHANGED <<dirVars, imageVars, listVars, stage, gone>>
    BY <1>14 DEF vars
  <2>2. AskedInv'
    BY <2>1 DEF IInv, AskedInv, dirVars, imageVars
  <2>3. StageOK' /\ ListTypeOK' /\ ListInv'
    BY <1>0, <2>1, ListUnchanged
  <2>4. QED
    BY <1>7, <2>1, <2>2, <2>3
<1>15. QED
  BY <1>2, <1>4, <1>5, <1>6, <1>8, <1>9, <1>10, <1>11, <1>12, <1>13, <1>14 DEF Next

(* The invariant holds in every reachable state.                           *)
THEOREM InvariantHolds == Spec => []IInv
<1>1. QED
  BY InitHolds, StepKeeps, PTL DEF Spec

(* Every variable keeps its type.                                          *)
THEOREM TypeCorrect == Spec => []TypeOK
<1>1. IInv => TypeOK
  BY DEF IInv
<1>2. QED
  BY <1>1, InvariantHolds, PTL

(* However many requests come at once and however often the creation       *)
(* fails, one creation is kept: the only one that has not failed.          *)
THEOREM OneDirectoryHolds == Spec => []OneDirectory
<1>1. IInv => OneDirectory
  BY DEF IInv
<1>2. QED
  BY <1>1, InvariantHolds, PTL

(* The upstream is asked with every image downloaded and in the shared     *)
(* directory.                                                              *)
THEOREM AskedWithEverythingHolds == Spec => []AskedWithEverything
<1>1. IInv => AskedWithEverything
  <2> SUFFICES ASSUME IInv, NEW r \in Requests, stage[r] = "asked"
               PROVE  /\ \A i \in ImagesOf[r] : image[i] = "ready" /\ ~connected[i]
                      /\ holds[r] = workingDirPromise
    BY DEF AskedWithEverything
  <2>1. ImagesOf[r] \subseteq Images
    BY ServerAssumption
  <2>2. \A i \in ImagesOf[r] : image[i] = "ready" /\ ~connected[i]
    BY <2>1 DEF IInv, AskedInv
  <2>3. holds[r] \in DOMAIN creations /\ creations[holds[r]] = "made"
    BY DEF IInv, TypeOK, DirTypeOK, AskedInv, Unset
  <2>4. QED
    BY <2>2, <2>3 DEF IInv, OneDirectory
<1>2. QED
  BY <1>1, InvariantHolds, PTL

(* No caller is told a list older than the cache's lifetime and a fetch,   *)
(* nor the fallback that was meant for another.                            *)
THEOREM ListsAreTrueHolds == Spec => []ListsAreTrue
<1>1. IInv => ListsAreTrue
  BY DEF IInv, ListInv
<1>2. QED
  BY <1>1, InvariantHolds, PTL
=============================================================================
