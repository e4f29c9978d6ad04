----------------------------- MODULE WorkingDir -----------------------------
(***************************************************************************)
(* The working directory all requests of a client share                    *)
(* (src/commandcode/client.ts, getWorkingDir): one promise, made by the    *)
(* first request that needs it and dropped when the creation fails.  A     *)
(* directory is known by the number of its creation.                       *)
(***************************************************************************)
EXTENDS Naturals, Sequences

CONSTANT Requests

VARIABLES workingDirPromise,   \* the creation whose promise is kept, or Unset
          creations,           \* "pending", "made" or "failed", one by one
          holds                \* the creation each request has awaited, or Unset

dirVars == <<workingDirPromise, creations, holds>>

Unset == 0

DirTypeOK ==
  /\ workingDirPromise \in {Unset} \cup DOMAIN creations
  /\ creations \in Seq({"pending", "made", "failed"})
  /\ holds \in [Requests -> {Unset} \cup DOMAIN creations]

DirInit ==
  /\ workingDirPromise = Unset
  /\ creations = <<>>
  /\ holds = [r \in Requests |-> Unset]

(* Remembers a directory only when it is there.                            *)
GetWorkingDirWhenMade(r) ==
  LET made == {c \in DOMAIN creations : creations[c] = "made"}
      c == IF made = {} THEN Len(creations) + 1 ELSE CHOOSE d \in made : TRUE
  IN /\ creations' = IF made = {} THEN Append(creations, "pending") ELSE creations
     /\ workingDirPromise' = c
     /\ holds' = [holds EXCEPT ![r] = c]
GetWorkingDir(r) ==
  LET new == workingDirPromise = Unset
  IN /\ creations' = IF new THEN Append(creations, "pending") ELSE creations
     /\ workingDirPromise' = IF new THEN Len(creations) + 1 ELSE workingDirPromise
     /\ holds' = [holds EXCEPT ![r] = workingDirPromise']

CreationSucceeds(c) ==
  /\ creations[c] = "pending"
  /\ creations' = [creations EXCEPT ![c] = "made"]
  /\ UNCHANGED <<workingDirPromise, holds>>

CreationFailsForGood(c) ==
  /\ creations[c] = "pending"
  /\ creations' = [creations EXCEPT ![c] = "failed"]
  /\ UNCHANGED <<workingDirPromise, holds>>
CreationFails(c) ==
  /\ creations[c] = "pending"
  /\ creations' = [creations EXCEPT ![c] = "failed"]
  /\ workingDirPromise' = Unset
  /\ UNCHANGED holds

DirSettled(r) == holds[r] # Unset /\ creations[holds[r]] # "pending"
HasDir(r) == holds[r] # Unset /\ creations[holds[r]] = "made"
=============================================================================
