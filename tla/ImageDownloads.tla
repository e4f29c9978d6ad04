--------------------------- MODULE ImageDownloads ---------------------------
(***************************************************************************)
(* The images of a request are downloaded before the upstream is asked     *)
(* (src/translate/messages.ts, materializeRemoteImages): all at once, each *)
(* with a limit on its size and one on its time.  The first failure fails  *)
(* the request; the other downloads go on behind it.                       *)
(***************************************************************************)
EXTENDS Naturals

CONSTANTS Images,      \* of all requests
          MaxBytes     \* the limit, in chunks

VARIABLES image,       \* how far each image is
          size,        \* the chunks kept of it
          connected    \* has its request a connection?

imageVars == <<image, size, connected>>

ImageTypeOK ==
  /\ image \in [Images -> {"waiting", "resolving", "asking", "reading", "ready", "bad"}]
  /\ size \in [Images -> 0 .. MaxBytes]
  /\ connected \in [Images -> BOOLEAN]

ImageInit ==
  /\ image = [i \in Images |-> "waiting"]
  /\ size = [i \in Images |-> 0]
  /\ connected = [i \in Images |-> FALSE]

(* A data URL is kept as it is, the URL of a host that is not public is    *)
(* refused, the name of any other is looked up.                            *)
StartDownloads(images) ==
  /\ \E f \in [images -> {"ready", "bad", "resolving"}] :
       image' = [i \in Images |-> IF i \in images THEN f[i] ELSE image[i]]
  /\ UNCHANGED <<size, connected>>

(* The lookup may fail, or name an address that is not public.             *)
HostResolved(i) ==
  /\ image[i] = "resolving"
  /\ \/ image' = [image EXCEPT ![i] = "asking"] /\ connected' = [connected EXCEPT ![i] = TRUE]
     \/ image' = [image EXCEPT ![i] = "bad"] /\ UNCHANGED connected
  /\ UNCHANGED size

(* A status, type or declared size that will not do leaves the body unread.*)
ImageAnswered(i) ==
  /\ image[i] = "asking"
  /\ \E next \in {"reading", "bad"} : image' = [image EXCEPT ![i] = next]
  /\ UNCHANGED <<size, connected>>

ImageChunk(i) ==
  /\ image[i] = "reading"
  /\ IF size[i] < MaxBytes
       THEN size' = [size EXCEPT ![i] = @ + 1] /\ UNCHANGED <<image, connected>>
       ELSE /\ image' = [image EXCEPT ![i] = "bad"]
            /\ connected' = [connected EXCEPT ![i] = FALSE]
            /\ UNCHANGED size

ImageComplete(i) ==
  /\ image[i] = "reading"
  /\ image' = [image EXCEPT ![i] = "ready"]
  /\ connected' = [connected EXCEPT ![i] = FALSE]
  /\ UNCHANGED size

ImageTimeoutWhileAwaited(i) ==
  /\ connected[i] /\ image[i] \in {"asking", "reading"}
  /\ image' = [image EXCEPT ![i] = "bad"]
  /\ connected' = [connected EXCEPT ![i] = FALSE]
  /\ UNCHANGED size
(* AbortSignal.timeout, or the connection is lost: also of a body that     *)
(* nobody reads.                                                           *)
ImageTimeout(i) ==
  /\ connected[i]
  /\ image' = [image EXCEPT ![i] = "bad"]
  /\ connected' = [connected EXCEPT ![i] = FALSE]
  /\ UNCHANGED size

MaterializedUnlessBad(images) == \A i \in images : image[i] # "bad"
Materialized(images) == \A i \in images : image[i] = "ready"
RejectedWhenAllAre(images) == images # {} /\ \A i \in images : image[i] = "bad"
Rejected(images) == \E i \in images : image[i] = "bad"
=============================================================================
