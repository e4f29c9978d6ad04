----------------------------- MODULE ToolNames ------------------------------
(***************************************************************************)
(* The names under which the upstream knows the tools of a Responses       *)
(* request (src/translate/responses.ts, buildResponsesToolNameMap and      *)
(* upstreamToolName).  A plain function keeps its name; the functions of a *)
(* namespace get a name made of a hash, with a suffix when it is taken.    *)
(*                                                                         *)
(* A name is a base and a suffix, <<"x", 0>> for x and <<"x", 1>> for x_1, *)
(* so that a plain tool may have the name another tool's hash would get.   *)
(***************************************************************************)
EXTENDS Integers, FiniteSets, SequencesExt

CONSTANTS Identities,   \* the tools there may be, in the order of the sort
          Base(_)       \* the base of a namespaced tool's name, by its hash

NoSpace == "none"       \* the namespace of a plain function
Tool(space, name) == [namespace |-> space, name |-> name]

(* A tool is its namespace and its name; a request that has the same one   *)
(* twice is refused (responses.ts:34-41).                                  *)
ASSUME IdentitiesAssumption ==
  /\ Identities \in Seq(ToSet(Identities))
  /\ IsInjective(Identities)
  /\ \A t \in ToSet(Identities) : t = Tool(t.namespace, t.name)

BaseName(map, base) == <<base, 0>>
FreeName(map, base) ==
  <<base, CHOOSE k \in 0 .. Cardinality(DOMAIN map) :
            /\ <<base, k>> \notin DOMAIN map
            /\ \A j \in 0 .. k - 1 : <<base, j>> \in DOMAIN map>>

WithNamespaced(map, tool) ==
  LET name == FreeName(map, Base(tool))
  IN [n \in DOMAIN map \cup {name} |-> IF n = name THEN tool ELSE map[n]]

(* From the upstream's names to the client's tools: the plain functions    *)
(* first, then the others, one after the other.                            *)
Plain(these) == {t \in these : t.namespace = NoSpace}
PlainMap(these) == [n \in {t.name : t \in Plain(these)} |-> Tool(NoSpace, n)]
MapsInOrder(order, these) ==
  LET map[n \in 0 .. Len(order)] ==
        IF n = 0 THEN PlainMap(these)
        ELSE IF order[n] \in these \ Plain(these)
          THEN WithNamespaced(map[n - 1], order[n])
          ELSE map[n - 1]
  IN map
UnsortedMap(tools) == MapsInOrder(tools, ToSet(tools))[Len(tools)]
ToolNameMap(tools) == MapsInOrder(Identities, ToSet(tools))[Len(Identities)]

Defined(tool, map) == \E n \in DOMAIN map : map[n] = tool

(* A namespaced tool without a definition is refused; a plain name without *)
(* one is passed on.                                                       *)
KnownIfDefined(tool, map) == Defined(tool, map)
Known(tool, map) == Defined(tool, map) \/ tool.namespace = NoSpace
UpstreamToolName(tool, map) ==
  IF Defined(tool, map) THEN CHOOSE n \in DOMAIN map : map[n] = tool ELSE tool.name

(* What the client is shown of a call (toResponse, toResponseEvents).      *)
Shown(name, map) == IF name \in DOMAIN map THEN map[name] ELSE Tool(NoSpace, name)
=============================================================================
