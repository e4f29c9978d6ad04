------------------------ MODULE Conversation_proofs -------------------------
(***************************************************************************)
(* Conversations of any length: what the proxy makes of the items a client *)
(* sends back is what was said, whatever tools there are and whatever      *)
(* their hashes.                                                           *)
(***************************************************************************)
EXTENDS Conversation, SequenceTheorems, FiniteSetTheorems, TLAPS

(* Induction over the naturals, for a set: if x were the one left out, to  *)
(* add one would be an injection of the members below x into themselves    *)
(* that misses 0, and there are finitely many of them.                     *)
LEMMA NatInd ==
  ASSUME NEW T \in SUBSET Nat, 0 \in T, \A n \in T : n + 1 \in T
  PROVE  T = Nat
<1>1. SUFFICES ASSUME NEW x \in Nat, x \notin T PROVE FALSE
  OBVIOUS
<1>. DEFINE A == T \cap (0 .. x)
            next == [n \in A |-> n + 1]
<1>2. IsFiniteSet(A)
  <2>1. IsFiniteSet(0 .. x)
    BY FS_Interval
  <2>. HIDE DEF A
  <2>2. A \subseteq 0 .. x
    BY DEF A
  <2>3. QED
    BY <2>1, <2>2, FS_Subset
<1>3. \A n \in A : n + 1 \in A
  BY <1>1
<1>4. next \in [A -> A]
  BY <1>3
<1>5. \A a, b \in A : next[a] = next[b] => a = b
  OBVIOUS
<1>6. 0 \in A /\ \A n \in A : next[n] # 0
  OBVIOUS
<1>. HIDE DEF next, A
<1>7. next \in Injection(A, A)
  BY <1>4, <1>5 DEF Injection, IsInjective
<1>8. next \in Surjection(A, A)
  BY <1>2, <1>7, FS_Injection
<1>9. QED
  BY <1>6, <1>8 DEF Surjection

(* A set of naturals with a member has a least one.                        *)
LEMMA Least ==
  ASSUME NEW S \in SUBSET Nat, NEW x \in S
  PROVE  \E k \in S : \A j \in S : k <= j
<1>1. SUFFICES ASSUME \A k \in S : \E j \in S : j < k PROVE FALSE
  OBVIOUS
<1>. DEFINE T == {n \in Nat : \A m \in 0 .. n : m \notin S}
<1>2. 0 \in T
  BY <1>1
<1>3. \A n \in T : n + 1 \in T
  <2>1. SUFFICES ASSUME NEW n \in T, n + 1 \in S PROVE FALSE
    OBVIOUS
  <2>2. PICK j \in S : j < n + 1
    BY <1>1, <2>1
  <2>3. j \in 0 .. n
    BY <2>2
  <2>4. QED
    BY <2>3
<1>4. T = Nat
  <2>. HIDE DEF T
  <2>1. T \in SUBSET Nat
    BY DEF T
  <2>2. QED
    BY <1>2, <1>3, <2>1, NatInd
<1>5. x \in T /\ x \in 0 .. x
  BY <1>4
<1>6. QED
  BY <1>5

(* The elements of a sequence are finitely many.                           *)
LEMMA FiniteElements ==
  ASSUME NEW S, NEW s \in Seq(S)
  PROVE  IsFiniteSet(ToSet(s)) /\ ToSet(s) \subseteq S
<1>1. DOMAIN s = 1 .. Len(s) /\ Len(s) \in Nat /\ \A i \in 1 .. Len(s) : s[i] \in S
  BY LenProperties, ElementOfSeq
<1>2. s \in Surjection(1 .. Len(s), ToSet(s))
  BY <1>1, LenProperties DEF Surjection, ToSet
<1>3. IsFiniteSet(1 .. Len(s))
  BY <1>1, FS_Interval
<1>4. QED
  BY <1>1, <1>2, <1>3, FS_Surjection DEF ToSet

-----------------------------------------------------------------------------
(* The names of the tools.                                                 *)

(* There are more suffixes than names, so one is free.                     *)
LEMMA NameIsFree ==
  ASSUME NEW map, IsFiniteSet(DOMAIN map), NEW base
  PROVE  FreeName(map, base) \notin DOMAIN map
<1>. DEFINE D == DOMAIN map
            c == Cardinality(D)
            S == {k \in 0 .. c : <<base, k>> \notin D}
<1>1. c \in Nat
  BY FS_CardinalityType
<1>2. S # {}
  <2>1. SUFFICES ASSUME \A k \in 0 .. c : <<base, k>> \in D PROVE FALSE
    OBVIOUS
  <2>. DEFINE I == 0 .. c
              f == [k \in I |-> <<base, k>>]
  <2>2. f \in [I -> D]
    BY <2>1
  <2>3. IsFiniteSet(I) /\ Cardinality(I) = c + 1
    BY <1>1, FS_Interval
  <2>4. \A x, y \in I : f[x] = f[y] => x = y
    OBVIOUS
  <2>5. Cardinality(D) < Cardinality(I)
    BY <1>1, <2>3
  <2>. HIDE DEF f, I, D
  <2>6. IsFiniteSet(D)
    BY DEF D
  <2>7. QED
    BY <2>2, <2>3, <2>4, <2>5, <2>6, FS_PigeonHole
<1>3. S \in SUBSET Nat
  BY <1>1
<1>4. PICK k \in S : \A j \in S : k <= j
  BY <1>2, <1>3, Least
<1>5. k \in 0 .. c /\ <<base, k>> \notin D
  OBVIOUS
<1>6. \A j \in 0 .. k - 1 : <<base, j>> \in D
  <2>1. SUFFICES ASSUME NEW j \in 0 .. k - 1, <<base, j>> \notin D PROVE FALSE
    OBVIOUS
  <2>2. j \in S
    BY <1>1, <1>5, <2>1
  <2>3. k <= j
    BY <1>4, <2>2
  <2>4. QED
    BY <1>1, <1>5, <2>3
<1>7. QED
  BY <1>5, <1>6 DEF FreeName

(* The maps of the loop exist and are what it makes them one by one.       *)
LEMMA MapsUnfold ==
  ASSUME NEW order, Len(order) \in Nat, NEW these
  PROVE  /\ MapsInOrder(order, these)[0] = PlainMap(these)
         /\ \A n \in 1 .. Len(order) :
              MapsInOrder(order, these)[n]
                = IF order[n] \in these \ Plain(these)
                    THEN WithNamespaced(MapsInOrder(order, these)[n - 1], order[n])
                    ELSE MapsInOrder(order, these)[n - 1]
<1>. DEFINE Step(map, n) == IF order[n] \in these \ Plain(these)
                              THEN WithNamespaced(map, order[n]) ELSE map
            first == PlainMap(these)
            L == Len(order)
            Loop(f, m) == f = [n \in 0 .. m |->
                                 IF n = 0 THEN first ELSE Step(f[n - 1], n)]
            T == {m \in Nat : \E f : Loop(f, m)}
<1>1. \A f : Loop(f, L) =>
        f[0] = first /\ \A n \in 1 .. L : f[n] = Step(f[n - 1], n)
  <2>. HIDE DEF first, Step
  <2>1. SUFFICES ASSUME NEW f, Loop(f, L)
                 PROVE  f[0] = first /\ \A n \in 1 .. L : f[n] = Step(f[n - 1], n)
    OBVIOUS
  <2>2. \A n \in 0 .. L : f[n] = IF n = 0 THEN first ELSE Step(f[n - 1], n)
    BY <2>1
  <2>3. QED
    BY <2>2
<1>2. T = Nat
  <2>. HIDE DEF first, Step
  <2>1. 0 \in T
    <3>. DEFINE f == [n \in 0 .. 0 |-> IF n = 0 THEN first ELSE Step(0, n)]
    <3>1. f = [n \in 0 .. 0 |-> IF n = 0 THEN first ELSE Step(f[n - 1], n)]
      OBVIOUS
    <3>2. QED
      BY <3>1
  <2>2. ASSUME NEW m \in T PROVE m + 1 \in T
    <3>1. PICK f : Loop(f, m)
      OBVIOUS
    <3>. DEFINE g == [n \in 0 .. m + 1 |->
                        IF n = m + 1 THEN Step(f[m], m + 1) ELSE f[n]]
    <3>2. \A n \in 0 .. m : f[n] = IF n = 0 THEN first ELSE Step(f[n - 1], n)
      BY <3>1
    <3>3. m \in Nat
      OBVIOUS
    <3>4. \A n \in 0 .. m + 1 : g[n] = IF n = 0 THEN first ELSE Step(g[n - 1], n)
      <4>1. SUFFICES ASSUME NEW n \in 0 .. m + 1
                     PROVE  g[n] = IF n = 0 THEN first ELSE Step(g[n - 1], n)
        OBVIOUS
      <4>2. CASE n = m + 1
        BY <3>3, <4>2
      <4>3. CASE n # m + 1
        <5>1. n \in 0 .. m /\ g[n] = f[n] /\ (n # 0 => g[n - 1] = f[n - 1])
          BY <3>3, <4>3
        <5>. HIDE DEF g
        <5>2. QED
          BY <3>2, <5>1
      <4>4. QED
        BY <4>2, <4>3
    <3>5. g = [n \in 0 .. m + 1 |-> IF n = 0 THEN first ELSE Step(g[n - 1], n)]
      <4>1. g = [n \in 0 .. m + 1 |-> g[n]]
        OBVIOUS
      <4>. HIDE DEF g
      <4>2. QED
        BY <3>4, <4>1
    <3>. HIDE DEF g
    <3>6. Loop(g, m + 1)
      BY <3>5
    <3>. HIDE DEF Loop
    <3>7. QED
      BY <3>3, <3>6
  <2>. HIDE DEF T
  <2>3. T \in SUBSET Nat
    BY DEF T
  <2>4. QED
    BY <2>1, <2>2, <2>3, NatInd
<1>3. \E f : Loop(f, L)
  BY <1>2
<1>4. MapsInOrder(order, these) = CHOOSE f : Loop(f, L)
  BY DEF MapsInOrder
<1>. HIDE DEF Loop
<1>5. Loop(MapsInOrder(order, these), L)
  BY <1>3, <1>4
<1>6. QED
  BY <1>1, <1>5

(* What a map has once the first n tools have been looked at: every name   *)
(* is one tool's, the tools so far have a name, and a plain one its own.   *)
MapOK(map, these, n) ==
  /\ IsFiniteSet(DOMAIN map)
  /\ \A x \in DOMAIN map :
       /\ map[x] \in these
       /\ map[x] \in Plain(these) => map[x].name = x
       /\ map[x] \notin Plain(these) => \E i \in 1 .. n : map[x] = Identities[i]
  /\ \A x, y \in DOMAIN map : map[x] = map[y] => x = y
  /\ \A t \in Plain(these) : t.name \in DOMAIN map /\ map[t.name] = t
  /\ \A i \in 1 .. n : Identities[i] \in these \ Plain(these) =>
       \E x \in DOMAIN map : map[x] = Identities[i]

LEMMA PlainTools ==
  ASSUME NEW these \in SUBSET ToSet(Identities), NEW t \in Plain(these)
  PROVE  t \in these /\ t = Tool(NoSpace, t.name)
<1>1. t \in ToSet(Identities) /\ t \in these /\ t.namespace = NoSpace
  BY DEF Plain
<1>2. t = Tool(t.namespace, t.name)
  BY <1>1, IdentitiesAssumption
<1>3. QED
  BY <1>1, <1>2

LEMMA MapFirst ==
  ASSUME NEW these \in SUBSET ToSet(Identities)
  PROVE  MapOK(PlainMap(these), these, 0)
<1>. DEFINE P == Plain(these)
            names == {t.name : t \in P}
            map == PlainMap(these)
<1>1. IsFiniteSet(P)
  <2>1. P \subseteq these
    BY DEF Plain
  <2>2. IsFiniteSet(these)
    BY IdentitiesAssumption, FiniteElements, FS_Subset
  <2>3. QED
    BY <2>1, <2>2, FS_Subset
<1>2. IsFiniteSet(names)
  <2>. DEFINE f == [t \in P |-> t.name]
  <2>1. f \in Surjection(P, names)
    BY DEF Surjection
  <2>. HIDE DEF f, P, names
  <2>2. QED
    BY <1>1, <2>1, FS_Surjection
<1>3. DOMAIN map = names /\ \A n \in names : map[n] = Tool(NoSpace, n)
  BY DEF PlainMap
<1>4. \A t \in P : t \in these /\ t = Tool(NoSpace, t.name)
  BY PlainTools
<1>5. \A n \in names : Tool(NoSpace, n) \in P /\ Tool(NoSpace, n).name = n
  <2>1. SUFFICES ASSUME NEW t \in P
                 PROVE  Tool(NoSpace, t.name) \in P /\ Tool(NoSpace, t.name).name = t.name
    OBVIOUS
  <2>2. QED
    BY <1>4 DEF Tool
<1>. HIDE DEF P, names, map
<1>6. \A t \in P : t.name \in names
  BY DEF names
<1>7. \A x, y \in names : map[x] = map[y] => x = y
  BY <1>3, <1>5
<1>8. QED
  BY <1>2, <1>3, <1>4, <1>5, <1>6, <1>7 DEF MapOK, P, map

LEMMA MapAdd ==
  ASSUME NEW these \in SUBSET ToSet(Identities), NEW n \in 1 .. Len(Identities),
         NEW map, MapOK(map, these, n - 1),
         Identities[n] \in these \ Plain(these)
  PROVE  MapOK(WithNamespaced(map, Identities[n]), these, n)
<1>. DEFINE tool == Identities[n]
            name == FreeName(map, Base(tool))
            D == DOMAIN map \cup {name}
<1>1. PICK m : m = WithNamespaced(map, tool)
  OBVIOUS
<1>2. name \notin DOMAIN map
  BY NameIsFree DEF MapOK
<1>3. /\ DOMAIN m = D
      /\ m[name] = tool
      /\ \A x \in DOMAIN map : m[x] = map[x]
  BY <1>1, <1>2 DEF WithNamespaced
<1>4. IsFiniteSet(DOMAIN m)
  BY <1>3, FS_AddElement DEF MapOK
<1>5. Len(Identities) \in Nat /\ DOMAIN Identities = 1 .. Len(Identities)
  BY IdentitiesAssumption, LenProperties
<1>6. n \in Nat /\ 1 .. n = (1 .. n - 1) \cup {n}
  BY <1>5
<1>7. \A i \in 1 .. n - 1 : Identities[i] # tool
  <2>1. SUFFICES ASSUME NEW i \in 1 .. n - 1, Identities[i] = Identities[n] PROVE FALSE
    OBVIOUS
  <2>2. i \in DOMAIN Identities /\ n \in DOMAIN Identities /\ i # n
    BY <1>5
  <2>3. QED
    BY <2>1, <2>2, IdentitiesAssumption DEF IsInjective
<1>8. \A x \in DOMAIN map : map[x] # tool
  BY <1>7 DEF MapOK
<1>9. tool \in these /\ tool \notin Plain(these)
  OBVIOUS
<1>. HIDE DEF tool, name
<1>10. \A x \in DOMAIN m :
         /\ m[x] \in these
         /\ m[x] \in Plain(these) => m[x].name = x
         /\ m[x] \notin Plain(these) => \E i \in 1 .. n : m[x] = Identities[i]
  <2>1. SUFFICES ASSUME NEW x \in DOMAIN m
                 PROVE  /\ m[x] \in these
                        /\ m[x] \in Plain(these) => m[x].name = x
                        /\ m[x] \notin Plain(these) => \E i \in 1 .. n : m[x] = Identities[i]
    OBVIOUS
  <2>2. CASE x = name
    BY <1>3, <1>6, <1>9, <2>2 DEF tool
  <2>3. CASE x \in DOMAIN map
    BY <1>3, <1>6, <2>3 DEF MapOK
  <2>4. QED
    BY <1>3, <2>2, <2>3
<1>11. \A x, y \in DOMAIN m : m[x] = m[y] => x = y
  BY <1>3, <1>8 DEF MapOK
<1>12. \A t \in Plain(these) : t.name \in DOMAIN m /\ m[t.name] = t
  BY <1>3 DEF MapOK
<1>13. \A i \in 1 .. n : Identities[i] \in these \ Plain(these) =>
         \E x \in DOMAIN m : m[x] = Identities[i]
  <2>1. SUFFICES ASSUME NEW i \in 1 .. n, Identities[i] \in these \ Plain(these)
                 PROVE  \E x \in DOMAIN m : m[x] = Identities[i]
    OBVIOUS
  <2>2. CASE i = n
    BY <1>3, <2>2 DEF tool
  <2>3. CASE i \in 1 .. n - 1
    BY <1>3, <2>1, <2>3 DEF MapOK
  <2>4. QED
    BY <1>6, <2>2, <2>3
<1>14. MapOK(m, these, n)
  BY <1>4, <1>10, <1>11, <1>12, <1>13 DEF MapOK
<1>15. QED
  BY <1>1, <1>14 DEF tool

LEMMA MapIsOK ==
  ASSUME NEW these \in SUBSET ToSet(Identities)
  PROVE  MapOK(MapsInOrder(Identities, these)[Len(Identities)], these, Len(Identities))
<1>1. PICK maps : maps = MapsInOrder(Identities, these)
  OBVIOUS
<1>2. PICK L \in Nat : L = Len(Identities)
  BY IdentitiesAssumption, LenProperties
<1>3. maps[0] = PlainMap(these)
  BY <1>1, <1>2, MapsUnfold
<1>4. \A n \in 1 .. L : maps[n] = IF Identities[n] \in these \ Plain(these)
                                   THEN WithNamespaced(maps[n - 1], Identities[n])
                                   ELSE maps[n - 1]
  BY <1>1, <1>2, MapsUnfold
<1>. DEFINE T == {n \in Nat : n <= L => MapOK(maps[n], these, n)}
<1>5. 0 \in T
  BY <1>3, MapFirst
<1>6. ASSUME NEW n \in T PROVE n + 1 \in T
  <2>1. SUFFICES ASSUME n + 1 <= L PROVE MapOK(maps[n + 1], these, n + 1)
    OBVIOUS
  <2>2. MapOK(maps[n], these, n) /\ n + 1 \in 1 .. L /\ (n + 1) - 1 = n
    BY <2>1
  <2>3. CASE Identities[n + 1] \in these \ Plain(these)
    <3>1. maps[n + 1] = WithNamespaced(maps[n], Identities[n + 1])
      BY <1>4, <2>2, <2>3
    <3>2. PICK i \in 1 .. L : i = n + 1 /\ i - 1 = n
      BY <2>2
    <3>3. MapOK(WithNamespaced(maps[n], Identities[i]), these, i)
      BY <1>2, <2>2, <2>3, <3>2, MapAdd
    <3>4. QED
      BY <3>1, <3>2, <3>3
  <2>4. CASE Identities[n + 1] \notin these \ Plain(these)
    <3>1. maps[n + 1] = maps[n]
      BY <1>4, <2>2, <2>4
    <3>2. 1 .. n + 1 = (1 .. n) \cup {n + 1}
      OBVIOUS
    <3>3. QED
      BY <2>2, <2>4, <3>1, <3>2 DEF MapOK
  <2>5. QED
    BY <2>3, <2>4
<1>7. T = Nat
  <2>. HIDE DEF T
  <2>1. T \in SUBSET Nat
    BY DEF T
  <2>2. QED
    BY <1>5, <1>6, <2>1, NatInd
<1>8. MapOK(maps[L], these, L)
  BY <1>7
<1>9. QED
  BY <1>1, <1>2, <1>8

(* What a request needs of its map: a tool of the list is under one name   *)
(* only, a plain one under its own, and nothing else is in it.             *)
NamesOK(map, these) ==
  /\ \A x \in DOMAIN map : map[x] \in these
  /\ \A x \in DOMAIN map : map[x].namespace = NoSpace => map[x].name = x
  /\ \A x, y \in DOMAIN map : map[x] = map[y] => x = y
  /\ \A t \in these : \E x \in DOMAIN map : map[x] = t

LEMMA MapNames ==
  ASSUME NEW these \in SUBSET ToSet(Identities), NEW map,
         MapOK(map, these, Len(Identities))
  PROVE  NamesOK(map, these)
<1>1. \A x \in DOMAIN map : map[x].namespace = NoSpace => map[x].name = x
  BY DEF MapOK, Plain
<1>2. ASSUME NEW t \in these PROVE \E x \in DOMAIN map : map[x] = t
  <2>1. CASE t \in Plain(these)
    BY <2>1 DEF MapOK
  <2>2. CASE t \notin Plain(these)
    <3>1. PICK i \in DOMAIN Identities : t = Identities[i]
      BY DEF ToSet
    <3>2. i \in 1 .. Len(Identities)
      BY IdentitiesAssumption, LenProperties
    <3>3. QED
      BY <2>2, <3>1, <3>2 DEF MapOK
  <2>3. QED
    BY <2>1, <2>2
<1>3. QED
  BY <1>1, <1>2 DEF MapOK, NamesOK

LEMMA NameMapOK ==
  ASSUME tools \in ToolLists
  PROVE  NamesOK(NameMap, ToSet(tools))
<1>1. NameMap = MapsInOrder(Identities, ToSet(tools))[Len(Identities)]
  BY DEF NameMap, NameMaps, ToolNameMap
<1>2. ToSet(tools) \in SUBSET ToSet(Identities)
  BY ToolListsAssumption, FiniteElements
<1>3. QED
  BY <1>1, <1>2, MapIsOK, MapNames

(* The order of the list does not matter.                                  *)
LEMMA SameNameMap ==
  ASSUME tools \in ToolLists, tools' \in ToolLists, ToSet(tools') = ToSet(tools)
  PROVE  NameMap' = NameMap
<1>1. NameMap = MapsInOrder(Identities, ToSet(tools))[Len(Identities)]
  BY DEF NameMap, NameMaps, ToolNameMap
<1>2. NameMap' = MapsInOrder(Identities, ToSet(tools'))[Len(Identities)]
  BY DEF NameMap, NameMaps, ToolNameMap
<1>3. QED
  BY <1>1, <1>2

(* A tool that is shown for a name is known, and stands for that name.     *)
LEMMA ShownIsKnown ==
  ASSUME NEW map, NEW these, NamesOK(map, these), NEW name
  PROVE  /\ Known(Shown(name, map), map)
         /\ UpstreamToolName(Shown(name, map), map) = name
<1>1. CASE name \in DOMAIN map
  <2>1. Shown(name, map) = map[name] /\ Defined(map[name], map)
    BY <1>1 DEF Shown, Defined
  <2>2. (CHOOSE n \in DOMAIN map : map[n] = map[name]) = name
    BY <1>1 DEF NamesOK
  <2>3. QED
    BY <2>1, <2>2 DEF Known, UpstreamToolName
<1>2. CASE name \notin DOMAIN map
  <2>1. PICK t : t = Tool(NoSpace, name)
    OBVIOUS
  <2>2. Shown(name, map) = t
    BY <1>2, <2>1 DEF Shown
  <2>3. t.namespace = NoSpace /\ t.name = name
    BY <2>1 DEF Tool
  <2>4. ~ Defined(t, map)
    BY <1>2, <2>3 DEF Defined, NamesOK
  <2>5. QED
    BY <2>2, <2>3, <2>4 DEF Known, UpstreamToolName
<1>3. QED
  BY <1>1, <1>2

LEMMA ToldApart ==
  ASSUME tools \in ToolLists
  PROVE  ToolsToldApart
<1>1. PICK map : map = NameMap
  OBVIOUS
<1>2. NamesOK(map, ToSet(tools))
  BY <1>1, NameMapOK
<1>. DEFINE name == [t \in ToSet(tools) |-> UpstreamToolName(t, map)]
<1>3. ASSUME NEW t \in ToSet(tools)
      PROVE  name[t] \in DOMAIN map /\ map[name[t]] = t
  <2>1. \E x \in DOMAIN map : map[x] = t
    BY <1>2 DEF NamesOK
  <2>2. Defined(t, map)
    BY <2>1 DEF Defined
  <2>3. UpstreamToolName(t, map) = CHOOSE x \in DOMAIN map : map[x] = t
    BY <2>2 DEF UpstreamToolName
  <2>4. name[t] = CHOOSE x \in DOMAIN map : map[x] = t
    BY <2>3
  <2>. HIDE DEF name
  <2>5. QED
    BY <2>1, <2>4
<1>. HIDE DEF name
<1>4. \A t \in ToSet(tools) : Shown(name[t], map) = t
  BY <1>3 DEF Shown
<1>5. DOMAIN name = ToSet(tools)
  BY DEF name
<1>6. IsInjective(name)
  BY <1>3, <1>5 DEF IsInjective
<1>7. QED
  BY <1>1, <1>4, <1>6 DEF ToolsToldApart, name

-----------------------------------------------------------------------------
(* The two loops over a history, one element after the other.              *)

NothingNormalized == [messages |-> <<>>, userParts |-> <<>>]
NothingTranslated == [messages |-> <<>>, system |-> <<>>, toolNames |-> <<>>]

(* The states of normalizeInput.                                           *)
LEMMA NormalizeUnfold ==
  ASSUME NEW list, NEW map, NEW L \in Nat, L = Len(list)
  PROVE  /\ NormalizeStates(list, map)[0] = NothingNormalized
         /\ \A n \in 1 .. L :
              NormalizeStates(list, map)[n] = NormalizeItem(NormalizeStates(list, map)[n - 1], list[n], map)
<1>. DEFINE Step(state, n) == NormalizeItem(state, list[n], map)
            first == NothingNormalized
            Loop(f, m) == f = [n \in 0 .. m |->
                                 IF n = 0 THEN first ELSE Step(f[n - 1], n)]
            T == {m \in Nat : \E f : Loop(f, m)}
<1>1. \A f : Loop(f, L) =>
        f[0] = first /\ \A n \in 1 .. L : f[n] = Step(f[n - 1], n)
  <2>. HIDE DEF first, Step
  <2>1. SUFFICES ASSUME NEW f, Loop(f, L)
                 PROVE  f[0] = first /\ \A n \in 1 .. L : f[n] = Step(f[n - 1], n)
    OBVIOUS
  <2>2. \A n \in 0 .. L : f[n] = IF n = 0 THEN first ELSE Step(f[n - 1], n)
    BY <2>1
  <2>3. QED
    BY <2>2
<1>2. T = Nat
  <2>. HIDE DEF first, Step
  <2>1. 0 \in T
    <3>. DEFINE f == [n \in 0 .. 0 |-> IF n = 0 THEN first ELSE Step(0, n)]
    <3>1. f = [n \in 0 .. 0 |-> IF n = 0 THEN first ELSE Step(f[n - 1], n)]
      OBVIOUS
    <3>2. QED
      BY <3>1
  <2>2. ASSUME NEW m \in T PROVE m + 1 \in T
    <3>1. PICK f : Loop(f, m)
      OBVIOUS
    <3>. DEFINE g == [n \in 0 .. m + 1 |->
                        IF n = m + 1 THEN Step(f[m], m + 1) ELSE f[n]]
    <3>2. \A n \in 0 .. m : f[n] = IF n = 0 THEN first ELSE Step(f[n - 1], n)
      BY <3>1
    <3>3. m \in Nat
      OBVIOUS
    <3>4. \A n \in 0 .. m + 1 : g[n] = IF n = 0 THEN first ELSE Step(g[n - 1], n)
      <4>1. SUFFICES ASSUME NEW n \in 0 .. m + 1
                     PROVE  g[n] = IF n = 0 THEN first ELSE Step(g[n - 1], n)
        OBVIOUS
      <4>2. CASE n = m + 1
        BY <3>3, <4>2
      <4>3. CASE n # m + 1
        <5>1. n \in 0 .. m /\ g[n] = f[n] /\ (n # 0 => g[n - 1] = f[n - 1])
          BY <3>3, <4>3
        <5>. HIDE DEF g
        <5>2. QED
          BY <3>2, <5>1
      <4>4. QED
        BY <4>2, <4>3
    <3>5. g = [n \in 0 .. m + 1 |-> IF n = 0 THEN first ELSE Step(g[n - 1], n)]
      <4>1. g = [n \in 0 .. m + 1 |-> g[n]]
        OBVIOUS
      <4>. HIDE DEF g
      <4>2. QED
        BY <3>4, <4>1
    <3>. HIDE DEF g
    <3>6. Loop(g, m + 1)
      BY <3>5
    <3>. HIDE DEF Loop
    <3>7. QED
      BY <3>3, <3>6
  <2>. HIDE DEF T
  <2>3. T \in SUBSET Nat
    BY DEF T
  <2>4. QED
    BY <2>1, <2>2, <2>3, NatInd
<1>3. \E f : Loop(f, L)
  BY <1>2
<1>4. NormalizeStates(list, map) = CHOOSE f : Loop(f, L)
  BY DEF NormalizeStates, NothingNormalized
<1>. HIDE DEF Loop
<1>5. Loop(NormalizeStates(list, map), L)
  BY <1>3, <1>4
<1>6. QED
  BY <1>1, <1>5

(* The states of toCommandCodeMessages.                                    *)
LEMMA TranslateUnfold ==
  ASSUME NEW messages, NEW L \in Nat, L = Len(messages)
  PROVE  /\ CommandCodeStates(messages)[0] = NothingTranslated
         /\ \A n \in 1 .. L :
              CommandCodeStates(messages)[n] = ToCommandCode(CommandCodeStates(messages)[n - 1], messages[n])
<1>. DEFINE Step(state, n) == ToCommandCode(state, messages[n])
            first == NothingTranslated
            Loop(f, m) == f = [n \in 0 .. m |->
                                 IF n = 0 THEN first ELSE Step(f[n - 1], n)]
            T == {m \in Nat : \E f : Loop(f, m)}
<1>1. \A f : Loop(f, L) =>
        f[0] = first /\ \A n \in 1 .. L : f[n] = Step(f[n - 1], n)
  <2>. HIDE DEF first, Step
  <2>1. SUFFICES ASSUME NEW f, Loop(f, L)
                 PROVE  f[0] = first /\ \A n \in 1 .. L : f[n] = Step(f[n - 1], n)
    OBVIOUS
  <2>2. \A n \in 0 .. L : f[n] = IF n = 0 THEN first ELSE Step(f[n - 1], n)
    BY <2>1
  <2>3. QED
    BY <2>2
<1>2. T = Nat
  <2>. HIDE DEF first, Step
  <2>1. 0 \in T
    <3>. DEFINE f == [n \in 0 .. 0 |-> IF n = 0 THEN first ELSE Step(0, n)]
    <3>1. f = [n \in 0 .. 0 |-> IF n = 0 THEN first ELSE Step(f[n - 1], n)]
      OBVIOUS
    <3>2. QED
      BY <3>1
  <2>2. ASSUME NEW m \in T PROVE m + 1 \in T
    <3>1. PICK f : Loop(f, m)
      OBVIOUS
    <3>. DEFINE g == [n \in 0 .. m + 1 |->
                        IF n = m + 1 THEN Step(f[m], m + 1) ELSE f[n]]
    <3>2. \A n \in 0 .. m : f[n] = IF n = 0 THEN first ELSE Step(f[n - 1], n)
      BY <3>1
    <3>3. m \in Nat
      OBVIOUS
    <3>4. \A n \in 0 .. m + 1 : g[n] = IF n = 0 THEN first ELSE Step(g[n - 1], n)
      <4>1. SUFFICES ASSUME NEW n \in 0 .. m + 1
                     PROVE  g[n] = IF n = 0 THEN first ELSE Step(g[n - 1], n)
        OBVIOUS
      <4>2. CASE n = m + 1
        BY <3>3, <4>2
      <4>3. CASE n # m + 1
        <5>1. n \in 0 .. m /\ g[n] = f[n] /\ (n # 0 => g[n - 1] = f[n - 1])
          BY <3>3, <4>3
        <5>. HIDE DEF g
        <5>2. QED
          BY <3>2, <5>1
      <4>4. QED
        BY <4>2, <4>3
    <3>5. g = [n \in 0 .. m + 1 |-> IF n = 0 THEN first ELSE Step(g[n - 1], n)]
      <4>1. g = [n \in 0 .. m + 1 |-> g[n]]
        OBVIOUS
      <4>. HIDE DEF g
      <4>2. QED
        BY <3>4, <4>1
    <3>. HIDE DEF g
    <3>6. Loop(g, m + 1)
      BY <3>5
    <3>. HIDE DEF Loop
    <3>7. QED
      BY <3>3, <3>6
  <2>. HIDE DEF T
  <2>3. T \in SUBSET Nat
    BY DEF T
  <2>4. QED
    BY <2>1, <2>2, <2>3, NatInd
<1>3. \E f : Loop(f, L)
  BY <1>2
<1>4. CommandCodeStates(messages) = CHOOSE f : Loop(f, L)
  BY DEF CommandCodeStates, NothingTranslated
<1>. HIDE DEF Loop
<1>5. Loop(CommandCodeStates(messages), L)
  BY <1>3, <1>4
<1>6. QED
  BY <1>1, <1>5

(* One item more.                                                          *)
LEMMA NormalizeAppend ==
  ASSUME NEW S, NEW list \in Seq(S), NEW item \in S, NEW map
  PROVE  Normalized(Append(list, item), map) = NormalizeItem(Normalized(list, map), item, map)
<1>. DEFINE longer == Append(list, item)
            s == NormalizeStates(list, map)
            t == NormalizeStates(longer, map)
<1>1. PICK L \in Nat : L = Len(list) /\ Len(longer) = L + 1
  BY LenProperties, AppendProperties
<1>2. longer[L + 1] = item /\ \A n \in 1 .. L : longer[n] = list[n]
  BY <1>1, AppendProperties
<1>. HIDE DEF longer
<1>3. s[0] = NothingNormalized /\ \A n \in 1 .. L : s[n] = NormalizeItem(s[n - 1], list[n], map)
  BY <1>1, NormalizeUnfold
<1>4. t[0] = NothingNormalized /\ \A n \in 1 .. L + 1 : t[n] = NormalizeItem(t[n - 1], longer[n], map)
  BY <1>1, NormalizeUnfold
<1>. HIDE DEF s, t
<1>. DEFINE T == {n \in Nat : n <= L => t[n] = s[n]}
<1>5. 0 \in T
  BY <1>3, <1>4
<1>6. ASSUME NEW n \in T PROVE n + 1 \in T
  <2>1. SUFFICES ASSUME n + 1 <= L PROVE t[n + 1] = s[n + 1]
    OBVIOUS
  <2>2. n + 1 \in 1 .. L /\ n + 1 \in 1 .. L + 1 /\ (n + 1) - 1 = n /\ t[n] = s[n]
    BY <2>1
  <2>3. QED
    BY <1>2, <1>3, <1>4, <2>2
<1>7. T = Nat
  <2>. HIDE DEF T
  <2>1. T \in SUBSET Nat
    BY DEF T
  <2>2. QED
    BY <1>5, <1>6, <2>1, NatInd
<1>8. t[L] = s[L]
  BY <1>7
<1>9. t[L + 1] = NormalizeItem(s[L], item, map)
  <2>1. L + 1 \in 1 .. L + 1 /\ (L + 1) - 1 = L
    OBVIOUS
  <2>2. QED
    BY <1>2, <1>4, <1>8, <2>1
<1>10. QED
  BY <1>1, <1>9 DEF Normalized, s, t, longer

(* One message more.                                                       *)
LEMMA TranslateAppend ==
  ASSUME NEW S, NEW messages \in Seq(S), NEW m \in S
  PROVE  CommandCode(Append(messages, m)) = ToCommandCode(CommandCode(messages), m)
<1>. DEFINE longer == Append(messages, m)
            s == CommandCodeStates(messages)
            t == CommandCodeStates(longer)
<1>1. PICK L \in Nat : L = Len(messages) /\ Len(longer) = L + 1
  BY LenProperties, AppendProperties
<1>2. longer[L + 1] = m /\ \A n \in 1 .. L : longer[n] = messages[n]
  BY <1>1, AppendProperties
<1>. HIDE DEF longer
<1>3. s[0] = NothingTranslated /\ \A n \in 1 .. L : s[n] = ToCommandCode(s[n - 1], messages[n])
  BY <1>1, TranslateUnfold
<1>4. t[0] = NothingTranslated /\ \A n \in 1 .. L + 1 : t[n] = ToCommandCode(t[n - 1], longer[n])
  BY <1>1, TranslateUnfold
<1>. HIDE DEF s, t
<1>. DEFINE T == {n \in Nat : n <= L => t[n] = s[n]}
<1>5. 0 \in T
  BY <1>3, <1>4
<1>6. ASSUME NEW n \in T PROVE n + 1 \in T
  <2>1. SUFFICES ASSUME n + 1 <= L PROVE t[n + 1] = s[n + 1]
    OBVIOUS
  <2>2. n + 1 \in 1 .. L /\ n + 1 \in 1 .. L + 1 /\ (n + 1) - 1 = n /\ t[n] = s[n]
    BY <2>1
  <2>3. QED
    BY <1>2, <1>3, <1>4, <2>2
<1>7. T = Nat
  <2>. HIDE DEF T
  <2>1. T \in SUBSET Nat
    BY DEF T
  <2>2. QED
    BY <1>5, <1>6, <2>1, NatInd
<1>8. t[L] = s[L]
  BY <1>7
<1>9. t[L + 1] = ToCommandCode(s[L], m)
  <2>1. L + 1 \in 1 .. L + 1 /\ (L + 1) - 1 = L
    OBVIOUS
  <2>2. QED
    BY <1>2, <1>4, <1>8, <2>1
<1>10. QED
  BY <1>1, <1>9 DEF CommandCode, s, t, longer

-----------------------------------------------------------------------------
(* The inductive invariant: as long as the upstream has left no call       *)
(* blank, the history is faithful.  Normal is the state of normalizeInput  *)
(* after the items there are, Flushed the messages it would return, End    *)
(* what toCommandCodeMessages makes of them.                               *)

Roles == {"system", "developer", "user", "assistant", "tool"}
CallRecord == [id : Nat, name : Names]
AnswerRecord == [id : Nat, name : Names \cup {<<>>}]
MessageRecord == [role : Roles, text : Seq(Nat), reasoning : Seq(Nat),
                  calls : Seq(CallRecord), answers : AnswerRecord]
PartRecord == [type : {"input_text", "reasoning"}, text : Seq(Nat)]
MessageItemRecord == [type : {"message"}, role : Roles, text : Seq(Nat)]
ShownTools == {Shown(n, NameMaps[list]) : n \in Names \cup {NoName}, list \in ToolLists}
CallItemRecord == [type : {"function_call"}, id : Nat, tool : ShownTools]
ResultRecord == [type : {"function_call_output"}, id : Nat]
Item == PartRecord \cup MessageItemRecord \cup CallItemRecord \cup ResultRecord

NormalRecord == [messages : Seq(MessageRecord), userParts : Seq(Nat)]
Normal == Normalized(items, NameMap)
Flushed == FlushUserParts(Normal).messages
Answered(messages) == CommandCode(<<Message("system", Instructions)>> \o messages)
End == Answered(Flushed)

TypeOK ==
  /\ tools \in ToolLists
  /\ items \in Seq(Item)
  /\ said \in Seq(MessageRecord)
  /\ system \in Seq(Seq(Nat))
  /\ open \subseteq CallRecord
  /\ phase \in {"answered", "talking", "asked", "answering"}
  /\ turns \in Nat

(* What has been read of the items; a call among them is one of a tool     *)
(* that the request has.                                                   *)
NormalOK ==
  /\ Normal \in NormalRecord
  /\ Normal.userParts # <<>> <=> items # <<>> /\ Last(items).type = "input_text"
  /\ \A i \in DOMAIN items :
       items[i].type = "function_call" => Known(items[i].tool, NameMap)

(* The last message is the answer's while one is being given, and another  *)
(* one's when an answer is asked for.                                      *)
PhaseOK ==
  /\ phase \in {"talking", "asked"} =>
       Flushed = <<>> \/ Last(Flushed).role # "assistant"
  /\ phase = "answering" =>
       Normal.userParts = <<>> /\ Flushed # <<>> /\ Last(Flushed).role = "assistant"

(* What is made of it is what was said; the names of the calls are noted,  *)
(* no id twice, and those without a result are among them.                 *)
EndOK ==
  /\ End = [messages |-> said, system |-> system, toolNames |-> End.toolNames]
  /\ End.toolNames \in Seq(CallRecord)
  /\ \A i \in DOMAIN End.toolNames : End.toolNames[i].id <= Len(items)
  /\ \A i, j \in DOMAIN End.toolNames :
       End.toolNames[i].id = End.toolNames[j].id => i = j
  /\ \A call \in open : \E i \in DOMAIN End.toolNames : End.toolNames[i] = call

Faithful == TypeOK /\ NormalOK /\ PhaseOK /\ EndOK

(* A blank item is never taken back, whatever the client adds to it.       *)
SomeBlank == \E i \in DOMAIN items : Blank(items[i])
ShownCalls == [id : Nat, name : Names \cup {NoName}]
ListsOK == tools \in ToolLists /\ items \in Seq(Item) /\ open \subseteq ShownCalls
IInv == ListsOK /\ (SomeBlank \/ Faithful)

-----------------------------------------------------------------------------
(* The messages and their types.                                           *)

LEMMA MessageType ==
  ASSUME NEW role \in Roles, NEW text \in Seq(Nat)
  PROVE  Message(role, text) \in MessageRecord
<1>1. <<>> \in Seq(Nat) /\ <<>> \in Seq(CallRecord)
  OBVIOUS
<1>2. QED
  BY <1>1 DEF Message, MessageRecord, AnswerRecord, NoId

LEMMA ThoughtIs ==
  ASSUME NEW t
  PROVE  Thought(t) = [role |-> "assistant", text |-> <<>>, reasoning |-> t,
                       calls |-> <<>>, answers |-> [id |-> NoId, name |-> <<>>]]
  BY DEF Thought, Message

LEMMA CallsIs ==
  ASSUME NEW id, NEW name
  PROVE  Calls(id, name) = [role |-> "assistant", text |-> <<>>, reasoning |-> <<>>,
                            calls |-> <<[id |-> id, name |-> name]>>,
                            answers |-> [id |-> NoId, name |-> <<>>]]
  BY DEF Calls, Message

LEMMA AnswerIs ==
  ASSUME NEW id, NEW name
  PROVE  Answer(id, name) = [role |-> "tool", text |-> <<>>, reasoning |-> <<>>,
                             calls |-> <<>>, answers |-> [id |-> id, name |-> name]]
  BY DEF Answer, Message

LEMMA ThoughtType ==
  ASSUME NEW t \in Seq(Nat)
  PROVE  Thought(t) \in MessageRecord
<1>1. <<>> \in Seq(Nat) /\ <<>> \in Seq(CallRecord)
  OBVIOUS
<1>2. QED
  BY <1>1, ThoughtIs DEF MessageRecord, AnswerRecord, NoId, Roles

LEMMA CallsType ==
  ASSUME NEW id \in Nat, NEW name \in Names
  PROVE  Calls(id, name) \in MessageRecord
<1>1. <<>> \in Seq(Nat) /\ [id |-> id, name |-> name] \in CallRecord
  BY DEF CallRecord
<1>2. <<[id |-> id, name |-> name]>> \in Seq(CallRecord)
  BY <1>1
<1>3. QED
  BY <1>1, <1>2, CallsIs DEF MessageRecord, AnswerRecord, NoId, Roles

LEMMA AnswerType ==
  ASSUME NEW id \in Nat, NEW name \in Names \cup {<<>>}
  PROVE  Answer(id, name) \in MessageRecord
<1>1. <<>> \in Seq(Nat) /\ <<>> \in Seq(CallRecord)
  OBVIOUS
<1>2. QED
  BY <1>1, AnswerIs DEF MessageRecord, AnswerRecord, Roles

LEMMA FieldTypes ==
  ASSUME NEW m \in MessageRecord
  PROVE  m.text \in Seq(Nat) /\ m.reasoning \in Seq(Nat) /\ m.calls \in Seq(CallRecord)
  BY DEF MessageRecord

LEMMA MessageFields ==
  ASSUME NEW m \in MessageRecord
  PROVE  \E role, text, reasoning, calls, answers :
           m = [role |-> role, text |-> text, reasoning |-> reasoning,
                calls |-> calls, answers |-> answers]
  BY DEF MessageRecord

(* What an assistant's message becomes with one more item of the answer.   *)
LEMMA MergedType ==
  ASSUME NEW last \in MessageRecord, NEW m \in MessageRecord
  PROVE  Merged(last, m) \in MessageRecord
<1>1. /\ last.text \o m.text \in Seq(Nat)
      /\ last.reasoning \o m.reasoning \in Seq(Nat)
      /\ last.calls \o m.calls \in Seq(CallRecord)
  BY FieldTypes, ConcatProperties
<1>2. last.role \in Roles /\ last.answers \in AnswerRecord
  BY DEF MessageRecord
<1>3. QED
  BY <1>1, <1>2 DEF Merged, MessageRecord

LEMMA MergedReasoning ==
  ASSUME NEW last \in MessageRecord, NEW t \in Seq(Nat), last.reasoning = <<>>
  PROVE  Merged(last, Thought(t)) = [last EXCEPT !.reasoning = t]
<1>1. PICK role, text, reasoning, calls, answers :
        last = [role |-> role, text |-> text, reasoning |-> reasoning,
                calls |-> calls, answers |-> answers]
  BY MessageFields
<1>2. /\ last.text \o <<>> = last.text
      /\ <<>> \o t = t
      /\ last.calls \o <<>> = last.calls
  BY FieldTypes, ConcatEmptySeq
<1>3. PICK m : m = Thought(t)
  OBVIOUS
<1>4. m.text = <<>> /\ m.reasoning = t /\ m.calls = <<>>
  BY <1>3, ThoughtIs
<1>5. Merged(last, m) =
        [role |-> role, text |-> text, reasoning |-> t,
         calls |-> calls, answers |-> answers]
  BY <1>1, <1>2, <1>3, <1>4 DEF Merged
<1>6. [last EXCEPT !.reasoning = t] =
        [role |-> role, text |-> text, reasoning |-> t,
         calls |-> calls, answers |-> answers]
  BY <1>1
<1>7. QED
  BY <1>2, <1>3, <1>5, <1>6

LEMMA MergedText ==
  ASSUME NEW last \in MessageRecord, NEW t \in Seq(Nat), last.text = <<>>
  PROVE  Merged(last, Message("assistant", t)) = [last EXCEPT !.text = t]
<1>1. PICK role, text, reasoning, calls, answers :
        last = [role |-> role, text |-> text, reasoning |-> reasoning,
                calls |-> calls, answers |-> answers]
  BY MessageFields
<1>2. /\ last.reasoning \o <<>> = last.reasoning
      /\ <<>> \o t = t
      /\ last.calls \o <<>> = last.calls
  BY FieldTypes, ConcatEmptySeq
<1>3. PICK m : m = Message("assistant", t)
  OBVIOUS
<1>4. m.text = t /\ m.reasoning = <<>> /\ m.calls = <<>>
  BY <1>3 DEF Message
<1>5. Merged(last, m) =
        [role |-> role, text |-> t, reasoning |-> reasoning,
         calls |-> calls, answers |-> answers]
  BY <1>1, <1>2, <1>3, <1>4 DEF Merged
<1>6. [last EXCEPT !.text = t] =
        [role |-> role, text |-> t, reasoning |-> reasoning,
         calls |-> calls, answers |-> answers]
  BY <1>1
<1>7. QED
  BY <1>2, <1>3, <1>5, <1>6

LEMMA MergedCall ==
  ASSUME NEW last \in MessageRecord, NEW id \in Nat, NEW name \in Names
  PROVE  Merged(last, Calls(id, name))
           = [last EXCEPT !.calls = Append(last.calls, [id |-> id, name |-> name])]
<1>1. PICK role, text, reasoning, calls, answers :
        last = [role |-> role, text |-> text, reasoning |-> reasoning,
                calls |-> calls, answers |-> answers]
  BY MessageFields
<1>2. PICK call \in CallRecord : call = [id |-> id, name |-> name]
  BY DEF CallRecord
<1>3. /\ last.reasoning \o <<>> = last.reasoning
      /\ last.text \o <<>> = last.text
      /\ last.calls \o <<call>> = Append(last.calls, call)
  BY FieldTypes, ConcatEmptySeq, AppendIsConcat
<1>4. PICK m : m = Calls(id, name)
  OBVIOUS
<1>5. m.text = <<>> /\ m.reasoning = <<>> /\ m.calls = <<call>>
  BY <1>2, <1>4, CallsIs
<1>6. Merged(last, m) =
        [role |-> role, text |-> text, reasoning |-> reasoning,
         calls |-> Append(calls, call), answers |-> answers]
  BY <1>1, <1>3, <1>5 DEF Merged
<1>7. [last EXCEPT !.calls = Append(last.calls, call)] =
        [role |-> role, text |-> text, reasoning |-> reasoning,
         calls |-> Append(calls, call), answers |-> answers]
  BY <1>1
<1>8. QED
  BY <1>2, <1>4, <1>6, <1>7

-----------------------------------------------------------------------------
(* toCommandCodeMessages takes one message.                                *)

LEMMA TakesUser ==
  ASSUME NEW a, NEW b, NEW c, NEW t
  PROVE  ToCommandCode([messages |-> a, system |-> b, toolNames |-> c], Message("user", t))
           = [messages |-> Append(a, Message("user", t)), system |-> b, toolNames |-> c]
<1>1. PICK m : m = Message("user", t)
  OBVIOUS
<1>2. m.role = "user"
  BY <1>1 DEF Message
<1>3. QED
  BY <1>1, <1>2 DEF ToCommandCode

LEMMA TakesHoisted ==
  ASSUME NEW a, NEW b, NEW c, NEW t, NEW role \in {"system", "developer"}
  PROVE  ToCommandCode([messages |-> a, system |-> b, toolNames |-> c], Message(role, t))
           = [messages |-> a, system |-> Append(b, t), toolNames |-> c]
<1>1. PICK m : m = Message(role, t)
  OBVIOUS
<1>2. m.role = role /\ m.text = t
  BY <1>1 DEF Message
<1>3. QED
  BY <1>1, <1>2 DEF ToCommandCode

LEMMA TakesResult ==
  ASSUME NEW a, NEW b, NEW c, NEW id
  PROVE  ToCommandCode([messages |-> a, system |-> b, toolNames |-> c], Answer(id, <<>>))
           = [messages |-> Append(a, Answer(id, NameOf(id, c))), system |-> b, toolNames |-> c]
<1>1. PICK m : m = Answer(id, <<>>)
  OBVIOUS
<1>2. m = [role |-> "tool", text |-> <<>>, reasoning |-> <<>>,
           calls |-> <<>>, answers |-> [id |-> id, name |-> <<>>]]
  BY <1>1, AnswerIs
<1>3. PICK n : n = NameOf(id, c)
  OBVIOUS
<1>4. [m EXCEPT !.answers = [id |-> m.answers.id, name |-> n]] = Answer(id, n)
  BY <1>2, AnswerIs
<1>5. m.role = "tool" /\ m.answers.id = id
  BY <1>2
<1>6. QED
  BY <1>1, <1>3, <1>4, <1>5 DEF ToCommandCode

-----------------------------------------------------------------------------
(* One more message at the end of what is translated.                      *)

LEMMA NothingSaid ==
  Answered(<<>>) = [messages |-> <<>>, system |-> <<Instructions>>, toolNames |-> <<>>]
<1>. DEFINE m == Message("system", Instructions)
<1>1. m \in MessageRecord
  <2>1. Instructions \in Seq(Nat) /\ "system" \in Roles
    BY DEF Instructions, Roles
  <2>2. QED
    BY <2>1, MessageType
<1>2. <<m>> \o <<>> = Append(<<>>, m) /\ <<>> \in Seq(MessageRecord)
  BY <1>1
<1>3. CommandCode(<<>>) = NothingTranslated
  BY TranslateUnfold DEF CommandCode
<1>. HIDE DEF m
<1>4. CommandCode(Append(<<>>, m)) = ToCommandCode(NothingTranslated, m)
  BY <1>1, <1>2, <1>3, TranslateAppend
<1>5. ToCommandCode(NothingTranslated, m)
        = [messages |-> <<>>, system |-> Append(<<>>, Instructions), toolNames |-> <<>>]
  <2>1. PICK e : e = <<>>
    OBVIOUS
  <2>2. PICK r \in {"system", "developer"} : r = "system"
    OBVIOUS
  <2>3. ToCommandCode([messages |-> e, system |-> e, toolNames |-> e], Message(r, Instructions))
          = [messages |-> e, system |-> Append(e, Instructions), toolNames |-> e]
    BY TakesHoisted
  <2>4. QED
    BY <2>1, <2>2, <2>3 DEF NothingTranslated, m
<1>6. QED
  BY <1>2, <1>4, <1>5 DEF Answered, m

LEMMA MoreSaid ==
  ASSUME NEW messages \in Seq(MessageRecord), NEW m \in MessageRecord
  PROVE  Answered(Append(messages, m)) = ToCommandCode(Answered(messages), m)
<1>. DEFINE first == Message("system", Instructions)
<1>1. first \in MessageRecord
  <2>1. Instructions \in Seq(Nat) /\ "system" \in Roles
    BY DEF Instructions, Roles
  <2>2. QED
    BY <2>1, MessageType
<1>. HIDE DEF first
<1>2. PICK prompt \in Seq(MessageRecord) : prompt = <<first>> \o messages
  <2>1. <<first>> \in Seq(MessageRecord)
    BY <1>1
  <2>2. QED
    BY <2>1, ConcatProperties
<1>3. <<first>> \o Append(messages, m) = Append(prompt, m)
  BY <1>1, <1>2
<1>4. CommandCode(Append(prompt, m)) = ToCommandCode(CommandCode(prompt), m)
  BY TranslateAppend
<1>5. QED
  BY <1>2, <1>3, <1>4 DEF Answered, first

-----------------------------------------------------------------------------
(* One more item at the end of what is read.                               *)

LEMMA FlushIs ==
  ASSUME NEW n \in NormalRecord
  PROVE  \E f \in Seq(MessageRecord) :
           /\ FlushUserParts(n) = [messages |-> f, userParts |-> <<>>]
           /\ f = IF n.userParts = <<>> THEN n.messages
                  ELSE Append(n.messages, Message("user", n.userParts))
<1>1. PICK a \in Seq(MessageRecord), b \in Seq(Nat) :
        n = [messages |-> a, userParts |-> b]
  BY DEF NormalRecord
<1>2. CASE b = <<>>
  BY <1>1, <1>2 DEF FlushUserParts
<1>3. CASE b # <<>>
  <2>1. PICK m \in MessageRecord : m = Message("user", b)
    BY MessageType DEF Roles
  <2>2. Append(a, m) \in Seq(MessageRecord)
    OBVIOUS
  <2>3. FlushUserParts(n) = [messages |-> Append(a, m), userParts |-> <<>>]
    BY <1>1, <1>3, <2>1 DEF FlushUserParts
  <2>4. QED
    BY <1>1, <1>3, <2>1, <2>2, <2>3
<1>4. QED
  BY <1>2, <1>3

(* An item that is a message, or a part of one.                            *)
LEMMA TakesItem ==
  ASSUME NEW n \in NormalRecord, NEW item, NEW map, NEW m,
         item.type # "input_text", item.type = "reasoning" => item.text # <<>>,
         MessageOf(item, map) = m
  PROVE  NormalizeItem(n, item, map)
           = [messages |-> AppendMessage(FlushUserParts(n).messages, m), userParts |-> <<>>]
<1>1. PICK f \in Seq(MessageRecord) :
        FlushUserParts(n) = [messages |-> f, userParts |-> <<>>]
  BY FlushIs
<1>2. PICK l : l = FlushUserParts(n)
  OBVIOUS
<1>3. NormalizeItem(n, item, map)
        = [l EXCEPT !.messages = AppendMessage(l.messages, m)]
  BY <1>2 DEF NormalizeItem
<1>4. QED
  BY <1>1, <1>2, <1>3

LEMMA TakesPart ==
  ASSUME NEW n \in NormalRecord, NEW piece \in Nat, NEW map
  PROVE  NormalizeItem(n, Parts(<<piece>>), map)
           = [messages |-> n.messages, userParts |-> Append(n.userParts, piece)]
<1>1. PICK a \in Seq(MessageRecord), b \in Seq(Nat) :
        n = [messages |-> a, userParts |-> b]
  BY DEF NormalRecord
<1>2. PICK item : item = Parts(<<piece>>)
  OBVIOUS
<1>3. item.type = "input_text" /\ item.text = <<piece>>
  BY <1>2 DEF Parts
<1>4. NormalizeItem(n, item, map) = [n EXCEPT !.userParts = b \o <<piece>>]
  BY <1>1, <1>3 DEF NormalizeItem
<1>5. b \o <<piece>> = Append(b, piece)
  BY AppendIsConcat
<1>6. QED
  BY <1>1, <1>2, <1>4, <1>5

LEMMA TakesEmptyReasoning ==
  ASSUME NEW n, NEW map
  PROVE  NormalizeItem(n, ReasoningItem(<<>>), map) = FlushUserParts(n)
<1>1. PICK item : item = ReasoningItem(<<>>)
  OBVIOUS
<1>2. item.type = "reasoning" /\ item.text = <<>>
  BY <1>1 DEF ReasoningItem, PartRecord
<1>3. QED
  BY <1>1, <1>2 DEF NormalizeItem

(* The last element of a sequence, and the others.                         *)
LEMMA LastOfAppend ==
  ASSUME NEW S, NEW p \in Seq(S), NEW u
  PROVE  /\ Last(Append(p, u)) = u
         /\ Front(Append(p, u)) = p
         /\ Len(Append(p, u)) = Len(p) + 1
<1>1. PICK V : V = S \cup {u}
  OBVIOUS
<1>2. u \in V /\ p \in Seq(V)
  BY <1>1, SeqMonotonic
<1>3. PICK s \in Seq(V) : s = Append(p, u)
  BY <1>2, AppendProperties
<1>4. PICK k \in Nat : k = Len(p)
  OBVIOUS
<1>5. Len(s) = k + 1 /\ s[k + 1] = u /\ \A j \in 1 .. k : s[j] = p[j]
  BY <1>2, <1>3, <1>4, AppendProperties
<1>6. Last(s) = u
  BY <1>5 DEF Last
<1>7. Front(s) = p
  <2>1. PICK t : t = SubSeq(s, 1, k)
    OBVIOUS
  <2>2. t \in Seq(V) /\ Len(t) = k /\ \A j \in 1 .. k : t[j] = s[j]
    BY <1>5, <2>1
  <2>3. t = p
    BY <1>2, <1>4, <1>5, <2>2, SeqEqual
  <2>4. Front(s) = t
    BY <1>5, <2>1 DEF Front
  <2>5. QED
    BY <2>3, <2>4
<1>8. QED
  BY <1>3, <1>4, <1>5, <1>6, <1>7

LEMMA FrontOf ==
  ASSUME NEW S, NEW p \in Seq(S), NEW T, NEW s \in Seq(T), NEW u, s = Append(p, u)
  PROVE  p \in Seq(T) /\ Last(s) = u /\ Front(s) = p
<1>1. Last(s) = u /\ Front(s) = p /\ Len(s) = Len(p) + 1
  BY LastOfAppend
<1>2. Len(p) \in Nat
  BY LenProperties
<1>3. s # <<>>
  BY <1>1, <1>2
<1>4. PICK q \in Seq(T), e \in T : s = Append(q, e)
  BY <1>3, SequenceEmptyOrAppend
<1>5. Front(s) = q
  BY <1>4, LastOfAppend
<1>6. QED
  BY <1>1, <1>4, <1>5

LEMMA ReplaceLast ==
  ASSUME NEW S, NEW p \in Seq(S), NEW u, NEW v, NEW s, s = Append(p, u)
  PROVE  [s EXCEPT ![Len(s)] = v] = Append(p, v)
<1>1. PICK V : V = S \cup {u, v}
  OBVIOUS
<1>2. u \in V /\ v \in V /\ p \in Seq(V)
  BY <1>1, SeqMonotonic
<1>3. PICK k \in Nat : k = Len(p)
  OBVIOUS
<1>4. s \in Seq(V) /\ Len(s) = k + 1 /\ \A j \in 1 .. k : s[j] = p[j]
  BY <1>2, <1>3, AppendProperties
<1>5. PICK i \in 1 .. Len(s) : i = k + 1 /\ Len(s) = k + 1
  BY <1>4
<1>6. PICK t \in Seq(V) :
        /\ t = [s EXCEPT ![i] = v]
        /\ Len(t) = Len(s)
        /\ \A j \in 1 .. Len(s) : t[j] = IF j = i THEN v ELSE s[j]
  <2>1. PICK r \in Seq(V), e \in V : r = s /\ e = v
    BY <1>2, <1>4
  <2>2. i \in 1 .. Len(r)
    BY <2>1
  <2>3. /\ [r EXCEPT ![i] = e] \in Seq(V)
        /\ Len([r EXCEPT ![i] = e]) = Len(r)
        /\ \A j \in 1 .. Len(r) : [r EXCEPT ![i] = e][j] = IF j = i THEN e ELSE r[j]
    BY <2>2, ExceptSeq
  <2>4. QED
    BY <2>1, <2>3
<1>7. Len(t) = k + 1 /\ \A j \in 1 .. k + 1 : t[j] = IF j = i THEN v ELSE s[j]
  BY <1>5, <1>6
<1>8. PICK w \in Seq(V) : w = Append(p, v)
  BY <1>2, AppendProperties
<1>9. Len(w) = k + 1 /\ w[k + 1] = v /\ \A j \in 1 .. k : w[j] = p[j]
  BY <1>2, <1>3, <1>8, AppendProperties
<1>10. \A j \in 1 .. k + 1 : t[j] = w[j]
  BY <1>4, <1>5, <1>7, <1>9
<1>11. t = w
  BY <1>7, <1>9, <1>10, SeqEqual
<1>12. QED
  BY <1>5, <1>6, <1>8, <1>11

(* appendMessage, with another's message last and with an assistant's.     *)
LEMMA AppendsNew ==
  ASSUME NEW messages, NEW m,
         messages = <<>> \/ m.role # "assistant" \/ Last(messages).role # "assistant"
  PROVE  AppendMessage(messages, m) = Append(messages, m)
  BY DEF AppendMessage

LEMMA AppendsMerged ==
  ASSUME NEW p \in Seq(MessageRecord), NEW last \in MessageRecord,
         NEW m \in MessageRecord,
         last.role = "assistant", m.role = "assistant"
  PROVE  AppendMessage(Append(p, last), m) = Append(p, Merged(last, m))
<1>1. PICK s \in Seq(MessageRecord) : s = Append(p, last)
  BY AppendProperties
<1>2. s # <<>> /\ Last(s) = last
  BY <1>1, LastOfAppend, AppendProperties
<1>3. AppendMessage(s, m) = [s EXCEPT ![Len(s)] = Merged(s[Len(s)], m)]
  BY <1>2 DEF AppendMessage
<1>4. s[Len(s)] = last
  BY <1>2 DEF Last
<1>5. PICK x : x = Merged(last, m)
  OBVIOUS
<1>6. [s EXCEPT ![Len(s)] = x] = Append(p, x)
  BY <1>1, ReplaceLast, Zenon
<1>7. QED
  BY <1>1, <1>3, <1>4, <1>5, <1>6

-----------------------------------------------------------------------------
(* Whatever the messages, the state of toCommandCodeMessages is made of    *)
(* sequences.                                                              *)
Shape(state) ==
  \E S, a, b, c : /\ a \in Seq(S) /\ c \in Seq(CallRecord)
                  /\ state = [messages |-> a, system |-> b, toolNames |-> c]

LEMMA ShapeNext ==
  ASSUME NEW state, Shape(state), NEW m \in MessageRecord
  PROVE  Shape(ToCommandCode(state, m))
<1>1. PICK S, a, b, c : /\ a \in Seq(S) /\ c \in Seq(CallRecord)
                        /\ state = [messages |-> a, system |-> b, toolNames |-> c]
  BY DEF Shape
<1>2. \A x : Append(a, x) \in Seq(S \cup {x})
  <2>1. SUFFICES ASSUME NEW x PROVE Append(a, x) \in Seq(S \cup {x})
    OBVIOUS
  <2>2. PICK V : V = S \cup {x}
    OBVIOUS
  <2>3. S \subseteq V /\ x \in V
    BY <2>2
  <2>4. a \in Seq(V)
    BY <1>1, <2>3, SeqMonotonic
  <2>5. Append(a, x) \in Seq(V)
    BY <2>3, <2>4, AppendProperties
  <2>6. QED
    BY <2>2, <2>5
<1>3. CASE m.role = "assistant"
  <2>1. ToCommandCode(state, m)
          = [messages |-> Append(a, m), system |-> b, toolNames |-> c \o m.calls]
    BY <1>1, <1>3 DEF ToCommandCode
  <2>2. c \o m.calls \in Seq(CallRecord)
    BY <1>1, FieldTypes, ConcatProperties
  <2>3. QED
    BY <1>2, <2>1, <2>2 DEF Shape
<1>4. CASE m.role \in {"system", "developer"}
  <2>1. ToCommandCode(state, m)
          = [messages |-> a, system |-> Append(b, m.text), toolNames |-> c]
    BY <1>1, <1>4 DEF ToCommandCode
  <2>2. QED
    BY <1>1, <2>1 DEF Shape
<1>5. CASE m.role \notin {"assistant", "system", "developer"}
  <2>1. \E x : ToCommandCode(state, m)
                 = [messages |-> Append(a, x), system |-> b, toolNames |-> c]
    <3>1. PICK y : y = [m EXCEPT !.answers = [id |-> @.id, name |-> NameOf(@.id, c)]]
      OBVIOUS
    <3>2. CASE m.role = "tool"
      <4>1. ToCommandCode(state, m) = [state EXCEPT !.messages = Append(@, y)]
        BY <1>1, <1>5, <3>1, <3>2 DEF ToCommandCode
      <4>2. QED
        BY <1>1, <4>1
    <3>3. CASE m.role # "tool"
      BY <1>1, <1>5, <3>3 DEF ToCommandCode
    <3>4. QED
      BY <3>2, <3>3
  <2>2. QED
    BY <1>1, <1>2, <2>1 DEF Shape
<1>6. QED
  BY <1>3, <1>4, <1>5

LEMMA AnsweredShape ==
  ASSUME NEW messages \in Seq(MessageRecord)
  PROVE  Shape(Answered(messages))
<1>. DEFINE first == Message("system", Instructions)
<1>1. first \in MessageRecord
  <2>1. Instructions \in Seq(Nat) /\ "system" \in Roles
    BY DEF Instructions, Roles
  <2>2. QED
    BY <2>1, MessageType
<1>2. PICK prompt \in Seq(MessageRecord) : prompt = <<first>> \o messages
  <2>1. <<first>> \in Seq(MessageRecord)
    BY <1>1
  <2>. HIDE DEF first
  <2>2. QED
    BY <2>1, ConcatProperties
<1>3. PICK L \in Nat : L = Len(prompt)
  BY LenProperties
<1>4. PICK s : s = CommandCodeStates(prompt)
  OBVIOUS
<1>5. s[0] = NothingTranslated
  BY <1>3, <1>4, TranslateUnfold
<1>6. \A n \in 1 .. L : s[n] = ToCommandCode(s[n - 1], prompt[n])
  BY <1>3, <1>4, TranslateUnfold
<1>. DEFINE T == {n \in Nat : n <= L => Shape(s[n])}
<1>7. 0 \in T
  <2>1. <<>> \in Seq({}) /\ <<>> \in Seq(CallRecord)
    OBVIOUS
  <2>2. Shape(NothingTranslated)
    BY <2>1 DEF Shape, NothingTranslated
  <2>3. QED
    BY <1>5, <2>2
<1>8. ASSUME NEW n \in T PROVE n + 1 \in T
  <2>1. SUFFICES ASSUME n + 1 <= L PROVE Shape(s[n + 1])
    OBVIOUS
  <2>2. n + 1 \in 1 .. L /\ (n + 1) - 1 = n /\ Shape(s[n])
    BY <2>1
  <2>3. prompt[n + 1] \in MessageRecord
    BY <1>3, <2>2, ElementOfSeq
  <2>4. QED
    BY <1>6, <2>2, <2>3, ShapeNext
<1>9. T = Nat
  <2>. HIDE DEF T
  <2>1. T \in SUBSET Nat
    BY DEF T
  <2>2. QED
    BY <1>7, <1>8, <2>1, NatInd
<1>10. Shape(s[L])
  BY <1>9
<1>11. QED
  BY <1>2, <1>3, <1>4, <1>10 DEF Answered, CommandCode

-----------------------------------------------------------------------------
(* One more item of the list: what is read of it and what is said.         *)

LEMMA ItemsAfter ==
  ASSUME items \in Seq(Item), NEW item \in Item, items' = Append(items, item)
  PROVE  /\ items' \in Seq(Item) /\ items' # <<>>
         /\ Len(items') = Len(items) + 1 /\ Last(items') = item
         /\ DOMAIN items = 1 .. Len(items) /\ DOMAIN items' = 1 .. Len(items) + 1
         /\ items'[Len(items) + 1] = item
         /\ \A i \in 1 .. Len(items) : items'[i] = items[i]
<1>1. PICK s \in Seq(Item) : s = items
  OBVIOUS
<1>2. PICK t \in Seq(Item) : t = Append(s, item)
  BY AppendProperties
<1>3. /\ t # <<>> /\ Len(t) = Len(s) + 1 /\ t[Len(s) + 1] = item
      /\ \A i \in 1 .. Len(s) : t[i] = s[i]
  BY <1>2, AppendProperties
<1>4. DOMAIN s = 1 .. Len(s) /\ DOMAIN t = 1 .. Len(t)
  BY LenProperties
<1>5. Last(t) = item
  BY <1>3 DEF Last
<1>6. DOMAIN t = 1 .. Len(s) + 1
  BY <1>3, <1>4
<1>7. items = s /\ items' = t
  BY <1>1, <1>2
<1>8. QED
  BY <1>3, <1>4, <1>5, <1>6, <1>7, Zenon

LEMMA NextNormal ==
  ASSUME items \in Seq(Item), NEW item \in Item, items' = Append(items, item),
         NameMap' = NameMap
  PROVE  Normal' = NormalizeItem(Normal, item, NameMap)
<1>1. PICK map : map = NameMap
  OBVIOUS
<1>2. PICK s \in Seq(Item) : s = items
  OBVIOUS
<1>3. Normalized(Append(s, item), map) = NormalizeItem(Normalized(s, map), item, map)
  BY NormalizeAppend
<1>4. Normal' = Normalized(items', NameMap')
  BY DEF Normal
<1>5. QED
  BY <1>1, <1>2, <1>3, <1>4 DEF Normal

LEMMA KnownAfter ==
  ASSUME items \in Seq(Item), NormalOK, NEW item \in Item, items' = Append(items, item),
         NameMap' = NameMap,
         item.type = "function_call" => Known(item.tool, NameMap)
  PROVE  \A i \in DOMAIN items' :
           items'[i].type = "function_call" => Known(items'[i].tool, NameMap')
<1>1. SUFFICES ASSUME NEW i \in DOMAIN items', items'[i].type = "function_call"
               PROVE  Known(items'[i].tool, NameMap)
  OBVIOUS
<1>2. i \in 1 .. Len(items) \/ i = Len(items) + 1
  BY ItemsAfter
<1>3. CASE i = Len(items) + 1
  BY <1>1, <1>3, ItemsAfter
<1>4. CASE i \in 1 .. Len(items)
  <2>1. items'[i] = items[i] /\ i \in DOMAIN items
    BY <1>4, ItemsAfter
  <2>2. QED
    BY <1>1, <2>1 DEF NormalOK
<1>5. QED
  BY <1>2, <1>3, <1>4

(* The item is a message of its own.                                       *)
LEMMA NewMessage ==
  ASSUME TypeOK, NormalOK, NEW item \in Item, NEW m \in MessageRecord,
         items' = Append(items, item), NameMap' = NameMap,
         item.type # "input_text", item.type = "reasoning" => item.text # <<>>,
         MessageOf(item, NameMap) = m,
         Flushed = <<>> \/ m.role # "assistant" \/ Last(Flushed).role # "assistant"
  PROVE  /\ Flushed \in Seq(MessageRecord)
         /\ Normal' = [messages |-> Append(Flushed, m), userParts |-> <<>>]
         /\ Flushed' = Append(Flushed, m)
         /\ End' = ToCommandCode(End, m)
<1>1. PICK n \in NormalRecord : n = Normal
  BY DEF NormalOK
<1>2. PICK f \in Seq(MessageRecord) :
        FlushUserParts(n) = [messages |-> f, userParts |-> <<>>]
  BY FlushIs
<1>3. Flushed = f
  BY <1>1, <1>2 DEF Flushed
<1>4. PICK map : map = NameMap
  OBVIOUS
<1>5. NormalizeItem(n, item, map) = [messages |-> AppendMessage(f, m), userParts |-> <<>>]
  BY <1>2, <1>4, TakesItem
<1>6. AppendMessage(f, m) = Append(f, m)
  BY <1>3, AppendsNew
<1>7. Normal' = [messages |-> Append(f, m), userParts |-> <<>>]
  BY <1>1, <1>4, <1>5, <1>6, NextNormal DEF TypeOK
<1>8. Flushed' = Append(f, m)
  BY <1>7 DEF Flushed, FlushUserParts
<1>9. Answered(Append(f, m)) = ToCommandCode(Answered(f), m)
  BY MoreSaid
<1>10. End' = Answered(Flushed')
  BY DEF End, Answered
<1>11. QED
  BY <1>3, <1>7, <1>8, <1>9, <1>10 DEF End

(* The item belongs to the message of the assistant before it.             *)
LEMMA SameMessage ==
  ASSUME TypeOK, NormalOK, NEW item \in Item, NEW m \in MessageRecord,
         items' = Append(items, item), NameMap' = NameMap,
         item.type # "input_text", item.type = "reasoning" => item.text # <<>>,
         MessageOf(item, NameMap) = m, m.role = "assistant",
         Flushed # <<>>, Last(Flushed).role = "assistant"
  PROVE  \E p \in Seq(MessageRecord), last \in MessageRecord :
           /\ last.role = "assistant"
           /\ Normal' = [messages |-> Append(p, Merged(last, m)), userParts |-> <<>>]
           /\ Flushed' = Append(p, Merged(last, m))
           /\ End = ToCommandCode(Answered(p), last)
           /\ End' = ToCommandCode(Answered(p), Merged(last, m))
<1>1. PICK n \in NormalRecord : n = Normal
  BY DEF NormalOK
<1>2. PICK f \in Seq(MessageRecord) :
        FlushUserParts(n) = [messages |-> f, userParts |-> <<>>]
  BY FlushIs
<1>3. Flushed = f
  BY <1>1, <1>2 DEF Flushed
<1>4. PICK map : map = NameMap
  OBVIOUS
<1>5. NormalizeItem(n, item, map) = [messages |-> AppendMessage(f, m), userParts |-> <<>>]
  BY <1>2, <1>4, TakesItem
<1>6. PICK p \in Seq(MessageRecord), last \in MessageRecord : f = Append(p, last)
  BY <1>3, SequenceEmptyOrAppend
<1>7. Last(f) = last
  BY <1>6, AppendProperties DEF Last
<1>8. last.role = "assistant"
  BY <1>3, <1>7
<1>9. PICK x \in MessageRecord : x = Merged(last, m)
  BY MergedType
<1>10. AppendMessage(f, m) = Append(p, x)
  BY <1>6, <1>8, <1>9, AppendsMerged
<1>11. Normal' = [messages |-> Append(p, x), userParts |-> <<>>]
  BY <1>1, <1>4, <1>5, <1>10, NextNormal DEF TypeOK
<1>12. Flushed' = Append(p, x)
  BY <1>11 DEF Flushed, FlushUserParts
<1>13. Answered(Append(p, last)) = ToCommandCode(Answered(p), last)
  BY MoreSaid
<1>14. Answered(Append(p, x)) = ToCommandCode(Answered(p), x)
  BY MoreSaid
<1>15. End = Answered(f) /\ End' = Answered(Flushed')
  BY <1>3 DEF End, Answered
<1>16. QED
  BY <1>6, <1>8, <1>9, <1>11, <1>12, <1>13, <1>14, <1>15

-----------------------------------------------------------------------------
(* The invariant after a step that adds a message of the client's.         *)

LEMMA EndAfter ==
  ASSUME EndOK, Len(items) \in Nat, Len(items') \in Nat, Len(items) <= Len(items'),
         open' \subseteq open,
         End' = [messages |-> said', system |-> system', toolNames |-> End.toolNames]
  PROVE  EndOK'
<1>1. PICK c \in Seq(CallRecord) : c = End.toolNames
  BY DEF EndOK
<1>2. End'.toolNames = c
  BY <1>1
<1>3. /\ \A i \in DOMAIN c : c[i].id <= Len(items)
      /\ \A i, j \in DOMAIN c : c[i].id = c[j].id => i = j
      /\ \A call \in open : \E i \in DOMAIN c : c[i] = call
  BY <1>1 DEF EndOK
<1>4. \A i \in DOMAIN c : c[i].id <= Len(items')
  <2>1. ASSUME NEW i \in DOMAIN c PROVE c[i].id \in Nat
    <3>1. c[i] \in CallRecord
      BY LenProperties, ElementOfSeq
    <3>2. QED
      BY <3>1 DEF CallRecord
  <2>2. QED
    BY <1>3, <2>1
<1>5. End' = [messages |-> said', system |-> system', toolNames |-> c]
  BY <1>1
<1>6. QED
  BY <1>2, <1>3, <1>4, <1>5 DEF EndOK

(* What holds of the lists after any message that is not the assistant's.  *)
LEMMA ClientMessage ==
  ASSUME Faithful, Talks, NEW item \in Item, NEW m \in MessageRecord,
         items' = Append(items, item), NameMap' = NameMap,
         item.type \in {"message", "function_call_output"},
         MessageOf(item, NameMap) = m, m.role # "assistant",
         said' \in Seq(MessageRecord), system' \in Seq(Seq(Nat)), open' \subseteq open
  PROVE  /\ TypeOK' /\ NormalOK' /\ PhaseOK'
         /\ End' = ToCommandCode(End, m)
<1>1. PICK f \in Seq(MessageRecord), g \in Seq(MessageRecord) :
        f = Flushed /\ g = Append(f, m)
  <2>1. Flushed \in Seq(MessageRecord)
    BY NewMessage DEF Faithful
  <2>2. QED
    BY <2>1, AppendProperties
<1>2. Normal' = [messages |-> g, userParts |-> <<>>] /\ Flushed' = g
  BY <1>1, NewMessage DEF Faithful
<1>3. End' = ToCommandCode(End, m)
  BY NewMessage DEF Faithful
<1>4. g # <<>> /\ Last(g) = m
  BY <1>1, LastOfAppend, AppendProperties
<1>5. TypeOK'
  <2>1. items' \in Seq(Item)
    BY ItemsAfter DEF Faithful, TypeOK
  <2>2. QED
    BY <2>1 DEF Faithful, TypeOK, Talks
<1>6. NormalOK'
  <2>1. Normal' \in NormalRecord /\ Normal'.userParts = <<>>
    BY <1>2 DEF NormalRecord
  <2>2. Last(items').type # "input_text"
    BY ItemsAfter DEF Faithful, TypeOK
  <2>3. \A i \in DOMAIN items' :
          items'[i].type = "function_call" => Known(items'[i].tool, NameMap')
    BY KnownAfter DEF Faithful, TypeOK
  <2>4. QED
    BY <2>1, <2>2, <2>3 DEF NormalOK
<1>7. PhaseOK'
  BY <1>2, <1>4 DEF PhaseOK, Talks
<1>8. QED
  BY <1>3, <1>5, <1>6, <1>7

LEMMA PartsType ==
  ASSUME NEW t \in Seq(Nat)
  PROVE  Parts(t) \in Item /\ Parts(t).type = "input_text"
<1>1. PICK x : x = Parts(t)
  OBVIOUS
<1>2. x \in PartRecord /\ x.type = "input_text"
  BY <1>1 DEF Parts, PartRecord
<1>3. QED
  BY <1>1, <1>2 DEF Item

LEMMA MessageItemType ==
  ASSUME NEW role \in Roles, NEW t \in Seq(Nat)
  PROVE  /\ MessageItem(role, t) \in Item
         /\ MessageItem(role, t).type = "message"
         /\ MessageOf(MessageItem(role, t), NameMap) = Message(role, t)
<1>1. PICK x : x = MessageItem(role, t)
  OBVIOUS
<1>2. /\ x \in MessageItemRecord
      /\ x.type = "message" /\ x.role = role /\ x.text = t
  BY <1>1 DEF MessageItem, MessageItemRecord
<1>3. x \in Item
  BY <1>2 DEF Item
<1>4. MessageOf(x, NameMap) = Message(role, t)
  BY <1>2 DEF MessageOf
<1>5. QED
  BY <1>1, <1>2, <1>3, <1>4

LEMMA ReasoningItemType ==
  ASSUME NEW t \in Seq(Nat)
  PROVE  /\ ReasoningItem(t) \in Item
         /\ ReasoningItem(t).type = "reasoning" /\ ReasoningItem(t).text = t
         /\ MessageOf(ReasoningItem(t), NameMap) = Thought(t)
<1>1. PICK x : x = ReasoningItem(t)
  OBVIOUS
<1>2. /\ x \in PartRecord
      /\ x.type = "reasoning" /\ x.text = t
  BY <1>1 DEF ReasoningItem, PartRecord
<1>3. x \in Item
  BY <1>2 DEF Item
<1>4. MessageOf(x, NameMap) = Thought(t)
  BY <1>2 DEF MessageOf
<1>5. QED
  BY <1>1, <1>2, <1>3, <1>4

LEMMA CallItemType ==
  ASSUME tools \in ToolLists, NEW id \in Nat, NEW name \in Names \cup {NoName}
  PROVE  /\ CallItem(id, Shown(name, NameMap)) \in Item
         /\ CallItem(id, Shown(name, NameMap)).type = "function_call"
         /\ CallItem(id, Shown(name, NameMap)).tool = Shown(name, NameMap)
         /\ MessageOf(CallItem(id, Shown(name, NameMap)), NameMap) = Calls(id, name)
<1>1. PICK tool \in ShownTools : tool = Shown(name, NameMap)
  BY DEF NameMap, ShownTools
<1>2. PICK x : x = CallItem(id, tool)
  OBVIOUS
<1>3. /\ x \in CallItemRecord
      /\ x.type = "function_call" /\ x.id = id /\ x.tool = tool
  BY <1>2 DEF CallItem, CallItemRecord
<1>4. x \in Item
  BY <1>3 DEF Item
<1>5. PICK map : map = NameMap /\ NamesOK(map, ToSet(tools))
  BY NameMapOK
<1>6. UpstreamToolName(tool, map) = name
  BY <1>1, <1>5, ShownIsKnown
<1>7. MessageOf(x, map) = Calls(id, name)
  BY <1>3, <1>6 DEF MessageOf
<1>8. QED
  BY <1>1, <1>2, <1>3, <1>4, <1>5, <1>7

LEMMA ResultItemType ==
  ASSUME NEW id \in Nat
  PROVE  /\ ResultItem(id) \in Item
         /\ ResultItem(id).type = "function_call_output"
         /\ MessageOf(ResultItem(id), NameMap) = Answer(id, <<>>)
<1>1. PICK x : x = ResultItem(id)
  OBVIOUS
<1>2. /\ x \in ResultRecord
      /\ x.type = "function_call_output" /\ x.id = id
  BY <1>1 DEF ResultItem, ResultRecord
<1>3. x \in Item
  BY <1>2 DEF Item
<1>4. MessageOf(x, NameMap) = Answer(id, <<>>)
  BY <1>2 DEF MessageOf
<1>5. QED
  BY <1>1, <1>2, <1>3, <1>4

LEMMA SameTools ==
  ASSUME tools' = tools
  PROVE  NameMap' = NameMap
  BY DEF NameMap

LEMMA FreshIs ==
  ASSUME TypeOK
  PROVE  Fresh \in Nat /\ Fresh = Len(items) + 1 /\ Len(items) \in Nat
         /\ <<Fresh>> \in Seq(Nat)
<1>1. PICK s \in Seq(Item) : s = items
  BY DEF TypeOK
<1>2. PICK k \in Nat : k = Len(s)
  OBVIOUS
<1>3. Fresh = k + 1
  BY <1>1, <1>2 DEF Fresh
<1>4. QED
  BY <1>1, <1>2, <1>3

LEMMA AddUserMessageOK ==
  ASSUME Faithful, AddUserMessage
  PROVE  Faithful'
<1>1. PICK p \in Nat : p = Fresh /\ <<p>> \in Seq(Nat)
  BY FreshIs DEF Faithful
<1>2. PICK m \in MessageRecord : m = Message("user", <<p>>)
  BY <1>1, MessageType DEF Roles
<1>3. PICK item \in Item : item = MessageItem("user", <<p>>)
  BY <1>1, MessageItemType DEF Roles
<1>4. item.type = "message" /\ MessageOf(item, NameMap) = m
  BY <1>1, <1>2, <1>3, MessageItemType DEF Roles
<1>5. m.role = "user"
  BY <1>2 DEF Message
<1>6. items' = Append(items, item) /\ said' = Append(said, m) /\ Talks
      /\ UNCHANGED <<system, open>>
  BY <1>1, <1>2, <1>3 DEF AddUserMessage, Adds
<1>7. NameMap' = NameMap
  BY <1>6, SameTools DEF Talks
<1>8. said' \in Seq(MessageRecord) /\ system' \in Seq(Seq(Nat)) /\ open' \subseteq open
  BY <1>6, AppendProperties DEF Faithful, TypeOK
<1>9. /\ TypeOK' /\ NormalOK' /\ PhaseOK'
      /\ End' = ToCommandCode(End, m)
  BY <1>4, <1>5, <1>6, <1>7, <1>8, ClientMessage
<1>10. EndOK'
  <2>1. PICK c \in Seq(CallRecord) : c = End.toolNames
    BY DEF Faithful, EndOK
  <2>2. End = [messages |-> said, system |-> system, toolNames |-> c]
    BY <2>1 DEF Faithful, EndOK
  <2>3. ToCommandCode(End, m) = [messages |-> Append(said, m), system |-> system, toolNames |-> c]
    BY <1>5, <2>2 DEF ToCommandCode
  <2>4. QED
    BY <1>6, <1>9, <2>1, <2>3, EndAfter, ItemsAfter, FreshIs DEF Faithful, TypeOK
<1>11. QED
  BY <1>9, <1>10 DEF Faithful

LEMMA AddDeveloperMessageOK ==
  ASSUME Faithful, AddDeveloperMessage
  PROVE  Faithful'
<1>1. PICK p \in Nat : p = Fresh /\ <<p>> \in Seq(Nat)
  BY FreshIs DEF Faithful
<1>2. PICK m \in MessageRecord : m = Message("developer", <<p>>)
  BY <1>1, MessageType DEF Roles
<1>3. PICK item \in Item : item = MessageItem("developer", <<p>>)
  BY <1>1, MessageItemType DEF Roles
<1>4. item.type = "message" /\ MessageOf(item, NameMap) = m
  BY <1>1, <1>2, <1>3, MessageItemType DEF Roles
<1>5. m.role = "developer" /\ m.text = <<p>>
  BY <1>2 DEF Message
<1>6. items' = Append(items, item) /\ system' = Append(system, <<p>>) /\ Talks
      /\ UNCHANGED <<said, open>>
  BY <1>1, <1>3 DEF AddDeveloperMessage, Adds
<1>7. NameMap' = NameMap
  BY <1>6, SameTools DEF Talks
<1>8. said' \in Seq(MessageRecord) /\ system' \in Seq(Seq(Nat)) /\ open' \subseteq open
  BY <1>1, <1>6, AppendProperties DEF Faithful, TypeOK
<1>9. /\ TypeOK' /\ NormalOK' /\ PhaseOK'
      /\ End' = ToCommandCode(End, m)
  BY <1>4, <1>5, <1>6, <1>7, <1>8, ClientMessage
<1>10. EndOK'
  <2>1. PICK c \in Seq(CallRecord) : c = End.toolNames
    BY DEF Faithful, EndOK
  <2>2. End = [messages |-> said, system |-> system, toolNames |-> c]
    BY <2>1 DEF Faithful, EndOK
  <2>3. ToCommandCode(End, m)
          = [messages |-> said, system |-> Append(system, <<p>>), toolNames |-> c]
    BY <1>5, <2>2 DEF ToCommandCode
  <2>4. QED
    BY <1>6, <1>9, <2>1, <2>3, EndAfter, ItemsAfter, FreshIs DEF Faithful, TypeOK
<1>11. QED
  BY <1>9, <1>10 DEF Faithful

(* The name of a noted call.                                               *)
LEMMA NameIsNoted ==
  ASSUME NEW c \in Seq(CallRecord), NEW i \in DOMAIN c,
         \A j, k \in DOMAIN c : c[j].id = c[k].id => j = k
  PROVE  NameOf(c[i].id, c) = c[i].name
<1>. DEFINE at == {k \in DOMAIN c : c[k].id = c[i].id}
<1>1. at = {i}
  OBVIOUS
<1>2. i \in Nat
  BY LenProperties
<1>3. Max({i}) = i
  BY <1>2 DEF Max
<1>4. QED
  BY <1>1, <1>3 DEF NameOf

LEMMA AddResultOK ==
  ASSUME Faithful, NEW call \in open, AddResult(call)
  PROVE  Faithful'
<1>1. call \in CallRecord /\ call.id \in Nat /\ call.name \in Names
  BY DEF Faithful, TypeOK, CallRecord
<1>2. PICK m \in MessageRecord : m = Answer(call.id, <<>>)
  BY <1>1, AnswerType
<1>3. PICK item \in Item : item = ResultItem(call.id)
  BY <1>1, ResultItemType
<1>4. item.type = "function_call_output" /\ MessageOf(item, NameMap) = m
  BY <1>1, <1>2, <1>3, ResultItemType
<1>5. m.role = "tool"
  BY <1>2, AnswerIs
<1>6. /\ items' = Append(items, item) /\ said' = Append(said, Answer(call.id, call.name))
      /\ Talks /\ open' = open \ {call} /\ UNCHANGED system
  BY <1>3 DEF AddResult, Adds
<1>7. NameMap' = NameMap
  BY <1>6, SameTools DEF Talks
<1>8. said' \in Seq(MessageRecord) /\ system' \in Seq(Seq(Nat)) /\ open' \subseteq open
  <2>1. Answer(call.id, call.name) \in MessageRecord
    BY <1>1, AnswerType
  <2>2. QED
    BY <1>6, <2>1, AppendProperties DEF Faithful, TypeOK
<1>9. /\ TypeOK' /\ NormalOK' /\ PhaseOK'
      /\ End' = ToCommandCode(End, m)
  BY <1>4, <1>5, <1>6, <1>7, <1>8, ClientMessage
<1>10. EndOK'
  <2>1. PICK c \in Seq(CallRecord) : c = End.toolNames
    BY DEF Faithful, EndOK
  <2>2. End = [messages |-> said, system |-> system, toolNames |-> c]
    BY <2>1 DEF Faithful, EndOK
  <2>3. ToCommandCode(End, m)
          = [messages |-> Append(said, Answer(call.id, NameOf(call.id, c))),
             system |-> system, toolNames |-> c]
    BY <1>2, <2>2, TakesResult
  <2>4. PICK i \in DOMAIN c : c[i] = call
    BY <2>1 DEF Faithful, EndOK
  <2>5. NameOf(call.id, c) = call.name
    BY <2>1, <2>4, NameIsNoted DEF Faithful, EndOK
  <2>6. QED
    BY <1>6, <1>9, <2>1, <2>3, <2>5, EndAfter, ItemsAfter, FreshIs DEF Faithful, TypeOK
<1>11. QED
  BY <1>9, <1>10 DEF Faithful

-----------------------------------------------------------------------------
(* The other steps of the client.                                          *)

LEMMA SameItems ==
  ASSUME Faithful, UNCHANGED <<items, said, system, open>>, NameMap' = NameMap,
         tools' \in ToolLists, turns' \in Nat,
         phase' = phase \/ phase' = "answered" \/ (phase = "talking" /\ phase' = "asked")
  PROVE  Faithful'
<1>1. Normal' = Normal
  BY DEF Normal
<1>2. Flushed' = Flushed
  BY <1>1 DEF Flushed
<1>3. End' = End
  BY <1>2 DEF End, Answered
<1>4. TypeOK'
  BY DEF Faithful, TypeOK
<1>5. NormalOK'
  BY <1>1 DEF Faithful, NormalOK
<1>6. PhaseOK'
  BY <1>1, <1>2 DEF Faithful, PhaseOK
<1>7. EndOK'
  BY <1>3 DEF Faithful, EndOK
<1>8. QED
  BY <1>4, <1>5, <1>6, <1>7 DEF Faithful

LEMMA ReorderToolsOK ==
  ASSUME Faithful, ReorderTools
  PROVE  Faithful'
<1>1. tools' \in ToolLists /\ ToSet(tools') = ToSet(tools)
  BY DEF ReorderTools
<1>2. NameMap' = NameMap
  BY <1>1, SameNameMap DEF Faithful, TypeOK
<1>3. QED
  BY <1>1, <1>2, SameItems DEF ReorderTools, Faithful, TypeOK

LEMMA AskOK ==
  ASSUME Faithful, Ask
  PROVE  Faithful'
  BY SameItems, SameTools DEF Ask, Faithful, TypeOK

LEMMA EndAnswerOK ==
  ASSUME Faithful, EndAnswer
  PROVE  Faithful'
  BY SameItems, SameTools DEF EndAnswer, Faithful, TypeOK

LEMMA AddEmptyReasoningOK ==
  ASSUME Faithful, AddEmptyReasoning
  PROVE  Faithful'
<1>1. PICK item \in Item : item = ReasoningItem(<<>>) /\ item.type = "reasoning"
  <2>1. <<>> \in Seq(Nat)
    OBVIOUS
  <2>2. ReasoningItem(<<>>) \in Item /\ ReasoningItem(<<>>).type = "reasoning"
    BY <2>1, ReasoningItemType
  <2>3. QED
    BY <2>2
<1>2. items' = Append(items, item) /\ Clients
      /\ UNCHANGED <<tools, said, system, open, phase, turns>>
  BY <1>1 DEF AddEmptyReasoning, Adds
<1>3. NameMap' = NameMap
  BY <1>2, SameTools
<1>4. PICK n \in NormalRecord : n = Normal
  BY DEF Faithful, NormalOK
<1>5. PICK f \in Seq(MessageRecord) :
        FlushUserParts(n) = [messages |-> f, userParts |-> <<>>]
  BY FlushIs
<1>6. Normal' = [messages |-> f, userParts |-> <<>>]
  BY <1>1, <1>2, <1>3, <1>4, <1>5, NextNormal, TakesEmptyReasoning DEF Faithful, TypeOK
<1>7. Flushed' = f /\ Flushed = f
  BY <1>4, <1>5, <1>6 DEF Flushed, FlushUserParts
<1>8. End' = End
  BY <1>7 DEF End, Answered
<1>9. TypeOK'
  BY <1>2, ItemsAfter DEF Faithful, TypeOK
<1>10. NormalOK'
  <2>1. Normal' \in NormalRecord /\ Normal'.userParts = <<>>
    BY <1>6 DEF NormalRecord
  <2>2. Last(items').type # "input_text"
    BY <1>1, <1>2, ItemsAfter DEF Faithful, TypeOK
  <2>3. \A i \in DOMAIN items' :
          items'[i].type = "function_call" => Known(items'[i].tool, NameMap')
    BY <1>1, <1>2, <1>3, KnownAfter DEF Faithful, TypeOK
  <2>4. QED
    BY <2>1, <2>2, <2>3 DEF NormalOK
<1>11. PhaseOK'
  BY <1>2, <1>7 DEF Faithful, PhaseOK, Clients
<1>12. EndOK'
  BY <1>2, <1>8, EndAfter, ItemsAfter, FreshIs DEF Faithful, TypeOK, EndOK
<1>13. QED
  BY <1>9, <1>10, <1>11, <1>12 DEF Faithful

-----------------------------------------------------------------------------
(* A part of a user's message: the first of it, or one more.               *)

LEMMA OnePartMore ==
  ASSUME NEW b \in Seq(Nat), NEW p \in Nat
  PROVE  /\ Append(b, p) \in Seq(Nat) /\ Append(b, p) # <<>>
         /\ Message("user", Append(b, p)) \in MessageRecord
         /\ [Message("user", b) EXCEPT !.text = Append(@, p)] = Message("user", Append(b, p))
<1>1. PICK d \in Seq(Nat) : d = Append(b, p) /\ d # <<>>
  BY AppendProperties
<1>2. Message("user", d) \in MessageRecord
  BY MessageType DEF Roles
<1>3. PICK m : m = Message("user", b)
  OBVIOUS
<1>4. PICK e, answers :
        /\ m = [role |-> "user", text |-> b, reasoning |-> e, calls |-> e, answers |-> answers]
        /\ Message("user", d) = [role |-> "user", text |-> d, reasoning |-> e,
                                 calls |-> e, answers |-> answers]
  BY <1>3, Zenon DEF Message
<1>5. [m EXCEPT !.text = d] = Message("user", d) /\ m.text = b
  BY <1>4
<1>6. QED
  BY <1>1, <1>2, <1>3, <1>4, <1>5

LEMMA FirstPart ==
  ASSUME Faithful, AddPart, Normal.userParts = <<>>
  PROVE  /\ Flushed' # <<>> /\ Last(Flushed').role = "user"
         /\ said' \in Seq(MessageRecord)
         /\ End' = [messages |-> said', system |-> system, toolNames |-> End.toolNames]
<1>1. PICK p \in Nat : p = Fresh /\ <<p>> \in Seq(Nat)
  BY FreshIs DEF Faithful
<1>2. PICK a \in Seq(MessageRecord), b \in Seq(Nat) :
        Normal = [messages |-> a, userParts |-> b] /\ b = <<>>
  BY DEF Faithful, NormalOK, NormalRecord
<1>3. PICK m \in MessageRecord : m = Message("user", <<p>>) /\ m.role = "user"
  BY <1>1, MessageType DEF Roles, Message
<1>4. said' = Append(said, m)
  BY <1>1, <1>2, <1>3 DEF AddPart, Faithful, NormalOK
<1>5. Normal' = [messages |-> a, userParts |-> <<p>>]
  <2>1. PICK item \in Item : item = Parts(<<p>>)
    BY <1>1, PartsType
  <2>2. items' = Append(items, item) /\ NameMap' = NameMap
    BY <1>1, <2>1, SameTools DEF AddPart, Adds, Talks
  <2>3. PICK n \in NormalRecord : n = Normal
    BY DEF Faithful, NormalOK
  <2>4. NormalizeItem(n, item, NameMap)
          = [messages |-> n.messages, userParts |-> Append(n.userParts, p)]
    <3>1. PICK map : map = NameMap
      OBVIOUS
    <3>2. QED
      BY <2>1, <3>1, TakesPart
  <2>5. Append(b, p) = <<p>>
    BY <1>2
  <2>6. QED
    BY <1>2, <2>2, <2>3, <2>4, <2>5, NextNormal DEF Faithful, TypeOK
<1>6. Flushed = a /\ Flushed' = Append(a, m)
  <2>1. PICK d \in Seq(Nat) : d = <<p>> /\ d # <<>>
    BY <1>1
  <2>2. Normal' = [messages |-> a, userParts |-> d]
    BY <1>5, <2>1
  <2>3. QED
    BY <1>2, <1>3, <2>1, <2>2 DEF Flushed, FlushUserParts
<1>7. PICK g \in Seq(MessageRecord) : g = Append(a, m) /\ g # <<>> /\ Last(g) = m
  <2>1. Append(a, m) \in Seq(MessageRecord) /\ Append(a, m) # <<>>
    BY AppendProperties
  <2>2. Last(Append(a, m)) = m
    BY LastOfAppend
  <2>3. QED
    BY <2>1, <2>2
<1>8. Answered(g) = ToCommandCode(Answered(a), m)
  BY <1>7, MoreSaid
<1>9. End' = ToCommandCode(End, m)
  BY <1>6, <1>7, <1>8 DEF End, Answered
<1>10. PICK c : c = End.toolNames /\ End = [messages |-> said, system |-> system, toolNames |-> c]
  BY DEF Faithful, EndOK
<1>11. End' = [messages |-> Append(said, m), system |-> system, toolNames |-> c]
  <2>1. ToCommandCode([messages |-> said, system |-> system, toolNames |-> c], m)
          = [messages |-> Append(said, m), system |-> system, toolNames |-> c]
    BY <1>3 DEF ToCommandCode
  <2>2. QED
    BY <1>9, <1>10, <2>1
<1>12. said' \in Seq(MessageRecord)
  BY <1>4, AppendProperties DEF Faithful, TypeOK
<1>13. QED
  BY <1>3, <1>4, <1>6, <1>7, <1>10, <1>11, <1>12

LEMMA AnotherPart ==
  ASSUME Faithful, AddPart, Normal.userParts # <<>>
  PROVE  /\ Flushed' # <<>> /\ Last(Flushed').role = "user"
         /\ said' \in Seq(MessageRecord)
         /\ End' = [messages |-> said', system |-> system, toolNames |-> End.toolNames]
<1>1. PICK p \in Nat : p = Fresh /\ <<p>> \in Seq(Nat)
  BY FreshIs DEF Faithful
<1>2. PICK a \in Seq(MessageRecord), b \in Seq(Nat) :
        Normal = [messages |-> a, userParts |-> b] /\ b # <<>>
  BY DEF Faithful, NormalOK, NormalRecord
<1>3. PICK m \in MessageRecord : m = Message("user", b) /\ m.role = "user"
  BY MessageType DEF Roles, Message
<1>4. PICK d \in Seq(Nat), o \in MessageRecord :
        /\ d = Append(b, p) /\ d # <<>>
        /\ o = Message("user", d) /\ o = [m EXCEPT !.text = Append(@, p)]
  BY <1>3, OnePartMore
<1>5. o.role = "user"
  BY <1>4 DEF Message
<1>6. said' = [said EXCEPT ![Len(said)].text = Append(@, p)]
  BY <1>1, <1>2 DEF AddPart, Faithful, NormalOK
<1>7. Normal' = [messages |-> a, userParts |-> d]
  <2>1. PICK item \in Item : item = Parts(<<p>>)
    BY <1>1, PartsType
  <2>2. items' = Append(items, item) /\ NameMap' = NameMap
    BY <1>1, <2>1, SameTools DEF AddPart, Adds, Talks
  <2>3. PICK n \in NormalRecord : n = Normal
    BY DEF Faithful, NormalOK
  <2>4. NormalizeItem(n, item, NameMap)
          = [messages |-> n.messages, userParts |-> Append(n.userParts, p)]
    <3>1. PICK map : map = NameMap
      OBVIOUS
    <3>2. QED
      BY <2>1, <3>1, TakesPart
  <2>5. QED
    BY <1>2, <1>4, <2>2, <2>3, <2>4, NextNormal DEF Faithful, TypeOK
<1>8. Flushed = Append(a, m) /\ Flushed' = Append(a, o)
  BY <1>2, <1>3, <1>4, <1>7 DEF Flushed, FlushUserParts
<1>9. End = ToCommandCode(Answered(a), m) /\ End' = ToCommandCode(Answered(a), o)
  <2>1. /\ Answered(Append(a, m)) = ToCommandCode(Answered(a), m)
        /\ Answered(Append(a, o)) = ToCommandCode(Answered(a), o)
    BY MoreSaid
  <2>2. QED
    BY <1>8, <2>1 DEF End, Answered
<1>10. PICK S, x, y, z : /\ x \in Seq(S)
                         /\ Answered(a) = [messages |-> x, system |-> y, toolNames |-> z]
  BY AnsweredShape DEF Shape
<1>11. End = [messages |-> Append(x, m), system |-> y, toolNames |-> z]
  <2>1. ToCommandCode([messages |-> x, system |-> y, toolNames |-> z], m)
          = [messages |-> Append(x, m), system |-> y, toolNames |-> z]
    BY <1>3 DEF ToCommandCode
  <2>2. QED
    BY <1>9, <1>10, <2>1
<1>12. End' = [messages |-> Append(x, o), system |-> y, toolNames |-> z]
  <2>1. ToCommandCode([messages |-> x, system |-> y, toolNames |-> z], o)
          = [messages |-> Append(x, o), system |-> y, toolNames |-> z]
    BY <1>5 DEF ToCommandCode
  <2>2. QED
    BY <1>9, <1>10, <2>1
<1>13. said = Append(x, m) /\ system = y /\ End.toolNames = z
  <2>1. End.messages = said /\ End.system = system
    BY DEF Faithful, EndOK
  <2>2. QED
    BY <1>11, <2>1
<1>14. said' = Append(x, o) /\ x \in Seq(MessageRecord)
  <2>1. PICK s \in Seq(MessageRecord) : s = said /\ s = Append(x, m)
    BY <1>13 DEF Faithful, TypeOK
  <2>2. x \in Seq(MessageRecord) /\ Last(s) = m /\ Front(s) = x
    BY <1>10, <2>1, FrontOf
  <2>3. s[Len(s)] = m
    BY <2>2 DEF Last
  <2>5. [s EXCEPT ![Len(s)] = o] = Append(x, o)
    <3>1. x \in Seq(MessageRecord) /\ s = Append(x, m)
      BY <2>1, <2>2
    <3>2. QED
      BY <3>1, ReplaceLast, Zenon
  <2>6. [s EXCEPT ![Len(s)].text = Append(@, p)] = [s EXCEPT ![Len(s)] = o]
    BY <1>4, <2>3
  <2>7. QED
    BY <1>6, <2>1, <2>2, <2>5, <2>6
<1>15. Append(a, o) # <<>> /\ Last(Append(a, o)) = o
  BY LastOfAppend, AppendProperties
<1>16. QED
  BY <1>5, <1>8, <1>12, <1>13, <1>14, <1>15, AppendProperties

LEMMA AddPartOK ==
  ASSUME Faithful, AddPart
  PROVE  Faithful'
<1>1. PICK p \in Nat : p = Fresh /\ <<p>> \in Seq(Nat)
  BY FreshIs DEF Faithful
<1>2. PICK item \in Item : item = Parts(<<p>>) /\ item.type = "input_text"
  BY <1>1, PartsType
<1>3. items' = Append(items, item) /\ Talks /\ UNCHANGED <<system, open>>
  BY <1>1, <1>2 DEF AddPart, Adds
<1>4. NameMap' = NameMap
  BY <1>3, SameTools DEF Talks
<1>5. /\ Flushed' # <<>> /\ Last(Flushed').role = "user"
      /\ said' \in Seq(MessageRecord)
      /\ End' = [messages |-> said', system |-> system, toolNames |-> End.toolNames]
  BY FirstPart, AnotherPart
<1>6. TypeOK'
  <2>1. items' \in Seq(Item)
    BY <1>3, ItemsAfter DEF Faithful, TypeOK
  <2>2. QED
    BY <1>3, <1>5, <2>1 DEF Faithful, TypeOK, Talks
<1>7. NormalOK'
  <2>1. Normal' \in NormalRecord /\ Normal'.userParts # <<>>
    <3>1. PICK n \in NormalRecord : n = Normal
      BY DEF Faithful, NormalOK
    <3>. DEFINE map == NameMap
    <3>. HIDE DEF map
    <3>2. n.userParts \in Seq(Nat) /\ n.messages \in Seq(MessageRecord)
      BY DEF NormalRecord
    <3>3. PICK d \in Seq(Nat) : d = Append(n.userParts, p) /\ d # <<>>
      BY <3>2, AppendProperties
    <3>4. NormalizeItem(n, item, map) = [messages |-> n.messages, userParts |-> d]
      BY <1>2, <3>3, TakesPart
    <3>5. Normal' = [messages |-> n.messages, userParts |-> d]
      BY <1>3, <1>4, <3>1, <3>4, NextNormal DEF Faithful, TypeOK, map
    <3>6. QED
      BY <3>2, <3>3, <3>5 DEF NormalRecord
  <2>2. items' # <<>> /\ Last(items').type = "input_text"
    BY <1>2, <1>3, ItemsAfter DEF Faithful, TypeOK
  <2>3. \A i \in DOMAIN items' :
          items'[i].type = "function_call" => Known(items'[i].tool, NameMap')
    BY <1>2, <1>3, <1>4, KnownAfter DEF Faithful, TypeOK
  <2>4. QED
    BY <2>1, <2>2, <2>3 DEF NormalOK
<1>8. PhaseOK'
  BY <1>3, <1>5 DEF PhaseOK, Talks
<1>9. EndOK'
  BY <1>3, <1>5, EndAfter, ItemsAfter, FreshIs DEF Faithful, TypeOK
<1>10. QED
  BY <1>6, <1>7, <1>8, <1>9 DEF Faithful

-----------------------------------------------------------------------------
(* An item of the answer: the first of it, or one more.                    *)

LEMMA MergedWithNothing ==
  ASSUME NEW m \in MessageRecord, m.role = "assistant",
         m.answers = [id |-> NoId, name |-> <<>>]
  PROVE  Merged(Message("assistant", <<>>), m) = m
<1>1. /\ <<>> \o m.text = m.text /\ <<>> \o m.reasoning = m.reasoning
      /\ <<>> \o m.calls = m.calls
  BY FieldTypes, ConcatEmptySeq
<1>2. PICK e : e = Message("assistant", <<>>)
  OBVIOUS
<1>3. /\ e.role = m.role /\ e.text = <<>> /\ e.reasoning = <<>> /\ e.calls = <<>>
      /\ e.answers = m.answers
  BY <1>2 DEF Message
<1>4. m = [role |-> m.role, text |-> m.text, reasoning |-> m.reasoning,
           calls |-> m.calls, answers |-> m.answers]
  BY DEF MessageRecord
<1>5. Merged(e, m) = [role |-> m.role, text |-> m.text, reasoning |-> m.reasoning,
                      calls |-> m.calls, answers |-> m.answers]
  BY <1>1, <1>3 DEF Merged
<1>6. QED
  BY <1>2, <1>4, <1>5

LEMMA FirstOfAnswer ==
  ASSUME Faithful, phase = "asked", NEW item \in Item, NEW m \in MessageRecord,
         items' = Append(items, item), NameMap' = NameMap,
         item.type # "input_text", item.type = "reasoning" => item.text # <<>>,
         MessageOf(item, NameMap) = m, m.role = "assistant",
         m.answers = [id |-> NoId, name |-> <<>>]
  PROVE  \E p \in Seq(MessageRecord), spoken \in MessageRecord :
           /\ spoken = Merged(Spoken, m) /\ spoken.role = "assistant"
           /\ Earlier \in Seq(MessageRecord)
           /\ Normal' = [messages |-> Append(p, spoken), userParts |-> <<>>]
           /\ Flushed' = Append(p, spoken)
           /\ End' = [messages |-> Append(Earlier, spoken), system |-> system,
                      toolNames |-> End.toolNames \o m.calls]
<1>1. Flushed = <<>> \/ Last(Flushed).role # "assistant"
  BY DEF Faithful, PhaseOK
<1>2. /\ Flushed \in Seq(MessageRecord)
      /\ Normal' = [messages |-> Append(Flushed, m), userParts |-> <<>>]
      /\ Flushed' = Append(Flushed, m)
      /\ End' = ToCommandCode(End, m)
  BY <1>1, NewMessage DEF Faithful
<1>3. m = Merged(Spoken, m)
  BY MergedWithNothing DEF Spoken
<1>4. Earlier = said /\ said \in Seq(MessageRecord)
  BY DEF Earlier, Faithful, TypeOK
<1>5. PICK c : c = End.toolNames /\ End = [messages |-> said, system |-> system, toolNames |-> c]
  BY DEF Faithful, EndOK
<1>6. ToCommandCode([messages |-> said, system |-> system, toolNames |-> c], m)
        = [messages |-> Append(said, m), system |-> system, toolNames |-> c \o m.calls]
  BY DEF ToCommandCode
<1>7. End' = [messages |-> Append(Earlier, m), system |-> system, toolNames |-> c \o m.calls]
  BY <1>2, <1>4, <1>5, <1>6
<1>8. QED
  BY <1>2, <1>3, <1>4, <1>5, <1>7, Zenon

LEMMA MoreOfAnswer ==
  ASSUME Faithful, phase = "answering", NEW item \in Item, NEW m \in MessageRecord,
         items' = Append(items, item), NameMap' = NameMap,
         item.type # "input_text", item.type = "reasoning" => item.text # <<>>,
         MessageOf(item, NameMap) = m, m.role = "assistant"
  PROVE  \E p \in Seq(MessageRecord), spoken \in MessageRecord :
           /\ spoken = Merged(Spoken, m) /\ spoken.role = "assistant"
           /\ Spoken \in MessageRecord
           /\ Earlier \in Seq(MessageRecord)
           /\ Normal' = [messages |-> Append(p, spoken), userParts |-> <<>>]
           /\ Flushed' = Append(p, spoken)
           /\ End' = [messages |-> Append(Earlier, spoken), system |-> system,
                      toolNames |-> End.toolNames \o m.calls]
<1>1. Flushed # <<>> /\ Last(Flushed).role = "assistant"
  BY DEF Faithful, PhaseOK
<1>2. PICK p \in Seq(MessageRecord), last \in MessageRecord :
        /\ last.role = "assistant"
        /\ Normal' = [messages |-> Append(p, Merged(last, m)), userParts |-> <<>>]
        /\ Flushed' = Append(p, Merged(last, m))
        /\ End = ToCommandCode(Answered(p), last)
        /\ End' = ToCommandCode(Answered(p), Merged(last, m))
  BY <1>1, SameMessage DEF Faithful
<1>3. PICK spoken \in MessageRecord : spoken = Merged(last, m)
  BY MergedType
<1>4. spoken.role = "assistant" /\ spoken.calls = last.calls \o m.calls
  BY <1>2, <1>3 DEF Merged
<1>5. PICK S, x, y, z : /\ x \in Seq(S) /\ z \in Seq(CallRecord)
                        /\ Answered(p) = [messages |-> x, system |-> y, toolNames |-> z]
  BY AnsweredShape DEF Shape
<1>6. End = [messages |-> Append(x, last), system |-> y, toolNames |-> z \o last.calls]
  <2>1. ToCommandCode([messages |-> x, system |-> y, toolNames |-> z], last)
          = [messages |-> Append(x, last), system |-> y, toolNames |-> z \o last.calls]
    BY <1>2 DEF ToCommandCode
  <2>2. QED
    BY <1>2, <1>5, <2>1
<1>7. End' = [messages |-> Append(x, spoken), system |-> y, toolNames |-> z \o spoken.calls]
  <2>1. ToCommandCode([messages |-> x, system |-> y, toolNames |-> z], spoken)
          = [messages |-> Append(x, spoken), system |-> y, toolNames |-> z \o spoken.calls]
    BY <1>4 DEF ToCommandCode
  <2>2. QED
    BY <1>2, <1>3, <1>5, <2>1
<1>8. said = Append(x, last) /\ system = y /\ End.toolNames = z \o last.calls
  <2>1. End.messages = said /\ End.system = system
    BY DEF Faithful, EndOK
  <2>2. QED
    BY <1>6, <2>1
<1>9. x \in Seq(MessageRecord) /\ Last(said) = last /\ Front(said) = x
  <2>1. PICK s \in Seq(MessageRecord) : s = said
    BY DEF Faithful, TypeOK
  <2>2. x \in Seq(MessageRecord) /\ Last(s) = last /\ Front(s) = x
    <3>1. s = Append(x, last)
      BY <1>8, <2>1
    <3>2. QED
      BY <1>5, <3>1, FrontOf
  <2>3. QED
    BY <2>1, <2>2
<1>10. Spoken = last /\ Earlier = x
  BY <1>9 DEF Spoken, Earlier
<1>11. z \o spoken.calls = (z \o last.calls) \o m.calls
  <2>1. PICK h \in Seq(CallRecord), k \in Seq(CallRecord), l \in Seq(CallRecord) :
          h = z /\ k = last.calls /\ l = m.calls
    BY <1>5, FieldTypes
  <2>2. (h \o k) \o l = h \o (k \o l)
    BY ConcatAssociative
  <2>3. QED
    BY <1>4, <2>1, <2>2
<1>12. End' = [messages |-> Append(Earlier, spoken), system |-> system,
               toolNames |-> End.toolNames \o m.calls]
  BY <1>7, <1>8, <1>10, <1>11
<1>13. /\ Normal' = [messages |-> Append(p, spoken), userParts |-> <<>>]
       /\ Flushed' = Append(p, spoken)
  BY <1>2, <1>3
<1>14. spoken = Merged(Spoken, m) /\ Spoken \in MessageRecord /\ Earlier \in Seq(MessageRecord)
  BY <1>3, <1>9, <1>10
<1>15. QED
  BY <1>4, <1>12, <1>13, <1>14

LEMMA OfAnswer ==
  ASSUME Faithful, phase \in {"asked", "answering"}, NEW item \in Item, NEW m \in MessageRecord,
         items' = Append(items, item), NameMap' = NameMap,
         item.type # "input_text", item.type = "reasoning" => item.text # <<>>,
         MessageOf(item, NameMap) = m, m.role = "assistant",
         m.answers = [id |-> NoId, name |-> <<>>]
  PROVE  \E p \in Seq(MessageRecord), spoken \in MessageRecord :
           /\ spoken = Merged(Spoken, m) /\ spoken.role = "assistant"
           /\ Spoken \in MessageRecord
           /\ Earlier \in Seq(MessageRecord)
           /\ Normal' = [messages |-> Append(p, spoken), userParts |-> <<>>]
           /\ Flushed' = Append(p, spoken)
           /\ End' = [messages |-> Append(Earlier, spoken), system |-> system,
                      toolNames |-> End.toolNames \o m.calls]
<1>1. CASE phase = "asked"
  <2>1. Spoken \in MessageRecord
    <3>1. "assistant" \in Roles /\ <<>> \in Seq(Nat)
      BY DEF Roles
    <3>2. QED
      BY <1>1, <3>1, MessageType DEF Spoken
  <2>2. QED
    BY <1>1, <2>1, FirstOfAnswer
<1>2. CASE phase = "answering"
  BY <1>2, MoreOfAnswer
<1>3. QED
  BY <1>1, <1>2

LEMMA AnswerItem ==
  ASSUME Faithful, phase \in {"asked", "answering"}, NEW item \in Item, NEW m \in MessageRecord,
         items' = Append(items, item), NameMap' = NameMap,
         item.type # "input_text", item.type = "reasoning" => item.text # <<>>,
         item.type = "function_call" => Known(item.tool, NameMap),
         MessageOf(item, NameMap) = m, m.role = "assistant",
         m.answers = [id |-> NoId, name |-> <<>>],
         said' = Append(Earlier, Merged(Spoken, m)), phase' = "answering",
         UNCHANGED <<tools, system, turns>>, open' \subseteq CallRecord
  PROVE  /\ TypeOK' /\ NormalOK' /\ PhaseOK'
         /\ End' = [messages |-> said', system |-> system', toolNames |-> End.toolNames \o m.calls]
<1>1. PICK p \in Seq(MessageRecord), spoken \in MessageRecord :
        /\ spoken = Merged(Spoken, m) /\ spoken.role = "assistant"
        /\ Spoken \in MessageRecord
        /\ Earlier \in Seq(MessageRecord)
        /\ Normal' = [messages |-> Append(p, spoken), userParts |-> <<>>]
        /\ Flushed' = Append(p, spoken)
        /\ End' = [messages |-> Append(Earlier, spoken), system |-> system,
                   toolNames |-> End.toolNames \o m.calls]
  BY OfAnswer
<1>2. PICK g \in Seq(MessageRecord) : g = Append(p, spoken) /\ g # <<>> /\ Last(g) = spoken
  <2>1. Append(p, spoken) \in Seq(MessageRecord) /\ Append(p, spoken) # <<>>
    BY AppendProperties
  <2>2. Last(Append(p, spoken)) = spoken
    BY LastOfAppend
  <2>3. QED
    BY <2>1, <2>2
<1>3. Normal' = [messages |-> g, userParts |-> <<>>] /\ Flushed' = g
  BY <1>1, <1>2
<1>4. said' = Append(Earlier, spoken) /\ said' \in Seq(MessageRecord)
  BY <1>1, AppendProperties
<1>5. End' = [messages |-> said', system |-> system', toolNames |-> End.toolNames \o m.calls]
  BY <1>1, <1>4
<1>6. TypeOK'
  <2>1. items' \in Seq(Item)
    BY ItemsAfter DEF Faithful, TypeOK
  <2>2. QED
    BY <1>4, <2>1 DEF Faithful, TypeOK
<1>7. NormalOK'
  <2>1. Normal' \in NormalRecord /\ Normal'.userParts = <<>>
    BY <1>3 DEF NormalRecord
  <2>2. Last(items').type # "input_text"
    BY ItemsAfter DEF Faithful, TypeOK
  <2>3. \A i \in DOMAIN items' :
          items'[i].type = "function_call" => Known(items'[i].tool, NameMap')
    BY KnownAfter DEF Faithful, TypeOK
  <2>4. QED
    BY <2>1, <2>2, <2>3 DEF NormalOK
<1>8. PhaseOK'
  BY <1>1, <1>2, <1>3 DEF PhaseOK
<1>9. QED
  BY <1>5, <1>6, <1>7, <1>8

(* An item without a call notes no name.                                   *)
LEMMA NoCallIsNoted ==
  ASSUME Faithful, NEW item \in Item, items' = Append(items, item), open' = open,
         End' = [messages |-> said', system |-> system', toolNames |-> End.toolNames \o <<>>]
  PROVE  EndOK'
<1>1. End.toolNames \o <<>> = End.toolNames
  BY ConcatEmptySeq DEF Faithful, EndOK
<1>2. End' = [messages |-> said', system |-> system', toolNames |-> End.toolNames]
  BY <1>1
<1>3. QED
  BY <1>2, EndAfter, ItemsAfter, FreshIs DEF Faithful, TypeOK

LEMMA SayReasoningOK ==
  ASSUME Faithful, SayReasoning
  PROVE  Faithful'
<1>1. PICK t \in Seq(Nat) : t = <<Fresh>> /\ t # <<>>
  BY FreshIs DEF Faithful
<1>2. PICK m \in MessageRecord : m = Thought(t)
  BY ThoughtType
<1>3. /\ m.role = "assistant" /\ m.calls = <<>>
      /\ m.answers = [id |-> NoId, name |-> <<>>]
  BY <1>2, ThoughtIs
<1>4. PICK item \in Item : item = ReasoningItem(t)
  BY ReasoningItemType
<1>5. item.type = "reasoning" /\ item.text = t /\ MessageOf(item, NameMap) = m
  BY <1>2, <1>4, ReasoningItemType
<1>6. /\ items' = Append(items, item) /\ open' = open
      /\ phase \in {"asked", "answering"} /\ phase' = "answering"
      /\ Spoken.reasoning = <<>>
      /\ said' = Append(Earlier, [Spoken EXCEPT !.reasoning = t])
      /\ UNCHANGED <<tools, system, turns>>
  BY <1>1, <1>4 DEF SayReasoning, Says, Adds
<1>7. NameMap' = NameMap
  BY <1>6, SameTools
<1>8. Spoken \in MessageRecord
  BY <1>1, <1>3, <1>5, <1>6, <1>7, OfAnswer
<1>9. said' = Append(Earlier, Merged(Spoken, m))
  BY <1>2, <1>6, <1>8, MergedReasoning
<1>10. /\ TypeOK' /\ NormalOK' /\ PhaseOK'
       /\ End' = [messages |-> said', system |-> system', toolNames |-> End.toolNames \o m.calls]
  BY <1>1, <1>3, <1>5, <1>6, <1>7, <1>9, AnswerItem DEF Faithful, TypeOK
<1>11. EndOK'
  BY <1>3, <1>6, <1>10, NoCallIsNoted
<1>12. QED
  BY <1>10, <1>11 DEF Faithful

LEMMA SayTextOK ==
  ASSUME Faithful, SayText
  PROVE  Faithful'
<1>1. PICK t \in Seq(Nat) : t = <<Fresh>>
  BY FreshIs DEF Faithful
<1>2. PICK m \in MessageRecord : m = Message("assistant", t)
  BY MessageType DEF Roles
<1>3. /\ m.role = "assistant" /\ m.calls = <<>>
      /\ m.answers = [id |-> NoId, name |-> <<>>]
  BY <1>2 DEF Message
<1>4. PICK item \in Item : item = MessageItem("assistant", t)
  BY MessageItemType DEF Roles
<1>5. item.type = "message" /\ MessageOf(item, NameMap) = m
  BY <1>2, <1>4, MessageItemType DEF Roles
<1>6. /\ items' = Append(items, item) /\ open' = open
      /\ phase \in {"asked", "answering"} /\ phase' = "answering"
      /\ Spoken.text = <<>>
      /\ said' = Append(Earlier, [Spoken EXCEPT !.text = t])
      /\ UNCHANGED <<tools, system, turns>>
  BY <1>1, <1>4 DEF SayText, Says, Adds
<1>7. NameMap' = NameMap
  BY <1>6, SameTools
<1>8. Spoken \in MessageRecord
  BY <1>3, <1>5, <1>6, <1>7, OfAnswer
<1>9. said' = Append(Earlier, Merged(Spoken, m))
  BY <1>2, <1>6, <1>8, MergedText
<1>10. /\ TypeOK' /\ NormalOK' /\ PhaseOK'
       /\ End' = [messages |-> said', system |-> system', toolNames |-> End.toolNames \o m.calls]
  BY <1>3, <1>5, <1>6, <1>7, <1>9, AnswerItem DEF Faithful, TypeOK
<1>11. EndOK'
  BY <1>3, <1>6, <1>10, NoCallIsNoted
<1>12. QED
  BY <1>10, <1>11 DEF Faithful

LEMMA SayNothingOK ==
  ASSUME Faithful, SayNothing
  PROVE  Faithful'
<1>1. PICK m \in MessageRecord : m = Message("assistant", <<>>)
  <2>1. "assistant" \in Roles /\ <<>> \in Seq(Nat)
    BY DEF Roles
  <2>2. QED
    BY <2>1, MessageType
<1>2. /\ m.role = "assistant" /\ m.calls = <<>>
      /\ m.answers = [id |-> NoId, name |-> <<>>]
  BY <1>1 DEF Message
<1>3. PICK item \in Item :
        /\ item = MessageItem("assistant", <<>>)
        /\ item.type = "message" /\ MessageOf(item, NameMap) = m
  <2>1. "assistant" \in Roles /\ <<>> \in Seq(Nat)
    BY DEF Roles
  <2>2. /\ MessageItem("assistant", <<>>) \in Item
        /\ MessageItem("assistant", <<>>).type = "message"
        /\ MessageOf(MessageItem("assistant", <<>>), NameMap) = m
    BY <1>1, <2>1, MessageItemType
  <2>3. QED
    BY <2>2
<1>4. /\ items' = Append(items, item) /\ open' = open
      /\ phase = "asked" /\ phase' = "answered"
      /\ said' = Append(said, m)
      /\ UNCHANGED <<tools, system, turns>>
  BY <1>1, <1>3 DEF SayNothing, Adds, Spoken
<1>5. NameMap' = NameMap
  BY <1>4, SameTools
<1>6. PICK f \in Seq(MessageRecord), g \in Seq(MessageRecord) :
        /\ f = Flushed /\ g = Append(f, m)
        /\ Normal' = [messages |-> g, userParts |-> <<>>]
        /\ End' = ToCommandCode(End, m)
  <2>1. Flushed = <<>> \/ Last(Flushed).role # "assistant"
    BY <1>4 DEF Faithful, PhaseOK
  <2>2. /\ Flushed \in Seq(MessageRecord)
        /\ Normal' = [messages |-> Append(Flushed, m), userParts |-> <<>>]
        /\ End' = ToCommandCode(End, m)
    BY <1>3, <1>4, <1>5, <2>1, NewMessage DEF Faithful
  <2>3. Append(Flushed, m) \in Seq(MessageRecord)
    BY <2>2, AppendProperties
  <2>4. QED
    BY <2>2, <2>3
<1>7. TypeOK'
  <2>1. items' \in Seq(Item) /\ said' \in Seq(MessageRecord)
    BY <1>4, ItemsAfter, AppendProperties DEF Faithful, TypeOK
  <2>2. QED
    BY <1>4, <2>1 DEF Faithful, TypeOK
<1>8. NormalOK'
  <2>1. Normal' \in NormalRecord /\ Normal'.userParts = <<>>
    BY <1>6 DEF NormalRecord
  <2>2. Last(items').type # "input_text"
    BY <1>3, <1>4, ItemsAfter DEF Faithful, TypeOK
  <2>3. \A i \in DOMAIN items' :
          items'[i].type = "function_call" => Known(items'[i].tool, NameMap')
    BY <1>3, <1>4, <1>5, KnownAfter DEF Faithful, TypeOK
  <2>4. QED
    BY <2>1, <2>2, <2>3 DEF NormalOK
<1>9. PhaseOK'
  BY <1>4 DEF PhaseOK
<1>10. EndOK'
  <2>1. PICK c : c = End.toolNames /\ End = [messages |-> said, system |-> system, toolNames |-> c]
    BY DEF Faithful, EndOK
  <2>2. ToCommandCode([messages |-> said, system |-> system, toolNames |-> c], m)
          = [messages |-> Append(said, m), system |-> system, toolNames |-> c \o m.calls]
    BY <1>2 DEF ToCommandCode
  <2>3. End' = [messages |-> said', system |-> system', toolNames |-> c \o m.calls]
    BY <1>4, <1>6, <2>1, <2>2
  <2>4. QED
    BY <1>2, <1>4, <2>1, <2>3, NoCallIsNoted
<1>11. QED
  BY <1>7, <1>8, <1>9, <1>10 DEF Faithful

(* A call of the answer is noted; its id is the item's place.              *)
LEMMA CallIsNoted ==
  ASSUME Faithful, NEW item \in Item, items' = Append(items, item),
         NEW call \in CallRecord, call.id = Len(items) + 1, open' = open \cup {call},
         End' = [messages |-> said', system |-> system',
                 toolNames |-> End.toolNames \o <<call>>]
  PROVE  EndOK'
<1>1. PICK c \in Seq(CallRecord) :
        /\ c = End.toolNames
        /\ \A i \in DOMAIN c : c[i].id <= Len(items)
        /\ \A i, j \in DOMAIN c : c[i].id = c[j].id => i = j
        /\ \A x \in open : \E i \in DOMAIN c : c[i] = x
  BY DEF Faithful, EndOK
<1>2. PICK d \in Seq(CallRecord) : d = Append(c, call)
  BY AppendProperties
<1>3. End' = [messages |-> said', system |-> system', toolNames |-> d]
  <2>1. d = c \o <<call>>
    BY <1>2, AppendIsConcat
  <2>2. QED
    BY <1>1, <2>1
<1>4. PICK k \in Nat, l \in Nat : k = Len(c) /\ l = Len(items)
  BY LenProperties, FreshIs DEF Faithful
<1>5. /\ DOMAIN c = 1 .. k /\ DOMAIN d = 1 .. k + 1
      /\ d[k + 1] = call /\ \A i \in 1 .. k : d[i] = c[i]
  BY <1>2, <1>4, AppendProperties, LenProperties
<1>6. \A i \in 1 .. k : c[i].id \in Nat
  <2>1. ASSUME NEW i \in 1 .. k PROVE c[i].id \in Nat
    <3>1. c[i] \in CallRecord
      BY <1>4, ElementOfSeq
    <3>2. QED
      BY <3>1 DEF CallRecord
  <2>2. QED
    BY <2>1
<1>7. /\ \A i \in 1 .. k : d[i].id \in Nat /\ d[i].id <= l
      /\ d[k + 1].id = l + 1
  BY <1>1, <1>4, <1>5, <1>6
<1>8. Len(items') = l + 1
  BY <1>4, ItemsAfter DEF Faithful, TypeOK
<1>9. \A i \in DOMAIN d : d[i].id <= l + 1
  BY <1>4, <1>5, <1>7
<1>10. \A i, j \in DOMAIN d : d[i].id = d[j].id => i = j
  <2>1. SUFFICES ASSUME NEW i \in 1 .. k + 1, NEW j \in 1 .. k + 1, d[i].id = d[j].id
                 PROVE  i = j
    BY <1>5
  <2>2. CASE i \in 1 .. k /\ j \in 1 .. k
    <3>1. d[i] = c[i] /\ d[j] = c[j] /\ i \in DOMAIN c /\ j \in DOMAIN c
      BY <1>5, <2>2
    <3>2. c[i].id = c[j].id
      BY <2>1, <3>1
    <3>3. QED
      BY <1>1, <3>1, <3>2
  <2>3. CASE i = k + 1 \/ j = k + 1
    BY <1>4, <1>7, <2>1, <2>3
  <2>4. (i \in 1 .. k \/ i = k + 1) /\ (j \in 1 .. k \/ j = k + 1)
    BY <1>4
  <2>5. QED
    BY <2>2, <2>3, <2>4
<1>11. \A x \in open' : \E i \in DOMAIN d : d[i] = x
  <2>1. SUFFICES ASSUME NEW x \in open' PROVE \E i \in DOMAIN d : d[i] = x
    OBVIOUS
  <2>2. CASE x \in open
    BY <1>1, <1>4, <1>5, <2>2
  <2>3. CASE x = call
    <3>1. k + 1 \in 1 .. k + 1
      BY <1>4
    <3>2. k + 1 \in DOMAIN d /\ d[k + 1] = x
      BY <1>5, <2>3, <3>1, Zenon
    <3>3. QED
      BY <3>2
  <2>4. QED
    BY <2>1, <2>2, <2>3
<1>12. \A i \in DOMAIN d : d[i].id <= Len(items')
  BY <1>8, <1>9
<1>13. End' = [messages |-> said', system |-> system', toolNames |-> End'.toolNames]
       /\ End'.toolNames = d
  BY <1>3
<1>14. QED
  <2>. DEFINE Noted(names) ==
         /\ names \in Seq(CallRecord)
         /\ \A i \in DOMAIN names : names[i].id <= Len(items')
         /\ \A i, j \in DOMAIN names : names[i].id = names[j].id => i = j
         /\ \A x \in open' : \E i \in DOMAIN names : names[i] = x
  <2>1. Noted(d)
    BY <1>10, <1>11, <1>12
  <2>2. Noted(End'.toolNames)
    <3>. HIDE DEF Noted
    <3>1. QED
      BY <1>13, <2>1
  <2>3. QED
    BY <1>13, <2>2, Zenon DEF EndOK

LEMMA SayCallOK ==
  ASSUME Faithful, NEW name \in Names, SayCall(Fresh, name)
  PROVE  Faithful'
<1>1. PICK id \in Nat : id = Fresh /\ id = Len(items) + 1
  BY FreshIs DEF Faithful
<1>2. PICK call \in CallRecord : call = [id |-> id, name |-> name] /\ call.id = id
  <2>1. [id |-> id, name |-> name] \in CallRecord /\ [id |-> id, name |-> name].id = id
    BY DEF CallRecord
  <2>2. QED
    BY <2>1
<1>3. PICK m \in MessageRecord : m = Calls(id, name)
  BY CallsType
<1>4. /\ m.role = "assistant" /\ m.calls = <<call>>
      /\ m.answers = [id |-> NoId, name |-> <<>>]
  BY <1>2, <1>3, CallsIs
<1>5. PICK item \in Item : item = CallItem(id, Shown(name, NameMap))
  BY CallItemType DEF Faithful, TypeOK
<1>6. /\ item.type = "function_call" /\ item.tool = Shown(name, NameMap)
      /\ MessageOf(item, NameMap) = m
  BY <1>3, <1>5, CallItemType DEF Faithful, TypeOK
<1>7. Known(item.tool, NameMap)
  <2>1. PICK map : map = NameMap /\ NamesOK(map, ToSet(tools))
    BY NameMapOK DEF Faithful, TypeOK
  <2>2. Known(Shown(name, map), map)
    BY <2>1, ShownIsKnown
  <2>3. QED
    BY <1>6, <2>1, <2>2
<1>8. /\ items' = Append(items, item) /\ open' = open \cup {call}
      /\ phase \in {"asked", "answering"} /\ phase' = "answering"
      /\ said' = Append(Earlier, [Spoken EXCEPT !.calls = Append(@, call)])
      /\ UNCHANGED <<tools, system, turns>>
  BY <1>1, <1>2, <1>5 DEF SayCall, Says, Adds
<1>9. NameMap' = NameMap
  BY <1>8, SameTools
<1>10. Spoken \in MessageRecord
  BY <1>4, <1>6, <1>8, <1>9, OfAnswer
<1>11. said' = Append(Earlier, Merged(Spoken, m))
  BY <1>2, <1>3, <1>8, <1>10, MergedCall
<1>12. /\ TypeOK' /\ NormalOK' /\ PhaseOK'
       /\ End' = [messages |-> said', system |-> system', toolNames |-> End.toolNames \o m.calls]
  <2>1. open' \subseteq CallRecord
    BY <1>8 DEF Faithful, TypeOK
  <2>2. QED
    BY <1>4, <1>6, <1>7, <1>8, <1>9, <1>11, <2>1, AnswerItem
<1>13. EndOK'
  BY <1>1, <1>2, <1>4, <1>8, <1>12, CallIsNoted
<1>14. QED
  BY <1>12, <1>13 DEF Faithful

-----------------------------------------------------------------------------
(* The invariant holds from the start.                                     *)

LEMMA InitOK ==
  ASSUME Init
  PROVE  Faithful
<1>1. /\ tools \in ToolLists /\ items = <<>> /\ said = <<>>
      /\ system = <<Instructions>> /\ open = {} /\ phase = "answered" /\ turns = 0
  BY DEF Init
<1>2. /\ <<>> \in Seq(Item) /\ <<>> \in Seq(MessageRecord) /\ <<>> \in Seq(Nat)
      /\ <<>> \in Seq(CallRecord) /\ <<Instructions>> \in Seq(Seq(Nat))
  BY DEF Instructions
<1>3. Normal = [messages |-> <<>>, userParts |-> <<>>]
  <2>1. Len(items) = 0
    BY <1>1
  <2>2. NormalizeStates(items, NameMap)[0] = NothingNormalized
    BY <2>1, NormalizeUnfold
  <2>3. QED
    BY <2>1, <2>2 DEF Normal, Normalized, NothingNormalized
<1>4. Flushed = <<>>
  BY <1>3 DEF Flushed, FlushUserParts
<1>5. End = [messages |-> <<>>, system |-> <<Instructions>>, toolNames |-> <<>>]
  BY <1>4, NothingSaid DEF End
<1>6. TypeOK
  BY <1>1, <1>2 DEF TypeOK
<1>7. NormalOK
  <2>1. Normal \in NormalRecord /\ Normal.userParts = <<>>
    BY <1>2, <1>3 DEF NormalRecord
  <2>2. DOMAIN items = {}
    BY <1>1
  <2>3. QED
    BY <1>1, <2>1, <2>2 DEF NormalOK
<1>8. PhaseOK
  BY <1>1 DEF PhaseOK
<1>9. EndOK
  <2>1. PICK c \in Seq(CallRecord) : c = <<>> /\ DOMAIN c = {}
    <3>1. DOMAIN <<>> = {}
      OBVIOUS
    <3>2. QED
      BY <1>2, <3>1
  <2>2. End = [messages |-> said, system |-> system, toolNames |-> c] /\ End.toolNames = c
    BY <1>1, <1>5, <2>1
  <2>3. QED
    BY <1>1, <2>1, <2>2 DEF EndOK
<1>10. QED
  BY <1>6, <1>7, <1>8, <1>9 DEF Faithful

(* Of a call whose id is empty, or whose name is and is no tool's, the     *)
(* client is shown a blank item.                                           *)
LEMMA BlankCall ==
  ASSUME ListsOK, NEW id \in {Fresh, NoId}, NEW name \in Names \cup {NoName},
         SayCall(id, name), ~SomeBlank'
  PROVE  id = Fresh /\ name \in Names
<1>1. PICK item : item = CallItem(id, Shown(name, NameMap))
  OBVIOUS
<1>2. item.type = "function_call" /\ item.id = id /\ item.tool = Shown(name, NameMap)
  BY <1>1 DEF CallItem
<1>3. items' = Append(items, item)
  BY <1>1 DEF SayCall, Adds
<1>4. ~Blank(item)
  <2>1. PICK s \in Seq(Item) : s = items
    BY DEF ListsOK
  <2>2. PICK k \in Nat : k = Len(s)
    OBVIOUS
  <2>3. Append(s, item)[k + 1] = item /\ k + 1 \in DOMAIN Append(s, item)
    BY <2>2
  <2>4. k + 1 \in DOMAIN items' /\ items'[k + 1] = item
    BY <1>3, <2>1, <2>3
  <2>5. QED
    BY <2>4 DEF SomeBlank
<1>5. id # NoId /\ item.tool.name # NoName
  BY <1>2, <1>4 DEF Blank
<1>6. ASSUME name \notin Names PROVE FALSE
  <2>1. name = NoName
    BY <1>6
  <2>2. name \notin DOMAIN NameMap
    BY <1>6 DEF ListsOK, Names, NameMap
  <2>3. item.tool.name = name
    BY <1>2, <2>2 DEF Shown, Tool
  <2>4. QED
    BY <1>5, <2>1, <2>3
<1>7. QED
  BY <1>5, <1>6

LEMMA NextOK ==
  ASSUME Faithful, ListsOK, [Next]_vars, ~SomeBlank'
  PROVE  Faithful'
<1>1. CASE AddPart
  BY <1>1, AddPartOK
<1>2. CASE AddUserMessage
  BY <1>2, AddUserMessageOK
<1>3. CASE AddDeveloperMessage
  BY <1>3, AddDeveloperMessageOK
<1>4. CASE AddEmptyReasoning
  BY <1>4, AddEmptyReasoningOK
<1>5. CASE \E call \in open : AddResult(call)
  BY <1>5, AddResultOK
<1>6. CASE ReorderTools
  BY <1>6, ReorderToolsOK
<1>7. CASE Ask
  BY <1>7, AskOK
<1>8. CASE SayReasoning
  BY <1>8, SayReasoningOK
<1>9. CASE SayText
  BY <1>9, SayTextOK
<1>10. CASE SayNothing
  BY <1>10, SayNothingOK
<1>11. CASE EndAnswer
  BY <1>11, EndAnswerOK
<1>12. CASE \E id \in {Fresh, NoId}, name \in Names \cup {NoName} : SayCall(id, name)
  <2>1. PICK id \in {Fresh, NoId}, name \in Names \cup {NoName} : SayCall(id, name)
    BY <1>12
  <2>2. id = Fresh /\ name \in Names
    BY <2>1, BlankCall
  <2>3. SayCall(Fresh, name)
    BY <2>1, <2>2
  <2>4. QED
    BY <2>2, <2>3, SayCallOK
<1>13. CASE UNCHANGED vars
  <2>1. UNCHANGED <<tools, items, said, system, open, phase, turns>>
    BY <1>13 DEF vars
  <2>2. NameMap' = NameMap
    BY <2>1, SameTools
  <2>3. tools' \in ToolLists /\ turns' \in Nat
    BY <2>1 DEF Faithful, TypeOK
  <2>4. QED
    BY <2>1, <2>2, <2>3, SameItems
<1>14. QED
  BY <1>1, <1>2, <1>3, <1>4, <1>5, <1>6, <1>7, <1>8, <1>9, <1>10, <1>11, <1>12, <1>13
     DEF Next

(* A step adds an item to the list or leaves it alone.                     *)
LEMMA ListsKept ==
  ASSUME ListsOK, [Next]_vars
  PROVE  /\ ListsOK'
         /\ items' = items \/ \E item \in Item : items' = Append(items, item)
<1>. DEFINE Added == \E item \in Item : items' = Append(items, item)
<1>1. PICK f \in Nat : f = Fresh
  <2>1. PICK s \in Seq(Item) : s = items
    BY DEF ListsOK
  <2>2. Len(s) + 1 \in Nat
    OBVIOUS
  <2>3. QED
    BY <2>1, <2>2 DEF Fresh
<1>2. <<>> \in Seq(Nat) /\ <<f>> \in Seq(Nat)
  OBVIOUS
<1>3. /\ Parts(<<f>>) \in Item
      /\ \A r \in {"user", "developer", "assistant"} : MessageItem(r, <<f>>) \in Item
      /\ MessageItem("assistant", <<>>) \in Item
      /\ ReasoningItem(<<>>) \in Item /\ ReasoningItem(<<f>>) \in Item
  <2>1. Parts(<<f>>) \in Item
    BY <1>2, PartsType
  <2>2. \A r \in Roles : \A t \in Seq(Nat) : MessageItem(r, t) \in Item
    BY MessageItemType
  <2>3. {"user", "developer", "assistant"} \subseteq Roles
    BY DEF Roles
  <2>4. \A t \in Seq(Nat) : ReasoningItem(t) \in Item
    BY ReasoningItemType
  <2>5. QED
    BY <1>2, <2>1, <2>2, <2>3, <2>4
<1>4. ASSUME tools' = tools, open' \subseteq ShownCalls,
             Added
      PROVE  ListsOK' /\ \E item \in Item : items' = Append(items, item)
  <2>1. PICK item \in Item : items' = Append(items, item)
    BY <1>4
  <2>2. items' \in Seq(Item)
    BY <2>1, ItemsAfter DEF ListsOK
  <2>3. QED
    BY <1>4, <2>1, <2>2 DEF ListsOK
<1>5. ASSUME items' = items, open' = open, tools' \in ToolLists
      PROVE  ListsOK' /\ items' = items
  BY <1>5 DEF ListsOK
<1>. HIDE DEF Added
<1>6. \A item \in Item : Adds(item) => Added
  BY DEF Adds, Added
<1>7. CASE AddPart \/ AddUserMessage \/ AddDeveloperMessage
  <2>1. Added
    <3>1. \/ Adds(Parts(<<f>>))
          \/ Adds(MessageItem("user", <<f>>))
          \/ Adds(MessageItem("developer", <<f>>))
      BY <1>1, <1>7 DEF AddPart, AddUserMessage, AddDeveloperMessage
    <3>2. QED
      BY <1>3, <1>6, <3>1
  <2>2. tools' = tools /\ open' \subseteq ShownCalls
    BY <1>7 DEF AddPart, AddUserMessage, AddDeveloperMessage, Talks, ListsOK
  <2>3. QED
    BY <1>4, <2>1, <2>2
<1>8. CASE AddEmptyReasoning
  <2>1. Added
    <3>1. Adds(ReasoningItem(<<>>))
      BY <1>8 DEF AddEmptyReasoning
    <3>2. QED
      BY <1>3, <1>6, <3>1
  <2>2. tools' = tools /\ open' \subseteq ShownCalls
    BY <1>8 DEF AddEmptyReasoning, ListsOK
  <2>3. QED
    BY <1>4, <2>1, <2>2
<1>9. CASE \E call \in open : AddResult(call)
  <2>1. PICK call \in open : AddResult(call)
    BY <1>9
  <2>2. call.id \in Nat
    BY DEF ListsOK, ShownCalls
  <2>3. ResultItem(call.id) \in Item
    BY <2>2, ResultItemType
  <2>4. Added
    <3>1. Adds(ResultItem(call.id))
      BY <2>1 DEF AddResult
    <3>2. QED
      BY <1>6, <2>3, <3>1
  <2>5. tools' = tools /\ open' \subseteq ShownCalls
    BY <2>1 DEF AddResult, Talks, ListsOK
  <2>6. QED
    BY <1>4, <2>4, <2>5
<1>10. CASE ReorderTools \/ Ask \/ EndAnswer \/ UNCHANGED vars
  <2>1. items' = items /\ open' = open /\ tools' \in ToolLists
    BY <1>10 DEF ReorderTools, Ask, EndAnswer, vars, ListsOK
  <2>2. QED
    BY <1>5, <2>1
<1>11. CASE SayReasoning \/ SayText \/ SayNothing
  <2>1. Added
    <3>1. \/ Adds(ReasoningItem(<<f>>))
          \/ Adds(MessageItem("assistant", <<f>>))
          \/ Adds(MessageItem("assistant", <<>>))
      BY <1>1, <1>11 DEF SayReasoning, SayText, SayNothing
    <3>2. QED
      BY <1>3, <1>6, <3>1
  <2>2. tools' = tools /\ open' \subseteq ShownCalls
    BY <1>11 DEF SayReasoning, SayText, SayNothing, Says, ListsOK
  <2>3. QED
    BY <1>4, <2>1, <2>2
<1>12. CASE \E id \in {Fresh, NoId}, name \in Names \cup {NoName} : SayCall(id, name)
  <2>1. PICK id \in {Fresh, NoId}, name \in Names \cup {NoName} : SayCall(id, name)
    BY <1>12
  <2>2. id \in Nat
    BY <1>1 DEF NoId
  <2>3. CallItem(id, Shown(name, NameMap)) \in Item
    BY <2>2, CallItemType DEF ListsOK
  <2>4. Added
    <3>1. Adds(CallItem(id, Shown(name, NameMap)))
      BY <2>1 DEF SayCall
    <3>2. QED
      BY <1>6, <2>3, <3>1
  <2>5. [id |-> id, name |-> name] \in ShownCalls
    BY <2>2 DEF ShownCalls
  <2>6. tools' = tools /\ open' = open \cup {[id |-> id, name |-> name]}
    BY <2>1 DEF SayCall, Says
  <2>7. open' \subseteq ShownCalls
    BY <2>5, <2>6 DEF ListsOK
  <2>8. QED
    BY <1>4, <2>4, <2>6, <2>7
<1>13. QED
  BY <1>7, <1>8, <1>9, <1>10, <1>11, <1>12 DEF Next

LEMMA StepOK ==
  ASSUME IInv, [Next]_vars
  PROVE  IInv'
<1>1. ListsOK' /\ (items' = items \/ \E item \in Item : items' = Append(items, item))
  BY ListsKept DEF IInv
<1>2. CASE SomeBlank
  <2>1. PICK i \in DOMAIN items : Blank(items[i])
    BY <1>2 DEF SomeBlank
  <2>2. CASE items' = items
    BY <1>1, <2>1, <2>2 DEF IInv, SomeBlank
  <2>3. CASE \E item \in Item : items' = Append(items, item)
    <3>1. i \in DOMAIN items' /\ items'[i] = items[i]
      <4>1. PICK item \in Item : items' = Append(items, item)
        BY <2>3
      <4>2. /\ DOMAIN items = 1 .. Len(items) /\ DOMAIN items' = 1 .. Len(items) + 1
            /\ \A j \in 1 .. Len(items) : items'[j] = items[j]
        BY <4>1, ItemsAfter DEF IInv, ListsOK
      <4>3. PICK k \in Nat : k = Len(items)
        BY LenProperties DEF IInv, ListsOK
      <4>4. QED
        BY <4>2, <4>3
    <3>2. SomeBlank'
      BY <2>1, <3>1 DEF SomeBlank
    <3>3. QED
      BY <1>1, <3>2 DEF IInv
  <2>4. QED
    BY <1>1, <2>2, <2>3
<1>3. CASE Faithful
  BY <1>1, <1>3, NextOK DEF IInv
<1>4. QED
  BY <1>2, <1>3 DEF IInv

(* In every reachable state of a conversation, however many its items and  *)
(* tools, unless the upstream has left a call without a name or an id:     *)
(* what normalizeInput has read is well formed, every call of the history  *)
(* is one of a tool the request has, the last message belongs to who has   *)
(* the word, and toCommandCodeMessages makes of the items what was said,   *)
(* with the name of every call noted once (src/translate/                  *)
(* responses.ts:121-238, src/translate/messages.ts:167-227).               *)
THEOREM InvariantHolds == Spec => []IInv
<1>1. Init => IInv
  <2>1. SUFFICES ASSUME Init PROVE IInv
    OBVIOUS
  <2>2. Faithful
    BY <2>1, InitOK
  <2>3. open = {}
    BY <2>1 DEF Init
  <2>4. QED
    BY <2>2, <2>3 DEF IInv, ListsOK, Faithful, TypeOK
<1>2. IInv /\ [Next]_vars => IInv'
  BY StepOK
<1>3. QED
  BY <1>1, <1>2, PTL DEF Spec

(* The upstream reads of the past what happened: whatever the client adds, *)
(* in whatever order its tools are listed, its next request, if it is not  *)
(* refused, is the messages as they were said and the system texts in      *)
(* their order (src/translate/responses.ts:87-106, 121-238).               *)
THEOREM HistoryIsFaithful == Spec => []HistoryFaithful
<1>1. IInv => HistoryFaithful
  <2>1. SUFFICES ASSUME IInv, ~Refused PROVE Request = [messages |-> said, system |-> system]
    BY DEF HistoryFaithful
  <2>2. ~SomeBlank
    BY <2>1 DEF SomeBlank, Refused, Unusable
  <2>3. /\ End.messages = said /\ End.system = system
    BY <2>1, <2>2 DEF IInv, Faithful, EndOK
  <2>4. Request = ToCommandCodeMessages(<<Message("system", Instructions)>> \o Flushed)
    BY DEF Request, Translated, NormalizeInput, Flushed, Normal
  <2>5. Request = [messages |-> End.messages, system |-> End.system]
    BY <2>4 DEF ToCommandCodeMessages, End, Answered
  <2>6. QED
    BY <2>3, <2>5
<1>2. QED
  BY <1>1, InvariantHolds, PTL

(* However the names of the tools collide, each has a name of its own      *)
(* upstream and a call by that name is shown as that tool                  *)
(* (src/translate/responses.ts:31-55).                                     *)
THEOREM ToolsAreToldApart == Spec => []ToolsToldApart
<1>1. IInv => ToolsToldApart
  BY ToldApart DEF IInv, ListsOK
<1>2. QED
  BY <1>1, InvariantHolds, PTL

(* What the proxy gave out it takes back, unless the upstream had left a   *)
(* call without a name or with an empty id: any other call in the history  *)
(* is of a tool it knows, were it one the upstream made up                 *)
(* (src/translate/responses.ts:57-65, 198-216).                            *)
THEOREM OwnOutputIsAccepted == Spec => []OwnOutputAccepted
<1>1. IInv => OwnOutputAccepted
  <2>1. SUFFICES ASSUME IInv, ~SomeBlank PROVE ~Refused
    BY DEF OwnOutputAccepted, SomeBlank
  <2>2. NormalOK
    BY <2>1 DEF IInv, Faithful
  <2>3. QED
    BY <2>1, <2>2 DEF NormalOK, Refused, Unusable, SomeBlank
<1>2. QED
  BY <1>1, InvariantHolds, PTL
=============================================================================
