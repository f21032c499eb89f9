-------------------------- MODULE RoadNetworkProofs --------------------------
(***************************************************************************)
(* What the operators of RoadNetwork do, for every network: a truncated    *)
(* way keeps what is inside the polygon and one node beyond, a filter      *)
(* keeps the roads it names, a component is what its nodes reach, and the  *)
(* largest subnetwork is the component with the most nodes.                *)
(***************************************************************************)
EXTENDS RoadNetwork, SequenceTheorems, FiniteSetTheorems, WellFoundedInduction, TLAPS

\* The least of some natural numbers is one of them.
LEMMA LeastIs ==
    ASSUME NEW S \in SUBSET Nat, S # {}
    PROVE  Min(S) \in S /\ \A y \in S : Min(S) <= y
<1> DEFINE less == {ss \in Nat \X Nat : ss[1] < ss[2]}
<1>1. IsWellFoundedOn(less, Nat)
  BY NatLessThanWellFounded DEF OpToRel
<1>2. PICK x \in S : \A y \in S : ~(<<y, x>> \in less)
  <2> HIDE DEF less
  <2> QED BY <1>1, WFMin
<1>3. ASSUME NEW y \in S PROVE x <= y
  <2>1. <<y, x>> \in Nat \X Nat /\ <<y, x>> \notin less
    BY <1>2
  <2>2. ~(<<y, x>>[1] < <<y, x>>[2])
    BY <2>1
  <2> QED BY <2>2
<1> QED BY <1>3 DEF Min

\* So is the greatest, when they are bounded.
LEMMA GreatestIs ==
    ASSUME NEW n \in Nat, NEW S \in SUBSET (1..n), S # {}
    PROVE  Max(S) \in S /\ \A y \in S : Max(S) >= y
<1> DEFINE R == {n - x : x \in S}
<1>1. \A x \in S : x \in Nat /\ n - x \in Nat /\ n - x \in R
  OBVIOUS
<1>2. R \in SUBSET Nat /\ R # {}
  BY <1>1
<1>3. Min(R) \in R /\ \A y \in R : Min(R) <= y
  <2> HIDE DEF R
  <2> QED BY <1>2, LeastIs
<1>4. PICK x \in S : n - x = Min(R)
  BY <1>3
<1>5. ASSUME NEW y \in S PROVE x >= y
  <2>1. n - x <= n - y
    BY <1>1, <1>3, <1>4
  <2> QED BY <2>1, <1>1
<1> QED BY <1>5 DEF Max

-----------------------------------------------------------------------------
(* osm/transform.py *)

\* The node pairs of a way with an end inside.
Touching(nodes, inside) ==
    {i \in 1..(Len(nodes) - 1) : {nodes[i], nodes[i + 1]} \cap inside # {}}

\* Two inside nodes of the way with two neighbouring outside nodes between them.
Parted(nodes, inside) ==
    \E i, j, k \in 1..Len(nodes) :
        /\ i < j /\ j + 1 < k
        /\ nodes[i] \in inside /\ nodes[j] \notin inside
        /\ nodes[j + 1] \notin inside /\ nodes[k] \in inside

\* The pairs that touch the polygon are one run of the way unless it is parted.
LEMMA TouchingRuns ==
    ASSUME NEW nodes \in Seq(Node), NEW inside, Touching(nodes, inside) # {}
    PROVE  LET kept == Touching(nodes, inside) IN
           /\ kept \subseteq 1..(Len(nodes) - 1)
           /\ Min(kept) \in kept /\ Max(kept) \in kept
           /\ \A i \in kept : Min(kept) <= i /\ i <= Max(kept)
           /\ kept = Min(kept)..Max(kept) <=> ~Parted(nodes, inside)
<1> DEFINE kept == Touching(nodes, inside)
           n == Len(nodes)
           lo == Min(kept)
           hi == Max(kept)
<1>0. n \in Nat /\ kept \subseteq 1..(n - 1) /\ kept # {}
  BY DEF Touching
<1>1. n - 1 \in Nat
  BY <1>0
<1>2. kept \in SUBSET Nat /\ kept \in SUBSET (1..(n - 1))
  BY <1>0
<1>K. \A i \in 1..(n - 1) : i \in kept <=> (nodes[i] \in inside \/ nodes[i + 1] \in inside)
  BY DEF Touching
<1> HIDE DEF kept, n
<1>3. lo \in kept /\ \A i \in kept : lo <= i
  BY <1>0, <1>2, LeastIs
<1>4. hi \in kept /\ \A i \in kept : hi >= i
  BY <1>0, <1>1, <1>2, GreatestIs
<1> HIDE DEF lo, hi
<1>5. ASSUME Parted(nodes, inside) PROVE kept # lo..hi
  <2>1. PICK i, j, k \in 1..n :
            /\ i < j /\ j + 1 < k
            /\ nodes[i] \in inside /\ nodes[j] \notin inside
            /\ nodes[j + 1] \notin inside /\ nodes[k] \in inside
    BY <1>5 DEF Parted, n
  <2>2. i \in kept /\ k - 1 \in kept /\ j \notin kept
    <3>1. i \in 1..(n - 1) /\ k - 1 \in 1..(n - 1) /\ j \in 1..(n - 1) /\ (k - 1) + 1 = k
      BY <2>1, <1>0
    <3> QED BY <3>1, <2>1, <1>K
  <2>3. j \in lo..hi
    BY <2>1, <2>2, <1>2, <1>3, <1>4
  <2> QED BY <2>2, <2>3
<1>7. \A i \in kept : lo <= i /\ i <= hi
  BY <1>2, <1>3, <1>4
<1>6. ASSUME kept # lo..hi PROVE Parted(nodes, inside)
  <2>0. kept \subseteq lo..hi
    BY <1>2, <1>3, <1>4, <1>7
  <2>1. PICK j \in lo..hi : j \notin kept
    BY <1>6, <2>0
  <2>2. j \in 1..(n - 1) /\ lo < j /\ j < hi /\ hi \in 1..(n - 1) /\ lo \in 1..(n - 1)
    BY <2>1, <1>0, <1>3, <1>4
  <2>3. nodes[j] \notin inside /\ nodes[j + 1] \notin inside
    BY <2>1, <2>2, <1>K
  <2>4. PICK i \in {lo, lo + 1} : nodes[i] \in inside
    BY <1>3, <2>2, <1>K
  <2>5. PICK k \in {hi, hi + 1} : nodes[k] \in inside
    BY <1>4, <2>2, <1>K
  <2>6. i # j /\ k # j + 1
    BY <2>3, <2>4, <2>5
  <2>7. i \in 1..n /\ j \in 1..n /\ k \in 1..n /\ i < j /\ j + 1 < k
    BY <2>2, <2>4, <2>5, <2>6, <1>0
  <2> QED BY <2>3, <2>4, <2>5, <2>7 DEF Parted, n
<1>8. kept = lo..hi <=> ~Parted(nodes, inside)
  BY <1>5, <1>6
<1> QED BY <1>0, <1>3, <1>4, <1>7, <1>8 DEF kept, n, lo, hi

\* _truncate_by_edge keeps the nodes inside and at most one beyond, and leaves a
\* way out only when it is parted or wholly outside.
LEMMA TruncationKeepsWhatIsInside ==
    ASSUME NEW nodes \in Seq(Node), NEW inside
    PROVE  LET kept == TruncateByEdge(nodes, inside) IN
           IF kept # <<>>
           THEN /\ kept \in Seq(Node)
                /\ Range(nodes) \cap inside = Range(kept) \cap inside
                /\ \A i \in 1..(Len(kept) - 1) : {kept[i], kept[i + 1]} \cap inside # {}
                /\ ~Parted(nodes, inside)
           ELSE Parted(nodes, inside) \/ Range(nodes) \cap inside = {} \/ Len(nodes) = 1
<1> DEFINE touching == Touching(nodes, inside)
           lo == Min(touching)
           hi == Max(touching)
           n == Len(nodes)
<1>1. n \in Nat /\ DOMAIN nodes = 1..n /\ \A i \in 1..n : nodes[i] \in Node
  OBVIOUS
<1>2. TruncateByEdge(nodes, inside)
        = IF touching = {} THEN <<>>
          ELSE IF touching = lo..hi THEN SubSeq(nodes, lo, hi + 1) ELSE <<>>
  BY DEF TruncateByEdge, Touching
<1>3. \A i \in 1..(n - 1) : i \in touching <=> (nodes[i] \in inside \/ nodes[i + 1] \in inside)
  BY DEF Touching
<1>T. touching # {} =>
        /\ lo \in touching /\ hi \in touching /\ touching \subseteq 1..(n - 1)
        /\ touching = lo..hi <=> ~Parted(nodes, inside)
  BY TouchingRuns
<1>U. Len(nodes) = n
  OBVIOUS
<1> HIDE DEF n, lo, hi, touching
<1>4. CASE touching = {}
  <2>1. TruncateByEdge(nodes, inside) = <<>>
    BY <1>2, <1>4
  <2>2. ASSUME n # 1, NEW i \in 1..n, nodes[i] \in inside PROVE FALSE
    <3>1. CASE i = n
      <4>1. n - 1 \in 1..(n - 1) /\ (n - 1) + 1 = n
        BY <1>1, <2>2
      <4> QED BY <4>1, <3>1, <2>2, <1>3, <1>4
    <3>2. CASE i # n
      <4>1. i \in 1..(n - 1)
        BY <1>1, <3>2
      <4> QED BY <4>1, <2>2, <1>3, <1>4
    <3> QED BY <3>1, <3>2
  <2>3. n # 1 => Range(nodes) \cap inside = {}
    BY <1>1, <2>2 DEF Range
  <2> QED BY <2>1, <2>3, <1>U
<1>5. CASE touching # {} /\ touching # lo..hi
  BY <1>2, <1>5, <1>T
<1>6. CASE touching # {} /\ touching = lo..hi
  <2> DEFINE kept == SubSeq(nodes, lo, hi + 1)
  <2>1. TruncateByEdge(nodes, inside) = kept
    BY <1>2, <1>6
  <2>2. lo \in touching /\ hi \in touching /\ ~Parted(nodes, inside)
        /\ touching \subseteq 1..(n - 1)
    BY <1>6, <1>T
  <2>3. lo \in 1..(n - 1) /\ hi \in 1..(n - 1)
    BY <2>2
  <2>L. lo <= hi
    BY <1>6, <2>2, <2>3
  <2>4. /\ kept \in Seq(Node)
        /\ Len(kept) = hi + 2 - lo
        /\ DOMAIN kept = 1..(hi + 2 - lo)
        /\ \A i \in 1..(hi + 2 - lo) : kept[i] = nodes[lo + i - 1]
    <3>1. lo \in Int /\ hi + 1 \in Int /\ \A i \in lo..(hi + 1) : nodes[i] \in Node
      BY <1>1, <2>3
    <3>2. /\ kept \in Seq(Node)
          /\ Len(kept) = IF lo <= hi + 1 THEN (hi + 1) - lo + 1 ELSE 0
          /\ \A i \in 1..((hi + 1) - lo + 1) : kept[i] = nodes[lo + i - 1]
      BY <3>1, SubSeqProperties
    <3>3. DOMAIN kept = 1..Len(kept)
      BY <3>2
    <3>4. (hi + 1) - lo + 1 = hi + 2 - lo /\ lo <= hi + 1
      BY <2>3, <2>L
    <3> QED BY <3>2, <3>3, <3>4
  <2> HIDE DEF kept
  <2>5. kept # <<>>
    BY <2>3, <2>4, <2>L
  <2>6. \A i \in 1..(Len(kept) - 1) : {kept[i], kept[i + 1]} \cap inside # {}
    <3> SUFFICES ASSUME NEW i \in 1..(Len(kept) - 1)
                 PROVE  kept[i] \in inside \/ kept[i + 1] \in inside
      OBVIOUS
    <3>1. lo + i - 1 \in lo..hi /\ lo + i - 1 \in 1..(n - 1)
      BY <2>3, <2>4, <2>L, <1>1
    <3>2. nodes[lo + i - 1] \in inside \/ nodes[(lo + i - 1) + 1] \in inside
      BY <3>1, <1>3, <1>6
    <3>3. kept[i] = nodes[lo + i - 1] /\ kept[i + 1] = nodes[lo + (i + 1) - 1]
      BY <2>3, <2>4, <2>L
    <3>4. lo + (i + 1) - 1 = (lo + i - 1) + 1
      BY <2>3
    <3> QED BY <3>2, <3>3, <3>4
  <2>7. ASSUME NEW i \in 1..n, nodes[i] \in inside PROVE i \in lo..(hi + 1)
    <3>1. CASE i \in 1..(n - 1)
      BY <3>1, <2>7, <1>3, <1>6, <2>3
    <3>2. CASE i = n
      <4>1. n - 1 \in 1..(n - 1) /\ (n - 1) + 1 = n
        BY <2>3, <1>1
      <4>2. n - 1 \in lo..hi
        BY <4>1, <3>2, <2>7, <1>3, <1>6
      <4> QED BY <4>2, <3>2, <2>3, <1>1
    <3> QED BY <3>1, <3>2, <1>1
  <2>8. Range(nodes) \cap inside \subseteq Range(kept)
    <3> SUFFICES ASSUME NEW i \in 1..n, nodes[i] \in inside
                 PROVE  nodes[i] \in Range(kept)
      BY <1>1 DEF Range
    <3>1. i \in lo..(hi + 1)
      BY <2>7
    <3>2. i - lo + 1 \in DOMAIN kept /\ kept[i - lo + 1] = nodes[lo + (i - lo + 1) - 1]
      BY <3>1, <2>3, <2>4, <2>L
    <3>3. lo + (i - lo + 1) - 1 = i
      BY <2>3
    <3> QED BY <3>2, <3>3 DEF Range
  <2>9. Range(kept) \subseteq Range(nodes)
    <3> SUFFICES ASSUME NEW i \in 1..(hi + 2 - lo)
                 PROVE  kept[i] \in Range(nodes)
      BY <2>4 DEF Range
    <3>1. lo + i - 1 \in 1..n
      BY <2>3, <2>L, <1>1
    <3> QED BY <3>1, <2>4, <1>1 DEF Range
  <2>10. Range(nodes) \cap inside = Range(kept) \cap inside
    BY <2>8, <2>9
  <2> QED BY <2>1, <2>2, <2>4, <2>5, <2>6, <2>10
<1> QED BY <1>4, <1>5, <1>6

\* way_to_feature changes the nodes of a way only.
LEMMA FeatureOfWay ==
    ASSUME NEW way, IsRoad(way), NEW inside
    PROVE  /\ WayToFeature(way, inside).nodes = TruncateByEdge(way.nodes, inside)
           /\ WayToFeature(way, inside).highway = way.highway
           /\ WayToFeature(way, inside).tracktype = way.tracktype
<1>1. "nodes" \in DOMAIN way /\ "highway" \in DOMAIN way /\ "tracktype" \in DOMAIN way
  BY DEF IsRoad
<1> QED BY <1>1 DEF WayToFeature

\* So the grades that let a way pass let its feature pass.
LEMMA GradeOfFeature ==
    ASSUME NEW way, IsRoad(way), NEW inside, NEW grades
    PROVE  TrackGradeAllowed(WayToFeature(way, inside), grades) <=> TrackGradeAllowed(way, grades)
<1>1. /\ WayToFeature(way, inside).highway = way.highway
      /\ WayToFeature(way, inside).tracktype = way.tracktype
  BY FeatureOfWay
<1> QED BY <1>1 DEF TrackGradeAllowed

-----------------------------------------------------------------------------
(* street_selector.py *)

\* With all filters on and nothing removed, a road of a type the page offers is
\* left out by nothing.
LEMMA AllFiltersOn ==
    ASSUME NEW net
    PROVE  DOMAIN Derive(net, [NoEdits EXCEPT !.grades = Buckets])
               = {id \in DOMAIN net : net[id].highway \in Highway}
<1> DEFINE all == [removed |-> {}, tags |-> Tag, grades |-> Buckets, keep |-> "all"]
           tagged == FilterByTags(net, Tag)
           graded == FilterByGrades(tagged, Buckets)
<1>1. [NoEdits EXCEPT !.grades = Buckets] = all
  BY DEF NoEdits
<1>2. Derive(net, all) = Selected(net, all)
  BY DEF Derive
<1>3. Selected(net, all) = Restrict(graded, DOMAIN graded \ {})
  BY DEF Selected
<1>4. DOMAIN Selected(net, all) = DOMAIN graded
  BY <1>3 DEF Restrict
<1>5. \A road : TrackGradeAllowed(road, Buckets)
  BY DEF TrackGradeAllowed, Buckets
<1>6. DOMAIN graded = DOMAIN tagged
  BY <1>5 DEF FilterByGrades, Restrict
<1>7. DOMAIN tagged = {id \in DOMAIN net : \E tag \in Tag : net[id].highway \in TypesOf[tag]}
  BY DEF FilterByTags, Restrict
<1>8. \A id : (\E tag \in Tag : net[id].highway \in TypesOf[tag]) <=> net[id].highway \in Highway
  BY DEF Highway
<1> HIDE DEF graded, tagged, all
<1> QED BY <1>1, <1>2, <1>4, <1>6, <1>7, <1>8
-----------------------------------------------------------------------------
(* Components: road_network_utils.py *)

\* What holds of 0, and of each number after one it holds of, holds of all up
\* to n.
LEMMA UpTo ==
    ASSUME NEW n \in Nat, NEW S, 0 \in S, \A k \in 0..(n - 1) : k \in S => k + 1 \in S
    PROVE  0..n \subseteq S
<1> DEFINE rest == (0..n) \ S
<1> SUFFICES ASSUME rest # {} PROVE FALSE
  OBVIOUS
<1>1. PICK m \in rest : \A k \in rest : m <= k
  <2>1. rest \in SUBSET Nat
    OBVIOUS
  <2>2. Min(rest) \in rest /\ \A k \in rest : Min(rest) <= k
    <3> HIDE DEF rest
    <3> QED BY <2>1, LeastIs
  <2> QED BY <2>2
<1>2. m # 0 /\ m - 1 \in 0..(n - 1) /\ m - 1 \notin rest
  BY <1>1
<1> QED BY <1>1, <1>2

\* A graph as BuildGraph makes it.
IsGraph(G) ==
    /\ IsFiniteSet(G.node)
    /\ \A e \in G.edge : e \subseteq G.node

\* One round of neighbours.
Wider(G, B) == B \cup {m \in G.node : \E b \in B : {b, m} \in G.edge}

IsClosed(G, C) == \A b \in C, m \in G.node : {b, m} \in G.edge => m \in C

\* f holds the rounds from n up to k.
AreRounds(G, n, f, k) ==
    /\ DOMAIN f = 0..k /\ f = [i \in DOMAIN f |-> f[i]]
    /\ f[0] = {n}
    /\ \A i \in 1..k : f[i] = Wider(G, f[i - 1])

Rounds(G, n) ==
    CHOOSE f : f = [k \in 0..Cardinality(G.node) |->
                        IF k = 0 THEN {n} ELSE Wider(G, f[k - 1])]

\* The recursion of Component, with a name.
LEMMA ComponentIsRounds ==
    ASSUME NEW G, NEW n
    PROVE  Component(G, n) = Rounds(G, n)[Cardinality(G.node)]
BY DEF Component, Rounds, Wider

\* The recursive function of the rounds exists,
LEMMA RoundsExist ==
    ASSUME NEW G, NEW n, NEW N \in Nat
    PROVE  \E f : AreRounds(G, n, f, N)
<1> DEFINE S == {k \in 0..N : \E f : AreRounds(G, n, f, k)}
<1>1. 0 \in S
  <2> DEFINE f == [i \in 0..0 |-> {n}]
  <2>1. AreRounds(G, n, f, 0)
    BY DEF AreRounds
  <2> HIDE DEF f
  <2> QED BY <2>1
<1>2. ASSUME NEW k \in 0..(N - 1), k \in S
      PROVE  k + 1 \in S
  <2>1. PICK f : AreRounds(G, n, f, k)
    BY <1>2
  <2> DEFINE g == [i \in 0..(k + 1) |-> IF i = k + 1 THEN Wider(G, f[k]) ELSE f[i]]
  <2>2. /\ g[k + 1] = Wider(G, f[k])
        /\ \A i \in 0..k : g[i] = f[i]
        /\ DOMAIN g = 0..(k + 1) /\ g = [i \in DOMAIN g |-> g[i]]
    OBVIOUS
  <2> HIDE DEF g
  <2>3. ASSUME NEW i \in 1..(k + 1)
        PROVE  g[i] = Wider(G, g[i - 1])
    <3>1. CASE i = k + 1
      <4>1. i - 1 = k /\ k \in 0..k
        BY <3>1
      <4> QED BY <2>2, <3>1, <4>1
    <3>2. CASE i # k + 1
      <4>1. i \in 1..k /\ i \in 0..k /\ i - 1 \in 0..k
        BY <3>2
      <4>2. f[i] = Wider(G, f[i - 1])
        BY <2>1, <4>1 DEF AreRounds
      <4> QED BY <2>2, <4>1, <4>2
    <3> QED BY <3>1, <3>2
  <2>4. g[0] = {n}
    BY <2>1, <2>2 DEF AreRounds
  <2>5. AreRounds(G, n, g, k + 1)
    BY <2>2, <2>3, <2>4 DEF AreRounds
  <2>6. k + 1 \in 0..N
    OBVIOUS
  <2> QED BY <2>5, <2>6
<1>3. 0..N \subseteq S
  <2> HIDE DEF S
  <2> QED BY <1>1, <1>2, UpTo
<1> QED BY <1>3

\* and its values are what its definition says.
LEMMA RoundsAre ==
    ASSUME NEW G, NEW n, IsFiniteSet(G.node)
    PROVE  /\ Cardinality(G.node) \in Nat
           /\ Rounds(G, n)[0] = {n}
           /\ \A k \in 0..(Cardinality(G.node) - 1) :
                Rounds(G, n)[k + 1] = Wider(G, Rounds(G, n)[k])
<1> DEFINE f == Rounds(G, n)
           N == Cardinality(G.node)
<1>1. N \in Nat
  BY FS_CardinalityType
<1>2. \E g : g = [k \in 0..N |-> IF k = 0 THEN {n} ELSE Wider(G, g[k - 1])]
  <2> HIDE DEF N
  <2>1. PICK g : AreRounds(G, n, g, N)
    BY <1>1, RoundsExist
  <2> DEFINE e(k) == IF k = 0 THEN {n} ELSE Wider(G, g[k - 1])
  <2>2. ASSUME NEW k \in 0..N
        PROVE  g[k] = e(k)
    <3>1. k = 0 \/ k \in 1..N
      BY <1>1
    <3> QED BY <2>1, <3>1 DEF AreRounds
  <2> HIDE DEF e
  <2>3. g = [k \in 0..N |-> e(k)]
    BY <2>1, <2>2 DEF AreRounds
  <2> QED BY <2>3 DEF e
<1>3. f = [k \in 0..N |-> IF k = 0 THEN {n} ELSE Wider(G, f[k - 1])]
  BY <1>2 DEF Rounds
<1> HIDE DEF f, N
<1> DEFINE e(k) == IF k = 0 THEN {n} ELSE Wider(G, f[k - 1])
<1>4. f = [k \in 0..N |-> e(k)]
  BY <1>3
<1> HIDE DEF e
<1>5. \A k \in 0..N : f[k] = e(k)
  BY <1>4
<1>6. f[0] = {n}
  BY <1>1, <1>5 DEF e
<1>7. ASSUME NEW k \in 0..(N - 1)
      PROVE  f[k + 1] = Wider(G, f[k])
  <2>1. k + 1 \in 0..N /\ k + 1 # 0 /\ (k + 1) - 1 = k
    BY <1>1
  <2>2. f[k + 1] = e(k + 1)
    BY <1>5, <2>1
  <2> QED BY <2>1, <2>2 DEF e
<1> QED BY <1>1, <1>6, <1>7 DEF f, N

\* A component is the least closed set with its node.
LEMMA ComponentIs ==
    ASSUME NEW G, IsGraph(G), NEW n \in G.node
    PROVE  /\ n \in Component(G, n)
           /\ Component(G, n) \subseteq G.node
           /\ IsClosed(G, Component(G, n))
           /\ \A C : n \in C /\ IsClosed(G, C) => Component(G, n) \subseteq C
<1> DEFINE f == Rounds(G, n)
           N == Cardinality(G.node)
<1>1. /\ N \in Nat /\ f[0] = {n} /\ IsFiniteSet(G.node)
      /\ \A k \in 0..(N - 1) : f[k + 1] = Wider(G, f[k])
  BY RoundsAre DEF IsGraph
<1>2. Component(G, n) = f[N]
  BY ComponentIsRounds
<1> HIDE DEF f, N
<1>3. \A k \in 0..N : n \in f[k] /\ f[k] \subseteq G.node
  <2> DEFINE S == {k \in 0..N : n \in f[k] /\ f[k] \subseteq G.node}
  <2>1. 0 \in S
    BY <1>1
  <2>2. \A k \in 0..(N - 1) : k \in S => k + 1 \in S
    BY <1>1 DEF Wider
  <2>3. 0..N \subseteq S
    <3> HIDE DEF S
    <3> QED BY <1>1, <2>1, <2>2, UpTo
  <2> QED BY <2>3
<1>4. \A k \in 0..N : Cardinality(f[k]) >= k + 1 \/ Wider(G, f[k]) = f[k]
  <2> DEFINE S == {k \in 0..N : Cardinality(f[k]) >= k + 1 \/ Wider(G, f[k]) = f[k]}
  <2>1. 0 \in S
    BY <1>1, FS_Singleton
  <2>2. ASSUME NEW k \in 0..(N - 1), k \in S
        PROVE  k + 1 \in S
    <3>1. k \in 0..N /\ k + 1 \in 0..N /\ k + 1 \in Nat
      BY <1>1
    <3>2. f[k + 1] = Wider(G, f[k])
      BY <1>1
    <3>3. CASE Wider(G, f[k]) = f[k]
      BY <3>1, <3>2, <3>3
    <3>4. CASE Wider(G, f[k]) # f[k]
      <4>1. f[k] \subseteq f[k + 1] /\ f[k] # f[k + 1]
        BY <3>2, <3>4 DEF Wider
      <4>2. IsFiniteSet(f[k + 1])
        BY <1>1, <1>3, <3>1, FS_Subset
      <4>3. /\ Cardinality(f[k]) <= Cardinality(f[k + 1])
            /\ Cardinality(f[k]) # Cardinality(f[k + 1])
            /\ IsFiniteSet(f[k])
        BY <4>1, <4>2, FS_Subset
      <4>4. Cardinality(f[k]) \in Nat /\ Cardinality(f[k + 1]) \in Nat
        BY <4>2, <4>3, FS_CardinalityType
      <4>5. Cardinality(f[k]) >= k + 1
        BY <2>2, <3>4
      <4>6. Cardinality(f[k + 1]) >= (k + 1) + 1
        BY <4>3, <4>4, <4>5
      <4> QED BY <4>6, <3>1
    <3> QED BY <3>3, <3>4
  <2>3. 0..N \subseteq S
    <3> HIDE DEF S
    <3> QED BY <1>1, <2>1, <2>2, UpTo
  <2> QED BY <2>3
<1>5. Wider(G, f[N]) = f[N]
  <2>1. N \in 0..N
    BY <1>1
  <2>2. Cardinality(f[N]) <= N
    BY <1>1, <1>3, <2>1, FS_Subset DEF N
  <2>3. Cardinality(f[N]) \in Nat
    BY <1>1, <1>3, <2>1, FS_Subset, FS_CardinalityType
  <2> QED BY <1>1, <1>4, <2>1, <2>2, <2>3
<1>6. IsClosed(G, f[N])
  BY <1>5 DEF IsClosed, Wider
<1>7. ASSUME NEW C, n \in C, IsClosed(G, C)
      PROVE  f[N] \subseteq C
  <2> DEFINE S == {k \in 0..N : f[k] \subseteq C}
  <2>1. 0 \in S
    BY <1>1, <1>7
  <2>2. ASSUME NEW k \in 0..(N - 1), k \in S
        PROVE  k + 1 \in S
    <3>1. f[k + 1] = Wider(G, f[k]) /\ k + 1 \in 0..N
      BY <1>1
    <3>2. Wider(G, f[k]) \subseteq C
      BY <1>7, <2>2 DEF Wider, IsClosed
    <3> QED BY <3>1, <3>2
  <2>3. 0..N \subseteq S
    <3> HIDE DEF S
    <3> QED BY <1>1, <2>1, <2>2, UpTo
  <2> QED BY <2>3, <1>1
<1> QED BY <1>1, <1>2, <1>3, <1>6, <1>7
\* Whoever is in a component has the same one.
LEMMA ComponentsAreClasses ==
    ASSUME NEW G, IsGraph(G), NEW n \in G.node, NEW m \in Component(G, n)
    PROVE  m \in G.node /\ Component(G, m) = Component(G, n)
<1> DEFINE N == Component(G, n)
           M == Component(G, m)
<1>1. n \in N /\ N \subseteq G.node /\ IsClosed(G, N) /\ m \in N
      /\ \A C : n \in C /\ IsClosed(G, C) => N \subseteq C
  BY ComponentIs
<1>2. m \in G.node
  BY <1>1
<1>3. m \in M /\ M \subseteq G.node /\ IsClosed(G, M)
      /\ \A C : m \in C /\ IsClosed(G, C) => M \subseteq C
  BY <1>2, ComponentIs
<1> HIDE DEF N, M
<1>4. M \subseteq N
  BY <1>1, <1>3
<1>5. n \in M
  <2> SUFFICES ASSUME n \notin M PROVE FALSE
    OBVIOUS
  <2>1. IsClosed(G, N \ M)
    <3> SUFFICES ASSUME NEW b \in N \ M, NEW c \in G.node, {b, c} \in G.edge
                 PROVE  c \in N \ M
      BY DEF IsClosed
    <3>1. c \in N
      BY <1>1 DEF IsClosed
    <3>2. {c, b} \in G.edge /\ b \in G.node
      <4>1. {c, b} = {b, c}
        OBVIOUS
      <4> QED BY <4>1, <1>1
    <3>3. c \notin M
      BY <1>3, <3>2 DEF IsClosed
    <3> QED BY <3>1, <3>3
  <2>2. N \subseteq N \ M
    BY <1>1, <2>1
  <2> QED BY <1>1, <1>3, <2>2
<1>6. N \subseteq M
  BY <1>1, <1>3, <1>5
<1> QED BY <1>2, <1>4, <1>6 DEF N, M

-----------------------------------------------------------------------------
\* A network as a file holds it: finitely many roads, each with a node.
IsNetwork(net) ==
    /\ IsFiniteSet(DOMAIN net)
    /\ DOMAIN net \subseteq Nat
    /\ \A id \in DOMAIN net : net[id].nodes \in Seq(Node) /\ net[id].nodes # <<>>

\* The nodes of a road, by their places.
LEMMA RoadNodes ==
    ASSUME NEW net, IsNetwork(net), NEW id \in DOMAIN net
    PROVE  LET nodes == net[id].nodes IN
           /\ Len(nodes) \in Nat /\ Len(nodes) >= 1
           /\ Range(nodes) = {nodes[i] : i \in 1..Len(nodes)}
           /\ nodes[1] \in Range(nodes)
           /\ IsFiniteSet(Range(nodes))
<1> DEFINE nodes == net[id].nodes
<1>1. nodes \in Seq(Node) /\ nodes # <<>>
  BY DEF IsNetwork
<1> HIDE DEF nodes
<1>2. Len(nodes) \in Nat /\ Len(nodes) >= 1 /\ DOMAIN nodes = 1..Len(nodes)
  BY <1>1
<1>3. Range(nodes) = {nodes[i] : i \in 1..Len(nodes)}
  BY <1>2 DEF Range
<1>4. IsFiniteSet(1..Len(nodes))
  BY <1>2, FS_Interval
<1>5. IsFiniteSet(Range(nodes))
  <2>1. nodes \in Surjection(1..Len(nodes), Range(nodes))
    <3>1. nodes \in [1..Len(nodes) -> Range(nodes)]
      BY <1>1, <1>2, <1>3
    <3> QED BY <3>1, <1>3 DEF Surjection
  <2> QED BY <1>4, <2>1, FS_Surjection
<1> QED BY <1>2, <1>3, <1>5 DEF nodes

\* An edge joins two nodes of a road.
LEMMA EdgesAreOfRoads ==
    ASSUME NEW net, IsNetwork(net), NEW e \in BuildGraph(net).edge
    PROVE  \E id \in DOMAIN net : e \subseteq Range(net[id].nodes)
<1> DEFINE pairs(id) == {{net[id].nodes[i], net[id].nodes[i + 1]} :
                            i \in 1..(Len(net[id].nodes) - 1)}
<1>1. e \in UNION {pairs(id) : id \in DOMAIN net}
  BY DEF BuildGraph
<1>2. PICK id \in DOMAIN net : e \in pairs(id)
  <2> HIDE DEF pairs
  <2> QED BY <1>1
<1>3. PICK i \in 1..(Len(net[id].nodes) - 1) : e = {net[id].nodes[i], net[id].nodes[i + 1]}
  BY <1>2
<1>4. i \in 1..Len(net[id].nodes) /\ i + 1 \in 1..Len(net[id].nodes)
  <2>1. Len(net[id].nodes) \in Nat
    BY RoadNodes
  <2> QED BY <2>1
<1>5. Range(net[id].nodes) = {net[id].nodes[j] : j \in 1..Len(net[id].nodes)}
  BY RoadNodes
<1> QED BY <1>3, <1>4, <1>5

\* The graph of a network is one, of the network's nodes.
LEMMA GraphOfNetwork ==
    ASSUME NEW net, IsNetwork(net)
    PROVE  IsGraph(BuildGraph(net)) /\ BuildGraph(net).node = NodesOf(net)
<1>1. BuildGraph(net).node = NodesOf(net)
  BY DEF BuildGraph
<1>2. IsFiniteSet(NodesOf(net))
  <2> DEFINE ranges == {Range(net[id].nodes) : id \in DOMAIN net}
             f == [id \in DOMAIN net |-> Range(net[id].nodes)]
  <2>1. f \in Surjection(DOMAIN net, ranges)
    BY DEF Surjection
  <2>2. IsFiniteSet(ranges)
    <3> HIDE DEF f, ranges
    <3> QED BY <2>1, FS_Surjection DEF IsNetwork
  <2>3. \A T \in ranges : IsFiniteSet(T)
    BY RoadNodes
  <2>4. IsFiniteSet(UNION ranges)
    <3> HIDE DEF ranges
    <3> QED BY <2>2, <2>3, FS_UNION
  <2> QED BY <2>4 DEF NodesOf
<1>3. ASSUME NEW e \in BuildGraph(net).edge
      PROVE  e \subseteq NodesOf(net)
  BY EdgesAreOfRoads DEF NodesOf
<1> QED BY <1>1, <1>2, <1>3 DEF IsGraph

\* A road is in a closed set as a whole, or not at all.
LEMMA RoadIsInside ==
    ASSUME NEW net, IsNetwork(net), NEW C, IsClosed(BuildGraph(net), C),
           NEW id \in DOMAIN net, Range(net[id].nodes) \cap C # {}
    PROVE  Range(net[id].nodes) \subseteq C
<1> DEFINE nodes == net[id].nodes
           n == Len(nodes)
           S == {k \in 0..(n - 1) : nodes[k + 1] \in C <=> nodes[1] \in C}
<1>1. n \in Nat /\ n >= 1 /\ Range(nodes) = {nodes[i] : i \in 1..n}
  BY RoadNodes
<1>2. ASSUME NEW i \in 1..(n - 1)
      PROVE  nodes[i] \in C <=> nodes[i + 1] \in C
  <2>1. {nodes[i], nodes[i + 1]} \in BuildGraph(net).edge
    BY DEF BuildGraph
  <2>2. {nodes[i + 1], nodes[i]} \in BuildGraph(net).edge
    <3>1. {nodes[i], nodes[i + 1]} = {nodes[i + 1], nodes[i]}
      OBVIOUS
    <3> QED BY <2>1, <3>1
  <2>3. i \in 1..n /\ i + 1 \in 1..n
    BY <1>1
  <2>4. nodes[i] \in BuildGraph(net).node /\ nodes[i + 1] \in BuildGraph(net).node
    BY <1>1, <2>3, GraphOfNetwork DEF NodesOf
  <2> HIDE DEF nodes, n
  <2> QED BY <2>1, <2>2, <2>4 DEF IsClosed
<1> HIDE DEF nodes, n
<1>3. 0 \in S
  BY <1>1
<1>4. ASSUME NEW k \in 0..((n - 1) - 1), k \in S
      PROVE  k + 1 \in S
  <2>1. k + 1 \in 1..(n - 1) /\ k + 1 \in 0..(n - 1)
    BY <1>1
  <2>2. nodes[k + 1] \in C <=> nodes[(k + 1) + 1] \in C
    BY <1>2, <2>1
  <2> QED BY <1>4, <2>1, <2>2
<1>5. 0..(n - 1) \subseteq S
  <2>1. n - 1 \in Nat
    BY <1>1
  <2> HIDE DEF S
  <2> QED BY <1>3, <1>4, <2>1, UpTo
<1>6. ASSUME NEW i \in 1..n
      PROVE  nodes[i] \in C <=> nodes[1] \in C
  <2>1. i - 1 \in 0..(n - 1) /\ (i - 1) + 1 = i
    BY <1>1
  <2>2. nodes[(i - 1) + 1] \in C <=> nodes[1] \in C
    BY <1>5, <2>1
  <2> QED BY <2>1, <2>2
<1>7. Range(nodes) \cap C # {}
  BY DEF nodes
<1>8. nodes[1] \in C
  BY <1>1, <1>6, <1>7
<1>9. Range(nodes) \subseteq C
  BY <1>1, <1>6, <1>8
<1> QED BY <1>9 DEF nodes
Subnetworks(net) == {Component(BuildGraph(net), n) : n \in NodesOf(net)}

\* The parts of a network: each is what one of its nodes reaches, and no two
\* have a node in common.
LEMMA SubnetworksAre ==
    ASSUME NEW net, IsNetwork(net)
    PROVE  /\ \A p \in Subnetworks(net) :
                /\ p # {} /\ p \subseteq NodesOf(net) /\ IsClosed(BuildGraph(net), p)
                /\ IsFiniteSet(p) /\ Cardinality(p) \in Nat
           /\ \A p, q \in Subnetworks(net) : p \cap q # {} => p = q
           /\ \A n \in NodesOf(net) : Component(BuildGraph(net), n) \in Subnetworks(net)
                                       /\ n \in Component(BuildGraph(net), n)
           /\ \A p \in Subnetworks(net) : \A n \in p : p = Component(BuildGraph(net), n)
<1> DEFINE G == BuildGraph(net)
<1>1. IsGraph(G) /\ G.node = NodesOf(net) /\ IsFiniteSet(NodesOf(net))
  BY GraphOfNetwork DEF IsGraph
<1> HIDE DEF G
<1>2. ASSUME NEW n \in NodesOf(net)
      PROVE  /\ n \in Component(G, n)
             /\ Component(G, n) \subseteq NodesOf(net)
             /\ IsClosed(G, Component(G, n))
             /\ \A m \in Component(G, n) : Component(G, m) = Component(G, n)
  BY <1>1, ComponentIs, ComponentsAreClasses
<1>3. Subnetworks(net) = {Component(G, n) : n \in NodesOf(net)}
  BY DEF Subnetworks, G
<1>4. \A p \in Subnetworks(net) : \A n \in p : p = Component(G, n)
  BY <1>2, <1>3
<1>5. \A p, q \in Subnetworks(net) : p \cap q # {} => p = q
  BY <1>4
<1>6. \A p \in Subnetworks(net) : p # {} /\ p \subseteq NodesOf(net) /\ IsClosed(G, p)
  BY <1>2, <1>3
<1>7. \A p \in Subnetworks(net) : IsFiniteSet(p) /\ Cardinality(p) \in Nat
  BY <1>1, <1>6, FS_Subset, FS_CardinalityType
<1> QED BY <1>2, <1>3, <1>4, <1>5, <1>6, <1>7 DEF G

\* The roads of a part, and the first of them.
LEMMA FirstRoadIs ==
    ASSUME NEW net, IsNetwork(net), NEW p \in Subnetworks(net)
    PROVE  /\ FirstRoad(net, p) \in DOMAIN net
           /\ FirstRoad(net, p) \in Nat
           /\ Range(net[FirstRoad(net, p)].nodes) \subseteq p
           /\ Range(net[FirstRoad(net, p)].nodes) # {}
<1> DEFINE roads == {id \in DOMAIN net : Range(net[id].nodes) \cap p # {}}
<1>1. p # {} /\ p \subseteq NodesOf(net) /\ IsClosed(BuildGraph(net), p)
  BY SubnetworksAre
<1>2. roads # {} /\ roads \in SUBSET Nat
  BY <1>1 DEF NodesOf, IsNetwork
<1>3. Min(roads) \in roads
  <2> HIDE DEF roads
  <2> QED BY <1>2, LeastIs
<1>4. FirstRoad(net, p) = Min(roads)
  BY DEF FirstRoad
<1>5. \A id \in roads : Range(net[id].nodes) \subseteq p
  BY <1>1, RoadIsInside
<1> QED BY <1>2, <1>3, <1>4, <1>5

\* The largest part exists, and there is no larger one.
LEMMA LargestIs ==
    ASSUME NEW net, IsNetwork(net), DOMAIN net # {}
    PROVE  /\ LargestSubnetwork(net) \in Subnetworks(net)
           /\ \A q \in Subnetworks(net) : Cardinality(q) <= Cardinality(LargestSubnetwork(net))
<1> DEFINE N == Cardinality(NodesOf(net))
           Before(p, q) == \/ Cardinality(q) < Cardinality(p)
                           \/ /\ Cardinality(q) = Cardinality(p)
                              /\ FirstRoad(net, p) < FirstRoad(net, q)
           lack == {N - Cardinality(p) : p \in Subnetworks(net)}
<1>1. IsFiniteSet(NodesOf(net)) /\ N \in Nat
  BY GraphOfNetwork, FS_CardinalityType DEF IsGraph
<1>2. \A p \in Subnetworks(net) : Cardinality(p) \in Nat /\ Cardinality(p) <= N
  BY <1>1, SubnetworksAre, FS_Subset
<1>3. Subnetworks(net) # {}
  <2>1. PICK id \in DOMAIN net : TRUE
    OBVIOUS
  <2>2. net[id].nodes[1] \in NodesOf(net)
    BY RoadNodes DEF NodesOf
  <2> QED BY <2>2, SubnetworksAre
<1>4. PICK p \in Subnetworks(net) : \A q \in Subnetworks(net) : Cardinality(q) <= Cardinality(p)
  <2>1. lack # {} /\ lack \in SUBSET Nat
    BY <1>1, <1>2, <1>3
  <2>2. Min(lack) \in lack /\ \A y \in lack : Min(lack) <= y
    <3> HIDE DEF lack
    <3> QED BY <2>1, LeastIs
  <2>3. PICK p \in Subnetworks(net) : Min(lack) = N - Cardinality(p)
    BY <2>2
  <2>4. ASSUME NEW q \in Subnetworks(net)
        PROVE  Cardinality(q) <= Cardinality(p)
    <3>1. N - Cardinality(q) \in lack
      OBVIOUS
    <3>2. N - Cardinality(p) <= N - Cardinality(q)
      BY <2>2, <2>3, <3>1
    <3> HIDE DEF N
    <3> QED BY <1>1, <1>2, <3>2
  <2> QED BY <2>4
<1> DEFINE largest == {q \in Subnetworks(net) : Cardinality(q) = Cardinality(p)}
           firsts == {FirstRoad(net, q) : q \in largest}
<1>5. PICK r \in largest : \A q \in largest : FirstRoad(net, r) <= FirstRoad(net, q)
  <2>1. firsts # {} /\ firsts \in SUBSET Nat
    BY FirstRoadIs
  <2>2. Min(firsts) \in firsts /\ \A y \in firsts : Min(firsts) <= y
    <3> HIDE DEF firsts
    <3> QED BY <2>1, LeastIs
  <2> QED BY <2>2
<1>6. ASSUME NEW q \in Subnetworks(net) \ {r}
      PROVE  Before(r, q)
  <2>1. CASE q \in largest
    <3>1. FirstRoad(net, r) # FirstRoad(net, q)
      <4>1. SUFFICES ASSUME FirstRoad(net, r) = FirstRoad(net, q) PROVE r \cap q # {}
        BY SubnetworksAre
      <4> QED BY <4>1, FirstRoadIs
    <3>2. FirstRoad(net, r) \in Nat /\ FirstRoad(net, q) \in Nat
      BY FirstRoadIs
    <3>3. FirstRoad(net, r) < FirstRoad(net, q)
      BY <1>5, <2>1, <3>1, <3>2
    <3> QED BY <2>1, <3>3
  <2>2. CASE q \notin largest
    BY <1>2, <1>4, <2>2
  <2> QED BY <2>1, <2>2
<1>7. \E l \in Subnetworks(net) : \A q \in Subnetworks(net) \ {l} : Before(l, q)
  <2> HIDE DEF Before
  <2> QED BY <1>6
<1>8. LargestSubnetwork(net)
        = CHOOSE l \in Subnetworks(net) : \A q \in Subnetworks(net) \ {l} : Before(l, q)
  <2>1. BuildGraph(net).node = NodesOf(net)
    BY GraphOfNetwork
  <2> QED BY <2>1 DEF LargestSubnetwork, Subnetworks
<1> DEFINE l == LargestSubnetwork(net)
<1>9. l \in Subnetworks(net) /\ \A q \in Subnetworks(net) \ {l} : Before(l, q)
  <2> HIDE DEF Before
  <2> QED BY <1>7, <1>8
<1>10. \A q \in Subnetworks(net) : Cardinality(q) <= Cardinality(l)
  <2> HIDE DEF l
  <2> QED BY <1>2, <1>9
<1> QED BY <1>9, <1>10
=============================================================================
