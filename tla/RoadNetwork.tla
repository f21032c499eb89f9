----------------------------- MODULE RoadNetwork -----------------------------
(***************************************************************************)
(* The road network as data: what becomes of the ways OpenStreetMap        *)
(* returns (osm/transform.py), which roads an intent keeps                 *)
(* (street_selector.py), and the largest connected part of the rest        *)
(* (road_network_utils.py).                                                *)
(*                                                                         *)
(* A network maps the ids of its roads to the roads.  A file lists them in *)
(* the order Overpass returned them, which is that of their ids.           *)
(***************************************************************************)
EXTENDS Naturals, Sequences, FiniteSets, FiniteSetsExt, Functions

CONSTANTS
    Road,           \* ids of roads
    Node,           \* OSM nodes
    Grade,          \* TRACK_GRADES
    DefaultGrades,  \* DEFAULT_TRACK_GRADES
    Tag,            \* road types the street page offers
    TypesOf         \* OSM_TAGS_MAPPING: road type -> highway values

Ungraded == "ungraded"
Buckets == Grade \cup {Ungraded}
Highway == UNION {TypesOf[tag] : tag \in Tag}

ASSUME RoadNetworkAssumption ==
    /\ Road \subseteq Nat
    /\ DefaultGrades \subseteq Buckets
    /\ DOMAIN TypesOf = Tag

\* A way, and the feature made of it.
IsRoad(way) ==
    /\ {"highway", "tracktype", "nodes"} \subseteq DOMAIN way
    /\ way.nodes \in Seq(Node)
    /\ Len(way.nodes) >= 2

NodesOf(net) == UNION {Range(net[id].nodes) : id \in DOMAIN net}

-----------------------------------------------------------------------------
(* osm/transform.py *)

\* Mutant: the slice ends with the last kept segment's first node.
TruncateShort(nodes, inside) ==
    LET kept == {i \in 1..(Len(nodes) - 1) : {nodes[i], nodes[i + 1]} \cap inside # {}}
    IN IF kept = {} THEN <<>>
       ELSE IF kept = Min(kept)..Max(kept) THEN SubSeq(nodes, Min(kept), Max(kept))
       ELSE <<>>

\* _truncate_by_edge: the node pairs with an end inside, if they are one run of
\* the way; a way that leaves and comes back is dropped.
TruncateByEdge(nodes, inside) ==
    LET kept == {i \in 1..(Len(nodes) - 1) : {nodes[i], nodes[i + 1]} \cap inside # {}}
    IN IF kept = {} THEN <<>>
       ELSE IF kept = Min(kept)..Max(kept) THEN SubSeq(nodes, Min(kept), Max(kept) + 1)
       ELSE <<>>

\* way_to_feature, for the ways that are not dropped.
WayToFeature(way, inside) == [way EXCEPT !.nodes = TruncateByEdge(@, inside)]

Features(ways, inside) ==
    [id \in {w \in DOMAIN ways : TruncateByEdge(ways[w].nodes, inside) # <<>>} |->
        WayToFeature(ways[id], inside)]

-----------------------------------------------------------------------------
(* The filters of an intent *)

\* track_grade_allowed: only tracks are graded; what is no grade is ungraded.
TrackGradeAllowed(road, allowed) ==
    road.highway = "track" =>
        (IF road.tracktype \in Grade THEN road.tracktype ELSE Ungraded) \in allowed

FilterByTags(net, tags) ==
    Restrict(net, {id \in DOMAIN net : \E tag \in tags : net[id].highway \in TypesOf[tag]})

FilterByGrades(net, allowed) ==
    Restrict(net, {id \in DOMAIN net : TrackGradeAllowed(net[id], allowed)})

-----------------------------------------------------------------------------
(* road_network_utils.py *)

BuildGraph(net) ==
    [node |-> NodesOf(net),
     edge |-> UNION {{{net[id].nodes[i], net[id].nodes[i + 1]} :
                        i \in 1..(Len(net[id].nodes) - 1)} : id \in DOMAIN net}]

\* The component of node n, by as many rounds of neighbours as there are nodes.
Component(G, n) ==
    LET reached[k \in 0..Cardinality(G.node)] ==
            IF k = 0 THEN {n}
            ELSE LET before == reached[k - 1]
                 IN before \cup {m \in G.node : \E b \in before : {b, m} \in G.edge}
    IN reached[Cardinality(G.node)]

\* networkx lists the components in the order their first roads were added.
FirstRoad(net, part) == Min({id \in DOMAIN net : Range(net[id].nodes) \cap part # {}})

\* Mutant: whatever networkx lists first.
FirstSubnetwork(net) ==
    LET G == BuildGraph(net) IN Component(G, net[Min(DOMAIN net)].nodes[1])

\* get_largest_subnetwork: the most nodes; the first of them.
LargestSubnetwork(net) ==
    LET G == BuildGraph(net)
        parts == {Component(G, n) : n \in G.node}
    IN CHOOSE p \in parts : \A q \in parts \ {p} :
        \/ Cardinality(q) < Cardinality(p)
        \/ /\ Cardinality(q) = Cardinality(p)
           /\ FirstRoad(net, p) < FirstRoad(net, q)

\* remove_disconnected_roads.
RemoveDisconnectedRoads(net, part) ==
    Restrict(net, {id \in DOMAIN net : Range(net[id].nodes) \cap part # {}})

-----------------------------------------------------------------------------
(* street_selector.py *)

\* StreetEdits: a job's intent; the defaults are an unedited network.
Intent == [removed : SUBSET Road, tags : SUBSET Tag, grades : SUBSET Buckets,
           keep : {"all", "largest"}]
NoEdits == [removed |-> {}, tags |-> Tag, grades |-> DefaultGrades, keep |-> "all"]

\* _derive, up to keep_largest.
Selected(net, intent) ==
    LET kept == FilterByGrades(FilterByTags(net, intent.tags), intent.grades)
    IN Restrict(kept, DOMAIN kept \ intent.removed)

Derive(net, intent) ==
    LET selected == Selected(net, intent) IN
    IF intent.keep = "largest" /\ DOMAIN selected # {}
    THEN RemoveDisconnectedRoads(selected, LargestSubnetwork(selected))
    ELSE selected
=============================================================================
