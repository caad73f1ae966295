----------------------------- MODULE Avoidance -----------------------------
(***************************************************************************)
(* Obstacle avoidance (core/avoidance.c): the visibility graph over the    *)
(* start, the finish and the vertices of the obstacles, the search of the  *)
(* route and its legs one by one, as the planner's draft that calls it     *)
(* does (core/planner.c, mach_trajectory_get_route_update, not built).  A  *)
(* call that finds no pose reached changes nothing; one that does finds    *)
(* the pose of the call before.  The first call finds none.                *)
(*                                                                         *)
(* Coordinates are whole numbers of Unit mm, so that sums and products of  *)
(* doubles are exact.  A start or a finish inside an obstacle is left out: *)
(* the code says "TODO" and goes on to read child[] where nothing was      *)
(* written.                                                                *)
(***************************************************************************)
EXTENDS Integers, SequencesExt

CONSTANTS polygons,   \* sequence of obstacles, each a sequence of <<x, y>>
          Points,     \* where a route may start and end: vertices, too
          Paths,      \* the machines' paths, sequences of points
          Unit

DIJKSTRA_MAX_DISTANCE == 13000000 \div (Unit * Unit)

\* Twice the area of the triangle a, b, p: positive when p is left of ab.
Side(a, b, p) == (b[1] - a[1]) * (p[2] - a[2]) - (b[2] - a[2]) * (p[1] - a[1])

\* The vertex behind the v-th one.
Following(poly, v) == IF v = Len(poly) THEN poly[1] ELSE poly[v + 1]

is_point_in_polygon(poly, p) ==
    \A v \in DOMAIN poly : Side(poly[v], Following(poly, v), p) > 0

Blocked(p) == \E i \in DOMAIN polygons : is_point_in_polygon(polygons[i], p)

\* The vertices of all polygons, in the order in which they are looked at.
vertices == FlattenSeq(polygons)

\* Start and finish, and behind them the vertices inside no polygon; a vertex
\* is on the border of its own.
valid_points(s, f) ==
    LET found[n \in 0..Len(vertices)] ==
           IF n = 0 THEN <<s, f>>
           ELSE IF Blocked(vertices[n]) THEN found[n - 1]
                ELSE Append(found[n - 1], vertices[n])
    IN  found[Len(vertices)]

-----------------------------------------------------------------------------
(* build_avoidance_graph                                                   *)

is_segment_crossing_line(a, b, o, p) == Side(a, b, p) * Side(a, b, o) < 0

is_segment_crossing_segment(a, b, o, p) ==
    is_segment_crossing_line(a, b, o, p) /\ is_segment_crossing_line(o, p, a, b)

\* Whether two quotients of doubles are equal: with a zero divisor they are
\* infinities, or not a number and unequal to all.
SameQuotient(n, d, m, e) ==
    IF d # 0 /\ e # 0 THEN n * e = m * d ELSE d = 0 /\ e = 0 /\ n * m > 0

is_point_on_segment(a, b, o) ==
    /\ SameQuotient(b[1] - a[1], b[2] - a[2], b[1] - o[1], b[2] - o[2])
    /\ IF a[1] < b[1] THEN a[1] < o[1] /\ o[1] < b[1]
                      ELSE b[1] < o[1] /\ o[1] < a[1]

\* 0 when p is no vertex.
get_point_index_in_polygon(poly, p) ==
    IF \E v \in DOMAIN poly : poly[v] = p
    THEN CHOOSE v \in DOMAIN poly :
            poly[v] = p /\ \A u \in 1..(v - 1) : poly[u] # p
    ELSE 0

\* Mutant of Diagonal: the last vertex but one counts as a neighbour.
Diagonal_Wide(k, l) == k # 0 /\ l # 0 /\ k - l \notin {2, 1, -1, -2}

\* The segment runs inside a polygon from one of its vertices to another.
Diagonal(k, l) == k # 0 /\ l # 0 /\ k - l \notin {1, -1}

collide(a, b) ==
    \E i \in DOMAIN polygons :
       LET poly    == polygons[i]
           k       == get_point_index_in_polygon(poly, a)
           l       == get_point_index_in_polygon(poly, b)
           closing == {k, l} = {1, Len(poly)}
       IN  \E v \in DOMAIN poly :
              \/ is_segment_crossing_segment(a, b, poly[v], Following(poly, v))
              \/ ~closing /\ (Diagonal(k, l) \/ is_point_on_segment(a, b, poly[v]))

\* The graph as the set of its edges, each from the lower index to the higher.
graph(vp) ==
    { e \in (DOMAIN vp) \X (DOMAIN vp) : e[1] < e[2] /\ ~collide(vp[e[1]], vp[e[2]]) }

-----------------------------------------------------------------------------
(* dijkstra                                                                *)

\* The weight of an edge is the square of its length.
weight(a, b) == (a[1] - b[1]) * (a[1] - b[1]) + (a[2] - b[2]) * (a[2] - b[2])

\* One round of the search: v is checked, its neighbours relaxed, and the
\* nearest point not yet checked is next.
Round(vp, edges, s) ==
    LET near(i) == /\ <<s.v, i>> \in edges \/ <<i, s.v>> \in edges
                   /\ s.distance[i] > s.distance[s.v] + weight(vp[s.v], vp[i])
        distance == [i \in DOMAIN vp |->
                       IF near(i) THEN s.distance[s.v] + weight(vp[s.v], vp[i])
                       ELSE s.distance[i]]
        checked  == s.checked \cup {s.v}
        open     == { i \in DOMAIN vp \ checked :
                        i # 1 /\ distance[i] < DIJKSTRA_MAX_DISTANCE }
    IN  [v |-> IF open = {} THEN s.v
               ELSE CHOOSE i \in open : \A j \in open :
                       \/ distance[i] < distance[j]
                       \/ distance[i] = distance[j] /\ i <= j,
         checked  |-> checked,
         distance |-> distance,
         parent   |-> [i \in DOMAIN vp |-> IF near(i) THEN s.v ELSE s.parent[i]]]

\* The search goes from point 1 to point 2.
Unsearched(vp) ==
    [v |-> 1, checked |-> {},
     distance |-> [i \in DOMAIN vp |->
                     IF i = 1 THEN 0 ELSE DIJKSTRA_MAX_DISTANCE],
     parent |-> [i \in DOMAIN vp |-> 0]]

Stops(s) == s.v = 2 \/ s.v \in s.checked

\* It stops after fewer rounds than there are points.
Search(vp) ==
    LET edges == graph(vp)
        at[n \in 0..Len(vp)] ==
           IF n = 0 THEN Unsearched(vp)
           ELSE IF Stops(at[n - 1]) THEN at[n - 1]
                ELSE Round(vp, edges, at[n - 1])
    IN  at[Len(vp)]

\* The route that parent[] leads back to the start, which child[] then leads
\* forward.
Backwards(vp, parent) ==
    LET back[n \in 0..Len(vp)] ==
           IF n = 0 THEN <<2>>
           ELSE LET r == back[n - 1]
                IN  IF parent[Head(r)] = 0 THEN r ELSE <<parent[Head(r)]>> \o r
    IN  back[Len(vp)]

Route(vp) == Backwards(vp, Search(vp).parent)

-----------------------------------------------------------------------------
(* The drive along the route                                               *)

VARIABLES path,            \* path_game_yellow
          latest_pos_idx,  \* its pose that the route leads to: 0 at first
          start, finish,   \* set_start_finish
          route,           \* what dijkstra finds, in points
          index,           \* the leg
          pose_reached

vars == <<path, latest_pos_idx, start, finish, route, index, pose_reached>>

\* The points of the route the search finds from s to f.
RoutePoints(s, f) ==
    LET vp == valid_points(s, f)
        r  == Route(vp)
    IN  [n \in DOMAIN r |-> vp[r[n]]]

Clear == { p \in Points : ~Blocked(p) }

\* pose_reached is POSE_INITIAL.
Init ==
    /\ path \in Paths /\ \A n \in DOMAIN path : path[n] \in Clear
    /\ pose_reached \in Clear
    /\ latest_pos_idx = 0 /\ index = 1
    /\ start = <<0, 0>> /\ finish = start /\ route = << >>

\* avoidance: the index-th child, and the last one from there on.
avoidance == route[IF index < Len(route) THEN index + 1 ELSE Len(route)]

\* What a call ends with; neither the route nor the leg changes until the next.
pose_to_reach == avoidance

update_graph(s, f) ==
    start' = s /\ finish' = f /\ route' = RoutePoints(s, f)

FirstCall ==
    /\ latest_pos_idx = 0 /\ latest_pos_idx' = 1
    /\ update_graph(pose_reached, path[1])
    /\ UNCHANGED <<path, index, pose_reached>>

\* The pose ordered is reached, and the route goes on.
LegReached ==
    /\ latest_pos_idx > 0 /\ pose_to_reach # path[latest_pos_idx]
    /\ index' = index + 1
    /\ pose_reached' = pose_to_reach
    /\ UNCHANGED <<path, latest_pos_idx, start, finish, route>>

\* It is the end of the route.  The next one is sought before pose_reached is
\* set: it starts from the pose before the robot's.
RouteReached ==
    /\ latest_pos_idx > 0 /\ pose_to_reach = path[latest_pos_idx]
    /\ latest_pos_idx' = IF latest_pos_idx < Len(path) THEN latest_pos_idx + 1
                                                       ELSE latest_pos_idx
    /\ update_graph(pose_reached, path[latest_pos_idx'])
    /\ index' = 1
    /\ pose_reached' = pose_to_reach
    /\ UNCHANGED path

Next == FirstCall \/ LegReached \/ RouteReached

Spec == Init /\ [][Next]_vars

-----------------------------------------------------------------------------
\* Whether ab meets the inside of a convex polygon: no side of the polygon and
\* not the line ab itself separates the two.
Cuts(a, b, poly) ==
    /\ \A v \in DOMAIN poly : \/ Side(poly[v], Following(poly, v), a) > 0
                              \/ Side(poly[v], Following(poly, v), b) > 0
    /\ \E v \in DOMAIN poly : Side(a, b, poly[v]) > 0
    /\ \E v \in DOMAIN poly : Side(a, b, poly[v]) < 0

\* The leg that is ordered leads through no obstacle, though the code looks at
\* the crossings of edges only, and a leg through vertices crosses none: every
\* leg but the first of a route that starts where the robot is not.
LegIsFree ==
    latest_pos_idx > 0 /\ (index > 1 \/ start = pose_reached)
        => \A i \in DOMAIN polygons : ~Cuts(pose_reached, pose_to_reach, polygons[i])

\* Each leg leads on to the pose of the path that the route is for, though the
\* route starts from a pose the robot has left: no call runs past its end.
RouteLeads ==
    latest_pos_idx > 0
        => index < Len(route) /\ route[Len(route)] = path[latest_pos_idx]

-----------------------------------------------------------------------------
(* The tables on which no leg leads through an obstacle.  The obstacles of *)
(* the machines (obstacle.c) are squares along the axes.                   *)

\* Counterclockwise from the corner with the lowest coordinates.
Rectangle(poly) ==
    LET lower == poly[1]
        upper == poly[3]
    IN  /\ lower[1] < upper[1] /\ lower[2] < upper[2]
        /\ poly = <<lower, <<upper[1], lower[2]>>, upper, <<lower[1], upper[2]>>>>

\* On a side, but for its ends, the search takes a point for a free one: the
\* test of is_point_on_segment that sees it is the one for its ends only.
OffSides(p, poly) ==
    \/ is_point_in_polygon(poly, p)
    \/ \E v \in DOMAIN poly : Side(poly[v], Following(poly, v), p) < 0
    \/ \E v \in DOMAIN poly : p = poly[v]

Table ==
    /\ Unit \in Nat \ {0}
    /\ polygons \in Seq(Seq(Int \X Int)) /\ Points \subseteq Int \X Int
    /\ \A i \in DOMAIN polygons :
         /\ Rectangle(polygons[i])
         /\ \A p \in Points : OffSides(p, polygons[i])
         /\ \A v \in DOMAIN polygons[i] : polygons[i][v] \in Points
    /\ \A p \in Paths : p \in Seq(Points) /\ Len(p) > 0

\* Without a route dijkstra leaves child[] alone, and the model leaps.
Connected == \A s, f \in Clear : Len(RoutePoints(s, f)) > 1
=============================================================================
