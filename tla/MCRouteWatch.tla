---------------------------- MODULE MCRouteWatch ----------------------------
(* A road of two places for TLC.                                            *)
EXTENDS RouteWatch, TLC

CONSTANTS wide, narrow

\* The line s runs through the place of the same name; a wide one covers both.
CoversOrNear(s, t, p) == t = wide \/ s = p

Here(p) == p

Symmetry == Permutations(Watchers) \cup Permutations(Editors) \cup Permutations(Routes)

\* One vehicle has a route and stations, and one route is still to be made.
OneRoute ==
    /\ Init
    /\ Cardinality(Live) = 1 /\ \A v \in Vehicles : current[v] \in Live
    /\ \A r \in Live : routes[r].thr = narrow /\ routes[r].shape = 1
    /\ \A v \in Vehicles : stations[v] = Stations

SmallSpec == OneRoute /\ [][Next]_vars
=============================================================================
