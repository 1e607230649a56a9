--------------------------- MODULE MCDriverRoutes ---------------------------
(* Small instances of DriverRoutes for TLC.  Times are ordered, so only the   *)
(* identities of drivers, vehicles, keys and calls are interchangeable.       *)
EXTENDS DriverRoutes, TLC

Symmetry ==
    UNION {Permutations(Drivers), Permutations(Vehicles),
           Permutations(RouteIds), Permutations(Calls)}
=============================================================================
