------------------------ MODULE MCDriverAssignments ------------------------
(* A small fleet for TLC: see DriverAssignments_*.cfg for the sizes.         *)
EXTENDS DriverAssignments, TLC

\* Handlers, keys, drivers and vehicles are interchangeable.
Symmetry ==
    Permutations(Requests) \cup Permutations(RowIds)
        \cup Permutations(Drivers) \cup Permutations(Vehicles)

\* The temporal run starts with every driver in a vehicle and room for two more
\* hand-overs, enough for two that swap and wait for each other's rows.
TwoPairs ==
    /\ now = 1
    /\ rows = [i \in RowIds |->
                  IF i \in {1, 2}
                  THEN [driver |-> i, vehicle |-> i, start |-> 1, end |-> Null]
                  ELSE None]
    /\ req = [q \in Requests |-> NoRequest]

LiveSpec == TwoPairs /\ [][Next]_vars /\ Fairness
=============================================================================
