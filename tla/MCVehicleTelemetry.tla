------------------------- MODULE MCVehicleTelemetry -------------------------
(* A small fleet for TLC: one driver, who changes vehicles.                 *)
EXTENDS VehicleTelemetry, TLC

CONSTANTS va, vb, dr

\* The driver has been in va and is in vb from 1 on.
HandOverAtOne(v, t) == IF v = IF t < 1 THEN va ELSE vb THEN dr ELSE None

\* Telemetry alone, or with a position.
Said == {[ign |-> "on", pos |-> FALSE], [ign |-> "off", pos |-> TRUE]}

\* The first message has been handled: at 0, va's engine on, a position, which began a
\* trip; two are to come.
AfterOne ==
    /\ now = 1 /\ stops = 0 /\ out = <<1>>
    /\ msg = [m \in Messages |->
                 IF m = 1
                 THEN [Unsent EXCEPT !.vehicle = va, !.ign = "on", !.pos = TRUE, !.pc = "done"]
                 ELSE Unsent]
    /\ row = [v \in Vehicles |->
                 IF v = va
                 THEN [ign |-> "on", changed |-> 0, acc |-> 0, place |-> 1]
                 ELSE [ign |-> "off", changed |-> None, acc |-> 0, place |-> None]]
    /\ track = [k \in Vehicles \X Days |-> IF k = <<va, 0>> THEN {1} ELSE None]
    /\ positions = {1} /\ raced = {} /\ mixed = {}
    /\ trips = [t \in TripIds |->
                   IF t = 1 THEN [driver |-> dr, vehicle |-> va, start |-> 1, open |-> TRUE,
                                  points |-> {}, last |-> None, meta |-> {}]
                   ELSE None]
    /\ applied = [v \in Vehicles |-> IF v = va THEN <<1>> ELSE <<>>]

LaterSpec == AfterOne /\ [][Next]_vars /\ Fairness
=============================================================================
