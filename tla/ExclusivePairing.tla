-------------------------- MODULE ExclusivePairing --------------------------
(***************************************************************************)
(* What the assignment table promises about the present: at any moment a   *)
(* driver sits in at most one vehicle and a vehicle carries at most one    *)
(* driver.  How a seat was taken, when, and by which request is not part   *)
(* of the promise.                                                         *)
(***************************************************************************)
CONSTANTS Drivers, Vehicles

VARIABLE paired       \* the set of <<driver, vehicle>> pairs now open

Exclusive(S) ==
    \A p, q \in S : (p[1] = q[1] \/ p[2] = q[2]) => p = q

Init == paired = {}

\* The driver leaves whatever vehicle he was in, the vehicle loses whatever
\* driver it had, and the two are paired: one indivisible hand-over.
Attach(d, v) ==
    paired' = {p \in paired : p[1] # d /\ p[2] # v} \cup {<<d, v>>}

Detach(d, v) ==
    /\ <<d, v>> \in paired
    /\ paired' = paired \ {<<d, v>>}

Next == \E d \in Drivers, v \in Vehicles : Attach(d, v) \/ Detach(d, v)

Spec == Init /\ [][Next]_paired
=============================================================================
