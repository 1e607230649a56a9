--------------------------- MODULE MCPairingCodes ---------------------------
(* Small instances of PairingCodes for TLC.                                 *)
EXTENDS PairingCodes, TLC

Symmetry ==
    UNION {Permutations(Codes), Permutations(Users), Permutations(Devices),
           Permutations(Boards), Permutations(Waiters)}
=============================================================================
