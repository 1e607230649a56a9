------------------------------ MODULE MCCards ------------------------------
(* Small instances of Cards for TLC.                                        *)
EXTENDS Cards, TLC

\* Between two starts of the process either cards are shown or sessions used:
\* they meet in the users table only.
CardsUnused ==
    /\ armedByHex = [c \in CardIds |-> None] /\ results = [c \in CardIds |-> None]
    /\ used = [c \in CardIds |-> 0] /\ taps = [t \in Taps |-> None]
SessionsUnused == pendings = [s \in Sessions |-> None]

\* Two taps at once only while nobody is missing from the table.
Small ==
    \/ CardsUnused
    \/ SessionsUnused /\ (users = Users \/ (users # {} /\ Cardinality(Live) <= 1))

Symmetry == Permutations(CardIds) \cup Permutations(Users) \cup Permutations(Taps)
                \cup Permutations(Submits)
=============================================================================
