---------------------------- MODULE MCChatScreen ----------------------------
(* A tab that has just been opened, or shows its first room already, which  *)
(* holds one message more than an answer does.                              *)
EXTENDS ChatScreen, TLC

CONSTANTS tab, a, s1

Old == [room |-> a, told |-> TRUE]
InA == [NewPage EXCEPT !.link = s1, !.room = a, !.last = a,
                       !.shown = [m \in Ids |-> IF m = 2 THEN 1 ELSE 0]]

SmallInit ==
    /\ msgs = <<Old, Old>>
    /\ hidden = {}
    /\ joins = [j \in Joins |-> None]
    /\ loads = [l \in Loads |-> None]
    /\ \/ /\ events = 1
          /\ sockets = [s \in Sids |-> None] /\ present = {}
          /\ pages = [p \in Pages |-> NewPage]
       \/ /\ events = 0
          /\ sockets = [s \in Sids |-> IF s = s1 THEN {a} ELSE None] /\ present = {a}
          /\ pages = [p \in Pages |-> IF p = tab THEN InA ELSE NewPage]

FairSpec == SmallInit /\ [][Next]_vars /\ Fairness
=============================================================================
