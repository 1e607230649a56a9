---------------------------- MODULE MCChatRooms ----------------------------
(* Two super admins, a user under one of them and another under him.        *)
EXTENDS ChatRooms, TLC

CONSTANTS sa1, sa2, boss, user

Above1 == (sa1 :> None) @@ (sa2 :> None) @@ (boss :> sa1) @@ (user :> boss)

\* The last user is still to come, or sa2 is a manager, or neither.
SmallTree ==
    /\ parent \in {Above1, [Above1 EXCEPT ![user] = None]}
    /\ role \in {(sa1 :> 2) @@ (sa2 :> r) @@ (boss :> 3) @@ (user :> q) : r \in {1, 2}, q \in {0, 3}}
    /\ role[user] = 0 <=> parent[user] = None
    /\ role[user] = 0 => role[sa2] = 2

\* Nobody has opened the chat yet, or everybody has and a group may be locked.
Group(x, lock) == [root |-> x, locked |-> lock, limit |-> FALSE, pinned |-> FALSE]
Members(r, x) == {<<r, y>> : y \in {z \in Rows : role[z] = 1 \/ Nearest(role, parent, z) = x}}

SmallInit ==
    /\ events = 0
    /\ SmallTree
    /\ \/ rooms = [r \in RoomIds |-> None] /\ members = {}
       \/ \E r1, r2 \in RoomIds, lock \in BOOLEAN :
            /\ r1 # r2 /\ role[sa2] = 2
            /\ rooms = [r \in RoomIds |->
                  IF r = r1 THEN Group(sa1, lock) ELSE IF r = r2 THEN Group(sa2, FALSE) ELSE None]
            /\ members = Members(r1, sa1) \cup Members(r2, sa2)
    /\ posted = {} /\ raced = {}
    /\ calls = [k \in Calls |-> None]

SmallSpec == SmallInit /\ [][Next]_vars

\* Of the trees that updates lead to, those that differ for the chats.
SomeTrees ==
    /\ role[sa1] = 2 /\ role[sa2] \in {1, 2} /\ role[boss] = 3
    /\ parent[sa2] = None /\ parent[sa1] \in {None, sa2, user}
    /\ parent[boss] \in {sa1, sa2} /\ parent[user] \in {None, boss, sa2}

Symmetry == Permutations(RoomIds) \cup Permutations(Calls)
=============================================================================
