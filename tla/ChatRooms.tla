------------------------------ MODULE ChatRooms ------------------------------
(***************************************************************************)
(* The group chats of ChatService and the tree of users they follow.       *)
(* Every super admin (role 2) has a group, made when it is first needed;   *)
(* a user belongs to the group of the nearest super admin above him, found *)
(* by reading the tree one row at a time, and a manager (role 1) to all.   *)
(* When a user is created or moved, listeners bring him, and those below   *)
(* him, into the right group.  Settings of a room are saved from a copy    *)
(* that was read before.                                                   *)
(*                                                                         *)
(* A call goes from one query to the next.  The inserts that make several  *)
(* members of one room are a step, and so is an update of a user.          *)
(***************************************************************************)
EXTENDS Integers, FiniteSets

CONSTANTS
    Users,
    RoomIds,
    Calls,        \* requests and listeners that may be under way at once
    MaxEvents,    \* bounds requests, updates of users and restarts
    None

ASSUME EventsAssumption == MaxEvents \in Nat
ASSUME NoneAssumption == None \notin Users \cup RoomIds

VARIABLES
    events,    \* what has happened so far
    role,      \* users.role_level; 0 if there is no such row
    parent,    \* users.parent_id
    rooms,     \* chat_rooms of type SA_GROUP
    members,   \* chat_memberships, as <<room, user>>
    posted,    \* chat_messages, as <<room, sender>>
    calls,     \* per call: where it is and what it has read
    raced      \* super admins whose group two calls were making at once (history)

tree == <<role, parent>>
chat == <<rooms, members, posted, raced>>
vars == <<events, tree, chat, calls>>

Roles == {0, 1, 2, 3}
Room == [root : Users, locked : BOOLEAN, limit : BOOLEAN, pinned : BOOLEAN]
ASSUME NullAssumption == None \notin Room
Settings == {"limit", "pin", "unpin"}
Listeners == {"created", "moved"}
Kinds == Settings \cup Listeners \cup {"open", "send", "toggle"}

Call == [kind : Kinds, of : Users,      \* whom the call is about
         user : Users,                  \* whose turn it is
         pc : {"read", "role", "walk", "self", "find", "legacy", "adopt", "create",
               "enter", "children", "decide", "save"},
         next : Users \cup {None},      \* the row the walk reads next
         passed : SUBSET Users,         \* the rows it has read
         root : Users \cup {None},      \* the super admin found
         todo : SUBSET Users,           \* listener: users to come; manager: groups
         room : RoomIds \cup {None},
         row : Room \cup {None},        \* the copy of the room
         late : BOOLEAN,                \* the lock has changed since (history)
         roots : SUBSET (Users \cup {None}),   \* his super admins meanwhile (history)
         moves : 0..2,                  \* updates of the tree during the walk, (history)
         calm : BOOLEAN]                \* and whether there was any in the call (history)

------------------------------------------------------------------------------
(* The tree.                                                               *)

Rows == {u \in Users : role[u] # 0}
Children(u) == {c \in Rows : parent[c] = u}

\* u and those above him: the least set with u that goes on to everybody's parent.
Above(par, u) ==
    {x \in Users :
        \A S \in SUBSET Users :
            (u \in S /\ \A y \in S : par[y] = None \/ par[y] \in S) => x \in S}

\* The nearest super admin in a tree that stands still (for the history): the way
\* up ends with him, in a circle too.
Nearest(rol, par, u) ==
    LET hits == {x \in Above([y \in Users |-> IF rol[y] = 2 THEN None ELSE par[y]], u) :
                    rol[x] = 2}
    IN IF hits = {} THEN None ELSE CHOOSE x \in hits : TRUE

\* getDescendantIds
Descendants(u) == {d \in Rows \ {u} : u \in Above(parent, d)}

Running == {k \in Calls : calls[k] # None}
Idle == IF events < MaxEvents THEN Calls \ Running ELSE {}
At(k, p) == k \in Running /\ calls[k].pc = p
Go(k, p) == calls' = [calls EXCEPT ![k].pc = p]
Return(k) == calls' = [calls EXCEPT ![k] = None]

\* A walk starts at u.
Start(call, u) ==
    [call EXCEPT !.user = u, !.pc = "walk", !.next = u, !.passed = {}, !.root = None,
                 !.roots = {Nearest(role, parent, u)}, !.moves = 0]

NewCall(kind, u) ==
    [kind |-> kind, of |-> u, user |-> u, pc |-> "walk", next |-> None, passed |-> {},
     root |-> None, todo |-> {}, room |-> None, row |-> None, late |-> FALSE,
     roots |-> {}, moves |-> 0, calm |-> TRUE]

Listen(kind, u, rol, par) ==
    [NewCall(kind, u) EXCEPT !.next = u, !.roots = {Nearest(rol, par, u)}]

\* The row of u is saved, and the listener of the event starts its call k.
SaveUser(k, kind, u, ro, p) ==
    /\ k \in Idle
    /\ events' = events + 1
    /\ role' = [role EXCEPT ![u] = ro]
    /\ parent' = [parent EXCEPT ![u] = p]
    /\ calls' = [x \in Calls |->
          IF x = k THEN Listen(kind, u, role', parent')
          ELSE IF x \notin Running THEN None
          ELSE [calls[x] EXCEPT
                   !.roots = @ \cup {Nearest(role', parent', calls[x].user)},
                   !.moves = IF @ = 2 THEN 2 ELSE @ + 1,
                   !.calm = FALSE]]
    /\ UNCHANGED chat

Create(k, u, ro, p) ==
    /\ u \notin Rows /\ p \in Rows
    /\ SaveUser(k, "created", u, ro, p)

\* updateUserById: a manager may put a user under anyone, his own child too.
Update(k, u, ro, p) ==
    /\ u \in Rows /\ p \in Rows \cup {None}
    /\ <<ro, p>> # <<role[u], parent[u]>>
    /\ SaveUser(k, "moved", u, ro, p)

------------------------------------------------------------------------------
(* getNearestSuperAdminId                                                  *)

Stops(u) == role[u] = 2

Walk(k) ==
    /\ At(k, "walk")
    /\ LET u == calls[k].next
           call == [calls[k] EXCEPT !.passed = @ \cup {u}]
           found == IF call.kind \in {"open"} \cup Listeners THEN "find" ELSE "decide"
           lost == IF call.kind \in {"open"} \cup Listeners THEN "self" ELSE "decide"
       IN calls' = [calls EXCEPT ![k] =
             IF Stops(u) THEN [call EXCEPT !.root = u, !.next = None, !.pc = found]
             ELSE IF parent[u] \in call.passed \cup {None}
             THEN [call EXCEPT !.next = None, !.pc = lost]
             ELSE [call EXCEPT !.next = parent[u]]]
    /\ UNCHANGED <<events, tree, chat>>

------------------------------------------------------------------------------
(* ensureSaGroupForUser, ensureSaGroupForRoot and the listeners.           *)

\* What a call does when a user is done: the listener of a move looks for his
\* children, a manager has the next group made, the others return.
Finished(call) ==
    IF call.kind = "moved" THEN [call EXCEPT !.pc = "children"]
    ELSE IF call.todo # {}
    THEN LET r == CHOOSE r \in call.todo : TRUE
         IN [call EXCEPT !.root = r, !.todo = @ \ {r}, !.pc = "find"]
    ELSE None

\* He may have become a super admin himself since the walk began.
Self(k) ==
    /\ At(k, "self")
    /\ LET call == calls[k] IN
        calls' = [calls EXCEPT ![k] =
           IF role[call.user] = 2 THEN [call EXCEPT !.root = call.user, !.pc = "find"]
           ELSE Finished(call)]
    /\ UNCHANGED <<events, tree, chat>>

\* Mutant of GroupsOf: a locked group is not looked at.
OpenGroupsOf(u) == {r \in RoomIds : rooms[r] # None /\ rooms[r].root = u /\ ~ rooms[r].locked}

GroupsOf(u) == {r \in RoomIds : rooms[r] # None /\ rooms[r].root = u}

Find(k) ==
    /\ At(k, "find")
    /\ \/ /\ GroupsOf(calls[k].root) = {}
          /\ Go(k, "legacy")
       \/ \E r \in GroupsOf(calls[k].root) :
             calls' = [calls EXCEPT ![k].room = r, ![k].pc = "enter"]
    /\ UNCHANGED <<events, tree, chat>>

\* A where on null is no condition: any group the super admin has created will
\* do, and he creates none but his own.
Legacy(k) ==
    /\ At(k, "legacy")
    /\ \/ /\ GroupsOf(calls[k].root) = {}
          /\ Go(k, "create")
       \/ \E r \in GroupsOf(calls[k].root) :
             calls' = [calls EXCEPT ![k].room = r, ![k].row = rooms[r], ![k].pc = "adopt"]
    /\ UNCHANGED <<events, tree, chat>>

Making(u) == {k \in Running : calls[k].root = u /\ calls[k].pc \in {"legacy", "create"}}

\* Rooms are numbered as they come; the bound is that a number is left.
CreateRoom(k) ==
    /\ At(k, "create")
    /\ \E r \in RoomIds :
        /\ rooms[r] = None
        /\ rooms' = [rooms EXCEPT ![r] =
              [root |-> calls[k].root, locked |-> FALSE, limit |-> FALSE, pinned |-> FALSE]]
        /\ calls' = [calls EXCEPT ![k].room = r, ![k].pc = "enter"]
    /\ raced' = IF Making(calls[k].root) = {k} THEN raced ELSE raced \cup {calls[k].root}
    /\ UNCHANGED <<events, tree, members, posted>>

\* Managers, the user, and with a super admin all who are below him.
Entering(call) ==
    {u \in Rows : role[u] = 1} \cup {call.user}
        \cup (IF call.user = call.root THEN Descendants(call.user) ELSE {})

Enter(k) ==
    /\ At(k, "enter")
    /\ members' = members \cup {<<calls[k].room, u>> : u \in Entering(calls[k])}
    /\ calls' = [calls EXCEPT ![k] = Finished([@ EXCEPT !.room = None])]
    /\ UNCHANGED <<events, tree, rooms, posted, raced>>

\* Mutant of Below: only the user himself is brought over.
NoneBelow(u) == {}

Below(u) == Children(u)

\* onUserParentChanged goes on with each child, in any order, and his children.
Descend(k) ==
    /\ At(k, "children")
    /\ LET todo == calls[k].todo \cup Below(calls[k].user)
       IN IF todo = {}
          THEN Return(k)
          ELSE \E u \in todo :
                  calls' = [calls EXCEPT ![k] = Start([@ EXCEPT !.todo = todo \ {u}], u)]
    /\ UNCHANGED <<events, tree, chat>>

------------------------------------------------------------------------------
(* Requests.                                                               *)

Begin(k, call) ==
    /\ k \in Idle
    /\ events' = events + 1
    /\ calls' = [calls EXCEPT ![k] = call]
    /\ UNCHANGED <<tree, chat>>

\* myRooms: a manager has every super admin's group made, and enters it.
OpenRooms(k, u) ==
    IF role[u] = 1
    THEN LET call == Finished([NewCall("open", u) EXCEPT !.todo = {x \in Users : role[x] = 2}])
         IN call # None /\ Begin(k, call)
    ELSE Begin(k, Start(NewCall("open", u), u))

\* The others name a room.  Only a super admin, of whatever group, may toggle a
\* lock; only he or a manager may pin, and only what was posted in the room.
Request(k, kind, u, r) ==
    /\ rooms[r] # None
    /\ kind = "toggle" => role[u] = 2
    /\ kind \in {"pin", "unpin"} => role[u] \in {1, 2}
    /\ Begin(k, [NewCall(kind, u) EXCEPT
                   !.room = r, !.pc = IF kind \in {"toggle", "limit"} THEN "read" ELSE "role"])

\* The room is read first, or while canJoinRoom is under way; and of a sender
\* whether a lock is for him.
ReadRoom(k) ==
    /\ k \in Running /\ calls[k].kind \notin Listeners \cup {"open"} /\ calls[k].row = None
    /\ calls' = [calls EXCEPT
          ![k].row = [rooms[calls[k].room] EXCEPT !.locked =
              IF calls[k].kind = "send" THEN @ /\ role[calls[k].user] # 2 ELSE @],
          ![k].pc = IF @ # "read" THEN @
                    ELSE IF calls[k].kind = "toggle" THEN "save" ELSE "role"]
    /\ UNCHANGED <<events, tree, chat>>

\* Mutant of Admit: the room is shown without a membership.
AdmitUnseen(k) == UNCHANGED members

Admit(k) == members' = members \cup {<<calls[k].room, calls[k].user>>}

\* canJoinRoom: a manager enters, for anyone else the tree is walked.
CheckRole(k) ==
    /\ At(k, "role")
    /\ IF role[calls[k].user] = 1
       THEN Admit(k) /\ Go(k, "save")
       ELSE /\ calls' = [calls EXCEPT ![k] = Start(@, @.user)]
            /\ UNCHANGED members
    /\ UNCHANGED <<events, tree, rooms, posted, raced>>

\* Mutant of Allowed: whoever has a super admin may join.
AllowedAny(k) == calls[k].root # None

Allowed(k) == calls[k].root = rooms[calls[k].room].root

Decide(k) ==
    /\ At(k, "decide")
    /\ IF Allowed(k)
       THEN Admit(k) /\ Go(k, "save")
       ELSE Return(k) /\ UNCHANGED members
    /\ UNCHANGED <<events, tree, rooms, posted, raced>>

\* Mutant of Saved: whatever is set, the lock is given its default again.
SavedAfresh(call) ==
    [call.row EXCEPT !.locked = call.kind = "toggle" /\ ~ @,
                     !.limit = IF call.kind = "limit" THEN ~ @ ELSE @]

\* The copy with what the call sets; save() writes every column that differs.
Saved(call) ==
    CASE call.kind = "toggle" -> [call.row EXCEPT !.locked = ~ @]
      [] call.kind = "limit" -> [call.row EXCEPT !.limit = ~ @]
      [] call.kind \in {"pin", "unpin"} -> [call.row EXCEPT !.pinned = (call.kind = "pin")]
      [] OTHER -> call.row

\* The room of call k is saved; calls that hold an older copy are late.
Write(k, then) ==
    LET r == calls[k].room IN
    /\ rooms' = [rooms EXCEPT ![r] = Saved(calls[k])]
    /\ calls' = [x \in Calls |->
          IF x = k THEN then
          ELSE IF /\ x \in Running /\ calls[x].room = r /\ calls[x].row # None
                  /\ rooms'[r].locked # rooms[r].locked
               THEN [calls[x] EXCEPT !.late = TRUE] ELSE calls[x]]

Adopt(k) ==
    /\ At(k, "adopt")
    /\ Write(k, [calls[k] EXCEPT !.row = None, !.late = FALSE, !.pc = "enter"])
    /\ UNCHANGED <<events, tree, members, posted, raced>>

SaveRoom(k) ==
    /\ At(k, "save") /\ calls[k].kind # "send" /\ calls[k].row # None
    /\ IF calls[k].kind = "pin" /\ {p \in posted : p[1] = calls[k].room} = {}
       THEN Return(k) /\ UNCHANGED rooms
       ELSE Write(k, None)
    /\ UNCHANGED <<events, tree, members, posted, raced>>

\* sendMessage: a locked group is for super admins.
Post(k) ==
    /\ At(k, "save") /\ calls[k].kind = "send" /\ calls[k].row # None
    /\ posted' = IF calls[k].row.locked
                 THEN posted ELSE posted \cup {<<calls[k].room, calls[k].user>>}
    /\ Return(k)
    /\ UNCHANGED <<events, tree, rooms, members, raced>>

\* The process stops: calls are cut off and their events are forgotten.
Restart ==
    /\ events < MaxEvents /\ Running # {}
    /\ events' = events + 1
    /\ calls' = [k \in Calls |-> None]
    /\ UNCHANGED <<tree, chat>>

------------------------------------------------------------------------------
Init ==
    /\ events = 0
    /\ role \in [Users -> Roles] /\ parent \in [Users -> Users \cup {None}]
    /\ \A u \in Users :
        parent[u] # None =>
            /\ role[u] # 0 /\ role[parent[u]] # 0
            /\ u \notin Above(parent, parent[u])
    /\ rooms = [r \in RoomIds |-> None]
    /\ members = {} /\ posted = {} /\ raced = {}
    /\ calls = [k \in Calls |-> None]

CallStep(k) ==
    \/ Walk(k) \/ Self(k) \/ Find(k) \/ Legacy(k) \/ Adopt(k) \/ CreateRoom(k) \/ Enter(k)
    \/ Descend(k) \/ ReadRoom(k) \/ CheckRole(k) \/ Decide(k) \/ SaveRoom(k) \/ Post(k)

Next ==
    \/ \E k \in Idle, u \in Users, ro \in Roles \ {0}, p \in Users \cup {None} :
          Create(k, u, ro, p) \/ Update(k, u, ro, p)
    \/ \E k \in Idle, u \in Rows : OpenRooms(k, u)
    \/ \E k \in Idle, u \in Rows, r \in RoomIds, kind \in Settings \cup {"send", "toggle"} :
          Request(k, kind, u, r)
    \/ \E k \in Calls : CallStep(k)
    \/ Restart

Spec == Init /\ [][Next]_vars

------------------------------------------------------------------------------
(* Properties.                                                             *)

\* Every variable holds what its declaration says.
TypeOK ==
    /\ events \in 0..MaxEvents
    /\ role \in [Users -> Roles] /\ parent \in [Users -> Users \cup {None}]
    /\ rooms \in [RoomIds -> Room \cup {None}]
    /\ members \subseteq {r \in RoomIds : rooms[r] # None} \X Rows
    /\ posted \subseteq members
    /\ calls \in [Calls -> Call \cup {None}]
    /\ raced \subseteq Users

\* A super admin has one group, unless two calls were making it at once.
OneGroupPerRoot ==
    \A u \in Users \ raced : Cardinality(GroupsOf(u)) <= 1

\* Whoever posts in a group or sets it up without being a manager was under its
\* super admin at some moment of the call, or the tree was changed twice while it
\* was read: one change cannot lead the walk to a group that never was his.
JoinsOwnGroup ==
    \A k \in Running :
        (At(k, "save") /\ calls[k].root # None /\ calls[k].moves < 2)
            => rooms[calls[k].room].root \in calls[k].roots

\* A lock changes hands only by toggleRoomLock, or by a save from a copy that was
\* read before the last toggle.
LockOnlyByToggle ==
    [][\A r \in RoomIds :
          rooms[r] # None /\ rooms'[r].locked # rooms[r].locked =>
              \E k \in Running :
                  /\ calls[k].room = r /\ calls'[k] # calls[k]
                  /\ calls[k].kind = "toggle" \/ calls[k].late]_vars

\* When the listener of a move has no one left to bring over, and nobody was moved
\* meanwhile, all who are below him are in the group of their super admin.
SubtreeFollows ==
    \A k \in Running :
        LET call == calls[k] IN
        (call.kind = "moved" /\ At(k, "children") /\ call.calm
            /\ call.todo = {} /\ Below(call.user) = {})
            => \A u \in Descendants(call.of) \cup {call.of} :
                  Nearest(role, parent, u) = None \/
                      \E r \in GroupsOf(Nearest(role, parent, u)) : <<r, u>> \in members
==============================================================================
