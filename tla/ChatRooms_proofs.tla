--------------------------- MODULE ChatRooms_proofs ---------------------------
(***************************************************************************)
(* The properties of ChatRooms that hold for any tree of users, any number *)
(* of rooms and of calls under way.  The way up a tree is the least set    *)
(* that goes on to every parent, so that what holds of it is shown by      *)
(* giving a set and not by an induction.                                   *)
(***************************************************************************)
EXTENDS ChatRooms, FiniteSetTheorems, TLAPS

\* The calls that bring users into groups, and where only they or only the
\* others are.
Joiners == Listeners \cup {"open"}
JoinPcs == {"self", "find", "legacy", "adopt", "create", "enter", "children"}
RootPcs == {"find", "legacy", "adopt", "create", "enter"}
AskPcs == {"read", "role", "decide", "save"}

Trees == [Users -> Roles]
Parents == [Users -> Users \cup {None}]

\* What is true of a call at each of its awaits.
CallOK(c) ==
    /\ c.user \in Rows
    /\ c.kind = "moved" => c.todo \subseteq Rows
    /\ c.pc \in JoinPcs => c.kind \in Joiners
    /\ c.pc \in AskPcs => c.kind \notin Joiners
    /\ c.pc = "children" => c.kind = "moved"
    /\ c.pc = "walk" => c.next # None
    /\ c.pc \in {"walk", "read", "role"} => c.root = None
    /\ c.pc \in RootPcs => c.root # None
    /\ c.row # None => c.pc = "adopt" \/ c.kind \notin Joiners
    /\ c.pc = "adopt" => c.row # None

\* The room of a call is there; the copy of it is of the same super admin, and so
\* is the group that a user is about to enter.
HasRoom(c) == c.kind \notin Joiners \/ c.pc \in {"adopt", "enter"} \/ c.row # None
RoomOK(rs, c) ==
    /\ HasRoom(c) => c.room # None /\ rs[c.room] # None
    /\ c.pc \in {"adopt", "enter"} \/ (c.pc = "save" /\ c.root # None) =>
          rs[c.room].root = c.root
    /\ c.row # None => c.row.root = rs[c.room].root

RowsOK == \A u \in Users : parent[u] # None => u \in Rows
CallsOK == \A k \in Running : CallOK(calls[k]) /\ RoomOK(rooms, calls[k])

Typed == TypeOK /\ RowsOK /\ CallsOK

\* A room stays, and it stays its super admin's.
RoomsStay ==
    \A r \in RoomIds : rooms[r] # None => rooms'[r] # None /\ rooms'[r].root = rooms[r].root

------------------------------------------------------------------------------
(* Types.                                                                  *)

\* The nearest super admin is a user or nobody.
LEMMA NearestType ==
    ASSUME NEW rol, NEW par, NEW u PROVE Nearest(rol, par, u) \in Users \cup {None}
<1> DEFINE up == Above([y \in Users |-> IF rol[y] = 2 THEN None ELSE par[y]], u)
           hits == {x \in up : rol[x] = 2}
<1>1. hits \subseteq Users
  BY DEF Above
<1>2. Nearest(rol, par, u) = IF hits = {} THEN None ELSE CHOOSE x \in hits : TRUE
  BY DEF Nearest
<1> HIDE DEF hits
<1>3. hits # {} => (CHOOSE x \in hits : TRUE) \in hits
  OBVIOUS
<1> QED BY <1>1, <1>2, <1>3

\* What holds of rooms and the tree holds of a call that has not moved.
LEMMA Untouched ==
    ASSUME Typed, Rows \subseteq Rows', RoomsStay, NEW c \in Call, CallOK(c), RoomOK(rooms, c)
    PROVE  CallOK(c)' /\ RoomOK(rooms', c)
<1>1. CallOK(c)'
  BY DEF CallOK
<1>2. RoomOK(rooms', c)
  <2>1. c.pc \in {"adopt", "enter"} \/ c.pc = "save" \/ c.row # None => HasRoom(c)
    BY DEF CallOK, HasRoom, AskPcs
  <2>2. HasRoom(c) =>
            /\ c.room \in RoomIds /\ rooms[c.room] # None
            /\ rooms'[c.room] # None /\ rooms'[c.room].root = rooms[c.room].root
    BY DEF RoomOK, RoomsStay, Call
  <2>3. HasRoom(c)' = HasRoom(c)
    BY DEF HasRoom
  <2> QED BY <2>1, <2>2, <2>3 DEF RoomOK
<1> QED BY <1>1, <1>2

\* A step of one call k that leaves the tree alone.
LEMMA OneCall ==
    ASSUME Typed, UNCHANGED <<events, tree>>, NEW k \in Calls, NEW new \in Call \cup {None},
           calls' = [calls EXCEPT ![k] = new],
           rooms' \in [RoomIds -> Room \cup {None}], RoomsStay,
           members' \subseteq {r \in RoomIds : rooms'[r] # None} \X Rows,
           posted' \subseteq members', raced' \subseteq Users,
           new # None => CallOK(new) /\ RoomOK(rooms', new)
    PROVE  Typed'
<1> USE DEF tree
<1>1. Rows' = Rows
  BY DEF Rows
<1>2. TypeOK'
  <2>1. calls' \in [Calls -> Call \cup {None}]
    BY DEF Typed, TypeOK
  <2> QED BY <1>1, <2>1 DEF Typed, TypeOK
<1>3. RowsOK'
  BY <1>1 DEF Typed, RowsOK
<1>4. ASSUME NEW x \in Running' PROVE CallOK(calls[x])' /\ RoomOK(rooms', calls'[x])
  <2>1. x \in Calls /\ calls'[x] # None
    BY <1>4 DEF Running
  <2>2. CASE x = k
    <3>1. calls'[x] = new
      BY <2>1, <2>2 DEF Typed, TypeOK
    <3>2. CallOK(new)'
      BY <1>1, <2>1, <3>1 DEF CallOK
    <3> QED BY <2>1, <3>1, <3>2 DEF CallOK, RoomOK, HasRoom
  <2>3. CASE x # k
    <3>1. calls'[x] = calls[x] /\ x \in Running /\ calls[x] \in Call
      BY <2>1, <2>3 DEF Typed, TypeOK, Running
    <3>2. CallOK(calls[x]) /\ RoomOK(rooms, calls[x])
      BY <3>1 DEF Typed, CallsOK
    <3>3. ASSUME NEW c \in Call, c = calls[x]
          PROVE CallOK(c)' /\ RoomOK(rooms', c)
      BY <1>1, <3>1, <3>2, <3>3, Untouched
    <3> QED BY <3>1, <3>3 DEF CallOK, RoomOK, HasRoom
  <2> QED BY <2>2, <2>3
<1> QED BY <1>2, <1>3, <1>4 DEF Typed, CallsOK

\* What is known of the call whose step it is.
LEMMA Here ==
    ASSUME Typed, NEW k \in Running
    PROVE  /\ k \in Calls /\ calls[k] \in Call
           /\ calls[k].user \in Users /\ CallOK(calls[k]) /\ RoomOK(rooms, calls[k])
BY DEF Typed, TypeOK, CallsOK, Running, Call

\* Such a step that leaves the chats alone.
LEMMA OneMoves ==
    ASSUME Typed, UNCHANGED <<events, tree, chat>>, NEW k \in Calls, NEW new \in Call \cup {None},
           calls' = [calls EXCEPT ![k] = new], new # None => CallOK(new) /\ RoomOK(rooms, new)
    PROVE  Typed'
<1>1. RoomsStay
  BY DEF chat, RoomsStay
<1>2. RoomOK(rooms', new) = RoomOK(rooms, new)
  BY DEF chat, RoomOK, HasRoom
<1>3. /\ rooms' \in [RoomIds -> Room \cup {None}]
      /\ members' \subseteq {r \in RoomIds : rooms'[r] # None} \X Rows
      /\ posted' \subseteq members' /\ raced' \subseteq Users
  BY DEF chat, Typed, TypeOK
<1> QED BY <1>1, <1>2, <1>3, OneCall

\* One field of a call changes.
LEMMA Fields ==
    ASSUME NEW c \in Call
    PROVE  /\ \A u \in Users : [c EXCEPT !.user = u] \in Call
           /\ \A u \in Users \cup {None} : [c EXCEPT !.next = u] \in Call
           /\ \A u \in Users \cup {None} : [c EXCEPT !.root = u] \in Call
           /\ \A s \in SUBSET Users : [c EXCEPT !.passed = s] \in Call
           /\ \A s \in SUBSET Users : [c EXCEPT !.todo = s] \in Call
           /\ \A s \in SUBSET (Users \cup {None}) : [c EXCEPT !.roots = s] \in Call
           /\ \A n \in 0..2 : [c EXCEPT !.moves = n] \in Call
           /\ \A pc \in {"walk", "self", "find", "decide", "enter", "save"} :
                 [c EXCEPT !.pc = pc] \in Call
<1>1. \A u \in Users : [c EXCEPT !.user = u] \in Call
  BY DEF Call
<1>2. \A u \in Users \cup {None} : [c EXCEPT !.next = u] \in Call
  BY DEF Call
<1>3. \A u \in Users \cup {None} : [c EXCEPT !.root = u] \in Call
  BY DEF Call
<1>4. \A s \in SUBSET Users : [c EXCEPT !.passed = s] \in Call
  BY DEF Call
<1>5. \A s \in SUBSET Users : [c EXCEPT !.todo = s] \in Call
  BY DEF Call
<1>6. \A s \in SUBSET (Users \cup {None}) : [c EXCEPT !.roots = s] \in Call
  BY DEF Call
<1>7. \A n \in 0..2 : [c EXCEPT !.moves = n] \in Call
  BY DEF Call
<1>8. \A pc \in {"walk", "self", "find", "decide", "enter", "save"} :
          [c EXCEPT !.pc = pc] \in Call
  BY DEF Call
<1> QED BY <1>1, <1>2, <1>3, <1>4, <1>5, <1>6, <1>7, <1>8

\* What the steps of a walk make of a call.
LEMMA WalkRecords ==
    ASSUME NEW c \in Call, NEW u \in Users, NEW pc \in {"self", "find", "decide"}
    PROVE  /\ [c EXCEPT !.root = u, !.next = None, !.pc = pc] \in Call
           /\ [c EXCEPT !.next = None, !.pc = pc] \in Call
           /\ [c EXCEPT !.next = u] \in Call
           /\ [c EXCEPT !.passed = @ \cup {u}] \in Call
<1>1. [c EXCEPT !.root = u, !.next = None, !.pc = pc] \in Call
  <2>1. [c EXCEPT !.root = u] \in Call
    BY DEF Call
  <2> DEFINE d == [c EXCEPT !.root = u]
  <2>2. [c EXCEPT !.root = u, !.next = None, !.pc = pc] = [d EXCEPT !.next = None, !.pc = pc]
    BY <2>1 DEF Call
  <2> HIDE DEF d
  <2>3. d \in Call => [d EXCEPT !.next = None, !.pc = pc] \in Call
    BY DEF Call
  <2> QED BY <2>1, <2>2, <2>3 DEF d
<1>2. [c EXCEPT !.next = None, !.pc = pc] \in Call
  BY DEF Call
<1>3. [c EXCEPT !.next = u] \in Call
  BY DEF Call
<1>4. [c EXCEPT !.passed = @ \cup {u}] \in Call
  BY DEF Call
<1> QED BY <1>1, <1>2, <1>3, <1>4

\* A walk starts with a call that is otherwise as it was.
LEMMA StartType ==
    ASSUME NEW c \in Call, NEW u \in Users PROVE Start(c, u) \in Call
<1>1. Nearest(role, parent, u) \in Users \cup {None}
  BY NearestType
<1> DEFINE n == Nearest(role, parent, u)
           c1 == [c EXCEPT !.user = u]
           c2 == [c1 EXCEPT !.pc = "walk"]
           c3 == [c2 EXCEPT !.next = u]
           c4 == [c3 EXCEPT !.passed = {}]
           c5 == [c4 EXCEPT !.root = None]
           c6 == [c5 EXCEPT !.roots = {n}]
           c7 == [c6 EXCEPT !.moves = 0]
<1>2. Start(c, u) = c7
  BY DEF Start
<1>3. c1 \in Call
  BY Fields
<1> HIDE DEF n, c1
<1>4. c2 \in Call
  BY <1>3, Fields
<1> HIDE DEF c2
<1>5. c3 \in Call
  BY <1>4, Fields
<1> HIDE DEF c3
<1>6. c4 \in Call
  BY <1>5, Fields
<1> HIDE DEF c4
<1>7. c5 \in Call
  BY <1>6, Fields
<1> HIDE DEF c5
<1>8. c6 \in Call
  BY <1>1, <1>7, Fields DEF n
<1> HIDE DEF c6
<1>9. c7 \in Call
  <2>1. 0 \in 0..2
    OBVIOUS
  <2> QED BY <1>8, <2>1, Fields
<1> HIDE DEF c7
<1> QED BY <1>2, <1>9

\* Reading a row of the tree keeps the types,
LEMMA WalkTyped == ASSUME Typed, NEW k \in Calls, Walk(k) PROVE Typed'
<1> DEFINE c == calls[k]
           call == [c EXCEPT !.passed = @ \cup {c.next}]
           found == IF c.kind \in {"open"} \cup Listeners THEN "find" ELSE "decide"
           lost == IF c.kind \in {"open"} \cup Listeners THEN "self" ELSE "decide"
           new == IF Stops(c.next) THEN [call EXCEPT !.root = c.next, !.next = None, !.pc = found]
                  ELSE IF parent[c.next] \in call.passed \cup {None}
                  THEN [call EXCEPT !.next = None, !.pc = lost]
                  ELSE [call EXCEPT !.next = parent[c.next]]
<1>1. k \in Running /\ c.pc = "walk" /\ calls' = [calls EXCEPT ![k] = new]
  BY DEF Walk, At
<1>2. c \in Call /\ CallOK(c) /\ RoomOK(rooms, c) /\ c.next \in Users
  BY <1>1, Here DEF CallOK, Call
<1>3. parent[c.next] \in Users \cup {None}
  BY <1>2 DEF Typed, TypeOK
<1>4. new \in Call
  <2>1. call \in Call
    BY <1>2, WalkRecords
  <2>2. found \in {"self", "find", "decide"} /\ lost \in {"self", "find", "decide"}
    OBVIOUS
  <2>3. parent[c.next] \notin call.passed \cup {None} => parent[c.next] \in Users
    BY <1>3
  <2> HIDE DEF call, found, lost, c
  <2> QED BY <1>2, <2>1, <2>2, <2>3, WalkRecords
<1>5. /\ new.user = c.user /\ new.kind = c.kind /\ new.todo = c.todo
      /\ new.row = c.row /\ new.room = c.room
      /\ \/ new.pc = found /\ new.root = c.next
         \/ new.pc = lost /\ new.root = None
         \/ new.pc = "walk" /\ new.next # None /\ new.root = None
  BY <1>1, <1>2, <1>3 DEF Call, CallOK
<1> HIDE DEF new
<1>6. CallOK(new)
  BY <1>1, <1>2, <1>5, NoneAssumption DEF CallOK, Joiners, JoinPcs, RootPcs, AskPcs
<1>7. RoomOK(rooms, new)
  BY <1>1, <1>2, <1>5 DEF RoomOK, HasRoom, Joiners
<1>8. UNCHANGED <<events, tree, chat>>
  BY DEF Walk
<1> QED BY <1>1, <1>4, <1>6, <1>7, <1>8, OneMoves

\* A call that is done with a user.
LEMMA FinishedType ==
    ASSUME Typed, NEW c \in Call, CallOK(c), c.pc \in JoinPcs, c.row = None
    PROVE  LET new == Finished(c) IN
           new \in Call \cup {None} /\ (new # None => CallOK(new) /\ RoomOK(rooms, new))
<1> DEFINE r == CHOOSE r \in c.todo : TRUE
           next == [c EXCEPT !.root = r, !.todo = @ \ {r}, !.pc = "find"]
           children == [c EXCEPT !.pc = "children"]
<1>1. CASE c.kind = "moved"
  <2>1. children \in Call
    BY DEF Call
  <2>2. CallOK(children) /\ RoomOK(rooms, children)
    BY <1>1 DEF Call, CallOK, RoomOK, HasRoom, Joiners, Listeners, JoinPcs, AskPcs, RootPcs
  <2> QED BY <1>1, <2>1, <2>2 DEF Finished
<1>2. CASE c.kind # "moved" /\ c.todo # {}
  <2>1. r \in c.todo /\ r \in Users
    BY <1>2 DEF Call
  <2> HIDE DEF r
  <2>2. next \in Call
    <3> DEFINE rooted == [c EXCEPT !.root = r]
               rest == [rooted EXCEPT !.todo = c.todo \ {r}]
    <3>1. rooted \in Call
      BY <2>1, Fields
    <3>2. c.todo \ {r} \in SUBSET Users
      BY DEF Call
    <3>3. next = [rest EXCEPT !.pc = "find"]
      BY DEF Call
    <3> HIDE DEF next, rooted
    <3>4. rest \in Call
      BY <3>1, <3>2, Fields
    <3> HIDE DEF rest
    <3> QED BY <3>3, <3>4, Fields
  <2>3. CallOK(next) /\ RoomOK(rooms, next)
    BY <1>2, <2>1, NoneAssumption
       DEF Call, CallOK, RoomOK, HasRoom, Joiners, JoinPcs, AskPcs, RootPcs
  <2>4. Finished(c) = next
    BY <1>2 DEF Finished, r
  <2> QED BY <2>2, <2>3, <2>4
<1>3. CASE c.kind # "moved" /\ c.todo = {}
  BY <1>3 DEF Finished
<1> QED BY <1>1, <1>2, <1>3

\* so does a user's own rank,
LEMMA SelfTyped == ASSUME Typed, NEW k \in Calls, Self(k) PROVE Typed'
<1> DEFINE c == calls[k]
           new == IF role[c.user] = 2 THEN [c EXCEPT !.root = c.user, !.pc = "find"]
                  ELSE Finished(c)
<1>1. k \in Running /\ c.pc = "self" /\ calls' = [calls EXCEPT ![k] = new]
  BY DEF Self, At
<1>2. c \in Call /\ c.user \in Users /\ CallOK(c) /\ RoomOK(rooms, c)
  BY <1>1, Here
<1>3. c.row = None
  BY <1>1, <1>2 DEF CallOK, JoinPcs
<1>4. CASE role[c.user] = 2
  <2> DEFINE find == [c EXCEPT !.root = c.user, !.pc = "find"]
  <2>1. find \in Call
    BY <1>2 DEF Call
  <2>2. CallOK(find) /\ RoomOK(rooms, find)
    BY <1>1, <1>2, <1>3, NoneAssumption DEF Call, CallOK, RoomOK, HasRoom, JoinPcs, AskPcs,
        RootPcs
  <2> QED BY <1>1, <1>4, <2>1, <2>2, OneMoves DEF Self
<1>5. CASE role[c.user] # 2
  <2>1. new = Finished(c) /\ c.pc \in JoinPcs
    BY <1>1, <1>5 DEF JoinPcs
  <2> HIDE DEF new
  <2> QED BY <1>1, <1>2, <1>3, <2>1, OneMoves, FinishedType DEF Self
<1> QED BY <1>4, <1>5

\* the search for a group,
LEMMA FindTyped == ASSUME Typed, NEW k \in Calls, Find(k) PROVE Typed'
<1> DEFINE c == calls[k]
<1>1. k \in Running /\ c.pc = "find" /\ UNCHANGED <<events, tree, chat>>
  BY DEF Find, At
<1>2. c \in Call /\ CallOK(c) /\ RoomOK(rooms, c)
  BY <1>1, Here
<1>3. c.row = None /\ c.kind \in Joiners
  BY <1>1, <1>2 DEF CallOK, JoinPcs
<1>4. CASE Go(k, "legacy")
  <2> DEFINE new == [c EXCEPT !.pc = "legacy"]
  <2>1. calls' = [calls EXCEPT ![k] = new]
    BY <1>4 DEF Go
  <2>2. new \in Call
    BY <1>2 DEF Call
  <2>3. CallOK(new) /\ RoomOK(rooms, new)
    BY <1>1, <1>2, <1>3 DEF Call, CallOK, RoomOK, HasRoom, JoinPcs, AskPcs, RootPcs
  <2> QED BY <1>1, <2>1, <2>2, <2>3, OneMoves
<1>5. ASSUME NEW r \in GroupsOf(c.root),
             calls' = [calls EXCEPT ![k].room = r, ![k].pc = "enter"]
      PROVE  Typed'
  <2> DEFINE new == [c EXCEPT !.room = r, !.pc = "enter"]
  <2>1. calls' = [calls EXCEPT ![k] = new]
    BY <1>1, <1>5 DEF Typed, TypeOK
  <2>2. r \in RoomIds /\ rooms[r] # None /\ rooms[r].root = c.root
    BY DEF GroupsOf
  <2>3. new \in Call
    BY <1>2, <2>2 DEF Call
  <2>4. CallOK(new) /\ RoomOK(rooms, new)
    BY <1>1, <1>2, <1>3, <2>2, NoneAssumption
       DEF Call, CallOK, RoomOK, HasRoom, JoinPcs, AskPcs, RootPcs
  <2> QED BY <1>1, <2>1, <2>3, <2>4, OneMoves
<1> QED BY <1>4, <1>5 DEF Find

\* the search for an old one,
LEMMA LegacyTyped == ASSUME Typed, NEW k \in Calls, Legacy(k) PROVE Typed'
<1> DEFINE c == calls[k]
<1>1. k \in Running /\ c.pc = "legacy" /\ UNCHANGED <<events, tree, chat>>
  BY DEF Legacy, At
<1>2. c \in Call /\ CallOK(c) /\ RoomOK(rooms, c)
  BY <1>1, Here
<1>3. c.row = None /\ c.kind \in Joiners
  BY <1>1, <1>2 DEF CallOK, JoinPcs
<1>4. CASE Go(k, "create")
  <2> DEFINE new == [c EXCEPT !.pc = "create"]
  <2>1. calls' = [calls EXCEPT ![k] = new]
    BY <1>4 DEF Go
  <2>2. new \in Call
    BY <1>2 DEF Call
  <2>3. CallOK(new) /\ RoomOK(rooms, new)
    BY <1>1, <1>2, <1>3 DEF Call, CallOK, RoomOK, HasRoom, JoinPcs, AskPcs, RootPcs
  <2> QED BY <1>1, <2>1, <2>2, <2>3, OneMoves
<1>5. ASSUME NEW r \in GroupsOf(c.root),
             calls' = [calls EXCEPT ![k].room = r, ![k].row = rooms[r], ![k].pc = "adopt"]
      PROVE  Typed'
  <2> DEFINE new == [c EXCEPT !.room = r, !.row = rooms[r], !.pc = "adopt"]
  <2>1. calls' = [calls EXCEPT ![k] = new]
    BY <1>1, <1>5 DEF Typed, TypeOK
  <2>2. r \in RoomIds /\ rooms[r] # None /\ rooms[r] \in Room /\ rooms[r].root = c.root
    BY DEF GroupsOf, Typed, TypeOK
  <2>3. new \in Call
    BY <1>2, <2>2 DEF Call
  <2>4. CallOK(new) /\ RoomOK(rooms, new)
    BY <1>1, <1>2, <1>3, <2>2, NoneAssumption
       DEF Call, CallOK, RoomOK, HasRoom, JoinPcs, AskPcs, RootPcs
  <2> QED BY <1>1, <2>1, <2>3, <2>4, OneMoves
<1> QED BY <1>4, <1>5 DEF Legacy

\* the way down to the next user,
LEMMA DescendTyped == ASSUME Typed, NEW k \in Calls, Descend(k) PROVE Typed'
<1> DEFINE c == calls[k]
           todo == c.todo \cup Below(c.user)
<1>1. /\ k \in Running /\ c.pc = "children" /\ UNCHANGED <<events, tree, chat>>
      /\ IF todo = {} THEN Return(k)
         ELSE \E u \in todo :
                 calls' = [calls EXCEPT ![k] = Start([c EXCEPT !.todo = todo \ {u}], u)]
  BY DEF Descend, At
<1>2. c \in Call /\ CallOK(c) /\ RoomOK(rooms, c) /\ todo \subseteq Rows /\ Rows \subseteq Users
  BY <1>1, Here DEF CallOK, Below, Children, Rows
<1>3. c.row = None /\ c.kind = "moved"
  BY <1>1, <1>2 DEF CallOK, JoinPcs, Joiners
<1> HIDE DEF todo
<1>4. CASE Return(k)
  BY <1>1, <1>4, OneMoves DEF Return
<1>5. ASSUME NEW u \in todo,
             calls' = [calls EXCEPT ![k] = Start([c EXCEPT !.todo = todo \ {u}], u)]
      PROVE  Typed'
  <2> DEFINE new == Start([c EXCEPT !.todo = todo \ {u}], u)
  <2>1. [c EXCEPT !.todo = todo \ {u}] \in Call
    BY <1>2 DEF Call
  <2>2. new \in Call
    BY <1>2, <2>1, StartType
  <2>3. CallOK(new) /\ RoomOK(rooms, new)
    BY <1>2, <1>3, NoneAssumption
       DEF Call, Start, CallOK, RoomOK, HasRoom, Joiners, Listeners, JoinPcs, AskPcs, RootPcs
  <2> HIDE DEF new
  <2> QED BY <1>1, <1>5, <2>2, <2>3, OneMoves DEF new
<1> QED BY <1>1, <1>4, <1>5

\* A call that begins well formed keeps the types,
LEMMA RequestTyped ==
    ASSUME Typed, NEW k \in Calls, NEW new \in Call, Begin(k, new),
           CallOK(new), RoomOK(rooms, new)
    PROVE  Typed'
<1>1. events' \in 0..MaxEvents
  BY EventsAssumption DEF Begin, Idle, Typed, TypeOK
<1>2. calls' \in [Calls -> Call \cup {None}]
  BY DEF Begin, Typed, TypeOK
<1>3. Rows' = Rows
  BY DEF Begin, tree, Rows
<1>4. TypeOK' /\ RowsOK'
  BY <1>1, <1>2, <1>3 DEF Begin, tree, chat, Typed, TypeOK, RowsOK
<1>5. ASSUME NEW x \in Running' PROVE CallOK(calls[x])' /\ RoomOK(rooms', calls'[x])
  <2>1. x \in Calls /\ calls'[x] # None
    BY <1>5 DEF Running
  <2>2. RoomsStay /\ CallOK(new)' /\ RoomOK(rooms', new)
    BY <1>3 DEF Begin, chat, RoomsStay, CallOK, RoomOK, HasRoom
  <2>3. CASE x = k
    BY <2>1, <2>2, <2>3 DEF Begin, Typed, TypeOK, CallOK, RoomOK, HasRoom
  <2>4. CASE x # k
    <3>1. calls'[x] = calls[x] /\ x \in Running
      BY <2>1, <2>4 DEF Begin, Typed, TypeOK, Running
    <3>2. ASSUME NEW c \in Call, c = calls[x] PROVE CallOK(c)' /\ RoomOK(rooms', c)
      BY <1>3, <2>2, <3>1, <3>2, Here, Untouched
    <3> QED BY <3>1, <3>2, Here DEF CallOK, RoomOK, HasRoom
  <2> QED BY <2>3, <2>4
<1> QED BY <1>4, <1>5 DEF Typed, CallsOK

\* A call that begins.
LEMMA NewCallType ==
    ASSUME NEW kind \in Kinds, NEW u \in Users PROVE NewCall(kind, u) \in Call
BY DEF NewCall, Call

\* a request for the list of rooms among them,
LEMMA OpenRoomsTyped ==
    ASSUME Typed, NEW k \in Calls, NEW u \in Rows, OpenRooms(k, u)
    PROVE  Typed'
<1>1. u \in Users /\ "open" \in Kinds
  BY DEF Rows, Kinds
<1>2. CASE role[u] = 1
  <2> DEFINE c == [NewCall("open", u) EXCEPT !.todo = {x \in Users : role[x] = 2}]
             r == CHOOSE r \in c.todo : TRUE
             new == [c EXCEPT !.root = r, !.todo = @ \ {r}, !.pc = "find"]
  <2>1. c \in Call /\ c.kind = "open" /\ c.user = u /\ c.row = None
    BY <1>1, NewCallType DEF Call, NewCall
  <2>2. Finished(c) # None /\ Begin(k, Finished(c))
    BY <1>2 DEF OpenRooms
  <2> HIDE DEF c
  <2>3. c.todo # {} /\ Finished(c) = new
    BY <2>1, <2>2 DEF Finished
  <2>4. r \in Users /\ c.todo \ {r} \subseteq Users
    BY <2>1, <2>3 DEF Call
  <2> HIDE DEF r
  <2>5. new \in Call
    <3> DEFINE c1 == [c EXCEPT !.root = r]
               c2 == [c1 EXCEPT !.todo = c.todo \ {r}]
    <3>1. new = [c2 EXCEPT !.pc = "find"]
      OBVIOUS
    <3>2. c1 \in Call
      BY <2>1, <2>4, Fields
    <3> HIDE DEF c1
    <3>3. c2 \in Call
      BY <2>4, <3>2, Fields
    <3> HIDE DEF c2, new
    <3> QED BY <3>1, <3>3, Fields
  <2>6. CallOK(new) /\ RoomOK(rooms, new)
    BY <2>1, <2>4, NoneAssumption
       DEF Call, CallOK, RoomOK, HasRoom, Joiners, JoinPcs, AskPcs, RootPcs
  <2> QED BY <2>2, <2>3, <2>5, <2>6, RequestTyped
<1>3. CASE role[u] # 1
  <2> DEFINE new == Start(NewCall("open", u), u)
  <2>1. new \in Call
    BY <1>1, NewCallType, StartType
  <2>2. CallOK(new) /\ RoomOK(rooms, new)
    BY <1>1, NoneAssumption
       DEF NewCall, Start, CallOK, RoomOK, HasRoom, Joiners, JoinPcs, AskPcs, RootPcs
  <2> QED BY <1>3, <2>1, <2>2, RequestTyped DEF OpenRooms
<1> QED BY <1>2, <1>3

\* and a request about a room.
LEMMA AskTyped ==
    ASSUME Typed, NEW k \in Calls, NEW u \in Rows, NEW r \in RoomIds,
           NEW kind \in Settings \cup {"send", "toggle"}, Request(k, kind, u, r)
    PROVE  Typed'
<1> DEFINE c == NewCall(kind, u)
           pc == IF kind \in {"toggle", "limit"} THEN "read" ELSE "role"
           new == [c EXCEPT !.room = r, !.pc = pc]
<1>1. u \in Users /\ kind \in Kinds /\ kind \notin Joiners
  BY DEF Rows, Kinds, Settings, Joiners, Listeners
<1>2. c \in Call
  BY <1>1, NewCallType
<1>3. new \in Call
  BY ZenonT(60), <1>2 DEF Call
<1>4. new.user = u /\ new.kind = kind /\ new.pc = pc /\ new.row = None /\ new.root = None
      /\ new.room = r /\ rooms[r] # None /\ r # None
  BY NoneAssumption DEF Request, NewCall
<1> HIDE DEF new
<1>5. CallOK(new) /\ RoomOK(rooms, new)
  BY <1>1, <1>4 DEF CallOK, RoomOK, HasRoom, Joiners, Listeners, JoinPcs, AskPcs, RootPcs
<1>6. Begin(k, new)
  BY DEF Request, new
<1> QED BY <1>3, <1>5, <1>6, RequestTyped

\* The types are kept by reading a room,
LEMMA ReadRoomTyped == ASSUME Typed, NEW k \in Calls, ReadRoom(k) PROVE Typed'
<1> DEFINE c == calls[k]
           row == [rooms[c.room] EXCEPT !.locked =
                      IF c.kind = "send" THEN @ /\ role[c.user] # 2 ELSE @]
           pc == IF c.pc # "read" THEN c.pc ELSE IF c.kind = "toggle" THEN "save" ELSE "role"
           new == [c EXCEPT !.row = row, !.pc = pc]
<1>1. k \in Running /\ c.kind \notin Joiners /\ c.row = None /\ UNCHANGED <<events, tree, chat>>
  BY DEF ReadRoom, Joiners
<1>2. c \in Call /\ CallOK(c) /\ RoomOK(rooms, c)
  BY <1>1, Here
<1>3. calls' = [calls EXCEPT ![k] = new]
  BY <1>1 DEF ReadRoom, Typed, TypeOK
<1>4. c.room \in RoomIds /\ rooms[c.room] # None /\ rooms[c.room] \in Room
  BY <1>1, <1>2 DEF RoomOK, HasRoom, Call, Typed, TypeOK
<1>5. row \in Room /\ row.root = rooms[c.room].root
  BY <1>4 DEF Room
<1>6. row # None
  BY <1>5, NullAssumption
<1>7. pc \in {"read", "role", "walk", "self", "find", "legacy", "adopt", "create",
              "enter", "children", "decide", "save"}
  BY <1>2 DEF Call
<1>8. (pc = c.pc \/ (c.pc = "read" /\ pc \in {"save", "role"}))
  OBVIOUS
<1> HIDE DEF row, pc
<1>9. new \in Call
  BY <1>2, <1>5, <1>7 DEF Call
<1>10. CallOK(new)
  BY <1>1, <1>2, <1>6, <1>8 DEF Call, CallOK, JoinPcs, AskPcs, RootPcs
<1>11. RoomOK(rooms, new)
  BY <1>1, <1>2, <1>4, <1>5, <1>8 DEF Call, CallOK, RoomOK, HasRoom, JoinPcs, AskPcs
<1> QED BY <1>1, <1>3, <1>9, <1>10, <1>11, OneMoves

\* by making a group,
LEMMA CreateRoomTyped == ASSUME Typed, NEW k \in Calls, CreateRoom(k) PROVE Typed'
<1> DEFINE c == calls[k]
<1>1. PICK r \in RoomIds :
         /\ rooms[r] = None
         /\ rooms' = [rooms EXCEPT ![r] =
               [root |-> c.root, locked |-> FALSE, limit |-> FALSE, pinned |-> FALSE]]
         /\ calls' = [calls EXCEPT ![k].room = r, ![k].pc = "enter"]
  BY DEF CreateRoom
<1>2. k \in Running /\ c.pc = "create"
  BY DEF CreateRoom, At
<1>3. c \in Call /\ CallOK(c) /\ RoomOK(rooms, c)
  BY <1>2, Here
<1>4. c.row = None /\ c.kind \in Joiners /\ c.root \in Users
  BY <1>2, <1>3 DEF CallOK, JoinPcs, RootPcs, Call
<1> DEFINE new == [c EXCEPT !.room = r, !.pc = "enter"]
           row == [root |-> c.root, locked |-> FALSE, limit |-> FALSE, pinned |-> FALSE]
<1>5. calls' = [calls EXCEPT ![k] = new]
  BY <1>1, <1>2 DEF Typed, TypeOK
<1>6. row \in Room /\ row # None /\ row.root = c.root
  <2>1. row \in Room
    BY <1>4 DEF Room
  <2> QED BY <2>1, NullAssumption
<1> HIDE DEF row
<1>7. rooms' \in [RoomIds -> Room \cup {None}] /\ RoomsStay /\ rooms'[r] = row
  BY <1>1, <1>6 DEF Typed, TypeOK, RoomsStay, row
<1>8. new \in Call
  BY <1>3 DEF Call
<1>9. CallOK(new) /\ RoomOK(rooms', new)
  BY <1>2, <1>3, <1>4, <1>6, <1>7, NoneAssumption
     DEF Call, CallOK, RoomOK, HasRoom, JoinPcs, AskPcs, RootPcs
<1>10. /\ members' \subseteq {x \in RoomIds : rooms'[x] # None} \X Rows
       /\ posted' \subseteq members'
  BY <1>7 DEF CreateRoom, Typed, TypeOK, RoomsStay
<1>11. raced' \subseteq Users /\ UNCHANGED <<events, tree>>
  BY <1>4 DEF CreateRoom, Typed, TypeOK
<1> QED BY <1>5, <1>7, <1>8, <1>9, <1>10, <1>11, OneCall

\* by entering one,
LEMMA EnterTyped == ASSUME Typed, NEW k \in Calls, Enter(k) PROVE Typed'
<1> DEFINE c == calls[k]
           out == [c EXCEPT !.room = None]
           new == Finished(out)
<1>1. k \in Running /\ c.pc = "enter" /\ calls' = [calls EXCEPT ![k] = new]
  BY DEF Enter, At, Typed, TypeOK
<1>2. c \in Call /\ CallOK(c) /\ RoomOK(rooms, c)
  BY <1>1, Here
<1>3. c.row = None /\ c.kind \in Joiners
  BY <1>1, <1>2 DEF CallOK, JoinPcs
<1>4. c.room \in RoomIds /\ rooms[c.room] # None
  BY <1>1, <1>2 DEF RoomOK, HasRoom, Call
<1>5. out \in Call
  BY <1>2 DEF Call
<1>6. CallOK(out) /\ out.pc \in JoinPcs /\ out.row = None
  BY <1>1, <1>2, <1>3 DEF Call, CallOK, JoinPcs
<1> HIDE DEF out
<1>7. new \in Call \cup {None} /\ (new # None => CallOK(new) /\ RoomOK(rooms, new))
  BY <1>5, <1>6, FinishedType
<1>8. Entering(c) \subseteq Rows
  BY <1>2 DEF Entering, Descendants, CallOK
<1>9. UNCHANGED <<events, tree, rooms, posted, raced>>
      /\ members' = members \cup {<<c.room, u>> : u \in Entering(c)}
  BY DEF Enter
<1> HIDE DEF new
<1>10. /\ rooms' \in [RoomIds -> Room \cup {None}] /\ RoomsStay /\ raced' \subseteq Users
       /\ members' \subseteq {x \in RoomIds : rooms'[x] # None} \X Rows
       /\ posted' \subseteq members'
  BY <1>4, <1>8, <1>9 DEF Typed, TypeOK, RoomsStay
<1>11. RoomOK(rooms', new) = RoomOK(rooms, new)
  BY <1>9 DEF RoomOK, HasRoom
<1> QED BY <1>1, <1>7, <1>9, <1>10, <1>11, OneCall

\* by the look at who the caller is,
LEMMA CheckRoleTyped == ASSUME Typed, NEW k \in Calls, CheckRole(k) PROVE Typed'
<1> DEFINE c == calls[k]
<1>1. k \in Running /\ c.pc = "role" /\ UNCHANGED <<events, tree, rooms, posted, raced>>
  BY DEF CheckRole, At
<1>2. c \in Call /\ c.user \in Users /\ CallOK(c) /\ RoomOK(rooms, c)
  BY <1>1, Here
<1>3. c.root = None /\ c.kind \notin Joiners /\ c.room \in RoomIds /\ rooms[c.room] # None
  BY <1>1, <1>2 DEF CallOK, AskPcs, RoomOK, HasRoom, Call
<1>4. ASSUME members' \subseteq members \cup {<<c.room, c.user>>}, members \subseteq members',
             NEW new \in Call, CallOK(new), RoomOK(rooms, new), calls' = [calls EXCEPT ![k] = new]
      PROVE  Typed'
  <2>1. c.user \in Rows
    BY <1>2 DEF CallOK
  <2>2. /\ rooms' \in [RoomIds -> Room \cup {None}] /\ RoomsStay /\ raced' \subseteq Users
        /\ members' \subseteq {x \in RoomIds : rooms'[x] # None} \X Rows
        /\ posted' \subseteq members'
    BY <1>1, <1>3, <1>4, <2>1 DEF Typed, TypeOK, RoomsStay
  <2>3. RoomOK(rooms', new) = RoomOK(rooms, new)
    BY <1>1 DEF RoomOK, HasRoom
  <2> QED BY <1>1, <1>4, <2>2, <2>3, OneCall
<1>5. CASE Admit(k) /\ Go(k, "save")
  <2> DEFINE new == [c EXCEPT !.pc = "save"]
  <2>1. new \in Call
    BY <1>2, Fields
  <2>2. CallOK(new) /\ RoomOK(rooms, new)
    BY <1>1, <1>2, <1>3 DEF Call, CallOK, RoomOK, HasRoom, JoinPcs, AskPcs, RootPcs
  <2> QED BY <1>4, <1>5, <2>1, <2>2 DEF Admit, Go
<1>6. CASE calls' = [calls EXCEPT ![k] = Start(@, @.user)] /\ UNCHANGED members
  <2> DEFINE new == Start(c, c.user)
  <2>1. new \in Call
    BY <1>2, StartType
  <2>2. CallOK(new) /\ RoomOK(rooms, new)
    BY <1>1, <1>2, <1>3, NoneAssumption
       DEF Call, Start, CallOK, RoomOK, HasRoom, JoinPcs, AskPcs, RootPcs
  <2>3. calls' = [calls EXCEPT ![k] = new]
    BY <1>1, <1>6 DEF Typed, TypeOK
  <2> HIDE DEF new
  <2> QED BY <1>4, <1>6, <2>1, <2>2, <2>3
<1> QED BY <1>5, <1>6 DEF CheckRole

\* A call that returns, and what it may have written.
LEMMA ReturnTyped ==
    ASSUME Typed, NEW k \in Calls, Return(k), UNCHANGED <<events, tree, rooms, raced>>,
           members' = members, posted' \subseteq members
    PROVE  Typed'
<1>1. /\ rooms' \in [RoomIds -> Room \cup {None}] /\ RoomsStay /\ raced' \subseteq Users
      /\ members' \subseteq {x \in RoomIds : rooms'[x] # None} \X Rows
      /\ posted' \subseteq members'
  BY DEF Typed, TypeOK, RoomsStay
<1> QED BY <1>1, OneCall DEF Return

\* by the verdict on him,
LEMMA DecideTyped == ASSUME Typed, NEW k \in Calls, Decide(k) PROVE Typed'
<1> DEFINE c == calls[k]
           new == [c EXCEPT !.pc = "save"]
<1>1. k \in Running /\ c.pc = "decide" /\ UNCHANGED <<events, tree, rooms, posted, raced>>
  BY DEF Decide, At
<1>2. c \in Call /\ c.user \in Users /\ CallOK(c) /\ RoomOK(rooms, c)
  BY <1>1, Here
<1>3. c.kind \notin Joiners /\ c.room \in RoomIds /\ rooms[c.room] # None
  BY <1>1, <1>2 DEF CallOK, AskPcs, RoomOK, HasRoom, Call
<1>4. CASE ~ Allowed(k)
  BY <1>1, <1>4, ReturnTyped DEF Decide, Typed, TypeOK
<1>5. CASE Allowed(k)
  <2>1. calls' = [calls EXCEPT ![k] = new] /\ members' = members \cup {<<c.room, c.user>>}
    BY <1>5 DEF Decide, Admit, Go
  <2>2. new \in Call
    BY <1>2, Fields
  <2>3. CallOK(new) /\ RoomOK(rooms, new)
    BY <1>1, <1>2, <1>3, <1>5
       DEF Allowed, Call, CallOK, RoomOK, HasRoom, JoinPcs, AskPcs, RootPcs
  <2>4. c.user \in Rows
    BY <1>2 DEF CallOK
  <2>5. /\ rooms' \in [RoomIds -> Room \cup {None}] /\ RoomsStay /\ raced' \subseteq Users
        /\ members' \subseteq {x \in RoomIds : rooms'[x] # None} \X Rows
        /\ posted' \subseteq members'
    BY <1>1, <1>3, <2>1, <2>4 DEF Typed, TypeOK, RoomsStay
  <2>6. RoomOK(rooms', new) = RoomOK(rooms, new)
    BY <1>1
  <2> HIDE DEF new
  <2> QED BY <1>1, <2>1, <2>2, <2>3, <2>5, <2>6, OneCall
<1> QED BY <1>4, <1>5

\* by a restart of the process.
LEMMA RestartTyped == ASSUME Typed, Restart PROVE Typed'
<1>1. events' \in 0..MaxEvents /\ UNCHANGED <<tree, chat>>
  BY EventsAssumption DEF Restart, Typed, TypeOK
<1>2. Rows' = Rows /\ Running' = {} /\ calls' \in [Calls -> Call \cup {None}]
  BY <1>1 DEF tree, Rows, Restart, Running
<1>3. TypeOK'
  BY <1>1, <1>2 DEF tree, chat, Typed, TypeOK
<1> QED BY <1>1, <1>2, <1>3 DEF tree, Typed, RowsOK, CallsOK

\* What a save makes of a room.
LEMMA SavedRow ==
    ASSUME NEW c \in Call, c.row # None
    PROVE  /\ Saved(c) \in Room /\ Saved(c) # None
           /\ Saved(c).root = c.row.root
           /\ c.kind # "toggle" => Saved(c).locked = c.row.locked
<1>1. c.row \in Room
  BY DEF Call
<1>2. CASE c.kind = "toggle"
  <2>1. Saved(c) = [c.row EXCEPT !.locked = ~ @]
    BY <1>2 DEF Saved
  <2> QED BY <1>1, <1>2, <2>1, NullAssumption DEF Room
<1>3. CASE c.kind = "limit"
  <2>1. Saved(c) = [c.row EXCEPT !.limit = ~ @]
    BY <1>3 DEF Saved
  <2> QED BY <1>1, <1>3, <2>1, NullAssumption DEF Room
<1>4. CASE c.kind \in {"pin", "unpin"}
  <2>1. Saved(c) = [c.row EXCEPT !.pinned = (c.kind = "pin")]
    BY <1>4 DEF Saved
  <2> QED BY <1>1, <1>4, <2>1, NullAssumption DEF Room
<1>5. CASE c.kind \notin {"toggle", "limit", "pin", "unpin"}
  <2>1. Saved(c) = c.row
    BY <1>5 DEF Saved
  <2> QED BY <1>1, <2>1
<1> QED BY <1>2, <1>3, <1>4, <1>5

\* Saving a copy keeps the rooms and all the calls but the one that saves.
LEMMA WriteKeeps ==
    ASSUME Typed, NEW k \in Running, calls[k].row # None, NEW then, Write(k, then)
    PROVE  /\ rooms' \in [RoomIds -> Room \cup {None}] /\ RoomsStay
           /\ calls[k].room \in RoomIds /\ rooms[calls[k].room] # None
           /\ rooms' = [rooms EXCEPT ![calls[k].room] = Saved(calls[k])]
           /\ \A x \in Calls \ {k} :
                 \/ calls'[x] = calls[x]
                 \/ x \in Running /\ calls'[x] = [calls[x] EXCEPT !.late = TRUE]
           /\ calls'[k] = then
           /\ calls' = [x \in Calls |-> calls'[x]]
<1> DEFINE c == calls[k]
<1>1. k \in Calls /\ c \in Call /\ RoomOK(rooms, c)
  BY Here
<1>2. /\ c.room \in RoomIds /\ rooms[c.room] # None /\ c.row.root = rooms[c.room].root
  BY <1>1 DEF RoomOK, HasRoom, Call
<1>3. Saved(c) \in Room /\ Saved(c) # None /\ Saved(c).root = c.row.root
  BY <1>1, SavedRow
<1>4. rooms' = [rooms EXCEPT ![c.room] = Saved(c)]
  BY DEF Write
<1>5. rooms' \in [RoomIds -> Room \cup {None}] /\ RoomsStay
  BY <1>2, <1>3, <1>4 DEF Typed, TypeOK, RoomsStay
<1>6. /\ \A x \in Calls \ {k} :
            \/ calls'[x] = calls[x]
            \/ x \in Running /\ calls'[x] = [calls[x] EXCEPT !.late = TRUE]
      /\ calls'[k] = then
      /\ calls' = [x \in Calls |-> calls'[x]]
  BY <1>1 DEF Write
<1> QED BY <1>1, <1>2, <1>4, <1>5, <1>6

\* A room that is written stays the same super admin's.
LEMMA WriteTyped ==
    ASSUME Typed, NEW k \in Running, calls[k].row # None, NEW then \in Call \cup {None},
           Write(k, then), UNCHANGED <<events, tree, members, posted, raced>>,
           then # None => CallOK(then) /\ RoomOK(rooms, then)
    PROVE  Typed'
<1>1. /\ rooms' \in [RoomIds -> Room \cup {None}] /\ RoomsStay
      /\ \A x \in Calls \ {k} :
            \/ calls'[x] = calls[x]
            \/ x \in Running /\ calls'[x] = [calls[x] EXCEPT !.late = TRUE]
      /\ calls'[k] = then
      /\ calls' = [x \in Calls |-> calls'[x]]
  BY WriteKeeps
<1>2. ASSUME NEW x \in Calls
      PROVE  /\ calls'[x] \in Call \cup {None}
             /\ calls'[x] # None => CallOK(calls'[x]) /\ RoomOK(rooms, calls'[x])
  <2>1. CASE x = k
    BY <1>1, <2>1
  <2>2. CASE x # k /\ calls'[x] = calls[x]
    BY <2>2 DEF Typed, TypeOK, CallsOK, Running
  <2>3. CASE x \in Running /\ calls'[x] = [calls[x] EXCEPT !.late = TRUE]
    <3>1. calls[x] \in Call /\ CallOK(calls[x]) /\ RoomOK(rooms, calls[x])
      BY <2>3, Here
    <3> DEFINE c == calls[x]
               d == [c EXCEPT !.late = TRUE]
    <3>2. d \in Call
      BY <3>1 DEF Call
    <3>3. CallOK(d) /\ RoomOK(rooms, d)
      BY <3>1 DEF Call, CallOK, RoomOK, HasRoom
    <3> QED BY <2>3, <3>2, <3>3
  <2> QED BY <1>1, <2>1, <2>2, <2>3
<1>3. Rows' = Rows
  BY DEF tree, Rows
<1>4. calls' \in [Calls -> Call \cup {None}]
  BY <1>1, <1>2
<1>5. TypeOK' /\ RowsOK'
  BY <1>1, <1>3, <1>4 DEF tree, Typed, TypeOK, RowsOK, RoomsStay
<1>6. ASSUME NEW x \in Running' PROVE CallOK(calls[x])' /\ RoomOK(rooms', calls'[x])
  <2>1. x \in Calls /\ calls'[x] # None /\ calls'[x] \in Call
    BY <1>2, <1>6 DEF Running
  <2>2. ASSUME NEW c \in Call, c = calls'[x] PROVE CallOK(c)' /\ RoomOK(rooms', c)
    BY <1>1, <1>2, <1>3, <2>1, <2>2, Untouched
  <2> QED BY <2>1, <2>2 DEF CallOK
<1> QED BY <1>5, <1>6 DEF Typed, CallsOK

\* The types are kept by adopting an old group,
LEMMA AdoptTyped == ASSUME Typed, NEW k \in Calls, Adopt(k) PROVE Typed'
<1> DEFINE c == calls[k]
           new == [c EXCEPT !.row = None, !.late = FALSE, !.pc = "enter"]
<1>1. k \in Running /\ c.pc = "adopt" /\ Write(k, new)
      /\ UNCHANGED <<events, tree, members, posted, raced>>
  BY DEF Adopt, At
<1>2. c \in Call /\ CallOK(c) /\ RoomOK(rooms, c)
  BY <1>1, Here
<1>3. c.row # None /\ c.kind \in Joiners
  BY <1>1, <1>2 DEF CallOK, JoinPcs
<1>4. new \in Call
  BY <1>2 DEF Call
<1>5. CallOK(new) /\ RoomOK(rooms, new)
  BY <1>1, <1>2, <1>3 DEF Call, CallOK, RoomOK, HasRoom, JoinPcs, AskPcs, RootPcs
<1> HIDE DEF new
<1> QED BY <1>1, <1>3, <1>4, <1>5, WriteTyped

\* by saving a copy,
LEMMA SaveRoomTyped == ASSUME Typed, NEW k \in Calls, SaveRoom(k) PROVE Typed'
<1>1. k \in Running /\ calls[k].row # None /\ UNCHANGED <<events, tree, members, posted, raced>>
  BY DEF SaveRoom, At
<1>2. CASE Return(k) /\ UNCHANGED rooms
  BY <1>1, <1>2, ReturnTyped DEF Typed, TypeOK
<1>3. CASE Write(k, None)
  BY <1>1, <1>3, WriteTyped
<1> QED BY <1>2, <1>3 DEF SaveRoom

\* Who is about to post has been let in.
LetIn ==
    \A k \in Running :
        At(k, "save") /\ calls[k].kind = "send" => <<calls[k].room, calls[k].user>> \in members

\* by a message, since its sender has been let in,
LEMMA PostTyped == ASSUME Typed, LetIn, NEW k \in Calls, Post(k) PROVE Typed'
<1>1. k \in Running /\ Return(k) /\ UNCHANGED <<events, tree, rooms, members, raced>>
  BY DEF Post, At
<1>2. <<calls[k].room, calls[k].user>> \in members
  BY <1>1 DEF Post, LetIn
<1>3. posted' \subseteq members
  BY <1>2 DEF Post, Typed, TypeOK
<1> QED BY <1>1, <1>3, ReturnTyped

------------------------------------------------------------------------------
(* What a step leaves alone.                                               *)

\* The row of a user is saved: what is new for the calls under way is the history.
LEMMA SaveUserCalls ==
    ASSUME Typed, NEW k \in Calls, NEW kind \in Listeners, NEW u \in Users,
           NEW ro \in Roles \ {0},
           NEW p \in Users \cup {None}, SaveUser(k, kind, u, ro, p)
    PROVE  /\ role' \in Trees /\ parent' \in Parents
           /\ Rows' = Rows \cup {u}
           /\ \A v \in Users \ {u} : role'[v] = role[v] /\ parent'[v] = parent[v]
           /\ k \notin Running
           /\ calls' \in [Calls -> Call \cup {None}]
           /\ calls'[k] = Listen(kind, u, role', parent')
           /\ \A x \in Calls \ {k} :
                 IF x \in Running
                 THEN calls'[x] = [calls[x] EXCEPT
                         !.roots = @ \cup {Nearest(role', parent', calls[x].user)},
                         !.moves = IF @ = 2 THEN 2 ELSE @ + 1,
                         !.calm = FALSE]
                 ELSE calls'[x] = None
<1>1. role' = [role EXCEPT ![u] = ro] /\ parent' = [parent EXCEPT ![u] = p] /\ k \notin Running
  BY DEF SaveUser, Idle
<1>2. role' \in Trees /\ parent' \in Parents
  BY <1>1 DEF Typed, TypeOK, Trees, Parents, Roles
<1>3. Rows' = Rows \cup {u} /\ \A v \in Users \ {u} : role'[v] = role[v] /\ parent'[v] = parent[v]
  BY <1>1 DEF Typed, TypeOK, Rows, Roles
<1>4. /\ calls'[k] = Listen(kind, u, role', parent')
      /\ \A x \in Calls \ {k} :
            IF x \in Running
            THEN calls'[x] = [calls[x] EXCEPT
                    !.roots = @ \cup {Nearest(role', parent', calls[x].user)},
                    !.moves = IF @ = 2 THEN 2 ELSE @ + 1,
                    !.calm = FALSE]
            ELSE calls'[x] = None
      /\ calls' = [x \in Calls |-> calls'[x]]
  BY DEF SaveUser
<1>5. calls'[k] \in Call
  <2>1. kind \in Kinds
    BY DEF Kinds
  <2>2. NewCall(kind, u) \in Call
    BY <2>1, NewCallType
  <2>3. ASSUME NEW c \in Call, NEW n \in Users \cup {None}
        PROVE  [c EXCEPT !.next = u, !.roots = {n}] \in Call
    BY <2>3 DEF Call
  <2>4. Nearest(role', parent', u) \in Users \cup {None}
    BY NearestType
  <2> QED BY <1>4, <2>2, <2>3, <2>4 DEF Listen
<1>6. ASSUME NEW x \in Calls \ {k} PROVE calls'[x] \in Call \cup {None}
  <2>1. CASE x \in Running
    <3>1. calls[x] \in Call
      BY <2>1, Here
    <3> DEFINE c == calls[x]
               rs == c.roots \cup {Nearest(role', parent', c.user)}
               n == IF c.moves = 2 THEN 2 ELSE c.moves + 1
               c1 == [c EXCEPT !.roots = rs]
               c2 == [c1 EXCEPT !.moves = n]
    <3>2. rs \in SUBSET (Users \cup {None}) /\ n \in 0..2
      BY <3>1, NearestType DEF Call
    <3>3. calls'[x] = [c2 EXCEPT !.calm = FALSE]
      BY <1>4, <2>1
    <3> HIDE DEF c, rs, n
    <3>4. c1 \in Call
      BY <3>1, <3>2, Fields DEF c
    <3> HIDE DEF c1
    <3>5. c2 \in Call
      BY <3>2, <3>4, Fields
    <3> HIDE DEF c2
    <3>6. [c2 EXCEPT !.calm = FALSE] \in Call
      BY <3>5 DEF Call
    <3> QED BY <3>3, <3>6
  <2>2. CASE x \notin Running
    BY <1>4, <2>2
  <2> QED BY <2>1, <2>2
<1> QED BY <1>1, <1>2, <1>3, <1>4, <1>5, <1>6

\* and by an update of the tree, which touches every call.
LEMMA SaveUserTyped ==
    ASSUME Typed, NEW k \in Calls, NEW kind \in Listeners, NEW u \in Users,
           NEW ro \in Roles \ {0},
           NEW p \in Users \cup {None}, SaveUser(k, kind, u, ro, p)
    PROVE  Typed'
<1>1. /\ role' \in Trees /\ parent' \in Parents /\ Rows' = Rows \cup {u}
      /\ \A v \in Users \ {u} : role'[v] = role[v] /\ parent'[v] = parent[v]
      /\ calls' \in [Calls -> Call \cup {None}]
  BY SaveUserCalls
<1>0. calls'[k] = Listen(kind, u, role', parent')
  BY DEF SaveUser
<1>2. UNCHANGED chat /\ RoomsStay
  BY DEF SaveUser, chat, RoomsStay
<1>3. events' \in 0..MaxEvents
  <2>1. events < MaxEvents /\ events' = events + 1
    BY DEF SaveUser, Idle
  <2>2. events \in 0..MaxEvents
    BY DEF Typed, TypeOK
  <2> QED BY <2>1, <2>2, EventsAssumption
<1>4. TypeOK'
  BY <1>1, <1>2, <1>3 DEF chat, Typed, TypeOK, Trees, Parents
<1>5. RowsOK'
  BY <1>1 DEF Typed, RowsOK
<1>6. ASSUME NEW x \in Running' PROVE CallOK(calls[x])' /\ RoomOK(rooms', calls'[x])
  <2>1. x \in Calls /\ calls'[x] # None
    BY <1>6 DEF Running
  <2>2. CASE x = k
    <3>1. calls'[x] = Listen(kind, u, role', parent')
      BY <1>0, <2>2
    <3> QED BY <1>1, <3>1, NoneAssumption
         DEF Listen, NewCall, CallOK, RoomOK, HasRoom, Joiners, JoinPcs, AskPcs, RootPcs
  <2>3. CASE x # k
    <3>1. x \in Running
      BY <2>1, <2>3, SaveUserCalls
    <3>2. calls'[x] = [calls[x] EXCEPT
              !.roots = @ \cup {Nearest(role', parent', calls[x].user)},
              !.moves = IF @ = 2 THEN 2 ELSE @ + 1, !.calm = FALSE]
      BY <2>1, <2>3, <3>1, SaveUserCalls
    <3>3. calls[x] \in Call /\ CallOK(calls[x]) /\ RoomOK(rooms, calls[x])
      BY <3>1, Here
    <3>4. ASSUME NEW c \in Call, c = calls[x] PROVE CallOK(c)' /\ RoomOK(rooms', c)
      BY <1>1, <1>2, <3>3, <3>4, Untouched
    <3>5. ASSUME NEW c \in Call, c = calls[x], NEW d, d = calls'[x]
          PROVE CallOK(d)' /\ RoomOK(rooms', d)
      <4>1. /\ d.user = c.user /\ d.kind = c.kind /\ d.pc = c.pc /\ d.todo = c.todo
            /\ d.next = c.next /\ d.root = c.root /\ d.row = c.row /\ d.room = c.room
        BY <3>2, <3>5 DEF Call
      <4>2. CallOK(c)' /\ RoomOK(rooms', c)
        BY <3>4, <3>5
      <4> QED BY <4>1, <4>2 DEF CallOK, RoomOK, HasRoom
    <3> QED BY <3>3, <3>5 DEF CallOK
  <2> QED BY <2>2, <2>3
<1> QED BY <1>4, <1>5, <1>6 DEF Typed, CallsOK

\* Every update of the tree is of that form.
LEMMA Updates ==
    ASSUME NEW k \in Idle, NEW u \in Users, NEW ro \in Roles \ {0}, NEW p \in Users \cup {None},
           Create(k, u, ro, p) \/ Update(k, u, ro, p)
    PROVE  \E kind \in Listeners : SaveUser(k, kind, u, ro, p)
BY DEF Create, Update, Listeners

\* A call takes a step: rooms and members grow, the tree stands still, and of the
\* other calls at most the history changes.
LEMMA StepOfOne ==
    ASSUME Typed, NEW k \in Calls, CallStep(k)
    PROVE  /\ k \in Running /\ UNCHANGED tree /\ RoomsStay /\ members \subseteq members'
           /\ \A x \in Calls \ {k} :
                 \/ calls'[x] = calls[x]
                 \/ x \in Running /\ calls'[x] = [calls[x] EXCEPT !.late = TRUE]
<1>1. k \in Running /\ UNCHANGED tree
  BY DEF CallStep, At, Walk, Self, Find, Legacy, Adopt, CreateRoom, Enter, Descend, ReadRoom,
         CheckRole, Decide, SaveRoom, Post
<1>2. CASE Adopt(k) \/ (SaveRoom(k) /\ ~ Return(k))
  <2>1. calls[k].row # None /\ members' = members
    BY <1>1, <1>2, Here DEF Adopt, SaveRoom, At, CallOK
  <2>2. PICK then : Write(k, then)
    BY <1>2 DEF Adopt, SaveRoom
  <2> QED BY <1>1, <2>1, <2>2, WriteKeeps
<1>3. CASE CreateRoom(k)
  <2>1. RoomsStay /\ members' = members
    BY <1>3 DEF CreateRoom, RoomsStay, Typed, TypeOK
  <2>2. \A x \in Calls \ {k} : calls'[x] = calls[x]
    BY <1>3 DEF CreateRoom, Typed, TypeOK
  <2> QED BY <1>1, <2>1, <2>2
<1>4. CASE Walk(k) \/ Self(k) \/ Find(k) \/ Legacy(k) \/ Descend(k) \/ ReadRoom(k)
  <2>1. RoomsStay /\ members' = members
    BY <1>4 DEF Walk, Self, Find, Legacy, Descend, ReadRoom, chat, RoomsStay
  <2>2. \A x \in Calls \ {k} : calls'[x] = calls[x]
    BY <1>4 DEF Walk, Self, Find, Legacy, Descend, ReadRoom, Go, Return, Typed, TypeOK
  <2> QED BY <1>1, <2>1, <2>2
<1>5. CASE Enter(k) \/ CheckRole(k) \/ Decide(k) \/ Post(k) \/ (SaveRoom(k) /\ Return(k))
  <2>1. RoomsStay
    <3>1. CASE SaveRoom(k) /\ Return(k)
      <4>1. CASE UNCHANGED rooms
        BY <4>1 DEF RoomsStay
      <4>2. CASE ~ UNCHANGED rooms
        <5>1. Write(k, None) /\ calls[k].row # None
          BY <3>1, <4>2 DEF SaveRoom
        <5> QED BY <1>1, <5>1, WriteKeeps
      <4> QED BY <4>1, <4>2
    <3>2. CASE Enter(k) \/ CheckRole(k) \/ Decide(k) \/ Post(k)
      BY <3>2 DEF Enter, CheckRole, Decide, Post, RoomsStay
    <3> QED BY <1>5, <3>1, <3>2
  <2>2. members \subseteq members'
    BY <1>5 DEF Enter, CheckRole, Decide, Post, SaveRoom, Admit
  <2>3. \A x \in Calls \ {k} : calls'[x] = calls[x]
    BY <1>5 DEF Enter, CheckRole, Decide, Post, SaveRoom, Go, Return, Typed, TypeOK
  <2> QED BY <1>1, <2>1, <2>2, <2>3
<1> QED BY <1>2, <1>3, <1>4, <1>5 DEF CallStep

\* What a step makes of the call that takes it: it reads a row of the tree,
DoesWalk(k, c, d) ==
    /\ Walk(k) /\ c.pc = "walk"
    /\ \/ /\ Stops(c.next)
          /\ d = [c EXCEPT !.passed = @ \cup {c.next}, !.root = c.next, !.next = None,
                           !.pc = IF c.kind \in Joiners THEN "find" ELSE "decide"]
       \/ /\ ~ Stops(c.next) /\ parent[c.next] \in c.passed \cup {c.next, None}
          /\ d = [c EXCEPT !.passed = @ \cup {c.next}, !.next = None,
                           !.pc = IF c.kind \in Joiners THEN "self" ELSE "decide"]
       \/ /\ ~ Stops(c.next) /\ parent[c.next] \notin c.passed \cup {c.next, None}
          /\ d = [c EXCEPT !.passed = @ \cup {c.next}, !.next = parent[c.next]]

\* looks for the room of a super admin or makes it,
DoesFind(k, c, d) ==
    \/ /\ Self(k) /\ c.pc = "self" /\ role[c.user] = 2
       /\ d = [c EXCEPT !.root = c.user, !.pc = "find"]
    \/ Find(k) /\ c.pc = "find" /\ d = [c EXCEPT !.pc = "legacy"]
    \/ /\ Find(k) /\ c.pc = "find"
       /\ \E r \in GroupsOf(c.root) : d = [c EXCEPT !.room = r, !.pc = "enter"]
    \/ Legacy(k) /\ c.pc = "legacy" /\ GroupsOf(c.root) = {} /\ d = [c EXCEPT !.pc = "create"]
    \/ /\ Legacy(k) /\ c.pc = "legacy"
       /\ \E r \in GroupsOf(c.root) : d = [c EXCEPT !.room = r, !.row = rooms[r], !.pc = "adopt"]
    \/ /\ Adopt(k) /\ c.pc = "adopt"
       /\ d = [c EXCEPT !.row = None, !.late = FALSE, !.pc = "enter"]
    \/ /\ CreateRoom(k) /\ c.pc = "create"
       /\ \E r \in RoomIds : rooms[r] = None /\ d = [c EXCEPT !.room = r, !.pc = "enter"]

\* is done with a user and goes on to the next,
DoesFinish(k, c, d) ==
    \/ Self(k) /\ c.pc = "self" /\ role[c.user] # 2 /\ d = Finished(c)
    \/ Enter(k) /\ c.pc = "enter" /\ d = Finished([c EXCEPT !.room = None])
    \/ Descend(k) /\ c.pc = "children" /\ c.todo \cup Below(c.user) = {} /\ d = None
    \/ /\ Descend(k) /\ c.pc = "children"
       /\ \E u \in c.todo \cup Below(c.user) :
             d = Start([c EXCEPT !.todo = (c.todo \cup Below(c.user)) \ {u}], u)

\* takes its copy of a room,
DoesRead(k, c, d) ==
    /\ ReadRoom(k) /\ c.kind \notin Joiners /\ c.row = None
    /\ d = [c EXCEPT !.row = [rooms[c.room] EXCEPT !.locked =
                                 IF c.kind = "send" THEN @ /\ role[c.user] # 2 ELSE @],
                     !.pc = IF c.pc # "read" THEN c.pc
                            ELSE IF c.kind = "toggle" THEN "save" ELSE "role"]

\* or asks whether it may and then does it.
DoesAsk(k, c, d) ==
    \/ /\ CheckRole(k) /\ c.pc = "role" /\ <<c.room, c.user>> \in members'
       /\ d = [c EXCEPT !.pc = "save"]
    \/ CheckRole(k) /\ c.pc = "role" /\ d = Start(c, c.user)
    \/ /\ Decide(k) /\ c.pc = "decide" /\ c.root = rooms[c.room].root
       /\ <<c.room, c.user>> \in members' /\ d = [c EXCEPT !.pc = "save"]
    \/ Decide(k) /\ c.pc = "decide" /\ d = None
    \/ (SaveRoom(k) \/ Post(k)) /\ c.pc = "save" /\ d = None

Does(k, c, d) ==
    \/ DoesWalk(k, c, d) \/ DoesFind(k, c, d) \/ DoesFinish(k, c, d)
    \/ DoesRead(k, c, d) \/ DoesAsk(k, c, d)

\* Each action is one of these.
LEMMA StepDoes ==
    ASSUME Typed, NEW k \in Calls, CallStep(k) PROVE Does(k, calls[k], calls'[k])
<1> DEFINE c == calls[k]
           d == calls'[k]
<1>1. k \in Running
  BY StepOfOne
<1>2. c \in Call /\ calls \in [Calls -> Call \cup {None}]
  BY <1>1, Here DEF Typed, TypeOK
<1>3. CASE Walk(k)
  <2>1. c.pc = "walk"
    BY <1>3 DEF Walk, At
  <2> DEFINE call == [c EXCEPT !.passed = @ \cup {c.next}]
             found == IF c.kind \in Joiners THEN "find" ELSE "decide"
             lost == IF c.kind \in Joiners THEN "self" ELSE "decide"
  <2>2. Joiners = {"open"} \cup Listeners
    BY DEF Joiners
  <2>3. d = IF Stops(c.next) THEN [call EXCEPT !.root = c.next, !.next = None, !.pc = found]
            ELSE IF parent[c.next] \in call.passed \cup {None}
            THEN [call EXCEPT !.next = None, !.pc = lost]
            ELSE [call EXCEPT !.next = parent[c.next]]
    BY <1>2, <1>3, <2>2 DEF Walk
  <2>4. call.passed = c.passed \cup {c.next}
    BY <1>2 DEF Call
  <2>5. CASE Stops(c.next)
    <3>1. d = [c EXCEPT !.passed = @ \cup {c.next}, !.root = c.next, !.next = None, !.pc = found]
      BY <2>3, <2>5
    <3> QED BY <1>3, <2>1, <2>5, <3>1 DEF Does, DoesWalk
  <2>6. CASE ~ Stops(c.next) /\ parent[c.next] \in c.passed \cup {c.next, None}
    <3>1. d = [c EXCEPT !.passed = @ \cup {c.next}, !.next = None, !.pc = lost]
      BY <2>3, <2>4, <2>6
    <3> QED BY <1>3, <2>1, <2>6, <3>1 DEF Does, DoesWalk
  <2>7. CASE ~ Stops(c.next) /\ parent[c.next] \notin c.passed \cup {c.next, None}
    <3>1. d = [c EXCEPT !.passed = @ \cup {c.next}, !.next = parent[c.next]]
      BY <2>3, <2>4, <2>7
    <3> QED BY <1>3, <2>1, <2>7, <3>1 DEF Does, DoesWalk
  <2> QED BY <2>5, <2>6, <2>7
<1>4. CASE Self(k)
  BY <1>2, <1>4 DEF Self, At, Does, DoesFind, DoesFinish
<1>5. CASE Find(k)
  BY <1>2, <1>5 DEF Find, At, Go, Does, DoesFind
<1>6. CASE Legacy(k)
  BY <1>2, <1>6 DEF Legacy, At, Go, Does, DoesFind
<1>7. CASE Adopt(k)
  BY <1>2, <1>7 DEF Adopt, Write, At, Does, DoesFind
<1>8. CASE CreateRoom(k)
  BY <1>2, <1>8 DEF CreateRoom, At, Does, DoesFind
<1>9. CASE Enter(k)
  BY <1>2, <1>9 DEF Enter, At, Does, DoesFinish
<1>10. CASE Descend(k)
  BY <1>2, <1>10 DEF Descend, At, Return, Does, DoesFinish
<1>11. CASE ReadRoom(k)
  BY <1>2, <1>11 DEF ReadRoom, At, Does, DoesRead, Joiners
<1>12. CASE CheckRole(k)
  <2>1. c.pc = "role"
    BY <1>12 DEF CheckRole, At
  <2>2. CASE Admit(k) /\ Go(k, "save")
    <3>1. <<c.room, c.user>> \in members' /\ d = [c EXCEPT !.pc = "save"]
      BY <1>2, <2>2 DEF Admit, Go
    <3> HIDE DEF c, d
    <3> QED BY <1>12, <2>1, <3>1 DEF Does, DoesAsk, c, d
  <2>3. CASE calls' = [calls EXCEPT ![k] = Start(@, @.user)]
    <3>1. d = Start(c, c.user)
      BY <1>2, <2>3
    <3> QED BY <1>12, <2>1, <3>1 DEF Does, DoesAsk
  <2> QED BY <1>12, <2>2, <2>3 DEF CheckRole
<1>13. CASE Decide(k)
  <2>1. c.pc = "decide"
    BY <1>13 DEF Decide, At
  <2>2. CASE Allowed(k)
    <3>1. /\ <<c.room, c.user>> \in members' /\ d = [c EXCEPT !.pc = "save"]
          /\ c.root = rooms[c.room].root
      BY <1>2, <1>13, <2>2 DEF Decide, Allowed, Admit, Go
    <3> QED BY <1>13, <2>1, <3>1 DEF Does, DoesAsk
  <2>3. CASE ~ Allowed(k)
    BY <1>2, <1>13, <2>1, <2>3 DEF Decide, Return, Does, DoesAsk
  <2> QED BY <2>2, <2>3
<1>14. CASE SaveRoom(k)
  BY <1>2, <1>14 DEF SaveRoom, Write, At, Return, Does, DoesAsk
<1>15. CASE Post(k)
  BY <1>2, <1>15 DEF Post, At, Return, Does, DoesAsk
<1> QED
  BY <1>3, <1>4, <1>5, <1>6, <1>7, <1>8, <1>9, <1>10, <1>11, <1>12, <1>13, <1>14, <1>15
      DEF CallStep

\* What a step makes of a call that does not take it, and how calls begin.
Stays(c, d) == d = c \/ d = [c EXCEPT !.late = TRUE]
Moved(c, d) ==
    d = [c EXCEPT !.roots = @ \cup {Nearest(role', parent', c.user)},
                  !.moves = IF @ = 2 THEN 2 ELSE @ + 1, !.calm = FALSE]
Begins(d) ==
    /\ d \in Call /\ d.row = None /\ d.moves = 0 /\ d.calm = TRUE
    /\ \/ \E kind \in Listeners, u \in Users : d = Listen(kind, u, role', parent')
       \/ \E u \in Users : d = Start(NewCall("open", u), u) /\ UNCHANGED tree
       \/ d.kind = "open" /\ d.pc = "find" /\ UNCHANGED tree
       \/ d.kind \notin Joiners /\ d.pc \in {"read", "role"} /\ d.root = None /\ UNCHANGED tree

\* A call for the list of rooms begins as Begins says,
LEMMA BeginsOpen ==
    ASSUME Typed, NEW k \in Calls, NEW u \in Rows, OpenRooms(k, u)
    PROVE  \E d : Begins(d) /\ Begin(k, d)
<1>1. u \in Users /\ "open" \in Kinds /\ UNCHANGED tree
  BY DEF Rows, Kinds, OpenRooms, Begin, tree
<1>2. CASE role[u] = 1
  <2> DEFINE c == [NewCall("open", u) EXCEPT !.todo = {x \in Users : role[x] = 2}]
             r == CHOOSE r \in c.todo : TRUE
             new == [c EXCEPT !.root = r, !.todo = @ \ {r}, !.pc = "find"]
  <2>1. c \in Call /\ c.kind = "open" /\ c.row = None /\ c.moves = 0 /\ c.calm = TRUE
    BY <1>1, NewCallType DEF Call, NewCall
  <2>2. Finished(c) # None /\ Begin(k, Finished(c))
    BY <1>2 DEF OpenRooms
  <2> HIDE DEF c
  <2>3. c.todo # {} /\ Finished(c) = new
    BY <2>1, <2>2 DEF Finished
  <2>4. r \in Users /\ c.todo \ {r} \subseteq Users
    BY <2>1, <2>3 DEF Call
  <2> HIDE DEF r
  <2>5. new \in Call
    <3> DEFINE c1 == [c EXCEPT !.root = r]
               c2 == [c1 EXCEPT !.todo = c.todo \ {r}]
    <3>1. new = [c2 EXCEPT !.pc = "find"]
      OBVIOUS
    <3>2. c1 \in Call
      BY <2>1, <2>4, Fields
    <3> HIDE DEF c1
    <3>3. c2 \in Call
      BY <2>4, <3>2, Fields
    <3> HIDE DEF c2, new
    <3> QED BY <3>1, <3>3, Fields
  <2>6. new.row = None /\ new.moves = 0 /\ new.calm = TRUE /\ new.kind = "open" /\ new.pc = "find"
    BY <2>1 DEF Call
  <2> HIDE DEF new
  <2> QED BY <1>1, <2>2, <2>3, <2>5, <2>6 DEF Begins
<1>3. CASE role[u] # 1
  <2> DEFINE new == Start(NewCall("open", u), u)
  <2>1. new \in Call
    BY <1>1, NewCallType, StartType
  <2>2. new.row = None /\ new.moves = 0 /\ new.calm = TRUE
    BY DEF NewCall, Start
  <2>3. Begin(k, new)
    BY <1>3 DEF OpenRooms
  <2> QED BY <1>1, <2>1, <2>2, <2>3 DEF Begins
<1> QED BY <1>2, <1>3

\* and so does a request about a room.
LEMMA BeginsAsk ==
    ASSUME Typed, NEW k \in Calls, NEW u \in Rows, NEW r \in RoomIds,
           NEW kind \in Settings \cup {"send", "toggle"}, Request(k, kind, u, r)
    PROVE  \E d : Begins(d) /\ Begin(k, d)
<1> DEFINE c == NewCall(kind, u)
           pc == IF kind \in {"toggle", "limit"} THEN "read" ELSE "role"
           new == [c EXCEPT !.room = r, !.pc = pc]
<1>1. u \in Users /\ kind \in Kinds /\ kind \notin Joiners
  BY DEF Rows, Kinds, Settings, Joiners, Listeners
<1>2. c \in Call
  BY <1>1, NewCallType
<1>3. new \in Call
  BY ZenonT(60), <1>2 DEF Call
<1>4. Begin(k, new) /\ UNCHANGED tree
  BY DEF Request, Begin
<1>5. /\ new.row = None /\ new.moves = 0 /\ new.calm = TRUE /\ new.kind = kind
      /\ new.root = None /\ new.pc \in {"read", "role"}
  BY DEF NewCall
<1> HIDE DEF new
<1> QED BY <1>1, <1>3, <1>4, <1>5 DEF Begins

\* A call begins with a walk, or where it has nothing to read from the tree.
LEMMA BeginsPc ==
    ASSUME NEW d, Begins(d)
    PROVE  d.pc \in {"walk", "find", "read", "role"} /\ (d.pc = "find" => d.kind = "open")
<1>1. ASSUME NEW kind, NEW u, d = Listen(kind, u, role', parent') PROVE d.pc = "walk"
  BY <1>1 DEF Listen, NewCall
<1>2. ASSUME NEW kind, NEW u, d = Start(NewCall(kind, u), u) PROVE d.pc = "walk"
  BY <1>2 DEF Start, NewCall
<1> QED BY <1>1, <1>2 DEF Begins

\* Who changes and how, in any step.
SomeUpdate ==
    \E k \in Calls, kind \in Listeners, u \in Users, ro \in Roles \ {0}, p \in Users \cup {None} :
        SaveUser(k, kind, u, ro, p)

\* What any step makes of any call.
LEMMA Steps ==
    ASSUME Typed, Next, NEW x \in Running'
    PROVE  \/ x \in Running /\ Stays(calls[x], calls'[x]) /\ UNCHANGED tree
           \/ x \in Running /\ Moved(calls[x], calls'[x]) /\ SomeUpdate
           \/ x \notin Running /\ Begins(calls'[x])
           \/ x \in Running /\ CallStep(x) /\ Does(x, calls[x], calls'[x]) /\ UNCHANGED tree
<1>1. x \in Calls /\ calls'[x] # None
  BY DEF Running
<1>2. ASSUME NEW k \in Calls, CallStep(k) PROVE
           \/ x \in Running /\ Stays(calls[x], calls'[x]) /\ UNCHANGED tree
           \/ x \in Running /\ CallStep(x) /\ Does(x, calls[x], calls'[x]) /\ UNCHANGED tree
  <2>1. CASE x = k
    BY <1>2, <2>1, StepOfOne, StepDoes
  <2>2. CASE x # k
    BY <1>1, <1>2, <2>2, StepOfOne DEF Running, Stays
  <2> QED BY <2>1, <2>2
<1>3. ASSUME NEW k \in Calls, NEW kind \in Listeners, NEW u \in Users, NEW ro \in Roles \ {0},
             NEW p \in Users \cup {None}, SaveUser(k, kind, u, ro, p)
      PROVE  \/ x \in Running /\ Moved(calls[x], calls'[x]) /\ SomeUpdate
             \/ x \notin Running /\ Begins(calls'[x])
  <2>1. CASE x = k
    <3>1. calls'[x] = Listen(kind, u, role', parent')
      BY <1>3, <2>1 DEF SaveUser
    <3>2. x \notin Running
      BY <1>3, <2>1 DEF SaveUser, Idle
    <3>3. calls'[x] \in Call
      BY <1>1, <1>3, SaveUserCalls
    <3>4. calls'[x].row = None /\ calls'[x].moves = 0 /\ calls'[x].calm = TRUE
      BY <3>1 DEF Listen, NewCall
    <3> QED BY <3>1, <3>2, <3>3, <3>4 DEF Begins
  <2>2. CASE x # k
    <3>1. x \in Running
      BY <1>1, <1>3, <2>2 DEF SaveUser
    <3>2. Moved(calls[x], calls'[x])
      BY <1>1, <1>3, <2>2, <3>1 DEF SaveUser, Moved
    <3>3. SomeUpdate
      BY <1>3 DEF SomeUpdate
    <3> QED BY <3>1, <3>2, <3>3
  <2> QED BY <2>1, <2>2
<1>4. ASSUME NEW k \in Calls, NEW d, Begins(d), Begin(k, d)
      PROVE  \/ x \in Running /\ Stays(calls[x], calls'[x]) /\ UNCHANGED tree
             \/ x \notin Running /\ Begins(calls'[x])
  <2>1. /\ k \notin Running /\ calls'[k] = d /\ UNCHANGED tree
        /\ x # k => calls'[x] = calls[x]
    BY <1>1, <1>4 DEF Begin, Idle, Typed, TypeOK
  <2>2. CASE x = k
    BY <1>4, <2>1, <2>2
  <2>3. CASE x # k
    BY <1>1, <2>1, <2>3 DEF Stays, Running
  <2> QED BY <2>2, <2>3
<1>5. ~ Restart
  BY <1>1 DEF Restart
<1>6. Idle \subseteq Calls
  BY DEF Idle
<1>7. ASSUME NEW k \in Idle, NEW u \in Users, NEW ro \in Roles \ {0}, NEW p \in Users \cup {None},
             Create(k, u, ro, p) \/ Update(k, u, ro, p)
      PROVE  \/ x \in Running /\ Moved(calls[x], calls'[x]) /\ SomeUpdate
             \/ x \notin Running /\ Begins(calls'[x])
  BY <1>3, <1>6, <1>7, Updates
<1>8. ASSUME NEW k \in Idle, NEW u \in Rows, OpenRooms(k, u)
      PROVE  \/ x \in Running /\ Stays(calls[x], calls'[x]) /\ UNCHANGED tree
             \/ x \notin Running /\ Begins(calls'[x])
  BY <1>4, <1>6, <1>8, BeginsOpen
<1>9. ASSUME NEW k \in Idle, NEW u \in Rows, NEW r \in RoomIds,
             NEW kind \in Settings \cup {"send", "toggle"}, Request(k, kind, u, r)
      PROVE  \/ x \in Running /\ Stays(calls[x], calls'[x]) /\ UNCHANGED tree
             \/ x \notin Running /\ Begins(calls'[x])
  BY <1>4, <1>6, <1>9, BeginsAsk
<1> QED BY <1>2, <1>5, <1>7, <1>8, <1>9 DEF Next

\* Rooms and members stay.
LEMMA Grows == ASSUME Typed, Next PROVE RoomsStay /\ members \subseteq members'
<1>1. CASE \E k \in Calls : CallStep(k)
  BY <1>1, StepOfOne
<1>2. CASE UNCHANGED chat
  BY <1>2 DEF chat, RoomsStay
<1>3. ASSUME NEW k \in Idle, NEW u \in Users, NEW ro \in Roles \ {0}, NEW p \in Users \cup {None},
             Create(k, u, ro, p) \/ Update(k, u, ro, p)
      PROVE  UNCHANGED chat
  BY <1>3 DEF Create, Update, SaveUser
<1>4. ASSUME NEW k \in Idle, NEW u \in Rows, OpenRooms(k, u) PROVE UNCHANGED chat
  BY <1>4 DEF OpenRooms, Begin
<1>5. ASSUME NEW k \in Idle, NEW u \in Rows, NEW r \in RoomIds,
             NEW kind \in Settings \cup {"send", "toggle"}, Request(k, kind, u, r)
      PROVE  UNCHANGED chat
  BY <1>5 DEF Request, Begin
<1>6. CASE Restart
  BY <1>2, <1>6 DEF Restart
<1> QED BY <1>1, <1>2, <1>3, <1>4, <1>5, <1>6 DEF Next

------------------------------------------------------------------------------
(* The types, and who is let in.                                           *)

\* Every step keeps the types.
LEMMA StepTyped == ASSUME Typed, LetIn, Next PROVE Typed'
<1>1. ASSUME NEW k \in Calls, CallStep(k) PROVE Typed'
  BY <1>1, WalkTyped, SelfTyped, FindTyped, LegacyTyped, AdoptTyped, CreateRoomTyped,
      EnterTyped,
     DescendTyped, ReadRoomTyped, CheckRoleTyped, DecideTyped, SaveRoomTyped, PostTyped
     DEF CallStep
<1>2. Idle \subseteq Calls
  BY DEF Idle
<1>3. ASSUME NEW k \in Idle, NEW u \in Users, NEW ro \in Roles \ {0}, NEW p \in Users \cup {None},
             Create(k, u, ro, p) \/ Update(k, u, ro, p)
      PROVE  Typed'
  BY <1>2, <1>3, Updates, SaveUserTyped
<1>4. ASSUME NEW k \in Idle, NEW u \in Rows, OpenRooms(k, u) PROVE Typed'
  BY <1>2, <1>4, OpenRoomsTyped
<1>5. ASSUME NEW k \in Idle, NEW u \in Rows, NEW r \in RoomIds,
             NEW kind \in Settings \cup {"send", "toggle"}, Request(k, kind, u, r)
      PROVE  Typed'
  BY <1>2, <1>5, AskTyped
<1> QED BY <1>1, <1>3, <1>4, <1>5, RestartTyped DEF Next

\* A call that is done with a user is not about to save or post.
LEMMA FinishedPc ==
    ASSUME NEW c \in Call, Finished(c) # None
    PROVE  /\ Finished(c).pc \in {"children", "find"} /\ Finished(c).kind = c.kind
           /\ Finished(c).row = c.row
BY DEF Finished, Call

\* How a call comes to "save".
LEMMA ToSave ==
    ASSUME Typed, NEW k \in Running, NEW d \in Call, d # None,
           Does(k, calls[k], d), d.pc = "save"
    PROVE  LET c == calls[k] IN
           /\ d.kind = c.kind /\ d.room = c.room /\ d.user = c.user /\ d.root = c.root
           /\ d.moves = c.moves /\ d.roots = c.roots
           /\ \/ c.pc = "save"
              \/ c.pc = "read" /\ c.kind = "toggle" /\ c.root = None
              \/ c.pc = "role" /\ <<c.room, c.user>> \in members' /\ c.root = None
              \/ /\ c.pc = "decide" /\ <<c.room, c.user>> \in members'
                 /\ c.root = rooms[c.room].root
<1> DEFINE c == calls[k]
<1>1. c \in Call /\ CallOK(c)
  BY Here
<1>2. CASE d = Finished(c) \/ d = Finished([c EXCEPT !.room = None])
  <2>1. [c EXCEPT !.room = None] \in Call
    BY <1>1 DEF Call
  <2> QED BY <1>1, <1>2, <2>1, FinishedPc
<1>3. CASE \E e \in Call, u \in Users : d = Start(e, u)
  BY <1>3 DEF Start, Call
<1>4. \A u \in c.todo \cup Below(c.user) :
         u \in Users /\ [c EXCEPT !.todo = (c.todo \cup Below(c.user)) \ {u}] \in Call
  BY <1>1 DEF Call, Below, Children, Rows
<1>5. c.user \in Users
  BY <1>1 DEF Call
<1>6. CASE \/ /\ c.pc = "role" /\ <<c.room, c.user>> \in members'
              /\ d = [c EXCEPT !.pc = "save"]
           \/ /\ c.pc = "decide" /\ c.root = rooms[c.room].root
              /\ <<c.room, c.user>> \in members' /\ d = [c EXCEPT !.pc = "save"]
  BY <1>1, <1>6 DEF Call, CallOK
<1>7. CASE DoesRead(k, c, d)
  <2> DEFINE row == [rooms[c.room] EXCEPT !.locked =
                        IF c.kind = "send" THEN @ /\ role[c.user] # 2 ELSE @]
             pc == IF c.pc # "read" THEN c.pc ELSE IF c.kind = "toggle" THEN "save" ELSE "role"
  <2>1. d = [c EXCEPT !.row = row, !.pc = pc]
    BY <1>7 DEF DoesRead
  <2> HIDE DEF row
  <2> QED BY <1>1, <2>1 DEF Call, CallOK
<1>8. CASE DoesWalk(k, c, d)
  BY <1>1, <1>8 DEF DoesWalk, Call
<1>9. CASE DoesFind(k, c, d)
  BY <1>1, <1>9 DEF DoesFind, Call
<1>10. CASE DoesFinish(k, c, d)
  BY <1>2, <1>3, <1>4, <1>10 DEF DoesFinish
<1>11. CASE DoesAsk(k, c, d)
  BY <1>1, <1>3, <1>5, <1>6, <1>11 DEF DoesAsk
<1> QED BY <1>7, <1>8, <1>9, <1>10, <1>11 DEF Does

\* Members stay, so who was let in remains so.
LEMMA StepLetIn == ASSUME Typed, LetIn, Next PROVE LetIn'
<1>1. ASSUME NEW x \in Running', calls'[x].pc = "save", calls'[x].kind = "send"
      PROVE  <<calls'[x].room, calls'[x].user>> \in members'
  <2> DEFINE c == calls[x]
             d == calls'[x]
  <2>1. members \subseteq members' /\ d # None /\ Typed'
    BY Grows, StepTyped DEF Running
  <2>2. d \in Call
    BY <2>1 DEF Typed, TypeOK, Running
  <2>3. CASE x \in Running /\ (Stays(c, d) \/ Moved(c, d))
    <3>1. c \in Call
      BY <2>3, Here
    <3>2. d.pc = c.pc /\ d.kind = c.kind /\ d.room = c.room /\ d.user = c.user
      BY ZenonT(60), <2>3, <3>1 DEF Stays, Moved, Call
    <3> QED BY <1>1, <2>1, <2>3, <3>2 DEF LetIn, At
  <2>4. CASE Begins(d)
    BY <1>1, <2>4 DEF Begins, Listen, NewCall, Start
  <2>5. CASE x \in Running /\ Does(x, c, d)
    <3>1. /\ d.kind = c.kind /\ d.room = c.room /\ d.user = c.user
          /\ \/ c.pc = "save"
             \/ c.kind = "toggle"
             \/ <<c.room, c.user>> \in members'
      BY <1>1, <2>1, <2>2, <2>5, ToSave
    <3> QED BY <1>1, <2>1, <2>5, <3>1 DEF LetIn, At
  <2> QED BY <2>3, <2>4, <2>5, Steps
<1> QED BY <1>1 DEF LetIn, At

\* The tree alone, with no room and no call, is well typed.
LEMMA InitTyped == ASSUME Init PROVE Typed /\ LetIn
<1>1. Running = {}
  BY DEF Init, Running
<1> QED BY <1>1, EventsAssumption DEF Init, Typed, TypeOK, RowsOK, CallsOK, LetIn, Rows

\* A step that is not one.
LEMMA Stutter == ASSUME Typed, LetIn, UNCHANGED vars PROVE Typed' /\ LetIn'
<1>1. Rows' = Rows /\ Running' = Running
  BY DEF vars, tree, Rows, Running
<1>2. TypeOK' /\ RowsOK' /\ LetIn'
  BY <1>1 DEF vars, tree, chat, Typed, TypeOK, RowsOK, LetIn, At
<1>3. CallsOK'
  BY <1>1 DEF vars, tree, chat, Typed, CallsOK, CallOK
<1> QED BY <1>2, <1>3 DEF Typed

\* Types hold for ever.
LEMMA AlwaysTyped == Spec => [](Typed /\ LetIn)
<1>1. Init => Typed /\ LetIn
  BY InitTyped
<1>2. Typed /\ LetIn /\ [Next]_vars => (Typed /\ LetIn)'
  BY StepTyped, StepLetIn, Stutter
<1> QED BY <1>1, <1>2, PTL DEF Spec

\* Every variable holds what its declaration says: in particular the members and
\* the senders of a room are users and the room is there, whatever calls and
\* listeners are under way, and a copy of a room is of a room that is still there.
THEOREM TypeCorrect == Spec => []TypeOK
BY AlwaysTyped, PTL DEF Typed

------------------------------------------------------------------------------
(* Locks.                                                                  *)

\* A copy of a room that is not late has the room's lock; for a sender the copy
\* says whether the lock is for him.
LateOK(rs, c) ==
    c.row # None /\ c.kind # "send" => c.late \/ c.row.locked = rs[c.room].locked

LatesOK == \A k \in Running : LateOK(rooms, calls[k])

\* A lock is changed by a save, and then the other copies of the room are late.
LEMMA Locks ==
    ASSUME Typed, Next, NEW r \in RoomIds, rooms[r] # None, rooms'[r].locked # rooms[r].locked
    PROVE  \E k \in Running :
              /\ calls[k].room = r /\ calls[k].row # None /\ calls[k].kind # "send"
              /\ rooms'[r] = Saved(calls[k])
              /\ calls'[k] = None \/ calls'[k].row = None
              /\ \A x \in Running \ {k} :
                    calls[x].room = r /\ calls[x].row # None =>
                        calls'[x] = [calls[x] EXCEPT !.late = TRUE]
<1>1. ASSUME NEW k \in Running, NEW then, Write(k, then), calls[k].row # None,
             calls[k].kind # "send", then = None \/ then.row = None
      PROVE  /\ calls[k].room = r /\ rooms'[r] = Saved(calls[k])
             /\ calls'[k] = None \/ calls'[k].row = None
             /\ \A x \in Running \ {k} :
                   calls[x].room = r /\ calls[x].row # None =>
                       calls'[x] = [calls[x] EXCEPT !.late = TRUE]
  <2>1. rooms' = [rooms EXCEPT ![calls[k].room] = Saved(calls[k])] /\ calls'[k] = then
    BY <1>1, WriteKeeps
  <2>2. calls[k].room = r /\ rooms'[r] = Saved(calls[k])
    BY <2>1 DEF Typed, TypeOK
  <2>3. \A x \in Running \ {k} :
            calls[x].room = r /\ calls[x].row # None =>
                calls'[x] = [calls[x] EXCEPT !.late = TRUE]
    BY <1>1, <2>2 DEF Write, Running
  <2> QED BY <1>1, <2>1, <2>2, <2>3
<1>2. ASSUME NEW k \in Calls, CallStep(k)
      PROVE  \E then : /\ k \in Running /\ Write(k, then) /\ calls[k].row # None
                       /\ calls[k].kind # "send" /\ (then = None \/ then.row = None)
  <2>1. k \in Running /\ calls[k] \in Call /\ CallOK(calls[k])
    BY <1>2, StepOfOne, Here
  <2>2. ~ CreateRoom(k)
    BY DEF CreateRoom, Typed, TypeOK
  <2>3. CASE Adopt(k)
    <3> DEFINE then == [calls[k] EXCEPT !.row = None, !.late = FALSE, !.pc = "enter"]
    <3>1. Write(k, then) /\ calls[k].pc = "adopt"
      BY <2>3 DEF Adopt, At
    <3>2. calls[k].row # None /\ calls[k].kind # "send" /\ then.row = None
      BY <2>1, <3>1 DEF Call, CallOK, JoinPcs, Joiners, Listeners
    <3> HIDE DEF then
    <3> QED BY <2>1, <3>1, <3>2
  <2>4. CASE SaveRoom(k)
    <3>1. Write(k, None) /\ calls[k].row # None /\ calls[k].kind # "send"
      BY <2>4 DEF SaveRoom
    <3> QED BY <2>1, <3>1
  <2>5. UNCHANGED rooms \/ Adopt(k) \/ SaveRoom(k)
    BY <1>2, <2>2 DEF CallStep, Walk, Self, Find, Legacy, Enter, Descend, ReadRoom, CheckRole,
                      Decide, Post, chat
  <2> QED BY <2>3, <2>4, <2>5
<1>3. \E k \in Calls : CallStep(k)
  BY ZenonT(60) DEF Next, Create, Update, SaveUser, OpenRooms, Begin, Request, Restart, chat
<1>4. PICK k \in Calls : CallStep(k)
  BY <1>3
<1>5. PICK then : /\ k \in Running /\ Write(k, then) /\ calls[k].row # None
                  /\ calls[k].kind # "send" /\ (then = None \/ then.row = None)
  BY <1>2, <1>4
<1> QED BY <1>1, <1>5

\* What a step makes of the copy of the call that takes it.
LEMMA DoesRow ==
    ASSUME Typed, NEW k \in Running, NEW d, Does(k, calls[k], d), d # None
    PROVE  LET c == calls[k] IN
           /\ d.kind = c.kind
           /\ \/ d.row = None
              \/ d.row = c.row /\ d.room = c.room /\ d.late = c.late
              \/ d.row.locked = rooms[d.room].locked
              \/ d.kind = "send"
<1> DEFINE c == calls[k]
<1>1. c \in Call /\ CallOK(c)
  BY Here
<1>2. CASE DoesWalk(k, c, d)
  BY <1>1, <1>2 DEF DoesWalk, Call
<1>3. CASE DoesFind(k, c, d)
  <2>1. c.pc \in JoinPcs \ {"adopt"} => c.row = None
    BY <1>1 DEF CallOK
  <2>2. ASSUME NEW r \in GroupsOf(c.root),
               d = [c EXCEPT !.room = r, !.row = rooms[r], !.pc = "adopt"]
        PROVE  d.kind = c.kind /\ d.row.locked = rooms[d.room].locked
    BY <1>1, <2>2 DEF Call
  <2>3. CASE \E r : d = [c EXCEPT !.room = r, !.pc = "enter"] /\ c.row = None
    BY <1>1, <2>3 DEF Call
  <2>4. CASE \/ d = [c EXCEPT !.root = c.user, !.pc = "find"]
             \/ d = [c EXCEPT !.pc = "legacy"]
             \/ d = [c EXCEPT !.pc = "create"]
    BY <1>1, <2>4 DEF Call
  <2>5. CASE d = [c EXCEPT !.row = None, !.late = FALSE, !.pc = "enter"]
    BY <1>1, <2>5 DEF Call
  <2> QED BY <1>3, <2>1, <2>2, <2>3, <2>4, <2>5 DEF DoesFind, JoinPcs
<1>4. CASE DoesFinish(k, c, d)
  <2>1. c.row = None
    BY <1>1, <1>4 DEF DoesFinish, CallOK, JoinPcs
  <2>2. CASE d = Finished(c) \/ d = Finished([c EXCEPT !.room = None])
    <3>1. [c EXCEPT !.room = None] \in Call
      BY <1>1 DEF Call
    <3> QED BY <1>1, <2>1, <2>2, <3>1, FinishedPc DEF Call
  <2>3. CASE \E u : d = Start([c EXCEPT !.todo = (c.todo \cup Below(c.user)) \ {u}], u)
    BY <1>1, <2>1, <2>3 DEF Start, Call
  <2> QED BY <1>4, <2>2, <2>3 DEF DoesFinish
<1>5. CASE DoesRead(k, c, d)
  <2>1. c.kind \notin Joiners
    BY <1>5 DEF DoesRead
  <2>2. rooms[c.room] \in Room
    BY <1>1, <2>1, Here DEF Typed, TypeOK, RoomOK, HasRoom, Call
  <2> DEFINE row == [rooms[c.room] EXCEPT !.locked =
                        IF c.kind = "send" THEN @ /\ role[c.user] # 2 ELSE @]
  <2>3. c.kind # "send" => row.locked = rooms[c.room].locked
    BY <2>2 DEF Room
  <2>4. d.row = row /\ d.room = c.room /\ d.kind = c.kind
    BY <1>1, <1>5 DEF DoesRead, Call
  <2> QED BY <2>3, <2>4
<1>6. CASE DoesAsk(k, c, d)
  <2>1. CASE d = Start(c, c.user)
    BY <1>1, <2>1 DEF Start, Call
  <2>2. CASE d = [c EXCEPT !.pc = "save"]
    BY <1>1, <2>2 DEF Call
  <2> QED BY <1>6, <2>1, <2>2 DEF DoesAsk
<1> QED BY <1>2, <1>3, <1>4, <1>5, <1>6 DEF Does

\* Copies that are not late keep agreeing with their rooms.
LEMMA StepLates == ASSUME Typed, LetIn, LatesOK, Next PROVE LatesOK'
<1>1. ASSUME NEW x \in Running' PROVE LateOK(rooms', calls'[x])
  <2> DEFINE c == calls[x]
             d == calls'[x]
  <2>1. x \in Calls /\ d # None
    BY DEF Running
  <2>2. CASE Begins(d)
    BY <2>2 DEF Begins, LateOK
  <2>3. CASE x \in Running /\ Moved(c, d) /\ SomeUpdate
    <3>1. UNCHANGED rooms
      BY <2>3 DEF SomeUpdate, SaveUser, chat
    <3>2. d.row = c.row /\ d.kind = c.kind /\ d.late = c.late /\ d.room = c.room
      BY <2>3, Here DEF Moved, Call
    <3> QED BY <2>3, <3>1, <3>2 DEF LatesOK, LateOK
  <2>4. ASSUME x \in Running, c.row # None, c.kind # "send", d.row # None,
               rooms'[c.room].locked # rooms[c.room].locked
        PROVE  d = [c EXCEPT !.late = TRUE]
    <3>1. c.room \in RoomIds /\ rooms[c.room] # None
      BY <2>4, Here DEF RoomOK, HasRoom, Call
    <3> QED BY <2>1, <2>4, <3>1, Locks
  <2>5. CASE x \in Running /\ Stays(c, d)
    <3>1. c \in Call
      BY <2>5, Here
    <3>2. d.row = c.row /\ d.kind = c.kind /\ d.room = c.room /\ (c.late => d.late)
      BY <2>5, <3>1 DEF Stays, Call
    <3>3. d = [c EXCEPT !.late = TRUE] => d.late
      BY <3>1 DEF Call
    <3> QED BY <2>4, <2>5, <3>2, <3>3 DEF LatesOK, LateOK
  <2>6. CASE x \in Running /\ CallStep(x) /\ Does(x, c, d)
    <3>1. c \in Call /\ CallOK(c) /\ RoomOK(rooms, c)
      BY <2>6, Here
    <3>2. /\ d.kind = c.kind
          /\ \/ d.row = None
             \/ d.row = c.row /\ d.room = c.room /\ d.late = c.late
             \/ d.row.locked = rooms[d.room].locked
             \/ d.kind = "send"
      BY <2>1, <2>6, DoesRow
    <3>3. CASE UNCHANGED rooms
      BY <2>6, <3>2, <3>3 DEF LatesOK, LateOK
    <3>4. CASE CreateRoom(x)
      <4>1. c.pc = "create" /\ c.row = None
        BY <3>1, <3>4 DEF CreateRoom, At, CallOK, JoinPcs
      <4>2. \E r : d = [c EXCEPT !.room = r, !.pc = "enter"]
        BY <2>1, <3>4 DEF CreateRoom, Typed, TypeOK
      <4> QED BY <3>1, <4>1, <4>2 DEF LateOK, Call
    <3>5. CASE Adopt(x)
      BY <2>1, <3>1, <3>5 DEF Adopt, Write, LateOK, Call
    <3>6. CASE SaveRoom(x)
      BY <2>1, <3>3, <3>6 DEF SaveRoom, Write
    <3> QED BY <2>6, <3>3, <3>4, <3>5, <3>6
         DEF CallStep, Walk, Self, Find, Legacy, Enter, Descend, ReadRoom, CheckRole,
             Decide, Post, chat
  <2> QED BY <2>2, <2>3, <2>5, <2>6, Steps
<1> QED BY <1>1 DEF LatesOK

\* They do so for ever.
LEMMA AlwaysLates == Spec => [](Typed /\ LetIn /\ LatesOK)
<1>1. Init => LatesOK
  BY DEF Init, LatesOK, Running
<1>2. Typed /\ LetIn /\ LatesOK /\ [Next]_vars => LatesOK'
  <2>1. ASSUME LatesOK, UNCHANGED vars PROVE LatesOK'
    BY <2>1 DEF LatesOK, vars, chat, Running, LateOK
  <2> QED BY <2>1, StepLates
<1> QED BY <1>1, <1>2, AlwaysTyped, PTL DEF Spec

\* A lock is changed only by a call that toggles it, or by the save of a copy that
\* was read before the last toggle: a pin, a limit or an adoption that is not late
\* writes the lock as it found it, however many saves it meets.
THEOREM LocksByToggle == Spec => LockOnlyByToggle
<1> DEFINE Toggled(r) ==
              \E k \in Running :
                  /\ calls[k].room = r /\ calls'[k] # calls[k]
                  /\ calls[k].kind = "toggle" \/ calls[k].late
           Step == \A r \in RoomIds :
                      rooms[r] # None /\ rooms'[r].locked # rooms[r].locked => Toggled(r)
<1>1. ASSUME Typed, LatesOK, Next, NEW r \in RoomIds,
             rooms[r] # None, rooms'[r].locked # rooms[r].locked
      PROVE  Toggled(r)
  <2>1. PICK k \in Running :
           /\ calls[k].room = r /\ calls[k].row # None /\ calls[k].kind # "send"
           /\ rooms'[r] = Saved(calls[k])
           /\ calls'[k] = None \/ calls'[k].row = None
    BY <1>1, Locks
  <2>2. calls'[k] # calls[k]
    BY <2>1 DEF Running
  <2>3. calls[k].kind # "toggle" => Saved(calls[k]).locked = calls[k].row.locked
    BY <1>1, <2>1, Here, SavedRow
  <2>4. calls[k].late \/ calls[k].row.locked = rooms[r].locked
    BY <1>1, <2>1 DEF LatesOK, LateOK
  <2> QED BY <1>1, <2>1, <2>2, <2>3, <2>4
<1>2. Typed /\ LatesOK /\ [Next]_vars => [Step]_vars
  BY <1>1
<1> QED BY <1>2, AlwaysLates, PTL DEF Spec, LockOnlyByToggle

------------------------------------------------------------------------------
(* One group of a super admin.                                             *)

\* Unless two calls were making it at once, who is about to make a group has seen
\* that there is none and nobody has made one since.
SingleOK ==
    \A u \in Users \ raced :
        /\ \A r, s \in GroupsOf(u) : r = s
        /\ \A k \in Running : At(k, "create") /\ calls[k].root = u => GroupsOf(u) = {}

\* Only CreateRoom makes a room.
LEMMA NewRooms ==
    ASSUME Typed, Next, \A k \in Calls : ~ CreateRoom(k)
    PROVE  raced' = raced /\ \A u \in Users : GroupsOf(u)' = GroupsOf(u)
<1>1. RoomsStay
  BY Grows
<1>2. ASSUME NEW k \in Running, NEW then, Write(k, then), calls[k].row # None
      PROVE  \A r \in RoomIds : rooms[r] = None => rooms'[r] = None
  BY <1>2, WriteKeeps DEF Typed, TypeOK
<1>3. ASSUME NEW k \in Calls, CallStep(k)
      PROVE  raced' = raced /\ \A r \in RoomIds : rooms[r] = None => rooms'[r] = None
  <2>1. k \in Running /\ CallOK(calls[k])
    BY <1>3, StepOfOne, Here
  <2>2. CASE Adopt(k)
    BY <1>2, <2>1, <2>2 DEF Adopt, At, CallOK
  <2>3. CASE SaveRoom(k)
    BY <1>2, <2>1, <2>3 DEF SaveRoom
  <2>4. UNCHANGED <<rooms, raced>> \/ Adopt(k) \/ SaveRoom(k)
    BY <1>3 DEF CallStep, Walk, Self, Find, Legacy, Enter, Descend, ReadRoom, CheckRole,
                Decide, Post, chat
  <2> QED BY <2>2, <2>3, <2>4
<1>4. UNCHANGED <<rooms, raced>> \/ \E k \in Calls : CallStep(k)
  BY ZenonT(60) DEF Next, Create, Update, SaveUser, OpenRooms, Begin, Request, Restart, chat
<1>5. raced' = raced /\ \A r \in RoomIds : rooms[r] = None => rooms'[r] = None
  BY <1>3, <1>4
<1> QED BY <1>1, <1>5 DEF RoomsStay, GroupsOf

\* How a call comes to "create".
LEMMA ToCreate ==
    ASSUME Typed, NEW k \in Running, NEW d \in Call, d # None,
           Does(k, calls[k], d), d.pc = "create"
    PROVE  GroupsOf(d.root) = {}
<1> DEFINE c == calls[k]
<1>1. c \in Call /\ CallOK(c)
  BY Here
<1>2. CASE DoesWalk(k, c, d)
  BY <1>1, <1>2 DEF DoesWalk, Call
<1>3. CASE DoesFind(k, c, d)
  BY <1>1, <1>3 DEF DoesFind, Call
<1>4. CASE DoesFinish(k, c, d)
  <2>1. CASE d = Finished(c) \/ d = Finished([c EXCEPT !.room = None])
    <3>1. [c EXCEPT !.room = None] \in Call
      BY <1>1 DEF Call
    <3> QED BY <1>1, <2>1, <3>1, FinishedPc
  <2>2. CASE \E u : d = Start([c EXCEPT !.todo = (c.todo \cup Below(c.user)) \ {u}], u)
    BY <1>1, <2>2 DEF Start, Call
  <2> QED BY <1>4, <2>1, <2>2 DEF DoesFinish
<1>5. CASE DoesRead(k, c, d)
  <2>1. c.pc # "create"
    BY <1>1, <1>5 DEF DoesRead, CallOK, JoinPcs
  <2> QED BY ZenonT(60), <1>1, <1>5, <2>1 DEF DoesRead, Call
<1>6. CASE DoesAsk(k, c, d)
  BY <1>1, <1>6 DEF DoesAsk, Start, Call
<1> QED BY <1>2, <1>3, <1>4, <1>5, <1>6 DEF Does

\* Every step keeps a super admin to one group.
LEMMA StepSingle == ASSUME Typed, LetIn, SingleOK, Next PROVE SingleOK'
<1>1. Typed'
  BY StepTyped
<1>2. CASE \A k \in Calls : ~ CreateRoom(k)
  <2>1. raced' = raced /\ \A u \in Users : GroupsOf(u)' = GroupsOf(u)
    BY <1>2, NewRooms
  <2>2. ASSUME NEW x \in Running', calls'[x].pc = "create", calls'[x].root \in Users \ raced
        PROVE  GroupsOf(calls'[x].root) = {}
    <3> DEFINE c == calls[x]
               d == calls'[x]
    <3>1. d \in Call /\ d # None
      BY <1>1 DEF Typed, TypeOK, Running
    <3>2. CASE x \in Running /\ (Stays(c, d) \/ Moved(c, d))
      <4>1. c \in Call
        BY <3>2, Here
      <4>2. d.pc = c.pc /\ d.root = c.root
        BY <3>2, <4>1 DEF Stays, Moved, Call
      <4>3. x \in Running /\ At(x, "create") /\ c.root \in Users \ raced
        BY <2>2, <3>1, <3>2, <4>2 DEF At, Running
      <4>4. GroupsOf(c.root) = {}
        BY <4>3 DEF SingleOK
      <4> QED BY <4>2, <4>4
    <3>3. CASE Begins(d)
      BY <2>2, <3>3, BeginsPc
    <3>4. CASE x \in Running /\ Does(x, c, d)
      BY <2>2, <3>1, <3>4, ToCreate
    <3> QED BY <3>2, <3>3, <3>4, Steps
  <2> QED BY <2>1, <2>2 DEF SingleOK, At
<1>3. ASSUME NEW k \in Calls, CreateRoom(k) PROVE SingleOK'
  <2> DEFINE c == calls[k]
  <2>1. PICK r \in RoomIds :
           /\ rooms[r] = None
           /\ rooms' = [rooms EXCEPT ![r] =
                 [root |-> c.root, locked |-> FALSE, limit |-> FALSE, pinned |-> FALSE]]
           /\ calls' = [calls EXCEPT ![k].room = r, ![k].pc = "enter"]
    BY <1>3 DEF CreateRoom
  <2>2. k \in Running /\ c.pc = "create" /\ c \in Call
        /\ raced' = IF Making(c.root) = {k} THEN raced ELSE raced \cup {c.root}
    BY <1>3, Here DEF CreateRoom, At
  <2>3. calls'[k].pc = "enter"
    BY <2>1, <2>2 DEF Typed, TypeOK, Call
  <2>4. \A x \in Running' : x # k => x \in Running /\ calls'[x] = calls[x]
    BY <2>1 DEF Typed, TypeOK, Running
  <2>5. \A u \in Users : GroupsOf(u)' \subseteq GroupsOf(u) \cup (IF u = c.root THEN {r} ELSE {})
    BY <2>1 DEF GroupsOf, Typed, TypeOK
  <2>6. ASSUME c.root \notin raced' PROVE Making(c.root) = {k} /\ GroupsOf(c.root) = {}
    <3>1. Making(c.root) = {k} /\ c.root \notin raced
      BY <2>2, <2>6
    <3>2. c.root \in Users
      BY <2>2, Here DEF CallOK, RootPcs, Call
    <3> QED BY <2>2, <3>1, <3>2 DEF SingleOK, At
  <2>7. raced \subseteq raced'
    BY <2>2
  <2>8. ASSUME NEW u \in Users \ raced' PROVE \A s, v \in GroupsOf(u)' : s = v
    BY <2>5, <2>6, <2>7 DEF SingleOK
  <2>9. ASSUME NEW u \in Users \ raced', NEW x \in Running', At(x, "create")', calls'[x].root = u
        PROVE  GroupsOf(u)' = {}
    <3>1. x # k /\ x \in Running /\ calls'[x] = calls[x]
      BY <2>3, <2>4, <2>9 DEF At
    <3>2. calls[x].pc = "create" /\ calls[x].root = u
      BY <2>9, <3>1 DEF At
    <3>3. u # c.root
      BY <2>6, <3>1, <3>2 DEF Making
    <3>4. GroupsOf(u) = {}
      BY <2>7, <3>1, <3>2 DEF SingleOK, At
    <3> QED BY <2>5, <3>3, <3>4
  <2> QED BY <2>8, <2>9 DEF SingleOK
<1> QED BY <1>2, <1>3

\* However calls find, adopt and make groups, only two that were making it at once
\* leave a super admin with two.
THEOREM OneGroup == Spec => []OneGroupPerRoot
<1>1. Init => SingleOK
  BY DEF Init, SingleOK, Running, GroupsOf
<1>2. Typed /\ LetIn /\ SingleOK /\ [Next]_vars => SingleOK'
  <2>1. ASSUME SingleOK, UNCHANGED vars PROVE SingleOK'
    BY <2>1 DEF SingleOK, vars, chat, Running, GroupsOf, At
  <2> QED BY <2>1, StepSingle
<1>3. SingleOK => OneGroupPerRoot
  <2>1. ASSUME NEW u \in Users, \A r, s \in GroupsOf(u) : r = s
        PROVE  Cardinality(GroupsOf(u)) <= 1
    <3>1. CASE GroupsOf(u) = {}
      BY <3>1, FS_EmptySet
    <3>2. CASE GroupsOf(u) # {}
      <4>1. PICK r : r \in GroupsOf(u)
        BY <3>2
      <4>2. GroupsOf(u) = {r}
        BY <2>1, <4>1
      <4>3. Cardinality({r}) = 1
        BY FS_Singleton
      <4> QED BY <4>2, <4>3
    <3> QED BY <3>1, <3>2
  <2> QED BY <2>1 DEF SingleOK, OneGroupPerRoot
<1> QED BY <1>1, <1>2, <1>3, AlwaysTyped, PTL DEF Spec

------------------------------------------------------------------------------
(* The way up a tree.                                                      *)

\* The way up begins with the user himself
LEMMA AboveSelf ==
    ASSUME NEW par, NEW u \in Users PROVE u \in Above(par, u)
BY DEF Above

\* and goes on to the parent of everyone on it.
LEMMA AboveUp ==
    ASSUME NEW par \in Parents, NEW u \in Users, NEW x \in Above(par, u), par[x] # None
    PROVE  par[x] \in Above(par, u)
<1>1. x \in Users /\ par[x] \in Users
  BY DEF Above, Parents
<1>2. ASSUME NEW S \in SUBSET Users, u \in S /\ \A y \in S : par[y] = None \/ par[y] \in S
      PROVE  par[x] \in S
  <2>1. x \in S
    BY <1>2 DEF Above
  <2> QED BY <1>2, <2>1
<1> QED BY <1>1, <1>2 DEF Above

\* What goes on to every parent holds everybody above.
LEMMA AboveIn ==
    ASSUME NEW par, NEW u, NEW S \in SUBSET Users, u \in S,
           \A y \in S : par[y] = None \/ par[y] \in S
    PROVE  Above(par, u) \subseteq S
BY DEF Above

\* The tree that a walk follows ends at the super admins.
Cut(rol, par) == [y \in Users |-> IF rol[y] = 2 THEN None ELSE par[y]]

\* It is a tree too.
LEMMA CutType ==
    ASSUME NEW rol \in Trees, NEW par \in Parents PROVE Cut(rol, par) \in Parents
BY DEF Cut, Parents

\* The nearest super admin is one at the end of it.
LEMMA NearestHits ==
    ASSUME NEW rol, NEW par, NEW u
    PROVE  LET hits == {x \in Above(Cut(rol, par), u) : rol[x] = 2}
           IN Nearest(rol, par, u) = IF hits = {} THEN None ELSE CHOOSE x \in hits : TRUE
BY DEF Nearest, Cut

\* A walk has read the rows on the way from the user to the next one.
OnWay(rol, par, c) ==
    /\ c.user \in c.passed \cup {c.next}
    /\ c.next \in Above(Cut(rol, par), c.user)
    /\ c.next \notin c.passed
    /\ \A y \in c.passed : rol[y] # 2 /\ par[y] \in c.passed \cup {c.next}

\* It ends with the nearest super admin,
LEMMA WayEnds ==
    ASSUME NEW rol \in Trees, NEW par \in Parents, NEW c \in Call, c.next \in Users,
           OnWay(rol, par, c), rol[c.next] = 2
    PROVE  Nearest(rol, par, c.user) = c.next
<1> DEFINE S == c.passed \cup {c.next}
           hits == {x \in Above(Cut(rol, par), c.user) : rol[x] = 2}
<1>1. S \in SUBSET Users
  BY DEF Call
<1>2. \A y \in S : Cut(rol, par)[y] = None \/ Cut(rol, par)[y] \in S
  BY <1>1 DEF OnWay, Cut
<1>3. Above(Cut(rol, par), c.user) \subseteq S
  <2>1. c.user \in S
    BY DEF OnWay
  <2> HIDE DEF S
  <2> QED BY <1>1, <1>2, <2>1, AboveIn
<1>4. hits = {c.next}
  BY <1>3 DEF OnWay
<1>5. (CHOOSE x \in hits : TRUE) = c.next
  BY <1>4
<1> HIDE DEF hits
<1> QED BY <1>4, <1>5, NearestHits DEF hits

\* or has gone round, or to the top, without meeting one.
LEMMA WayLost ==
    ASSUME NEW rol \in Trees, NEW par \in Parents, NEW c \in Call, c.next \in Users,
           OnWay(rol, par, c), rol[c.next] # 2, par[c.next] \in c.passed \cup {c.next, None}
    PROVE  Nearest(rol, par, c.user) = None
<1> DEFINE S == c.passed \cup {c.next}
           hits == {x \in Above(Cut(rol, par), c.user) : rol[x] = 2}
<1>1. S \in SUBSET Users
  BY DEF Call
<1>2. \A y \in S : Cut(rol, par)[y] = None \/ Cut(rol, par)[y] \in S
  BY <1>1 DEF OnWay, Cut
<1>3. Above(Cut(rol, par), c.user) \subseteq S
  <2>1. c.user \in S
    BY DEF OnWay
  <2> HIDE DEF S
  <2> QED BY <1>1, <1>2, <2>1, AboveIn
<1>4. hits = {}
  BY <1>3 DEF OnWay
<1> QED BY <1>4, NearestHits

\* One more row is read.
LEMMA WayOn ==
    ASSUME NEW rol \in Trees, NEW par \in Parents, NEW c \in Call, NEW d, c.next \in Users,
           OnWay(rol, par, c), rol[c.next] # 2, par[c.next] \notin c.passed \cup {c.next, None},
           d.user = c.user, d.passed = c.passed \cup {c.next}, d.next = par[c.next]
    PROVE  OnWay(rol, par, d)
<1>1. Cut(rol, par) \in Parents /\ Cut(rol, par)[c.next] = par[c.next] /\ c.user \in Users
  BY CutType DEF Cut, Call
<1>2. d.next \in Above(Cut(rol, par), d.user)
  BY <1>1, AboveUp DEF OnWay
<1> QED BY <1>2 DEF OnWay

\* Nothing has been read.
LEMMA WayBegins ==
    ASSUME NEW rol, NEW par, NEW d, d.user \in Users, d.next = d.user, d.passed = {}
    PROVE  OnWay(rol, par, d)
BY AboveSelf DEF OnWay

\* Where only rows that have not been read differ, the way is the same.
LEMMA WaySame ==
    ASSUME NEW rol \in Trees, NEW par \in Parents, NEW rol2 \in Trees, NEW par2 \in Parents,
           NEW c \in Call, NEW d, c.next \in Users, OnWay(rol, par, c),
           d.user = c.user, d.passed = c.passed, d.next = c.next,
           \A y \in c.passed : rol2[y] = rol[y] /\ par2[y] = par[y]
    PROVE  OnWay(rol2, par2, d)
<1>1. ASSUME NEW S \in SUBSET Users, c.user \in S, c.next \notin S,
             \A y \in S : Cut(rol2, par2)[y] = None \/ Cut(rol2, par2)[y] \in S
      PROVE  FALSE
  <2> DEFINE T == S \cap c.passed
  <2>1. T \in SUBSET Users /\ c.user \in T
    BY <1>1 DEF OnWay
  <2>2. ASSUME NEW y \in T PROVE Cut(rol, par)[y] = None \/ Cut(rol, par)[y] \in T
    <3>1. rol[y] # 2 /\ par[y] \in c.passed \cup {c.next} /\ y \in S /\ y \in Users
      BY DEF OnWay
    <3>2. Cut(rol, par)[y] = par[y] /\ Cut(rol2, par2)[y] = par[y]
      BY <3>1 DEF Cut
    <3> QED BY <1>1, <3>1, <3>2
  <2> HIDE DEF T
  <2>3. c.next \in T
    BY <2>1, <2>2, AboveIn DEF OnWay
  <2> QED BY <1>1, <2>3 DEF T
<1>2. c.next \in Above(Cut(rol2, par2), c.user)
  BY <1>1 DEF Above
<1> QED BY <1>2 DEF OnWay

------------------------------------------------------------------------------
(* The group that a user joins.                                            *)

\* A walk that nobody disturbs is on the way up the tree; after one update it is
\* still on the way up one of the two trees, and who is above the user there is known.
Fresh(rol, par, c) ==
    c.pc = "walk" /\ c.moves = 0 => OnWay(rol, par, c) /\ Nearest(rol, par, c.user) \in c.roots

Known(rol, par, c) ==
    c.pc = "walk" /\ c.moves < 2 =>
        \E rol0 \in Trees, par0 \in Parents :
            /\ \A y \in Users \ c.passed : rol0[y] = rol[y] /\ par0[y] = par[y]
            /\ OnWay(rol0, par0, c) /\ Nearest(rol0, par0, c.user) \in c.roots

Decided(c) == c.pc \in {"decide", "save"} /\ c.root # None /\ c.moves < 2 => c.root \in c.roots

WaysOK ==
    \A k \in Running :
        Fresh(role, parent, calls[k]) /\ Known(role, parent, calls[k]) /\ Decided(calls[k])

\* A walk that begins.
AtBottom(rol, par, d) ==
    /\ d.next = d.user /\ d.passed = {} /\ d.moves = 0
    /\ d.roots = {Nearest(rol, par, d.user)}

\* What is known of a walk that begins.
LEMMA BottomOK ==
    ASSUME NEW rol \in Trees, NEW par \in Parents, NEW d \in Call, d.pc = "walk",
           AtBottom(rol, par, d)
    PROVE  Fresh(rol, par, d) /\ Known(rol, par, d) /\ Decided(d)
<1>1. OnWay(rol, par, d) /\ Nearest(rol, par, d.user) \in d.roots
  BY WayBegins DEF AtBottom, Call
<1> QED BY <1>1 DEF Fresh, Known, Decided

\* Start begins a walk at the bottom,
LEMMA StartsBelow ==
    ASSUME NEW c \in Call, NEW u \in Users
    PROVE  AtBottom(role, parent, Start(c, u)) /\ Start(c, u).pc = "walk"
BY DEF AtBottom, Start, Call

\* and so does every call that begins with one.
LEMMA BeginsBelow ==
    ASSUME NEW d, Begins(d), d.pc = "walk" PROVE AtBottom(role', parent', d)
<1>1. ASSUME NEW kind, NEW u, d = Listen(kind, u, role', parent')
      PROVE  AtBottom(role', parent', d)
  BY <1>1 DEF Listen, NewCall, AtBottom
<1>2. ASSUME NEW kind, NEW u, d = Start(NewCall(kind, u), u), UNCHANGED tree
      PROVE  AtBottom(role', parent', d)
  BY <1>2 DEF Start, NewCall, AtBottom, tree
<1> QED BY <1>1, <1>2 DEF Begins

\* How a call comes to "walk" and to "decide".
SameWay(c, d) ==
    /\ d.user = c.user /\ d.next = c.next /\ d.passed = c.passed
    /\ d.roots = c.roots /\ d.moves = c.moves /\ d.root = c.root /\ d.pc = c.pc

\* They come there by a step of the walk, by its beginning, or were there.
LEMMA ToWalk ==
    ASSUME Typed, NEW k \in Running, NEW d \in Call, d # None, Does(k, calls[k], d),
           d.pc \in {"walk", "decide"}
    PROVE  \/ DoesWalk(k, calls[k], d)
           \/ d.pc = "walk" /\ AtBottom(role, parent, d)
           \/ SameWay(calls[k], d)
<1> DEFINE c == calls[k]
<1>1. c \in Call /\ CallOK(c) /\ c.user \in Users
  BY Here
<1>2. CASE DoesFind(k, c, d)
  BY <1>1, <1>2 DEF DoesFind, Call
<1>3. CASE DoesFinish(k, c, d)
  <2>1. CASE d = Finished(c) \/ d = Finished([c EXCEPT !.room = None])
    <3>1. [c EXCEPT !.room = None] \in Call
      BY <1>1 DEF Call
    <3> QED BY <1>1, <2>1, <3>1, FinishedPc
  <2>2. ASSUME NEW u \in c.todo \cup Below(c.user),
               d = Start([c EXCEPT !.todo = (c.todo \cup Below(c.user)) \ {u}], u)
        PROVE  d.pc = "walk" /\ AtBottom(role, parent, d)
    <3>1. u \in Users /\ [c EXCEPT !.todo = (c.todo \cup Below(c.user)) \ {u}] \in Call
      BY <1>1 DEF Call, Below, Children, Rows
    <3> QED BY <2>2, <3>1, StartsBelow
  <2> QED BY <1>3, <2>1, <2>2 DEF DoesFinish
<1>4. CASE DoesRead(k, c, d)
  <2> DEFINE row == [rooms[c.room] EXCEPT !.locked =
                        IF c.kind = "send" THEN @ /\ role[c.user] # 2 ELSE @]
             pc == IF c.pc # "read" THEN c.pc ELSE IF c.kind = "toggle" THEN "save" ELSE "role"
  <2>1. d = [c EXCEPT !.row = row, !.pc = pc]
    BY <1>4 DEF DoesRead
  <2> HIDE DEF row
  <2>2. d.pc = pc
    BY <1>1, <2>1 DEF Call
  <2>3. pc = c.pc
    BY <2>2
  <2> HIDE DEF pc
  <2> QED BY <1>1, <2>1, <2>3 DEF SameWay, Call
<1>5. CASE DoesAsk(k, c, d)
  <2>1. CASE d = Start(c, c.user)
    BY <1>1, <2>1, StartsBelow
  <2>2. d # [c EXCEPT !.pc = "save"]
    BY <1>1 DEF Call
  <2> QED BY <1>5, <2>1, <2>2 DEF DoesAsk
<1> QED BY <1>2, <1>3, <1>4, <1>5 DEF Does

\* One more row of a walk.
LEMMA WalkWays ==
    ASSUME Typed, NEW k \in Running, NEW d \in Call, DoesWalk(k, calls[k], d),
           Fresh(role, parent, calls[k]), Known(role, parent, calls[k])
    PROVE  Fresh(role, parent, d) /\ Known(role, parent, d) /\ Decided(d)
<1> DEFINE c == calls[k]
<1>1. /\ c \in Call /\ c.pc = "walk" /\ c.next \in Users /\ c.root = None
      /\ role \in Trees /\ parent \in Parents
  BY Here DEF DoesWalk, CallOK, Call, Typed, TypeOK, Trees, Parents
<1>2. d.user = c.user /\ d.moves = c.moves /\ d.roots = c.roots /\ d.passed = c.passed \cup {c.next}
  BY ZenonT(60), <1>1 DEF DoesWalk, Call
<1>3. CASE d.pc # "walk" /\ Stops(c.next) /\ d.root = c.next
  <2>1. ASSUME c.moves < 2 PROVE c.next \in c.roots
    <3>1. PICK rol0 \in Trees, par0 \in Parents :
             /\ \A y \in Users \ c.passed : rol0[y] = role[y] /\ par0[y] = parent[y]
             /\ OnWay(rol0, par0, c) /\ Nearest(rol0, par0, c.user) \in c.roots
      BY <1>1, <2>1 DEF Known
    <3>2. rol0[c.next] = 2
      BY <1>1, <1>3, <3>1 DEF OnWay, Stops
    <3> QED BY <1>1, <3>1, <3>2, WayEnds
  <2> QED BY <1>2, <1>3, <2>1 DEF Fresh, Known, Decided
<1>4. CASE d.pc # "walk" /\ d.root = None
  BY <1>4 DEF Fresh, Known, Decided
<1>5. CASE /\ d.pc = "walk" /\ ~ Stops(c.next) /\ parent[c.next] \notin c.passed \cup {c.next, None}
           /\ d.next = parent[c.next]
  <2>1. ASSUME c.moves = 0 PROVE OnWay(role, parent, d) /\ Nearest(role, parent, d.user) \in d.roots
    BY <1>1, <1>2, <1>5, <2>1, WayOn DEF Fresh, Stops
  <2>2. ASSUME c.moves < 2
        PROVE  \E rol0 \in Trees, par0 \in Parents :
                  /\ \A y \in Users \ d.passed : rol0[y] = role[y] /\ par0[y] = parent[y]
                  /\ OnWay(rol0, par0, d) /\ Nearest(rol0, par0, d.user) \in d.roots
    <3>1. PICK rol0 \in Trees, par0 \in Parents :
             /\ \A y \in Users \ c.passed : rol0[y] = role[y] /\ par0[y] = parent[y]
             /\ OnWay(rol0, par0, c) /\ Nearest(rol0, par0, c.user) \in c.roots
      BY <1>1, <2>2 DEF Known
    <3>2. rol0[c.next] = role[c.next] /\ par0[c.next] = parent[c.next]
      BY <1>1, <3>1 DEF OnWay
    <3>3. OnWay(rol0, par0, d)
      BY <1>1, <1>2, <1>5, <3>1, <3>2, WayOn DEF Stops
    <3> QED BY <1>2, <3>1, <3>3
  <2> QED BY <1>2, <1>5, <2>1, <2>2 DEF Fresh, Known, Decided
<1>6. \/ d.pc # "walk" /\ Stops(c.next) /\ d.root = c.next
      \/ d.pc # "walk" /\ d.root = None
      \/ /\ d.pc = "walk" /\ ~ Stops(c.next) /\ parent[c.next] \notin c.passed \cup {c.next, None}
         /\ d.next = parent[c.next]
  BY ZenonT(60), <1>1 DEF DoesWalk, Call
<1> QED BY <1>3, <1>4, <1>5, <1>6

\* An update of the tree during a walk.
LEMMA MovedWays ==
    ASSUME Typed, NEW x \in Running, Moved(calls[x], calls'[x]), SomeUpdate,
           Fresh(role, parent, calls[x]), Known(role, parent, calls[x]), Decided(calls[x])
    PROVE  /\ Fresh(role', parent', calls'[x]) /\ Known(role', parent', calls'[x])
           /\ Decided(calls'[x])
<1> DEFINE c == calls[x]
           d == calls'[x]
<1>1. PICK u \in Users : /\ role' \in Trees /\ parent' \in Parents
                         /\ \A v \in Users \ {u} : role'[v] = role[v] /\ parent'[v] = parent[v]
  BY SaveUserCalls DEF SomeUpdate
<1>2. c \in Call /\ CallOK(c) /\ role \in Trees /\ parent \in Parents
  BY Here DEF Typed, TypeOK, Trees, Parents
<1>3. /\ d.user = c.user /\ d.next = c.next /\ d.passed = c.passed /\ d.pc = c.pc /\ d.root = c.root
      /\ d.roots = c.roots \cup {Nearest(role', parent', c.user)}
      /\ c.moves \in 0..2 /\ d.moves # 0 /\ (d.moves < 2 => c.moves = 0)
  <2>1. /\ d.user = c.user /\ d.next = c.next /\ d.passed = c.passed /\ d.pc = c.pc /\ d.root = c.root
        /\ d.roots = c.roots \cup {Nearest(role', parent', c.user)}
        /\ d.moves = IF c.moves = 2 THEN 2 ELSE c.moves + 1
    BY <1>2 DEF Moved, Call
  <2>2. c.moves \in 0..2
    BY <1>2 DEF Call
  <2>3. d.moves # 0 /\ (d.moves < 2 => c.moves = 0)
    BY <2>1, <2>2
  <2> QED BY <2>1, <2>2, <2>3
<1>4. Fresh(role', parent', d)
  BY <1>3 DEF Fresh
<1>5. Decided(d)
  BY <1>3 DEF Decided
<1>6. ASSUME d.pc = "walk", d.moves < 2
      PROVE  \E rol0 \in Trees, par0 \in Parents :
                /\ \A y \in Users \ d.passed : rol0[y] = role'[y] /\ par0[y] = parent'[y]
                /\ OnWay(rol0, par0, d) /\ Nearest(rol0, par0, d.user) \in d.roots
  <2>1. OnWay(role, parent, c) /\ Nearest(role, parent, c.user) \in c.roots /\ c.next \in Users
    BY <1>2, <1>3, <1>6 DEF Fresh, CallOK, Call
  <2>2. CASE u \in c.passed
    <3>1. OnWay(role, parent, d)
      BY <1>2, <1>3, <2>1, WaySame
    <3>2. \A y \in Users \ d.passed : role[y] = role'[y] /\ parent[y] = parent'[y]
      BY <1>1, <1>3, <2>2
    <3>3. Nearest(role, parent, d.user) \in d.roots
      BY <1>3, <2>1
    <3> QED BY <1>2, <3>1, <3>2, <3>3
  <2>3. CASE u \notin c.passed
    <3>1. \A y \in c.passed : role'[y] = role[y] /\ parent'[y] = parent[y]
      BY <1>1, <1>2, <2>3 DEF Call
    <3>2. OnWay(role', parent', d)
      BY <1>1, <1>2, <1>3, <2>1, <3>1, WaySame
    <3>3. Nearest(role', parent', d.user) \in d.roots
      BY <1>3
    <3> QED BY <1>1, <3>2, <3>3
  <2> QED BY <2>2, <2>3
<1> QED BY <1>4, <1>5, <1>6 DEF Known

\* Every step keeps what is known of the walks.
LEMMA StepWays == ASSUME Typed, LetIn, WaysOK, Next PROVE WaysOK'
<1>1. Typed'
  BY StepTyped
<1>2. ASSUME NEW x \in Running'
      PROVE  /\ Fresh(role', parent', calls'[x]) /\ Known(role', parent', calls'[x])
             /\ Decided(calls'[x])
  <2> DEFINE c == calls[x]
             d == calls'[x]
  <2>1. d \in Call /\ d # None /\ role' \in Trees /\ parent' \in Parents
    BY <1>1 DEF Typed, TypeOK, Running, Trees, Parents
  <2>2. CASE Begins(d)
    <3>1. CASE d.pc = "walk"
      BY <2>1, <2>2, <3>1, BeginsBelow, BottomOK
    <3>2. CASE d.pc # "walk"
      BY <2>2, <3>2, BeginsPc DEF Fresh, Known, Decided
    <3> QED BY <3>1, <3>2
  <2>3. CASE x \in Running /\ Moved(c, d) /\ SomeUpdate
    <3>1. Fresh(role, parent, c) /\ Known(role, parent, c) /\ Decided(c)
      BY <2>3 DEF WaysOK
    <3> HIDE DEF c, d
    <3> QED BY <2>3, <3>1, MovedWays DEF c, d
  <2>4. ASSUME x \in Running, UNCHANGED tree, SameWay(c, d)
        PROVE  Fresh(role', parent', d) /\ Known(role', parent', d) /\ Decided(d)
    <3>1. Fresh(role, parent, c) /\ Known(role, parent, c) /\ Decided(c)
      BY <2>4 DEF WaysOK
    <3>2. role' = role /\ parent' = parent
      BY <2>4 DEF tree
    <3> HIDE DEF c, d
    <3>3. OnWay(role, parent, d) = OnWay(role, parent, c)
      BY <2>4 DEF SameWay, OnWay
    <3>4. \A rol0, par0 : OnWay(rol0, par0, d) = OnWay(rol0, par0, c)
      BY <2>4 DEF SameWay, OnWay
    <3>5. Fresh(role', parent', d) /\ Decided(d)
      BY <2>4, <3>1, <3>2, <3>3 DEF SameWay, Fresh, Decided
    <3>6. Known(role', parent', d)
      BY <2>4, <3>1, <3>2, <3>4 DEF SameWay, Known
    <3> QED BY <3>5, <3>6
  <2>5. CASE x \in Running /\ Stays(c, d) /\ UNCHANGED tree
    <3>1. SameWay(c, d)
      BY <2>5, Here DEF Stays, SameWay, Call
    <3> QED BY <2>4, <2>5, <3>1
  <2>6. CASE x \in Running /\ Does(x, c, d) /\ UNCHANGED tree
    <3>1. role' = role /\ parent' = parent
      BY <2>6 DEF tree
    <3>2. c \in Call /\ CallOK(c)
      BY <2>6, Here
    <3>3. CASE d.pc = "save"
      <4>1. /\ d.root = c.root /\ d.moves = c.moves /\ d.roots = c.roots
            /\ c.pc \in {"decide", "save"} \/ c.root = None
        BY <2>1, <2>6, <3>3, ToSave
      <4>2. Decided(c)
        BY <2>6 DEF WaysOK
      <4>3. Decided(d)
        BY <4>1, <4>2 DEF Decided
      <4> QED BY <3>3, <4>3 DEF Fresh, Known
    <3>4. CASE d.pc \in {"walk", "decide"}
      <4>1. \/ DoesWalk(x, c, d)
            \/ d.pc = "walk" /\ AtBottom(role, parent, d)
            \/ SameWay(c, d)
        BY <2>1, <2>6, <3>4, ToWalk
      <4>2. CASE DoesWalk(x, c, d)
        <5>1. Fresh(role, parent, c) /\ Known(role, parent, c)
          BY <2>6 DEF WaysOK
        <5>2. Fresh(role, parent, d) /\ Known(role, parent, d) /\ Decided(d)
          BY <2>1, <2>6, <4>2, <5>1, WalkWays
        <5> QED BY <3>1, <5>2
      <4>3. CASE d.pc = "walk" /\ AtBottom(role, parent, d)
        BY <2>1, <3>1, <4>3, BottomOK
      <4>4. CASE SameWay(c, d)
        BY <2>4, <2>6, <4>4
      <4> QED BY <4>1, <4>2, <4>3, <4>4
    <3>5. CASE d.pc \notin {"walk", "decide", "save"}
      BY <3>5 DEF Fresh, Known, Decided
    <3> QED BY <3>3, <3>4, <3>5
  <2> QED BY <2>2, <2>3, <2>5, <2>6, Steps
<1> QED BY <1>2 DEF WaysOK

\* It is known for ever.
LEMMA AlwaysWays == Spec => [](Typed /\ LetIn /\ WaysOK)
<1>1. Init => WaysOK
  BY DEF Init, WaysOK, Running
<1>2. Typed /\ LetIn /\ WaysOK /\ [Next]_vars => WaysOK'
  <2>1. ASSUME WaysOK, UNCHANGED vars PROVE WaysOK'
    BY <2>1 DEF WaysOK, vars, tree, Running, Fresh, Known
  <2> QED BY <2>1, StepWays
<1> QED BY <1>1, <1>2, AlwaysTyped, PTL DEF Spec

\* A user who is let into a group by the walk was under its super admin at some
\* moment of the call, unless the tree was changed twice meanwhile: one change can
\* mix two trees, but not lead to a group that is his in neither.
THEOREM JoinsOwn == Spec => []JoinsOwnGroup
<1>1. Typed /\ WaysOK => JoinsOwnGroup
  <2>1. ASSUME Typed, WaysOK, NEW k \in Running, At(k, "save"), calls[k].root # None,
               calls[k].moves < 2
        PROVE  rooms[calls[k].room].root \in calls[k].roots
    <3>1. calls[k].pc = "save" /\ rooms[calls[k].room].root = calls[k].root
      BY <2>1, Here DEF At, RoomOK
    <3>2. Decided(calls[k])
      BY <2>1 DEF WaysOK
    <3> QED BY <2>1, <3>1, <3>2 DEF Decided
  <2> QED BY <2>1 DEF JoinsOwnGroup
<1> QED BY <1>1, AlwaysWays, PTL

------------------------------------------------------------------------------
(* Those below a user who was moved.                                       *)

\* Who has no super admin, or is in a group of him.
Settled ==
    {u \in Users :
        \/ Nearest(role, parent, u) = None
        \/ \E r \in GroupsOf(Nearest(role, parent, u)) : <<r, u>> \in members}

\* Until the next update the listener of a move goes through a tree that stands
\* still: behind it are users who are settled, and whoever is below one of them is
\* settled too or still to come.
Ahead(c) == c.todo \cup {c.user}

Follows(done, rol, par, c) ==
    c.kind = "moved" /\ c.calm =>
        /\ c.moves = 0
        /\ c.pc \in RootPcs => c.root = Nearest(rol, par, c.user)
        /\ c.pc = "self" => Nearest(rol, par, c.user) = None
        /\ c.pc = "children" => c.user \in done
        /\ \E D \in SUBSET done :
              /\ c.of \in D \cup Ahead(c)
              /\ \A y \in Users : par[y] \in D => y \in D \cup Ahead(c)

FollowsOK == \A k \in Running : Follows(Settled, role, parent, calls[k])

\* While the tree stands still, who is settled stays so.
LEMMA SettledStay ==
    ASSUME Typed, Next, UNCHANGED tree PROVE Settled \subseteq Settled'
<1>1. RoomsStay /\ members \subseteq members'
  BY Grows
<1>2. role' = role /\ parent' = parent
  BY DEF tree
<1>3. \A u : GroupsOf(u) \subseteq GroupsOf(u)'
  BY <1>1 DEF RoomsStay, GroupsOf
<1>4. ASSUME NEW u \in Settled PROVE u \in Settled'
  <2>1. CASE Nearest(role, parent, u) = None
    BY <1>2, <2>1 DEF Settled
  <2>2. ASSUME NEW r \in GroupsOf(Nearest(role, parent, u)), <<r, u>> \in members
        PROVE  u \in Settled'
    <3>1. r \in GroupsOf(Nearest(role, parent, u))'
      BY <1>1, <1>2, <2>2 DEF RoomsStay, GroupsOf
    <3>2. <<r, u>> \in members'
      BY <1>1, <2>2
    <3> QED BY <3>1, <3>2 DEF Settled
  <2> QED BY <2>1, <2>2 DEF Settled
<1> QED BY <1>4

\* A super admin is his own.
LEMMA NearestSelf ==
    ASSUME NEW rol \in Trees, NEW par \in Parents, NEW u \in Users, rol[u] = 2
    PROVE  Nearest(rol, par, u) # None
<1> DEFINE hits == {x \in Above(Cut(rol, par), u) : rol[x] = 2}
<1>1. u \in hits /\ hits \subseteq Users
  BY AboveSelf DEF Above
<1> HIDE DEF hits
<1>2. (CHOOSE x \in hits : TRUE) \in hits
  BY <1>1
<1> QED BY <1>1, <1>2, NearestHits, NoneAssumption DEF hits

\* The call is about the same user and the same are to come.
SameUser(c, d) ==
    /\ d.kind = c.kind /\ d.of = c.of /\ d.user = c.user /\ d.todo = c.todo
    /\ d.calm = c.calm /\ d.moves = c.moves

\* What is behind it stays so.
LEMMA Behind ==
    ASSUME NEW done, NEW more, done \subseteq more, NEW rol, NEW par, NEW c, NEW d,
           SameUser(c, d), d.kind = "moved", d.calm, Follows(done, rol, par, c),
           d.pc \in RootPcs => d.root = Nearest(rol, par, d.user),
           d.pc = "self" => Nearest(rol, par, d.user) = None,
           d.pc = "children" => d.user \in more
    PROVE  Follows(more, rol, par, d)
<1>1. PICK D \in SUBSET done :
         /\ c.of \in D \cup Ahead(c)
         /\ \A y \in Users : par[y] \in D => y \in D \cup Ahead(c)
  BY DEF SameUser, Follows
<1>2. Ahead(d) = Ahead(c) /\ D \in SUBSET more /\ d.of = c.of /\ d.moves = 0
  BY DEF SameUser, Ahead, Follows
<1>3. \E E \in SUBSET more :
         d.of \in E \cup Ahead(d) /\ \A y \in Users : par[y] \in E => y \in E \cup Ahead(d)
  BY <1>1, <1>2
<1> QED BY <1>2, <1>3 DEF Follows

\* The listener begins with the user who was moved.
LEMMA BeginsFollow ==
    ASSUME NEW d, Begins(d), NEW done, NEW rol, NEW par PROVE Follows(done, rol, par, d)
<1>1. ASSUME d.kind = "moved" PROVE d.pc = "walk" /\ d.of = d.user /\ d.moves = 0
  <2>1. ASSUME NEW kind, NEW u, d = Listen(kind, u, role', parent')
        PROVE  d.pc = "walk" /\ d.of = d.user /\ d.moves = 0
    BY <2>1 DEF Listen, NewCall
  <2>2. \A u : Start(NewCall("open", u), u).kind = "open"
    BY DEF Start, NewCall
  <2> QED BY <1>1, <2>1, <2>2 DEF Begins, Joiners, Listeners
<1>2. d.of = d.user => \E D \in SUBSET done :
         d.of \in D \cup Ahead(d) /\ \A y \in Users : par[y] \in D => y \in D \cup Ahead(d)
  <2>1. {} \in SUBSET done
    OBVIOUS
  <2>2. d.of = d.user => d.of \in {} \cup Ahead(d)
    BY DEF Ahead
  <2> QED BY <2>1, <2>2
<1> QED BY <1>1, <1>2 DEF Follows, RootPcs

\* Looking for a group or making it is for the same user and the same super admin.
LEMMA FindUser ==
    ASSUME NEW k, NEW c \in Call, NEW d, DoesFind(k, c, d)
    PROVE  /\ SameUser(c, d) /\ d.pc \in RootPcs
           /\ \/ c.pc = "self" /\ role[c.user] = 2
              \/ c.pc \in RootPcs /\ d.root = c.root
<1> DEFINE Keeps == SameUser(c, d) /\ d.pc \in RootPcs /\ d.root = c.root
<1>1. ASSUME d = [c EXCEPT !.root = c.user, !.pc = "find"]
      PROVE  SameUser(c, d) /\ d.pc \in RootPcs
  BY <1>1 DEF SameUser, RootPcs, Call
<1>2. ASSUME d = [c EXCEPT !.pc = "legacy"] \/ d = [c EXCEPT !.pc = "create"] PROVE Keeps
  BY <1>2 DEF SameUser, RootPcs, Call
<1>3. ASSUME \E r : d = [c EXCEPT !.room = r, !.pc = "enter"] PROVE Keeps
  BY <1>3 DEF SameUser, RootPcs, Call
<1>4. ASSUME \E r, row : d = [c EXCEPT !.room = r, !.row = row, !.pc = "adopt"] PROVE Keeps
  BY <1>4 DEF SameUser, RootPcs, Call
<1>5. ASSUME d = [c EXCEPT !.row = None, !.late = FALSE, !.pc = "enter"] PROVE Keeps
  BY <1>5 DEF SameUser, RootPcs, Call
<1> HIDE DEF Keeps
<1>6. \/ /\ c.pc = "self" /\ role[c.user] = 2
         /\ d = [c EXCEPT !.root = c.user, !.pc = "find"]
      \/ c.pc \in RootPcs /\ Keeps
  <2>1. {"find", "legacy", "adopt", "create"} \subseteq RootPcs
    BY DEF RootPcs
  <2>2. c.pc \in {"find", "legacy", "adopt", "create"} => c.pc \in RootPcs
    BY <2>1
  <2> QED BY <1>2, <1>3, <1>4, <1>5, <2>2, Zenon DEF DoesFind
<1> QED BY <1>1, <1>6 DEF Keeps

\* A step of the listener.
LEMMA DoesFollow ==
    ASSUME Typed, Next, UNCHANGED tree, NEW k \in Running, NEW d \in Call, d # None,
           Does(k, calls[k], d), Fresh(role, parent, calls[k]),
           Follows(Settled, role, parent, calls[k]), d.kind = "moved", d.calm
    PROVE  Follows(Settled', role, parent, d)
<1> DEFINE c == calls[k]
<1>1. /\ c \in Call /\ CallOK(c) /\ RoomOK(rooms, c) /\ c.user \in Users
      /\ role \in Trees /\ parent \in Parents /\ Settled \subseteq Settled'
  BY Here, SettledStay DEF Typed, TypeOK, Trees, Parents
<1>2. CASE DoesWalk(k, c, d)
  <2>1. /\ SameUser(c, d) /\ c.pc = "walk" /\ c.next \in Users
        /\ \/ Stops(c.next) /\ d.root = c.next /\ d.pc \in {"find", "decide"}
           \/ ~ Stops(c.next) /\ parent[c.next] \in c.passed \cup {c.next, None}
              /\ d.pc \in {"self", "decide"}
           \/ d.pc = "walk"
    BY ZenonT(60), <1>1, <1>2 DEF DoesWalk, SameUser, CallOK, Call
  <2>2. c.moves = 0 /\ OnWay(role, parent, c) /\ d.user = c.user
    BY <2>1 DEF SameUser, Follows, Fresh
  <2>3. d.pc \in RootPcs => d.root = Nearest(role, parent, d.user)
    BY <1>1, <2>1, <2>2, WayEnds DEF Stops, RootPcs
  <2>4. d.pc = "self" => Nearest(role, parent, d.user) = None
    BY <1>1, <2>1, <2>2, WayLost DEF Stops
  <2>5. d.pc # "children"
    BY <2>1
  <2> HIDE DEF c
  <2> QED BY <1>1, <2>1, <2>3, <2>4, <2>5, Behind DEF c
<1>3. CASE DoesFind(k, c, d)
  <2>1. /\ SameUser(c, d) /\ d.pc \in RootPcs
        /\ \/ c.pc = "self" /\ role[c.user] = 2
           \/ c.pc \in RootPcs /\ d.root = c.root
    BY <1>1, <1>3, FindUser
  <2>2. Nearest(role, parent, c.user) = None => role[c.user] # 2
    BY <1>1, NearestSelf
  <2>3. d.root = Nearest(role, parent, d.user)
    BY <2>1, <2>2 DEF Follows, SameUser
  <2>4. d.pc \notin {"self", "children"}
    BY <2>1 DEF RootPcs
  <2> HIDE DEF c
  <2> QED BY <1>1, <2>1, <2>3, <2>4, Behind DEF c
<1>4. CASE Self(k) /\ c.pc = "self" /\ d = Finished(c)
  <2>1. SameUser(c, d) /\ d.pc = "children"
    BY ZenonT(60), <1>1, <1>4, FinishedPc DEF Finished, SameUser, Call
  <2>2. Nearest(role, parent, c.user) = None
    BY <1>4, <2>1 DEF Follows, SameUser
  <2>3. d.user \in Settled'
    BY <1>1, <2>1, <2>2 DEF Settled, SameUser
  <2> HIDE DEF c
  <2> QED BY <1>1, <2>1, <2>3, Behind DEF c, RootPcs
<1>5. CASE Enter(k) /\ c.pc = "enter" /\ d = Finished([c EXCEPT !.room = None])
  <2> DEFINE out == [c EXCEPT !.room = None]
  <2>1. out \in Call /\ SameUser(c, out)
    BY <1>1 DEF Call, SameUser
  <2>2. d = Finished(out)
    BY <1>5
  <2> HIDE DEF out
  <2>3. SameUser(c, d) /\ d.pc = "children"
    BY ZenonT(60), <2>1, <2>2, FinishedPc DEF Finished, SameUser, Call
  <2>4. c.root = Nearest(role, parent, c.user)
    BY <1>5, <2>3 DEF Follows, SameUser, RootPcs
  <2>5. c.room \in GroupsOf(c.root)
    BY <1>1, <1>5 DEF RoomOK, HasRoom, GroupsOf, Call
  <2>6. <<c.room, c.user>> \in members' /\ UNCHANGED rooms
    BY <1>5 DEF Enter, Entering
  <2>7. role' = role /\ parent' = parent
    BY DEF tree
  <2>8. c.room \in RoomIds /\ rooms'[c.room] # None
        /\ rooms'[c.room].root = Nearest(role', parent', c.user)
    BY <2>4, <2>5, <2>6, <2>7 DEF GroupsOf
  <2>9. d.user \in Settled'
    BY <1>1, <2>3, <2>6, <2>8 DEF Settled, SameUser, GroupsOf
  <2> HIDE DEF c
  <2> QED BY <1>1, <2>3, <2>9, Behind DEF c, RootPcs
<1>6. ASSUME c.pc = "children", NEW u \in c.todo \cup Below(c.user),
             d = Start([c EXCEPT !.todo = (c.todo \cup Below(c.user)) \ {u}], u)
      PROVE  Follows(Settled', role, parent, d)
  <2>1. /\ d.kind = c.kind /\ d.of = c.of /\ d.calm = c.calm /\ d.pc = "walk" /\ d.moves = 0
        /\ Ahead(d) = c.todo \cup Below(c.user)
    <3> DEFINE T == c.todo \cup Below(c.user)
               rest == [c EXCEPT !.todo = T \ {u}]
    <3>1. T \subseteq Users
      BY <1>1 DEF Below, Children, Rows, Call
    <3>2. u \in T /\ d = Start(rest, u)
      BY <1>6
    <3> HIDE DEF T
    <3>3. /\ rest \in Call /\ rest.kind = c.kind /\ rest.of = c.of /\ rest.calm = c.calm
          /\ rest.todo = T \ {u}
      BY <1>1, <3>1 DEF Call
    <3> HIDE DEF rest
    <3>4. /\ d.kind = rest.kind /\ d.of = rest.of /\ d.calm = rest.calm /\ d.todo = rest.todo
          /\ d.pc = "walk" /\ d.moves = 0 /\ d.user = u
      BY ZenonT(60), <3>2, <3>3 DEF Start, Call
    <3> QED BY <3>2, <3>3, <3>4 DEF Ahead, T
  <2>2. PICK D \in SUBSET Settled :
           /\ c.of \in D \cup Ahead(c)
           /\ \A y \in Users : parent[y] \in D => y \in D \cup Ahead(c)
    BY <2>1 DEF Follows
  <2>3. c.user \in Settled
    BY <1>6, <2>1 DEF Follows
  <2> DEFINE E == D \cup {c.user}
  <2>4. E \in SUBSET Settled'
    BY <1>1, <2>2, <2>3
  <2>5. d.of \in E \cup Ahead(d)
    BY <2>1, <2>2 DEF Ahead
  <2>6. ASSUME NEW y \in Users, parent[y] \in E PROVE y \in E \cup Ahead(d)
    <3>1. CASE parent[y] \in D
      BY <2>1, <2>2, <3>1 DEF Ahead
    <3>2. CASE parent[y] = c.user
      <4>1. y \in Children(c.user)
        BY <1>1, <3>2, NoneAssumption DEF Typed, RowsOK, Children
      <4> QED BY <2>1, <4>1 DEF Below
    <3> QED BY <2>6, <3>1, <3>2
  <2> HIDE DEF E
  <2> QED BY <2>1, <2>4, <2>5, <2>6 DEF Follows, RootPcs
<1>7. CASE DoesFinish(k, c, d)
  BY <1>4, <1>5, <1>6, <1>7 DEF DoesFinish
<1>8. CASE DoesRead(k, c, d) \/ DoesAsk(k, c, d)
  <2>1. c.kind \notin Joiners
    BY <1>1, <1>8 DEF DoesRead, DoesAsk, CallOK, AskPcs
  <2>2. CASE DoesRead(k, c, d)
    <3>1. \A row, pc : [c EXCEPT !.row = row, !.pc = pc].kind = c.kind
      BY <1>1 DEF Call
    <3> QED BY <2>1, <2>2, <3>1 DEF DoesRead, Joiners, Listeners
  <2>3. CASE DoesAsk(k, c, d)
    <3>1. d = Start(c, c.user) \/ d = [c EXCEPT !.pc = "save"]
      BY <2>3 DEF DoesAsk
    <3>2. Start(c, c.user).kind = c.kind
      BY <1>1 DEF Start, Call
    <3>3. [c EXCEPT !.pc = "save"].kind = c.kind
      BY <1>1 DEF Call
    <3> QED BY <2>1, <3>1, <3>2, <3>3 DEF Joiners, Listeners
  <2> QED BY <1>8, <2>2, <2>3
<1> QED BY <1>2, <1>3, <1>7, <1>8 DEF Does

\* Every step keeps what is known of the listeners.
LEMMA StepFollows == ASSUME Typed, LetIn, WaysOK, FollowsOK, Next PROVE FollowsOK'
<1>1. Typed'
  BY StepTyped
<1>2. ASSUME NEW x \in Running' PROVE Follows(Settled', role', parent', calls'[x])
  <2> DEFINE c == calls[x]
             d == calls'[x]
  <2>1. d \in Call /\ d # None
    BY <1>1 DEF Typed, TypeOK, Running
  <2>2. CASE Begins(d)
    BY <2>2, BeginsFollow
  <2>3. CASE x \in Running /\ Moved(c, d)
    <3>1. ~ d.calm
      BY <2>3, Here DEF Moved, Call
    <3> QED BY <3>1 DEF Follows
  <2>4. CASE x \in Running /\ Stays(c, d) /\ UNCHANGED tree
    <3>1. SameUser(c, d) /\ d.pc = c.pc /\ d.root = c.root
      BY <2>4, Here DEF Stays, SameUser, Call
    <3>2. Follows(Settled, role, parent, c) /\ Settled \subseteq Settled'
      BY <2>4, SettledStay DEF FollowsOK
    <3>3. role' = role /\ parent' = parent
      BY <2>4 DEF tree
    <3>4. ASSUME d.kind = "moved", d.calm PROVE Follows(Settled', role, parent, d)
      <4>1. /\ d.pc \in RootPcs => d.root = Nearest(role, parent, d.user)
            /\ d.pc = "self" => Nearest(role, parent, d.user) = None
            /\ d.pc = "children" => d.user \in Settled'
        BY <3>1, <3>2, <3>4 DEF SameUser, Follows
      <4> HIDE DEF c, d
      <4> QED BY <3>1, <3>2, <3>4, <4>1, Behind
    <3> QED BY <3>3, <3>4 DEF Follows
  <2>5. CASE x \in Running /\ Does(x, c, d) /\ UNCHANGED tree
    <3>1. Follows(Settled, role, parent, c) /\ Fresh(role, parent, c)
      BY <2>5 DEF FollowsOK, WaysOK
    <3>2. role' = role /\ parent' = parent
      BY <2>5 DEF tree
    <3>3. d.kind = "moved" /\ d.calm => Follows(Settled', role, parent, d)
      BY <2>1, <2>5, <3>1, DoesFollow
    <3> QED BY <3>2, <3>3 DEF Follows
  <2> QED BY <2>2, <2>3, <2>4, <2>5, Steps
<1> QED BY <1>2 DEF FollowsOK

\* With no one to come, those behind the listener are all who are below the user.
LEMMA Everybody ==
    ASSUME Typed, NEW c \in Call, Follows(Settled, role, parent, c), c.kind = "moved", c.calm,
           c.pc = "children", c.todo = {}, Below(c.user) = {}
    PROVE  Descendants(c.of) \cup {c.of} \subseteq Settled
<1>1. PICK D \in SUBSET Settled :
         /\ c.of \in D \cup Ahead(c)
         /\ \A y \in Users : parent[y] \in D => y \in D \cup Ahead(c)
  BY DEF Follows
<1> DEFINE E == D \cup {c.user}
           S == Users \ E
<1>2. E \subseteq Settled /\ c.of \in E
  BY <1>1 DEF Follows, Ahead
<1>3. ASSUME NEW y \in Users, parent[y] \in E PROVE y \in E
  <2>1. CASE parent[y] \in D
    BY <1>1, <2>1 DEF Ahead
  <2>2. CASE parent[y] = c.user
    <3>1. c.user # None
      BY NoneAssumption DEF Call
    <3>2. y \in Below(c.user)
      BY <2>2, <3>1 DEF Typed, RowsOK, Below, Children
    <3> QED BY <3>2
  <2> QED BY <1>3, <2>1, <2>2
<1>4. ASSUME NEW u \in Descendants(c.of), u \notin E PROVE FALSE
  <2>1. u \in Users /\ c.of \in Above(parent, u)
    BY <1>4 DEF Descendants, Rows
  <2>2. u \in S /\ S \in SUBSET Users
    BY <1>4, <2>1
  <2>3. ASSUME NEW y \in S PROVE parent[y] = None \/ parent[y] \in S
    <3>1. parent[y] \in Users \cup {None} /\ parent[y] \notin E
      BY <1>3 DEF Typed, TypeOK
    <3> QED BY <3>1
  <2> HIDE DEF S
  <2>4. c.of \in S
    BY <2>1, <2>2, <2>3, AboveIn
  <2> QED BY <1>2, <2>4 DEF S
<1> QED BY <1>2, <1>4

\* When the listener of a move has nobody left to bring over, and no user was saved
\* since it began, he who was moved and all who are below him, in circles too, are in
\* the group of their super admin or have none, whatever else joins, posts, adopts or
\* makes groups meanwhile.
THEOREM SubtreeMoves == Spec => []SubtreeFollows
<1>1. Init => FollowsOK
  BY DEF Init, FollowsOK, Running
<1>2. Typed /\ LetIn /\ WaysOK /\ FollowsOK /\ [Next]_vars => FollowsOK'
  <2>1. ASSUME FollowsOK, UNCHANGED vars PROVE FollowsOK'
    <3>1. Settled' = Settled
      BY <2>1 DEF vars, tree, chat, Settled, GroupsOf
    <3> QED BY <2>1, <3>1 DEF FollowsOK, vars, tree, Running
  <2> QED BY <2>1, StepFollows
<1>3. Typed /\ FollowsOK => SubtreeFollows
  <2>1. ASSUME Typed, FollowsOK, NEW k \in Running, calls[k].kind = "moved", At(k, "children"),
               calls[k].calm, calls[k].todo = {}, Below(calls[k].user) = {},
               NEW u \in Descendants(calls[k].of) \cup {calls[k].of}
        PROVE  Nearest(role, parent, u) = None \/
                   \E r \in GroupsOf(Nearest(role, parent, u)) : <<r, u>> \in members
    <3>1. Follows(Settled, role, parent, calls[k]) /\ calls[k] \in Call /\ calls[k].pc = "children"
      BY <2>1, Here DEF FollowsOK, At
    <3>2. u \in Settled
      BY <2>1, <3>1, Everybody
    <3> QED BY <3>2 DEF Settled
  <2> QED BY <2>1 DEF SubtreeFollows
<1> QED BY <1>1, <1>2, <1>3, AlwaysWays, PTL DEF Spec
==============================================================================
