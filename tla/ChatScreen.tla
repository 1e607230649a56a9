------------------------------ MODULE ChatScreen ------------------------------
(***************************************************************************)
(* What the tabs of one user show of his chat rooms: ChatPage in the web   *)
(* front end and ChatGateway behind its socket.  A tab opens a room: it    *)
(* asks over HTTP for the last messages, and over the socket it leaves the *)
(* room before and joins the new one, an acknowledged packet at a time.    *)
(* Both go on while the user opens the next room, messages arrive and the  *)
(* connection breaks.  The gateway keeps who is in which room.             *)
(*                                                                         *)
(* Everybody else is a message that is posted; the user may read and join  *)
(* every room.  A message's id is its place in msgs.                       *)
(***************************************************************************)
EXTENDS Integers, Sequences, FiniteSets

CONSTANTS
    Pages,        \* tabs of the user
    Rooms,
    Direct,       \* the rooms that are DIRECT, the others are SA_GROUP
    Sids,         \* ids of sockets
    Joins,        \* calls of joinRoomWs that may be under way at once
    Loads,        \* requests for messages that may be under way at once
    Limit,        \* messages in one answer (50)
    MaxTries,     \* answers loadUntilFound asks for (5)
    MaxMsgs,      \* bounds the messages posted
    MaxEvents,    \* bounds rooms opened, searches, broken connections
    None

ASSUME RoomsAssumption ==
    Direct \subseteq Rooms /\ None \notin Rooms \cup Sids \cup Pages \cup Joins \cup 1..MaxMsgs
ASSUME LimitAssumption == Limit \in Nat \ {0} /\ MaxTries \in Nat \ {0}
ASSUME BoundsAssumption == MaxMsgs \in Nat /\ MaxEvents \in Nat

VARIABLES
    events,    \* what the user and the network have done so far
    msgs,      \* chat_messages, in the order of their ids
    sockets,   \* the gateway's sockets that are connected, with their rooms
    present,   \* roomMembers: rooms that list the user
    hidden,    \* <<socket, room>> that another socket took off the list (history)
    pages,
    joins,     \* calls of joinRoomWs
    loads      \* calls of fetchMessages and loadUntilFound

server == <<msgs, sockets, present, hidden>>
vars == <<events, server, pages, joins, loads>>

Ids == 1..MaxMsgs
Message == [room : Rooms, told : BOOLEAN]
Packet == [type : {"leave", "join", "ack", "new"}, room : Rooms \cup {None},
           call : Joins \cup {None}, id : Ids \cup {None}]
Page ==
    [link : Sids \cup {None},      \* the socket it is connected with
     up : Seq(Packet),             \* sent, or kept while not connected
     down : Seq(Packet),
     room : Rooms \cup {None},     \* activeRoomId
     last : Rooms \cup {None},     \* lastWireRoomRef
     shown : [Ids -> Nat],         \* messages: how often each is in the list
     strange : BOOLEAN,            \* the list is not of this room alone (history)
     gap : SUBSET Ids]             \* what came while something was under way (history)
JoinCall == [page : Pages, room : Rooms, pc : {"leave", "join"}]
Load == [page : Pages, room : Rooms, kind : {"newest", "older"}, pc : {"ask", "answer"},
         before : Ids \cup {None}, target : Ids \cup {None}, tries : Nat, got : SUBSET Ids]

ASSUME NullAssumption ==
    None \notin JoinCall \cup Load /\ \A rooms \in SUBSET Rooms : rooms # None

------------------------------------------------------------------------------
(* Views of the state.                                                     *)

Posted == 1..Len(msgs)
InRoom(r) == {m \in Posted : msgs[m].room = r}
Shown(p) == {m \in Ids : pages[p].shown[m] > 0}
Nothing == [m \in Ids |-> 0]
Show(list, M) == [m \in Ids |-> IF m \in M THEN list[m] + 1 ELSE list[m]]

\* The newest Limit of a set of messages (roomMessages' order and limit).
Newest(M) == {m \in M : Cardinality({n \in M : n > m}) < Limit}

Running(calls) == {c \in DOMAIN calls : calls[c] # None}
Idle(calls) ==
    LET free == DOMAIN calls \ Running(calls) IN
    IF free = {} THEN {} ELSE {CHOOSE c \in free : TRUE}
JoinsOf(p) == {j \in Running(joins) : joins[j].page = p}
LoadsOf(p) == {l \in Running(loads) : loads[l].page = p}
Connected == {s \in Sids : sockets[s] # None}

Happens == events < MaxEvents /\ events' = events + 1

\* A call whose packet went with the connection; such calls go on before the page
\* does anything else.
Cut(j) ==
    LET page == pages[joins[j].page] IN
    page.link = None /\ \A i \in DOMAIN page.up : page.up[i].call # j
Attentive(p) == \A j \in JoinsOf(p) : ~Cut(j)

\* Nothing is under way.
Settled(p) ==
    pages[p].link # None /\ pages[p].up = <<>> /\ JoinsOf(p) = {} /\ LoadsOf(p) = {}

------------------------------------------------------------------------------
(* joinRoomWs                                                              *)

Leave(r, j) == [type |-> "leave", room |-> r, call |-> j, id |-> None]
Join(r, j)  == [type |-> "join", room |-> r, call |-> j, id |-> None]
Ack(j)      == [type |-> "ack", room |-> None, call |-> j, id |-> None]
New(m)      == [type |-> "new", room |-> None, call |-> None, id |-> m]

Emit(page, packet) == [page EXCEPT !.up = Append(@, packet)]

\* The call for room r emits its join, and the next call will leave r.
EmitJoin(page, r, j) == [Emit(page, Join(r, j)) EXCEPT !.last = r]

\* joinRoomWs begins with leaving the room before.
Enter(page, r, j) ==
    IF page.last = None THEN EmitJoin(page, r, j) ELSE Emit(page, Leave(page.last, j))

Entering(p, r) ==
    [page |-> p, room |-> r, pc |-> IF pages[p].last = None THEN "join" ELSE "leave"]

\* Mutant of Resume: nothing to join if the page was in that room last.
ResumeIfNew(page, j) ==
    IF joins[j].pc = "leave" /\ joins[j].room # page.last
    THEN EmitJoin(page, joins[j].room, j) ELSE page

\* The awaited answer has come, or never will.
Resume(page, j) ==
    IF joins[j].pc = "leave" THEN EmitJoin(page, joins[j].room, j) ELSE page
Resumed(j) ==
    [joins EXCEPT ![j] = IF @.pc = "leave" THEN [@ EXCEPT !.pc = "join"] ELSE None]

PacketsOf(s, j) == {i \in DOMAIN s : s[i].call = j}

\* A call has one packet under way at most.
Without(s, j) ==
    IF PacketsOf(s, j) = {} THEN s
    ELSE LET i == CHOOSE i \in PacketsOf(s, j) : TRUE
         IN [k \in 1..(Len(s) - 1) |-> IF k < i THEN s[k] ELSE s[k + 1]]
Muted(s, j) == [i \in DOMAIN s |-> IF s[i].call = j THEN [s[i] EXCEPT !.call = None] ELSE s[i]]

\* An answer that comes after the timeout is dropped; a packet that was not
\* sent yet never will be.
Forget(page, j) ==
    [page EXCEPT !.up = IF page.link = None THEN Without(@, j) ELSE Muted(@, j),
                 !.down = Without(@, j)]

\* Mutant of GiveUp: a leave that fails ends the call.
GiveUpAltogether(j) ==
    /\ LET p == joins[j].page IN pages' = [pages EXCEPT ![p] = Forget(@, j)]
    /\ joins' = [joins EXCEPT ![j] = None]
    /\ UNCHANGED <<server, loads>>

GiveUp(j) ==
    /\ LET p == joins[j].page IN
          pages' = [pages EXCEPT ![p] = Resume(Forget(@, j), j)]
    /\ joins' = Resumed(j)
    /\ UNCHANGED <<server, loads>>

\* Three seconds have passed, or the connection broke while the call waited.
Timeout(j) ==
    /\ j \in Running(joins) /\ ~Cut(j)
    /\ Happens
    /\ GiveUp(j)
Rejected(j) ==
    /\ j \in Running(joins) /\ Cut(j)
    /\ GiveUp(j)
    /\ UNCHANGED events

------------------------------------------------------------------------------
(* The page opens a room, asks for messages, loses its connection.         *)

Ask(p, r, kind, before, target) ==
    [page |-> p, room |-> r, kind |-> kind, pc |-> "ask", before |-> before,
     target |-> target, tries |-> 0, got |-> {}]

\* setActiveRoomId: both effects start at once, the list stays as it is.
Open(p, r, j, l) ==
    /\ Happens
    /\ Attentive(p) /\ r # pages[p].room
    /\ j \in Idle(joins) /\ l \in Idle(loads)
    /\ joins' = [joins EXCEPT ![j] = Entering(p, r)]
    /\ loads' = [loads EXCEPT ![l] = Ask(p, r, "newest", None, None)]
    /\ pages' = [pages EXCEPT ![p] =
          [Enter(@, r, j) EXCEPT !.room = r, !.strange = TRUE, !.gap = {}]]
    /\ UNCHANGED server

Oldest(M) == IF M = {} THEN None ELSE CHOOSE m \in M : \A n \in M : m <= n

\* loadUntilFound, for a pinned message or one that a search has found.
Search(p, m, l) ==
    /\ Happens
    /\ Attentive(p) /\ pages[p].room # None
    /\ l \in Idle(loads)
    /\ m \in InRoom(pages[p].room) \ Shown(p)
    /\ loads' = [loads EXCEPT ![l] = Ask(p, pages[p].room, "older", Oldest(Shown(p)), m)]
    /\ UNCHANGED <<server, pages, joins>>

Disconnect(p) ==
    /\ Happens
    /\ pages[p].link # None
    /\ LET lost == {pages[p].down[i].id : i \in DOMAIN pages[p].down} \ {None} IN
          pages' = [pages EXCEPT ![p].link = None, ![p].up = <<>>, ![p].down = <<>>,
                                 ![p].gap = @ \cup {m \in lost : msgs[m].room = pages[p].room}]
    /\ UNCHANGED <<server, joins, loads>>

\* Mutant of Connect: onConnect does not look whether a room is open.
ConnectAnyway(p, s, j) ==
    /\ pages[p].link = None /\ Attentive(p)
    /\ s \notin Connected
    /\ sockets' = [sockets EXCEPT ![s] = {}]
    /\ j \in Idle(joins)
    /\ pages' = [pages EXCEPT ![p] = Enter([@ EXCEPT !.link = s], @.room, j)]
    /\ joins' = [joins EXCEPT ![j] = Entering(p, pages[p].room)]
    /\ UNCHANGED <<events, msgs, present, hidden, loads>>

\* handleConnection, then what was kept is sent, then onConnect.
Connect(p, s, j) ==
    /\ pages[p].link = None /\ Attentive(p)
    /\ s \notin Connected
    /\ sockets' = [sockets EXCEPT ![s] = {}]
    /\ LET page == [pages[p] EXCEPT !.link = s] IN
          IF page.room = None
          THEN pages' = [pages EXCEPT ![p] = page] /\ UNCHANGED joins
          ELSE /\ j \in Idle(joins)
               /\ pages' = [pages EXCEPT ![p] = Enter(page, page.room, j)]
               /\ joins' = [joins EXCEPT ![j] = Entering(p, page.room)]
    /\ UNCHANGED <<events, msgs, present, hidden, loads>>

------------------------------------------------------------------------------
(* The gateway.                                                            *)

Others(s, R) == {x \in (Connected \ {s}) \X R : x[2] \in sockets[x[1]]}
OfSocket(s, R) == {s} \X R

\* Mutant of Notice: the lists stay as they are.
NoticeQuietly(s) ==
    /\ s \in Connected
    /\ \A p \in Pages : pages[p].link # s
    /\ sockets' = [sockets EXCEPT ![s] = None]
    /\ hidden' = hidden \ OfSocket(s, Rooms)
    /\ UNCHANGED <<events, msgs, present, pages, joins, loads>>

\* removeOnline: the user leaves the list of every room.
Notice(s) ==
    /\ s \in Connected
    /\ \A p \in Pages : pages[p].link # s
    /\ sockets' = [sockets EXCEPT ![s] = None]
    /\ present' = {}
    /\ hidden' = (hidden \cup Others(s, present)) \ OfSocket(s, Rooms)
    /\ UNCHANGED <<events, msgs, pages, joins, loads>>

\* ensureJoin and ensureLeave, by the socket s.
JoinRoom(s, r) ==
    /\ sockets' = [sockets EXCEPT ![s] = @ \cup {r}]
    /\ present' = present \cup {r}
    /\ hidden' = {x \in hidden : x[2] # r}
LeaveRoom(s, r) ==
    /\ sockets' = [sockets EXCEPT ![s] = @ \ {r}]
    /\ present' = present \ {r}
    /\ hidden' = (hidden \cup Others(s, present \cap {r})) \ OfSocket(s, {r})

ServerTakes(p) ==
    /\ pages[p].link # None /\ pages[p].up # <<>>
    /\ LET packet == Head(pages[p].up)
           answer == IF packet.call = None THEN <<>> ELSE <<Ack(packet.call)>>
       IN /\ IF packet.type = "join" THEN JoinRoom(pages[p].link, packet.room)
             ELSE LeaveRoom(pages[p].link, packet.room)
          /\ pages' = [pages EXCEPT ![p].up = Tail(@), ![p].down = @ \o answer]
    /\ UNCHANGED <<events, msgs, joins, loads>>

\* sendMessage stores a message.
Post(r) ==
    /\ Len(msgs) < MaxMsgs
    /\ msgs' = Append(msgs, [room |-> r, told |-> FALSE])
    /\ UNCHANGED <<events, sockets, present, hidden, pages, joins, loads>>

\* Mutant of Reached: by the lists alone.
ReachedIfListed(m, p, by) ==
    pages[p].link # None /\ msgs[m].room \in Direct \cup present

\* Whom message:new reaches once the row has been read again: the sockets in the
\* room; for a direct room all sockets of the two; and wsSend, which emits after the
\* listener, all sockets of those who are listed.  The copies arrive together.  A message
\* came by a socket (wsSend) or by HTTP.
Reached(m, p, by) ==
    LET r == msgs[m].room IN
    /\ pages[p].link # None
    /\ \/ r \in sockets[pages[p].link]
       \/ r \in Direct
       \/ by = "socket" /\ r \in present

EmitNew(m, by) ==
    /\ m \in Posted /\ ~msgs[m].told
    /\ msgs' = [msgs EXCEPT ![m].told = TRUE]
    /\ pages' = [p \in Pages |->
          IF Reached(m, p, by) THEN [pages[p] EXCEPT !.down = Append(@, New(m))]
          ELSE IF msgs[m].room = pages[p].room /\ ~Settled(p)
          THEN [pages[p] EXCEPT !.gap = @ \cup {m}]
          ELSE pages[p]]
    /\ UNCHANGED <<events, sockets, present, hidden, joins, loads>>

------------------------------------------------------------------------------
(* What the page does with packets and answers.                            *)

Belongs(m, r) == msgs[m].room = r

\* Mutant of OnMessageNew: whatever its room is.
OnMessageNewAny(page, m) ==
    IF page.shown[m] = 0 THEN [page EXCEPT !.shown = Show(@, {m})] ELSE page

OnMessageNew(page, m) ==
    IF Belongs(m, page.room) /\ page.shown[m] = 0
    THEN [page EXCEPT !.shown = Show(@, {m})]
    ELSE page

PageTakes(p) ==
    /\ pages[p].down # <<>>
    /\ LET packet == Head(pages[p].down)
           page == [pages[p] EXCEPT !.down = Tail(@)]
       IN IF packet.type = "ack"
          THEN /\ pages' = [pages EXCEPT ![p] = Resume(page, packet.call)]
               /\ joins' = Resumed(packet.call)
          ELSE /\ pages' = [pages EXCEPT ![p] = OnMessageNew(page, packet.id)]
               /\ UNCHANGED joins
    /\ UNCHANGED <<events, server, loads>>

\* roomMessages answers what is stored at that moment.
Read(l) ==
    /\ l \in Running(loads) /\ loads[l].pc = "ask"
    /\ LET b == loads[l].before
           asked == {m \in InRoom(loads[l].room) : b = None \/ m < b}
       IN loads' = [loads EXCEPT ![l].pc = "answer", ![l].got = Newest(asked)]
    /\ UNCHANGED <<events, server, pages, joins>>

\* fetchMessages puts the answer in the place of the list, whatever room it is of.
Replace(page, load) ==
    LET mine == {m \in Ids : page.shown[m] > 0 /\ Belongs(m, page.room)} IN
    [page EXCEPT !.shown = Show(Nothing, load.got),
                 !.strange = load.room # page.room,
                 !.gap = (@ \cup mine) \ load.got]

Answer(l) ==
    /\ l \in Running(loads)
    /\ loads[l].kind = "newest" /\ loads[l].pc = "answer"
    /\ pages' = [pages EXCEPT ![loads[l].page] = Replace(@, loads[l])]
    /\ loads' = [loads EXCEPT ![l] = None]
    /\ UNCHANGED <<events, server, joins>>

\* loadUntilFound adds it to the list, and asks again for what is older still.
Prepend(page, load) ==
    [page EXCEPT !.shown = Show(@, load.got),
                 !.strange = @ \/ (load.got # {} /\ load.room # page.room)]

AnswerOlder(l) ==
    /\ l \in Running(loads)
    /\ loads[l].kind = "older" /\ loads[l].pc = "answer"
    /\ LET load == loads[l]
           p == load.page
           list == load.got \cup Shown(p)
       IN /\ pages' = [pages EXCEPT ![p] = Prepend(@, load)]
          /\ loads' = [loads EXCEPT ![l] =
                IF load.got = {} \/ load.target \in list \/ load.tries + 1 = MaxTries THEN None
                ELSE [load EXCEPT !.pc = "ask", !.got = {}, !.tries = @ + 1,
                                  !.before = Oldest(list)]]
    /\ UNCHANGED <<events, server, joins>>

------------------------------------------------------------------------------
NewPage == [link |-> None, up |-> <<>>, down |-> <<>>, room |-> None, last |-> None,
            shown |-> Nothing, strange |-> FALSE, gap |-> {}]

Init ==
    /\ events = 0
    /\ msgs = <<>>
    /\ sockets = [s \in Sids |-> None] /\ present = {} /\ hidden = {}
    /\ pages = [p \in Pages |-> NewPage]
    /\ joins = [j \in Joins |-> None]
    /\ loads = [l \in Loads |-> None]

PageActs(p) ==
    \/ \E r \in Rooms, j \in Joins, l \in Loads : Open(p, r, j, l)
    \/ \E m \in Posted, l \in Loads : Search(p, m, l)
    \/ Disconnect(p)
    \/ \E s \in Sids, j \in Joins : Connect(p, s, j)
    \/ ServerTakes(p)
    \/ PageTakes(p)

Next ==
    \/ \E p \in Pages : PageActs(p)
    \/ \E j \in Joins : Timeout(j) \/ Rejected(j)
    \/ \E l \in Loads : Read(l) \/ Answer(l) \/ AnswerOlder(l)
    \/ \E s \in Sids : Notice(s)
    \/ \E r \in Rooms : Post(r)
    \/ \E m \in Ids, by \in {"socket", "http"} : EmitNew(m, by)

Spec == Init /\ [][Next]_vars

\* The socket delivers, and a call that is cut off goes on; nobody has to open a
\* room or post a message, and no connection has to break.
Fairness ==
    /\ \A p \in Pages : WF_vars(ServerTakes(p)) /\ WF_vars(PageTakes(p))
    /\ \A j \in Joins : WF_vars(Rejected(j))

------------------------------------------------------------------------------
TypeOK ==
    /\ events \in 0..MaxEvents
    /\ msgs \in Seq(Message) /\ Len(msgs) <= MaxMsgs
    /\ sockets \in [Sids -> (SUBSET Rooms) \cup {None}]
    /\ present \subseteq Rooms
    /\ hidden \subseteq Sids \X Rooms
    /\ pages \in [Pages -> Page]
    /\ joins \in [Joins -> JoinCall \cup {None}]
    /\ loads \in [Loads -> Load \cup {None}]

\* However fast the user goes from room to room, and whenever the connection breaks
\* and packets or acknowledgements come late: once joinRoomWs has nothing under
\* way, the tab's socket is in the room the tab shows, not in the one before.
SettledIsJoined ==
    \A p \in Pages :
        /\ pages[p].link # None /\ pages[p].up = <<>> /\ JoinsOf(p) = {}
        /\ pages[p].room # None
        => pages[p].room \in sockets[pages[p].link]

\* A tab at rest shows the newest messages of its room, but for those that came
\* while it was opening the room or was cut off: a message that is emitted to a tab
\* at rest is never lost on the way.
MissingOnlyFromGaps ==
    \A p \in Pages : Settled(p) /\ pages[p].room # None =>
        LET told == {m \in Newest(InRoom(pages[p].room)) : msgs[m].told}
            coming == {pages[p].down[i].id : i \in DOMAIN pages[p].down}
        IN told \subseteq Shown(p) \cup pages[p].gap \cup coming

\* From the answer of its room on, a tab shows messages of no other room, until an
\* answer that a room before has asked for comes late.
StrangeOnlyByLateAnswer ==
    \A p \in Pages : ~pages[p].strange => \A m \in Shown(p) : Belongs(m, pages[p].room)

\* A room lists the user only if one of his sockets is in it, and a socket in a
\* room goes unlisted only if another socket of his left the room or was cut off.
ListedIfASocketIs ==
    /\ \A r \in present : \E s \in Connected : r \in sockets[s]
    /\ \A s \in Connected : \A r \in sockets[s] : r \in present \/ <<s, r>> \in hidden

\* A tab that stays in a room and stays connected gets into the room.
ViewersAreJoined ==
    \A p \in Pages, r \in Rooms :
        (pages[p].link # None /\ pages[p].room = r)
            ~> (\/ pages[p].link = None
                \/ pages[p].room # r
                \/ r \in sockets[pages[p].link])
=============================================================================
