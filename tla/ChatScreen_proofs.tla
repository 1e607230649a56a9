--------------------------- MODULE ChatScreen_proofs ---------------------------
(***************************************************************************)
(* The safety properties of ChatScreen for any number of tabs, rooms,      *)
(* sockets and calls.  What is on the wire is tied to the calls that sent  *)
(* it, what a request will bring to its room, and a tab that is not yet in *)
(* its room to the packet or the call that will take it there.             *)
(***************************************************************************)
EXTENDS ChatScreen, FiniteSetTheorems, WellFoundedInduction, TLAPS

\* A packet that a call of p waits for.
OfCall(q, p, js) == q.call # None => js[q.call] \in JoinCall /\ js[q.call].page = p

\* What may be on its way between the page and the gateway; a call has one packet
\* under way at most.
UpOK(q) ==
    /\ q.type \in {"leave", "join"} /\ q.room \in Rooms
    /\ q.call \in Joins \cup {None} /\ q.id = None
DownOK(q, n) ==
    \/ q.type = "ack" /\ q.call \in Joins /\ q.id = None
    \/ q.type = "new" /\ q.call = None /\ q.id \in 1..n
OneEach(s, t) == \A i \in DOMAIN s, k \in DOMAIN t : s[i].call = t[k].call => s[i].call = None
Distinct(s) == \A i, k \in DOMAIN s : s[i].call = s[k].call => s[i].call = None \/ i = k
WireFine(up, down, p, js, n) ==
    /\ \A i \in DOMAIN up : UpOK(up[i]) /\ OfCall(up[i], p, js)
    /\ \A i \in DOMAIN down : DownOK(down[i], n) /\ OfCall(down[i], p, js)
    /\ Distinct(up) /\ Distinct(down) /\ OneEach(up, down)
WireOK == \A p \in Pages : WireFine(pages[p].up, pages[p].down, p, joins, Len(msgs))

\* No two pages share a socket, and the gateway knows the socket of each.
LinksOK ==
    /\ \A p \in Pages : pages[p].link # None => sockets[pages[p].link] \in SUBSET Rooms
    /\ \A p, q \in Pages : pages[p].link = pages[q].link => p = q \/ pages[p].link = None

\* What a request brings is of its room.
LoadsOK ==
    \A l \in Loads : loads[l] # None =>
        /\ loads[l].got \subseteq InRoom(loads[l].room)
        /\ loads[l].kind = "newest" => loads[l].before = None

ShownOK == \A p \in Pages : Shown(p) \subseteq Posted

\* A page whose socket is connected is in its room after what it has sent, or
\* a call of its own has yet to send the join.
NoLeave(s, r, i) == \A k \in DOMAIN s : k > i /\ s[k].type = "leave" => s[k].room # r
JoinSent(s, r) ==
    \E i \in DOMAIN s : s[i].type = "join" /\ s[i].room = r /\ NoLeave(s, r, i)
JoinToCome(js, p, r) ==
    \E j \in Joins : js[j] \in JoinCall /\ js[j].page = p /\ js[j].room = r /\ js[j].pc = "leave"
WillBeIn(p, r, js, rooms, up) ==
    \/ JoinToCome(js, p, r)
    \/ JoinSent(up, r)
    \/ r \in rooms /\ NoLeave(up, r, 0)
Viewer(p) ==
    pages[p].link # None /\ pages[p].room # None =>
        WillBeIn(p, pages[p].room, joins, sockets[pages[p].link], pages[p].up)
ViewersJoin == \A p \in Pages : Viewer(p)

\* A message that has been told is shown, on its way, missed while the page could
\* miss it, or will be in an answer.
Newer(load, p, r) ==
    load \in Load /\ load.page = p /\ load.room = r /\ load.kind = "newest"
Asked(p, r, ls) == \E l \in Loads : Newer(ls[l], p, r) /\ ls[l].pc = "ask"
Answered(p, r, ls, m) ==
    \E l \in Loads : Newer(ls[l], p, r) /\ ls[l].pc = "answer" /\ m \in ls[l].got
Coming(s, m) == \E i \in DOMAIN s : s[i].id = m
Told(r) == {m \in Newest(InRoom(r)) : msgs[m].told}
Held(page, m) == page.shown[m] > 0 \/ m \in page.gap \/ Coming(page.down, m)
Complete(p) ==
    LET r == pages[p].room IN
    \/ r = None
    \/ Asked(p, r, loads)
    \/ \A m \in Told(r) : Held(pages[p], m) \/ Answered(p, r, loads, m)
NothingLost == \A p \in Pages : Complete(p)

------------------------------------------------------------------------------
(* Sequences and sets.                                                     *)

\* None is no room, no packet's call, no message and no socket.
LEMMA Constants ==
    /\ Ids \subseteq Nat /\ None \notin Rooms /\ None \notin Sids
    /\ None \notin Joins /\ None \notin Ids
    /\ Limit \in Nat /\ MaxMsgs \in Nat /\ MaxEvents \in Nat
BY RoomsAssumption, LimitAssumption, BoundsAssumption DEF Ids

\* A non-empty set of ids has a least one.
LEMMA LeastExists == ASSUME NEW M, M \subseteq Nat, M # {} PROVE \E m \in M : \A n \in M : m <= n
<1> DEFINE Less == {x \in Nat \X Nat : x[1] < x[2]}
<1>1. IsWellFoundedOn(Less, Nat)
  <2>1. IsWellFoundedOn(OpToRel(<, Nat), Nat)
    BY NatLessThanWellFounded
  <2>2. OpToRel(<, Nat) = Less
    BY DEF OpToRel
  <2> QED BY <2>1, <2>2
<1> HIDE DEF Less
<1>2. \E x \in M : \A y \in M : ~ (<<y, x>> \in Less)
  BY <1>1, WFMin, Zenon
<1>3. PICK x \in M : \A y \in M : ~ (<<y, x>> \in Less)
  BY <1>2
<1>4. ASSUME NEW y \in M PROVE x <= y
  <2>1. <<y, x>> \in Nat \X Nat /\ <<y, x>>[1] = y /\ <<y, x>>[2] = x
    BY <1>3, <1>4
  <2>2. ~ (y < x)
    BY <1>3, <1>4, <2>1 DEF Less
  <2> QED BY <1>3, <1>4, <2>2
<1> QED BY <1>3, <1>4

\* The oldest of a set of messages is one of them or none.
LEMMA OldestIsId == ASSUME NEW M, M \subseteq Ids PROVE Oldest(M) \in Ids \cup {None}
BY LeastExists, Constants DEF Oldest

\* A list shows what it showed and what is added.
LEMMA ShowAdds ==
    ASSUME NEW list \in [Ids -> Nat], NEW M
    PROVE  /\ Show(list, M) \in [Ids -> Nat]
           /\ \A m \in Ids : Show(list, M)[m] > 0 <=> list[m] > 0 \/ m \in M
BY DEF Show

\* Appending a packet.
LEMMA Appended ==
    ASSUME NEW s \in Seq(Packet), NEW q \in Packet
    PROVE  /\ Append(s, q) \in Seq(Packet)
           /\ DOMAIN Append(s, q) = DOMAIN s \cup {Len(s) + 1}
           /\ Len(s) + 1 \notin DOMAIN s
           /\ \A i \in DOMAIN s : Append(s, q)[i] = s[i] /\ i < Len(s) + 1
           /\ Append(s, q)[Len(s) + 1] = q
OBVIOUS

\* Taking the first packet.
LEMMA Taken ==
    ASSUME NEW s \in Seq(Packet), s # <<>>
    PROVE  /\ Tail(s) \in Seq(Packet) /\ Head(s) \in Packet
           /\ Head(s) = s[1] /\ 1 \in DOMAIN s
           /\ \A i \in DOMAIN Tail(s) : i + 1 \in DOMAIN s /\ i + 1 # 1 /\ Tail(s)[i] = s[i + 1]
           /\ \A i \in DOMAIN s : i = 1 \/ (i - 1 \in DOMAIN Tail(s) /\ Tail(s)[i - 1] = s[i])
           /\ DOMAIN s \subseteq Nat /\ DOMAIN Tail(s) \subseteq Nat
OBVIOUS

\* Taking out the packet of a call.
LEMMA WithoutTakes ==
    ASSUME NEW s \in Seq(Packet), NEW j \in Joins, Distinct(s), j # None
    PROVE  /\ Without(s, j) \in Seq(Packet)
           /\ \A k \in DOMAIN Without(s, j) :
                 \E i \in DOMAIN s : Without(s, j)[k] = s[i] /\ s[i].call # j
           /\ \A i \in DOMAIN s : s[i].call # j => \E k \in DOMAIN Without(s, j) : Without(s, j)[k] = s[i]
           /\ Distinct(Without(s, j))
<1>1. CASE PacketsOf(s, j) = {}
  BY <1>1 DEF Without, PacketsOf
<1>2. CASE PacketsOf(s, j) # {}
  <2> DEFINE i == CHOOSE i \in PacketsOf(s, j) : TRUE
             t == [k \in 1..(Len(s) - 1) |-> IF k < i THEN s[k] ELSE s[k + 1]]
             from(k) == IF k < i THEN k ELSE k + 1
  <2>1. i \in 1..Len(s) /\ s[i].call = j /\ Len(s) \in Nat
    BY <1>2 DEF PacketsOf
  <2> HIDE DEF i
  <2>2. Without(s, j) = t
    BY <1>2 DEF Without, i
  <2>3. t \in Seq(Packet) /\ DOMAIN t = 1..(Len(s) - 1)
    BY <2>1
  <2>4. \A k \in 1..(Len(s) - 1) : from(k) \in 1..Len(s) /\ from(k) # i /\ t[k] = s[from(k)]
    BY <2>1
  <2>5. \A k \in 1..Len(s) : k # i => \E n \in 1..(Len(s) - 1) : k = from(n)
    <3>1. ASSUME NEW k \in 1..Len(s), k < i PROVE k \in 1..(Len(s) - 1) /\ k = from(k)
      BY <2>1, <3>1
    <3>2. ASSUME NEW k \in 1..Len(s), k > i PROVE k - 1 \in 1..(Len(s) - 1) /\ k = from(k - 1)
      BY <2>1, <3>2
    <3> QED BY <2>1, <3>1, <3>2
  <2>6. \A k, n \in 1..(Len(s) - 1) : from(k) = from(n) => k = n
    BY <2>1
  <2>7. \A k \in 1..Len(s) : k # i => s[k].call # j
    BY <2>1 DEF Distinct
  <2> HIDE DEF t, from
  <2>8. DOMAIN s = 1..Len(s)
    OBVIOUS
  <2>9. \A k \in DOMAIN t : \E n \in DOMAIN s : t[k] = s[n] /\ s[n].call # j
    BY <2>3, <2>4, <2>7, <2>8
  <2>10. \A n \in DOMAIN s : s[n].call # j => \E k \in DOMAIN t : t[k] = s[n]
    <3>1. ASSUME NEW n \in DOMAIN s, s[n].call # j PROVE \E k \in DOMAIN t : t[k] = s[n]
      <4>1. PICK k \in 1..(Len(s) - 1) : n = from(k)
        BY <2>1, <2>5, <2>8, <3>1
      <4> QED BY <2>3, <2>4, <4>1
    <3> QED BY <3>1
  <2>11. Distinct(t)
    <3>1. ASSUME NEW k \in DOMAIN t, NEW n \in DOMAIN t, t[k].call = t[n].call, t[k].call # None
          PROVE  k = n
      <4>1. from(k) \in DOMAIN s /\ from(n) \in DOMAIN s /\ t[k] = s[from(k)] /\ t[n] = s[from(n)]
        BY <2>3, <2>4, <2>8, <3>1
      <4>2. from(k) = from(n)
        BY <3>1, <4>1 DEF Distinct
      <4> QED BY <2>3, <2>6, <3>1, <4>2
    <3> QED BY <3>1 DEF Distinct
  <2> QED BY <2>2, <2>3, <2>9, <2>10, <2>11
<1> QED BY <1>1, <1>2

\* Muting the packets of a call.
LEMMA MutedKeeps ==
    ASSUME NEW s \in Seq(Packet), NEW j \in Joins, j # None, Distinct(s)
    PROVE  /\ Muted(s, j) \in Seq(Packet) /\ DOMAIN Muted(s, j) = DOMAIN s
           /\ \A i \in DOMAIN s :
                 /\ Muted(s, j)[i].type = s[i].type /\ Muted(s, j)[i].room = s[i].room
                 /\ Muted(s, j)[i].id = s[i].id
                 /\ Muted(s, j)[i].call = IF s[i].call = j THEN None ELSE s[i].call
           /\ Distinct(Muted(s, j))
<1>1. \A i \in DOMAIN s : s[i] \in Packet
  OBVIOUS
<1>2. DOMAIN Muted(s, j) = DOMAIN s
  BY DEF Muted
<1>3. ASSUME NEW i \in DOMAIN s
      PROVE  /\ Muted(s, j)[i] \in Packet
             /\ Muted(s, j)[i].type = s[i].type /\ Muted(s, j)[i].room = s[i].room
             /\ Muted(s, j)[i].id = s[i].id
             /\ Muted(s, j)[i].call = IF s[i].call = j THEN None ELSE s[i].call
  BY <1>1 DEF Muted, Packet
<1>4. Muted(s, j) \in Seq(Packet)
  BY <1>3 DEF Muted
<1>5. Distinct(Muted(s, j))
  BY <1>2, <1>3 DEF Distinct
<1> QED BY <1>2, <1>3, <1>4, <1>5

------------------------------------------------------------------------------
(* What the steps of a call do to its page.                                *)

\* Of a page a call touches only what it sends, what it waits for and last.
SameView(new, page) ==
    /\ new.link = page.link /\ new.room = page.room /\ new.shown = page.shown
    /\ new.strange = page.strange /\ new.gap = page.gap

\* The packets a page makes.
LEMMA Packets ==
    ASSUME NEW r \in Rooms, NEW j \in Joins
    PROVE  /\ Leave(r, j) \in Packet /\ Join(r, j) \in Packet /\ Ack(j) \in Packet
           /\ UpOK(Leave(r, j)) /\ UpOK(Join(r, j)) /\ \A n : DownOK(Ack(j), n)
           /\ Leave(r, j).call = j /\ Join(r, j).call = j /\ Ack(j).call = j
           /\ Join(r, j).type = "join" /\ Join(r, j).room = r
           /\ Leave(r, j).type = "leave" /\ Leave(r, j).room = r
BY DEF Leave, Join, Ack, Packet, UpOK, DownOK

\* A page that emits a join shows what it showed,
LEMMA EmitJoinPage ==
    ASSUME NEW page \in Page, NEW r \in Rooms, NEW j \in Joins
    PROVE  /\ EmitJoin(page, r, j) \in Page /\ SameView(EmitJoin(page, r, j), page)
           /\ EmitJoin(page, r, j).up = Append(page.up, Join(r, j))
           /\ EmitJoin(page, r, j).down = page.down
<1>1. Append(page.up, Join(r, j)) \in Seq(Packet)
  BY Packets, Appended DEF Page
<1> QED BY <1>1 DEF EmitJoin, Emit, Page, SameView

\* The packet a new call begins with.
First(page, r, j) == IF page.last = None THEN Join(r, j) ELSE Leave(page.last, j)

\* as does one that leaves its room for another,
LEMMA EnterPage ==
    ASSUME NEW page \in Page, NEW r \in Rooms, NEW j \in Joins
    PROVE  /\ Enter(page, r, j) \in Page /\ SameView(Enter(page, r, j), page)
           /\ Enter(page, r, j).up = Append(page.up, First(page, r, j))
           /\ Enter(page, r, j).down = page.down
           /\ First(page, r, j) \in Packet /\ UpOK(First(page, r, j))
           /\ First(page, r, j).call = j
<1>1. CASE page.last = None
  BY <1>1, EmitJoinPage, Packets DEF Enter, First
<1>2. CASE page.last # None
  <2>1. page.last \in Rooms
    BY <1>2 DEF Page
  <2>2. Append(page.up, Leave(page.last, j)) \in Seq(Packet)
    BY <2>1, Packets, Appended DEF Page
  <2>3. Enter(page, r, j) = [page EXCEPT !.up = Append(page.up, Leave(page.last, j))]
    BY <1>2 DEF Enter, Emit
  <2>4. First(page, r, j) = Leave(page.last, j)
    BY <1>2 DEF First
  <2>5. Enter(page, r, j) \in Page /\ SameView(Enter(page, r, j), page)
    BY <2>2, <2>3 DEF Page, SameView
  <2>6. /\ Enter(page, r, j).up = Append(page.up, Leave(page.last, j))
        /\ Enter(page, r, j).down = page.down
    BY <2>3 DEF Page
  <2> QED BY <2>1, <2>4, <2>5, <2>6, Packets
<1> QED BY <1>1, <1>2

\* one whose call goes on
LEMMA ResumePage ==
    ASSUME NEW page \in Page, NEW j \in Joins, joins[j] \in JoinCall
    PROVE  /\ Resume(page, j) \in Page /\ SameView(Resume(page, j), page)
           /\ Resume(page, j).down = page.down
           /\ Resume(page, j).up = IF joins[j].pc = "leave"
                                   THEN Append(page.up, Join(joins[j].room, j)) ELSE page.up
<1>1. joins[j].room \in Rooms
  BY DEF JoinCall
<1> QED BY <1>1, EmitJoinPage DEF Resume, SameView

\* and one that forgets a packet it has not sent.
LEMMA ForgetPage ==
    ASSUME NEW page \in Page, NEW j \in Joins, Distinct(page.up), Distinct(page.down)
    PROVE  /\ Forget(page, j) \in Page /\ SameView(Forget(page, j), page)
           /\ Forget(page, j).down = Without(page.down, j)
           /\ Forget(page, j).up =
                 IF page.link = None THEN Without(page.up, j) ELSE Muted(page.up, j)
<1>1. /\ Without(page.down, j) \in Seq(Packet)
      /\ Without(page.up, j) \in Seq(Packet) /\ Muted(page.up, j) \in Seq(Packet)
  BY WithoutTakes, MutedKeeps, Constants DEF Page
<1> QED BY <1>1 DEF Forget, Page, SameView

------------------------------------------------------------------------------
(* What is on the wire, as packets come and go.                            *)

\* A call that has no packet under way.
NoPacket(s, j) == \A i \in DOMAIN s : s[i].call # j

\* A page sends the packet of a call that has none.
LEMMA WireSends ==
    ASSUME NEW up \in Seq(Packet), NEW down \in Seq(Packet), NEW p, NEW q \in Packet,
           NEW js, NEW n, WireFine(up, down, p, js, n), UpOK(q), OfCall(q, p, js),
           q.call = None \/ (NoPacket(up, q.call) /\ NoPacket(down, q.call))
    PROVE  WireFine(Append(up, q), down, p, js, n)
BY Appended DEF WireFine, Distinct, OneEach, NoPacket

\* The gateway or the network puts one on the way to the page.
LEMMA WireBrings ==
    ASSUME NEW up \in Seq(Packet), NEW down \in Seq(Packet), NEW p, NEW q \in Packet,
           NEW js, NEW n, WireFine(up, down, p, js, n), DownOK(q, n), OfCall(q, p, js),
           q.call = None \/ (NoPacket(up, q.call) /\ NoPacket(down, q.call))
    PROVE  WireFine(up, Append(down, q), p, js, n)
BY Appended DEF WireFine, Distinct, OneEach, NoPacket

\* The first packet is taken; nothing else under way is of its call.
LEMMA WireTakenUp ==
    ASSUME NEW up \in Seq(Packet), NEW down \in Seq(Packet), NEW p, NEW js, NEW n,
           WireFine(up, down, p, js, n),
           up # <<>>
    PROVE  /\ WireFine(Tail(up), down, p, js, n)
           /\ UpOK(Head(up)) /\ OfCall(Head(up), p, js)
           /\ Head(up).call # None =>
                 NoPacket(Tail(up), Head(up).call) /\ NoPacket(down, Head(up).call)
<1>1. /\ \A i \in DOMAIN Tail(up) : i + 1 \in DOMAIN up /\ Tail(up)[i] = up[i + 1] /\ i \in Nat
      /\ Head(up) = up[1] /\ 1 \in DOMAIN up
  BY Taken
<1>2. Distinct(Tail(up)) /\ OneEach(Tail(up), down)
  BY SMTT(20), <1>1 DEF WireFine, Distinct, OneEach
<1>3. Head(up).call # None =>
         NoPacket(Tail(up), Head(up).call) /\ NoPacket(down, Head(up).call)
  BY <1>1 DEF WireFine, Distinct, OneEach, NoPacket
<1> QED BY <1>1, <1>2, <1>3 DEF WireFine

\* The same when the page takes a packet.
LEMMA WireTakenDown ==
    ASSUME NEW up \in Seq(Packet), NEW down \in Seq(Packet), NEW p, NEW js, NEW n,
           WireFine(up, down, p, js, n),
           down # <<>>
    PROVE  /\ WireFine(up, Tail(down), p, js, n)
           /\ DownOK(Head(down), n) /\ OfCall(Head(down), p, js)
           /\ Head(down).call # None =>
                 NoPacket(Tail(down), Head(down).call) /\ NoPacket(up, Head(down).call)
<1>1. /\ \A i \in DOMAIN Tail(down) :
             i + 1 \in DOMAIN down /\ Tail(down)[i] = down[i + 1] /\ i \in Nat
      /\ Head(down) = down[1] /\ 1 \in DOMAIN down
  BY Taken
<1>2. Distinct(Tail(down)) /\ OneEach(up, Tail(down))
  BY <1>1 DEF WireFine, Distinct, OneEach
<1>3. Head(down).call # None =>
         NoPacket(Tail(down), Head(down).call) /\ NoPacket(up, Head(down).call)
  BY <1>1 DEF WireFine, Distinct, OneEach, NoPacket
<1> QED BY <1>1, <1>2, <1>3 DEF WireFine

\* A call that gives up has no packet left.
LEMMA WireForgets ==
    ASSUME NEW page \in Page, NEW j \in Joins, NEW p, NEW js, NEW n,
           WireFine(page.up, page.down, p, js, n)
    PROVE  /\ WireFine(Forget(page, j).up, Forget(page, j).down, p, js, n)
           /\ NoPacket(Forget(page, j).up, j) /\ NoPacket(Forget(page, j).down, j)
<1> DEFINE up == page.up
           down == page.down
<1>1. up \in Seq(Packet) /\ down \in Seq(Packet) /\ Distinct(up) /\ Distinct(down) /\ j # None
  BY Constants DEF Page, WireFine
<1>2. /\ \A k \in DOMAIN Without(down, j) :
             \E i \in DOMAIN down : Without(down, j)[k] = down[i] /\ down[i].call # j
      /\ Distinct(Without(down, j))
  BY <1>1, WithoutTakes
<1>3. /\ Forget(page, j).down = Without(down, j)
      /\ Forget(page, j).up = IF page.link = None THEN Without(up, j) ELSE Muted(up, j)
  BY <1>1, ForgetPage
<1>4. CASE page.link = None
  <2>1. /\ \A k \in DOMAIN Without(up, j) :
               \E i \in DOMAIN up : Without(up, j)[k] = up[i] /\ up[i].call # j
        /\ Distinct(Without(up, j))
    BY <1>1, WithoutTakes
  <2>2. OneEach(Without(up, j), Without(down, j))
    BY <1>2, <2>1 DEF WireFine, OneEach
  <2> QED BY <1>2, <1>3, <1>4, <2>1, <2>2 DEF WireFine, NoPacket
<1>5. CASE page.link # None
  <2>1. /\ DOMAIN Muted(up, j) = DOMAIN up /\ Distinct(Muted(up, j))
        /\ \A i \in DOMAIN up :
              /\ Muted(up, j)[i].type = up[i].type /\ Muted(up, j)[i].room = up[i].room
              /\ Muted(up, j)[i].id = up[i].id
              /\ Muted(up, j)[i].call = IF up[i].call = j THEN None ELSE up[i].call
    BY <1>1, MutedKeeps
  <2>2. OneEach(Muted(up, j), Without(down, j))
    BY <1>2, <2>1 DEF WireFine, OneEach
  <2>3. \A i \in DOMAIN Muted(up, j) : UpOK(Muted(up, j)[i]) /\ OfCall(Muted(up, j)[i], p, js)
    BY <2>1 DEF WireFine, UpOK, OfCall
  <2> QED BY SMTT(20), <1>1, <1>2, <1>3, <1>5, <2>1, <2>2, <2>3 DEF WireFine, NoPacket
<1> QED BY <1>4, <1>5

------------------------------------------------------------------------------
(* Types and wires, step by step.                                          *)

Sound == TypeOK /\ WireOK /\ LinksOK /\ LoadsOK /\ ShownOK

\* What a page waits for it still waits for, if its calls go on.
LEMMA WireStays ==
    ASSUME NEW up, NEW down, NEW p, NEW js, NEW n \in Nat, NEW kept, NEW more \in Nat,
           WireFine(up, down, p, js, n), n <= more,
           \A j \in Joins : js[j] \in JoinCall /\ js[j].page = p =>
               \/ kept[j] \in JoinCall /\ kept[j].page = p
               \/ NoPacket(up, j) /\ NoPacket(down, j)
    PROVE  WireFine(up, down, p, kept, more)
<1>1. \A i \in DOMAIN up : UpOK(up[i]) /\ OfCall(up[i], p, kept)
  BY DEF WireFine, UpOK, OfCall, NoPacket
<1>2. \A i \in DOMAIN down : DownOK(down[i], more) /\ OfCall(down[i], p, kept)
  BY DEF WireFine, DownOK, OfCall, NoPacket
<1> QED BY <1>1, <1>2 DEF WireFine

\* So they do if nothing but other calls has changed.
LEMMA WireKeeps ==
    ASSUME NEW up, NEW down, NEW p, NEW js, NEW n \in Nat, NEW kept,
           WireFine(up, down, p, js, n),
           \A j \in Joins : js[j] \in JoinCall /\ js[j].page = p => kept[j] = js[j]
    PROVE  WireFine(up, down, p, kept, n)
BY WireStays

\* No page's call, and none's answer, is the null one.
LEMMA RunningCalls ==
    ASSUME TypeOK
    PROVE  /\ \A j \in Joins : joins[j] # None <=> joins[j] \in JoinCall
           /\ \A l \in Loads : loads[l] # None <=> loads[l] \in Load
           /\ \A s \in Sids : sockets[s] # None <=> sockets[s] \in SUBSET Rooms
           /\ Running(joins) = {j \in Joins : joins[j] # None}
           /\ Running(loads) = {l \in Loads : loads[l] # None}
           /\ Len(msgs) \in Nat /\ Posted \subseteq Ids
           /\ \A m \in Posted : msgs[m] \in Message
BY NullAssumption, BoundsAssumption DEF TypeOK, Running, Posted, Ids

\* An id that is free has no call.
LEMMA IdleCalls ==
    ASSUME TypeOK
    PROVE  /\ \A j \in Idle(joins) : j \in Joins /\ joins[j] = None
           /\ \A l \in Idle(loads) : l \in Loads /\ loads[l] = None
BY DEF TypeOK, Idle, Running

\* A call that has just begun has no packet anywhere.
LEMMA NewCalls ==
    ASSUME TypeOK, WireOK, NEW p \in Pages, NEW j \in Joins, joins[j] \notin JoinCall
    PROVE  NoPacket(pages[p].up, j) /\ NoPacket(pages[p].down, j)
BY Constants DEF WireOK, WireFine, OfCall, NoPacket

\* A step of one page, and what it does to calls and sockets, to requests.
PageStep(p, page) ==
    /\ pages' = [pages EXCEPT ![p] = page]
    /\ page \in Page
    /\ \A m \in Ids : page.shown[m] > 0 => m \in Posted
    /\ page.link # None => sockets'[page.link] \in SUBSET Rooms
    /\ page.link \in {pages[p].link, None} \/ sockets[page.link] = None
CallsStep(p, page) ==
    /\ joins' \in [Joins -> JoinCall \cup {None}]
    /\ \A j \in Joins : joins[j] \in JoinCall /\ joins[j].page # p => joins'[j] = joins[j]
    /\ WireFine(page.up, page.down, p, joins', Len(msgs))
SocketsStep ==
    /\ sockets' \in [Sids -> (SUBSET Rooms) \cup {None}]
    /\ \A s \in Sids : sockets[s] \in SUBSET Rooms => sockets'[s] \in SUBSET Rooms
    /\ present' \subseteq Rooms /\ hidden' \subseteq Sids \X Rooms
LoadsStep ==
    /\ loads' \in [Loads -> Load \cup {None}]
    /\ \A l \in Loads : loads'[l] # None =>
           /\ loads'[l].got \subseteq InRoom(loads'[l].room)
           /\ loads'[l].kind = "newest" => loads'[l].before = None
EventsStep == events' \in 0..MaxEvents

\* A step of one page, its calls and its socket keeps Sound.
LEMMA OnePage ==
    ASSUME Sound, NEW p \in Pages, NEW page, PageStep(p, page), CallsStep(p, page),
           SocketsStep, LoadsStep, EventsStep, UNCHANGED msgs
    PROVE  Sound'
<1> USE DEF PageStep, CallsStep, SocketsStep, LoadsStep, EventsStep
<1>1. /\ TypeOK /\ WireOK /\ LinksOK /\ LoadsOK /\ ShownOK
      /\ Posted' = Posted /\ \A r : InRoom(r)' = InRoom(r)
  BY DEF Sound, Posted, InRoom
<1>2. /\ pages'[p] = page /\ \A q \in Pages : q # p => pages'[q] = pages[q]
      /\ pages' \in [Pages -> Page]
  BY <1>1 DEF TypeOK
<1>3. TypeOK'
  BY <1>1, <1>2 DEF TypeOK
<1>4. WireOK'
  <2>1. ASSUME NEW q \in Pages, q # p
        PROVE  WireFine(pages[q].up, pages[q].down, q, joins', Len(msgs))
    <3>1. \A j \in Joins : joins[j] \in JoinCall /\ joins[j].page = q =>
              joins'[j] \in JoinCall /\ joins'[j].page = q
      BY <2>1
    <3> QED BY <1>1, <3>1, WireStays, RunningCalls DEF WireOK
  <2> QED BY <1>2, <2>1 DEF WireOK
<1>5. LinksOK'
  <2>1. \A q \in Pages : q # p /\ pages[q].link # None =>
            /\ pages[q].link \in Sids
            /\ sockets[pages[q].link] \in SUBSET Rooms /\ sockets[pages[q].link] # None
    BY <1>1, RunningCalls DEF LinksOK, TypeOK, Page
  <2>2. \A q \in Pages : q # p /\ page.link = pages[q].link => page.link = None
    BY <1>1, <2>1 DEF LinksOK
  <2> QED BY <1>1, <1>2, <2>1, <2>2 DEF LinksOK
<1>6. LoadsOK'
  BY <1>1 DEF LoadsOK
<1>7. ShownOK'
  BY <1>1, <1>2 DEF ShownOK, Shown
<1> QED BY <1>3, <1>4, <1>5, <1>6, <1>7 DEF Sound

\* A new call sends its first packet.
LEMMA CallEnters ==
    ASSUME TypeOK, WireOK, NEW p \in Pages, NEW r \in Rooms, NEW j \in Idle(joins),
           joins' = [joins EXCEPT ![j] = Entering(p, r)]
    PROVE  /\ j \in Joins
           /\ joins' \in [Joins -> JoinCall \cup {None}]
           /\ joins'[j] = Entering(p, r) /\ Entering(p, r) \in JoinCall
           /\ \A i \in Joins : joins[i] \in JoinCall => i # j /\ joins'[i] = joins[i]
           /\ WireFine(Append(pages[p].up, First(pages[p], r, j)), pages[p].down, p,
                       joins', Len(msgs))
<1>1. j \in Joins /\ joins[j] \notin JoinCall
  BY IdleCalls, RunningCalls
<1>2. Entering(p, r) \in JoinCall /\ Entering(p, r).page = p
  BY DEF Entering, JoinCall
<1>3. /\ joins' \in [Joins -> JoinCall \cup {None}] /\ joins'[j] = Entering(p, r)
      /\ \A i \in Joins : joins[i] \in JoinCall => i # j /\ joins'[i] = joins[i]
  BY <1>1, <1>2 DEF TypeOK
<1>4. pages[p] \in Page /\ pages[p].up \in Seq(Packet) /\ pages[p].down \in Seq(Packet)
  BY DEF TypeOK, Page
<1>5. NoPacket(pages[p].up, j) /\ NoPacket(pages[p].down, j)
  BY <1>1, NewCalls
<1>6. WireFine(pages[p].up, pages[p].down, p, joins', Len(msgs))
  <2>1. \A i \in Joins : joins[i] \in JoinCall /\ joins[i].page = p => joins'[i] = joins[i]
    BY <1>3
  <2>2. WireFine(pages[p].up, pages[p].down, p, joins, Len(msgs)) /\ Len(msgs) \in Nat
    BY RunningCalls DEF WireOK
  <2> QED BY <2>1, <2>2, WireKeeps
<1>7. OfCall(First(pages[p], r, j), p, joins')
  BY <1>1, <1>2, <1>3, <1>4, EnterPage DEF OfCall
<1> QED BY SMTT(20), <1>1, <1>2, <1>3, <1>4, <1>5, <1>6, <1>7, EnterPage, WireSends

\* A call goes on, once nothing of it is on the wire.
LEMMA CallResumes ==
    ASSUME TypeOK, NEW p \in Pages, NEW page \in Page, NEW j \in Joins,
           joins[j] \in JoinCall, joins[j].page = p,
           WireFine(page.up, page.down, p, joins, Len(msgs)),
           NoPacket(page.up, j), NoPacket(page.down, j), joins' = Resumed(j)
    PROVE  /\ joins' \in [Joins -> JoinCall \cup {None}]
           /\ \A i \in Joins : i # j => joins'[i] = joins[i]
           /\ joins[j].pc = "leave" => joins'[j] \in JoinCall /\ joins'[j].page = p
           /\ WireFine(Resume(page, j).up, Resume(page, j).down, p, joins', Len(msgs))
<1>1. joins'[j] = IF joins[j].pc = "leave" THEN [joins[j] EXCEPT !.pc = "join"] ELSE None
  BY DEF Resumed, TypeOK
<1>2. joins[j].pc = "leave" => joins'[j] \in JoinCall /\ joins'[j].page = p
  BY <1>1 DEF JoinCall
<1>3. /\ joins' \in [Joins -> JoinCall \cup {None}]
      /\ \A i \in Joins : i # j => joins'[i] = joins[i]
  BY <1>1, <1>2, RunningCalls DEF Resumed, TypeOK, JoinCall
<1>4. page.up \in Seq(Packet) /\ page.down \in Seq(Packet) /\ joins[j].room \in Rooms
  BY DEF Page, JoinCall
<1>5. WireFine(page.up, page.down, p, joins', Len(msgs))
  BY <1>3, RunningCalls, WireStays
<1>6. CASE joins[j].pc = "leave"
  <2>1. OfCall(Join(joins[j].room, j), p, joins')
    BY <1>2, <1>4, <1>6, Packets DEF OfCall
  <2>2. WireFine(Append(page.up, Join(joins[j].room, j)), page.down, p, joins', Len(msgs))
    BY <1>4, <1>5, <2>1, Packets, WireSends
  <2> QED BY <1>2, <1>3, <1>6, <2>2, ResumePage
<1>7. CASE joins[j].pc # "leave"
  BY <1>3, <1>5, <1>7, ResumePage
<1> QED BY <1>6, <1>7

\* What does not change keeps its types.
LEMMA Unchanged ==
    ASSUME Sound
    PROVE  /\ events \in 0..MaxEvents
           /\ Happens => events' \in 0..MaxEvents
           /\ sockets \in [Sids -> (SUBSET Rooms) \cup {None}]
           /\ present \subseteq Rooms /\ hidden \subseteq Sids \X Rooms
           /\ loads \in [Loads -> Load \cup {None}]
           /\ joins \in [Joins -> JoinCall \cup {None}]
           /\ \A l \in Loads : loads[l] # None =>
                 /\ loads[l].got \subseteq InRoom(loads[l].room)
                 /\ loads[l].kind = "newest" => loads[l].before = None
           /\ \A p \in Pages : /\ pages[p] \in Page
                               /\ WireFine(pages[p].up, pages[p].down, p, joins, Len(msgs))
                               /\ pages[p].link # None => sockets[pages[p].link] \in SUBSET Rooms
                               /\ pages[p].link # None => pages[p].link \in Sids
                               /\ \A m \in Ids : pages[p].shown[m] > 0 => m \in Posted
           /\ \A p \in Pages : pages[p].up \in Seq(Packet) /\ pages[p].down \in Seq(Packet)
BY BoundsAssumption DEF Sound, TypeOK, WireOK, LinksOK, LoadsOK, ShownOK, Shown, Page, Happens

\* Asking for messages.
LEMMA AskSound ==
    ASSUME Sound, NEW p \in Pages, NEW r \in Rooms, NEW kind \in {"newest", "older"},
           NEW before \in Ids \cup {None}, NEW target \in Ids \cup {None},
           kind = "newest" => before = None, NEW l \in Idle(loads),
           loads' = [loads EXCEPT ![l] = Ask(p, r, kind, before, target)], UNCHANGED msgs
    PROVE  /\ loads' \in [Loads -> Load \cup {None}]
           /\ \A x \in Loads : loads'[x] # None =>
                 /\ loads'[x].got \subseteq InRoom(loads'[x].room)
                 /\ loads'[x].kind = "newest" => loads'[x].before = None
           /\ l \in Loads /\ loads[l] = None /\ loads'[l] = Ask(p, r, kind, before, target)
           /\ Ask(p, r, kind, before, target) \in Load
           /\ \A x \in Loads : x # l => loads'[x] = loads[x]
<1>1. l \in Loads /\ loads[l] = None
  BY IdleCalls DEF Sound
<1>2. Ask(p, r, kind, before, target) \in Load /\ Ask(p, r, kind, before, target).got = {}
  BY DEF Ask, Load
<1>3. /\ loads'[l] = Ask(p, r, kind, before, target)
      /\ \A x \in Loads : x # l => loads'[x] = loads[x]
      /\ loads' \in [Loads -> Load \cup {None}]
  BY <1>1, <1>2, Unchanged
<1>4. kind = "newest" => Ask(p, r, kind, before, target).before = None
  BY DEF Ask
<1>5. Ask(p, r, kind, before, target).kind = kind
  BY DEF Ask
<1> QED BY <1>1, <1>2, <1>3, <1>4, <1>5, Unchanged

\* What a page opens.
Opened(p, r, j) == [Enter(pages[p], r, j) EXCEPT !.room = r, !.strange = TRUE, !.gap = {}]

\* A page that opens a room.
LEMMA OpenedPage ==
    ASSUME NEW p \in Pages, pages[p] \in Page, NEW r \in Rooms, NEW j \in Joins
    PROVE  /\ Opened(p, r, j) \in Page
           /\ Opened(p, r, j).up = Append(pages[p].up, First(pages[p], r, j))
           /\ Opened(p, r, j).down = pages[p].down
           /\ Opened(p, r, j).link = pages[p].link /\ Opened(p, r, j).shown = pages[p].shown
           /\ Opened(p, r, j).room = r /\ Opened(p, r, j).strange
<1>1. Enter(pages[p], r, j) \in Page /\ SameView(Enter(pages[p], r, j), pages[p])
  BY EnterPage
<1> DEFINE e == Enter(pages[p], r, j)
<1>2. Opened(p, r, j) = [e EXCEPT !.room = r, !.strange = TRUE, !.gap = {}]
  BY DEF Opened
<1>3. /\ e.up = Append(pages[p].up, First(pages[p], r, j)) /\ e.down = pages[p].down
      /\ e \in Page /\ e.link = pages[p].link /\ e.shown = pages[p].shown
  BY <1>1, EnterPage DEF SameView
<1> HIDE DEF e
<1>4. /\ Opened(p, r, j) \in Page
      /\ Opened(p, r, j).room = r /\ Opened(p, r, j).strange
      /\ Opened(p, r, j).up = e.up /\ Opened(p, r, j).down = e.down
      /\ Opened(p, r, j).link = e.link /\ Opened(p, r, j).shown = e.shown
  BY <1>2, <1>3 DEF Page
<1> QED BY <1>3, <1>4

\* Opening a room keeps Sound.
LEMMA OpenSound ==
    ASSUME Sound, NEW p \in Pages, NEW r \in Rooms, NEW j \in Joins, NEW l \in Loads,
           Open(p, r, j, l)
    PROVE  Sound'
<1>1. /\ TypeOK /\ WireOK
      /\ j \in Idle(joins) /\ l \in Idle(loads) /\ UNCHANGED server /\ Happens
      /\ joins' = [joins EXCEPT ![j] = Entering(p, r)]
      /\ loads' = [loads EXCEPT ![l] = Ask(p, r, "newest", None, None)]
      /\ pages' = [pages EXCEPT ![p] = Opened(p, r, j)]
  BY DEF Open, Opened, Sound
<1>2. LoadsStep /\ SocketsStep /\ EventsStep /\ UNCHANGED msgs
  BY <1>1, AskSound, Unchanged DEF server, LoadsStep, SocketsStep, EventsStep
<1> DEFINE page == Opened(p, r, j)
<1>3. /\ page \in Page /\ page.up = Append(pages[p].up, First(pages[p], r, j))
      /\ page.down = pages[p].down
      /\ page.link = pages[p].link /\ page.shown = pages[p].shown
  BY OpenedPage, Unchanged
<1> HIDE DEF page
<1>4. /\ WireFine(Append(pages[p].up, First(pages[p], r, j)), pages[p].down, p,
                 joins', Len(msgs))
      /\ joins' \in [Joins -> JoinCall \cup {None}]
      /\ \A i \in Joins : joins[i] \in JoinCall => joins'[i] = joins[i]
  BY <1>1, CallEnters
<1>5. pages' = [pages EXCEPT ![p] = page]
  BY <1>1 DEF page
<1>6. CallsStep(p, page)
  BY <1>3, <1>4 DEF CallsStep
<1>7. PageStep(p, page)
  BY <1>1, <1>3, <1>5, Unchanged DEF PageStep, server
<1> QED BY <1>2, <1>6, <1>7, OnePage

\* A page that is not linked again keeps its socket.
LEMMA LinkKept ==
    ASSUME Sound, NEW p \in Pages, NEW page, page.link \in {pages[p].link, None},
           page \in Page, SocketsStep, pages' = [pages EXCEPT ![p] = page],
           \A m \in Ids : page.shown[m] > 0 => m \in Posted
    PROVE  PageStep(p, page)
BY Unchanged DEF PageStep, SocketsStep

\* A page whose calls and wires are what they were.
LEMMA WiresKept ==
    ASSUME Sound, NEW p \in Pages, NEW page, page.up = pages[p].up, page.down = pages[p].down,
           UNCHANGED joins
    PROVE  CallsStep(p, page)
BY Unchanged DEF CallsStep

\* What a step leaves alone.
LEMMA LeftAlone ==
    ASSUME Sound
    PROVE  /\ UNCHANGED <<sockets, present, hidden>> => SocketsStep
           /\ UNCHANGED loads => LoadsStep
           /\ UNCHANGED events \/ Happens => EventsStep
BY Unchanged DEF SocketsStep, LoadsStep, EventsStep

\* A step of no page.
LEMMA NoPage ==
    ASSUME Sound, UNCHANGED <<pages, joins>>,
           sockets' \in [Sids -> (SUBSET Rooms) \cup {None}],
           \A p \in Pages : pages[p].link # None => sockets'[pages[p].link] \in SUBSET Rooms,
           present' \subseteq Rooms, hidden' \subseteq Sids \X Rooms,
           LoadsStep, EventsStep,
           msgs' \in Seq(Message), Len(msgs) <= Len(msgs'), Len(msgs') <= MaxMsgs,
           \A r : InRoom(r) \subseteq InRoom(r)'
    PROVE  Sound'
<1>1. TypeOK /\ WireOK /\ LinksOK /\ LoadsOK /\ ShownOK
  BY DEF Sound
<1>2. TypeOK'
  BY <1>1 DEF TypeOK, LoadsStep, EventsStep
<1>3. WireOK'
  <2>1. ASSUME NEW p \in Pages
        PROVE  WireFine(pages[p].up, pages[p].down, p, joins, Len(msgs'))
    <3>1. Len(msgs) \in Nat /\ Len(msgs') \in Nat
      BY <1>1 DEF TypeOK
    <3>2. WireFine(pages[p].up, pages[p].down, p, joins, Len(msgs))
      BY <1>1 DEF WireOK
    <3> QED BY <3>1, <3>2, WireStays
  <2> QED BY <2>1 DEF WireOK
<1>4. LinksOK'
  BY <1>1 DEF LinksOK
<1>5. LoadsOK'
  BY <1>1 DEF LoadsOK, LoadsStep
<1>6. ShownOK'
  <2>1. Posted \subseteq Posted'
    BY <1>1 DEF Posted, TypeOK
  <2> QED BY <1>1, <2>1 DEF ShownOK, Shown
<1> QED BY <1>2, <1>3, <1>4, <1>5, <1>6 DEF Sound

\* Looking for an old message keeps Sound.
LEMMA SearchSound ==
    ASSUME Sound, NEW p \in Pages, NEW m \in Posted, NEW l \in Loads, Search(p, m, l)
    PROVE  Sound'
<1>1. /\ Happens /\ UNCHANGED <<server, pages, joins>> /\ l \in Idle(loads)
      /\ loads' = [loads EXCEPT ![l] = Ask(p, pages[p].room, "older", Oldest(Shown(p)), m)]
      /\ pages[p].room # None
  BY DEF Search
<1>2. pages[p].room \in Rooms /\ m \in Ids /\ Oldest(Shown(p)) \in Ids \cup {None}
  <2>1. pages[p].room \in Rooms
    BY <1>1, Unchanged DEF Page
  <2>2. m \in Ids
    BY RunningCalls DEF Sound
  <2> QED BY <2>1, <2>2, OldestIsId DEF Shown
<1>3. LoadsStep
  BY <1>1, <1>2, AskSound DEF LoadsStep, server
<1> QED BY <1>1, <1>3, NoPage, LeftAlone, Unchanged DEF server, Sound, TypeOK, InRoom, Posted

\* A broken connection keeps Sound.
LEMMA DisconnectSound == ASSUME Sound, NEW p \in Pages, Disconnect(p) PROVE Sound'
<1> DEFINE lost == {pages[p].down[i].id : i \in DOMAIN pages[p].down} \ {None}
           missed == {m \in lost : msgs[m].room = pages[p].room}
           page == [pages[p] EXCEPT !.link = None, !.up = <<>>, !.down = <<>>,
                                    !.gap = @ \cup missed]
<1>1. /\ Happens /\ UNCHANGED <<server, joins, loads>>
      /\ pages' = [pages EXCEPT ![p] = page]
  BY DEF Disconnect
<1>2. missed \subseteq Ids
  <2>1. \A i \in DOMAIN pages[p].down : pages[p].down[i] \in Packet
    BY Unchanged
  <2> QED BY <2>1 DEF Packet
<1> HIDE DEF missed
<1>3. page \in Page /\ page.link = None /\ page.up = <<>> /\ page.down = <<>>
      /\ page.shown = pages[p].shown
  <2>1. pages[p] \in Page /\ <<>> \in Seq(Packet)
    BY Unchanged
  <2>2. pages[p].gap \cup missed \in SUBSET Ids
    BY <1>2, <2>1 DEF Page
  <2> QED BY <2>1, <2>2 DEF Page
<1> HIDE DEF page
<1>4. WireFine(page.up, page.down, p, joins, Len(msgs))
  BY <1>3 DEF WireFine, Distinct, OneEach
<1>5. CallsStep(p, page)
  BY <1>1, <1>4, Unchanged DEF CallsStep
<1>6. SocketsStep /\ LoadsStep /\ EventsStep
  BY <1>1, LeftAlone DEF server
<1>7. PageStep(p, page)
  <2>1. \A m \in Ids : page.shown[m] > 0 => m \in Posted
    BY <1>3, Unchanged
  <2> QED BY <1>1, <1>3, <2>1 DEF PageStep
<1> QED BY <1>1, <1>5, <1>6, <1>7, OnePage DEF server

\* What a page connects with.
Linked(p, s) == [pages[p] EXCEPT !.link = s]

\* A connection keeps Sound.
LEMMA ConnectSound ==
    ASSUME Sound, NEW p \in Pages, NEW s \in Sids, NEW j \in Joins, Connect(p, s, j)
    PROVE  Sound'
<1>1. /\ TypeOK /\ WireOK /\ pages[p].link = None /\ sockets[s] = None
      /\ sockets' = [sockets EXCEPT ![s] = {}]
      /\ UNCHANGED <<events, msgs, present, hidden, loads>>
  BY DEF Sound, Connect, Connected
<1>2. /\ Linked(p, s) \in Page /\ Linked(p, s).link = s /\ Linked(p, s).last = pages[p].last
      /\ Linked(p, s).up = pages[p].up /\ Linked(p, s).down = pages[p].down
      /\ Linked(p, s).room = pages[p].room /\ Linked(p, s).shown = pages[p].shown
  BY Unchanged DEF Linked, Page
<1>3. SocketsStep /\ LoadsStep /\ EventsStep
  <2>1. SocketsStep
    BY <1>1, Unchanged DEF SocketsStep
  <2> QED BY <1>1, <2>1, LeftAlone
<1>4. sockets'[s] \in SUBSET Rooms
  BY <1>1, Unchanged
<1>5. CASE pages[p].room = None
  <2>1. pages' = [pages EXCEPT ![p] = Linked(p, s)] /\ UNCHANGED joins
    BY <1>2, <1>5 DEF Connect, Linked
  <2>2. PageStep(p, Linked(p, s))
    BY <1>1, <1>2, <1>4, <2>1, Unchanged DEF PageStep
  <2>3. CallsStep(p, Linked(p, s))
    BY <1>2, <2>1, WiresKept
  <2> QED BY <1>1, <1>3, <2>2, <2>3, OnePage
<1>6. CASE pages[p].room # None
  <2> DEFINE r == pages[p].room
             page == Enter(Linked(p, s), r, j)
  <2>1. /\ pages' = [pages EXCEPT ![p] = page] /\ j \in Idle(joins)
        /\ joins' = [joins EXCEPT ![j] = Entering(p, r)]
    BY <1>2, <1>6 DEF Connect, Linked
  <2>2. r \in Rooms
    BY <1>6, Unchanged DEF Page
  <2>3. /\ page \in Page /\ SameView(page, Linked(p, s)) /\ page.down = pages[p].down
        /\ page.up = Append(pages[p].up, First(pages[p], r, j))
    BY SMTT(20), <1>2, <2>2, EnterPage DEF First
  <2> HIDE DEF page
  <2>4. /\ WireFine(Append(pages[p].up, First(pages[p], r, j)), pages[p].down, p,
                    joins', Len(msgs))
        /\ joins' \in [Joins -> JoinCall \cup {None}]
        /\ \A i \in Joins : joins[i] \in JoinCall => joins'[i] = joins[i]
    BY <1>1, <2>1, <2>2, CallEnters
  <2>5. CallsStep(p, page)
    BY <2>3, <2>4 DEF CallsStep
  <2>6. PageStep(p, page)
    BY <1>1, <1>2, <1>4, <2>1, <2>3, Unchanged DEF PageStep, SameView
  <2> QED BY <1>1, <1>3, <2>5, <2>6, OnePage
<1> QED BY <1>5, <1>6

\* The gateway's rooms and lists keep their types.
LEMMA SocketsTyped ==
    ASSUME Sound, NEW s \in Sids, sockets[s] \in SUBSET Rooms, NEW r \in Rooms,
           JoinRoom(s, r) \/ LeaveRoom(s, r)
    PROVE  SocketsStep
<1>1. OfSocket(s, {r}) \subseteq Sids \X Rooms /\ Others(s, present \cap {r}) \subseteq Sids \X Rooms
  BY Unchanged DEF OfSocket, Others, Connected
<1>2. present' \subseteq Rooms /\ hidden' \subseteq Sids \X Rooms
  BY <1>1, Unchanged DEF JoinRoom, LeaveRoom
<1>3. PICK R \in SUBSET Rooms : sockets' = [sockets EXCEPT ![s] = R]
  <2>1. CASE JoinRoom(s, r)
    <3>1. sockets' = [sockets EXCEPT ![s] = sockets[s] \cup {r}]
      BY <2>1 DEF JoinRoom
    <3> QED BY <3>1
  <2>2. CASE LeaveRoom(s, r)
    <3>1. sockets' = [sockets EXCEPT ![s] = sockets[s] \ {r}]
      BY <2>2 DEF LeaveRoom
    <3> QED BY <3>1
  <2> QED BY <2>1, <2>2
<1> QED BY <1>2, <1>3, Unchanged DEF SocketsStep

\* The gateway taking a packet keeps Sound.
LEMMA ServerTakesSound == ASSUME Sound, NEW p \in Pages, ServerTakes(p) PROVE Sound'
<1> DEFINE up == pages[p].up
           down == pages[p].down
           packet == Head(up)
           answer == IF packet.call = None THEN <<>> ELSE <<Ack(packet.call)>>
           page == [pages[p] EXCEPT !.up = Tail(@), !.down = @ \o answer]
<1>1. /\ pages[p].link # None /\ up # <<>>
      /\ IF packet.type = "join" THEN JoinRoom(pages[p].link, packet.room)
         ELSE LeaveRoom(pages[p].link, packet.room)
      /\ pages' = [pages EXCEPT ![p] = page]
      /\ UNCHANGED <<events, msgs, joins, loads>>
  BY DEF ServerTakes
<1>2. /\ up \in Seq(Packet) /\ down \in Seq(Packet) /\ pages[p] \in Page
      /\ WireFine(up, down, p, joins, Len(msgs))
      /\ pages[p].link \in Sids /\ sockets[pages[p].link] \in SUBSET Rooms
      /\ \A m \in Ids : pages[p].shown[m] > 0 => m \in Posted
  BY <1>1, Unchanged
<1>3. /\ WireFine(Tail(up), down, p, joins, Len(msgs)) /\ UpOK(packet) /\ OfCall(packet, p, joins)
      /\ packet.call # None => NoPacket(Tail(up), packet.call) /\ NoPacket(down, packet.call)
      /\ Tail(up) \in Seq(Packet)
  BY <1>1, <1>2, WireTakenUp, Taken
<1>4. down \o answer \in Seq(Packet) /\ WireFine(Tail(up), down \o answer, p, joins, Len(msgs))
  <2>1. CASE packet.call = None
    <3>1. down \o answer = down
      BY <1>2, <2>1
    <3> QED BY <1>2, <1>3, <3>1
  <2>2. CASE packet.call # None
    <3>1. packet.call \in Joins
      BY <1>3, <2>2 DEF UpOK
    <3>2. Ack(packet.call) \in Packet /\ Ack(packet.call).call = packet.call
      BY <3>1, Packets, RoomsAssumption DEF Packet, Ack
    <3>3. down \o answer = Append(down, Ack(packet.call))
      BY <1>2, <2>2, <3>2
    <3>4. DownOK(Ack(packet.call), Len(msgs)) /\ OfCall(Ack(packet.call), p, joins)
      BY <1>3, <3>1, <3>2 DEF DownOK, OfCall, Ack
    <3>5. WireFine(Tail(up), Append(down, Ack(packet.call)), p, joins, Len(msgs))
      BY <1>2, <1>3, <2>2, <3>2, <3>4, WireBrings
    <3>6. Append(down, Ack(packet.call)) \in Seq(Packet)
      BY <1>2, <3>2, Appended
    <3> QED BY <3>3, <3>5, <3>6
  <2> QED BY <2>1, <2>2
<1> HIDE DEF answer
<1>5. /\ page \in Page /\ page.link = pages[p].link /\ page.shown = pages[p].shown
      /\ page.up = Tail(up) /\ page.down = down \o answer
  BY <1>2, <1>3, <1>4 DEF Page
<1> HIDE DEF page
<1>6. SocketsStep /\ LoadsStep /\ EventsStep
  <2>1. packet.room \in Rooms
    BY <1>3 DEF UpOK
  <2>2. SocketsStep
    BY <1>1, <1>2, <2>1, SocketsTyped
  <2> QED BY <1>1, <2>2, LeftAlone
<1>7. CallsStep(p, page)
  BY <1>1, <1>4, <1>5, Unchanged DEF CallsStep
<1>8. PageStep(p, page)
  BY <1>1, <1>2, <1>5, <1>6 DEF PageStep, SocketsStep
<1> QED BY <1>1, <1>6, <1>7, <1>8, OnePage

\* The page taking a packet keeps Sound.
LEMMA PageTakesSound == ASSUME Sound, NEW p \in Pages, PageTakes(p) PROVE Sound'
<1> DEFINE up == pages[p].up
           down == pages[p].down
           packet == Head(down)
           page == [pages[p] EXCEPT !.down = Tail(@)]
<1>1. /\ down # <<>> /\ UNCHANGED <<events, server, loads>>
      /\ IF packet.type = "ack"
         THEN pages' = [pages EXCEPT ![p] = Resume(page, packet.call)] /\ joins' = Resumed(packet.call)
         ELSE pages' = [pages EXCEPT ![p] = OnMessageNew(page, packet.id)] /\ UNCHANGED joins
  BY DEF PageTakes
<1>2. /\ up \in Seq(Packet) /\ down \in Seq(Packet) /\ pages[p] \in Page
      /\ WireFine(up, down, p, joins, Len(msgs))
      /\ \A m \in Ids : pages[p].shown[m] > 0 => m \in Posted
  BY <1>1, Unchanged
<1>3. /\ WireFine(up, Tail(down), p, joins, Len(msgs))
      /\ DownOK(packet, Len(msgs)) /\ OfCall(packet, p, joins)
      /\ packet.call # None => NoPacket(Tail(down), packet.call) /\ NoPacket(up, packet.call)
      /\ Tail(down) \in Seq(Packet)
  BY <1>1, <1>2, WireTakenDown, Taken
<1>4. /\ page \in Page /\ page.link = pages[p].link /\ page.shown = pages[p].shown
      /\ page.up = up /\ page.down = Tail(down)
  BY <1>2, <1>3 DEF Page
<1> HIDE DEF page
<1>5. SocketsStep /\ LoadsStep /\ EventsStep /\ UNCHANGED msgs
  BY <1>1, LeftAlone DEF server
<1>6. CASE packet.type = "ack"
  <2> DEFINE j == packet.call
             new == Resume(page, j)
  <2>1. j \in Joins /\ j # None /\ joins[j] \in JoinCall /\ joins[j].page = p
    BY <1>3, <1>6, Constants DEF DownOK, OfCall
  <2>2. TypeOK /\ joins' = Resumed(j) /\ pages' = [pages EXCEPT ![p] = new]
    BY <1>1, <1>6 DEF Sound
  <2>3. new \in Page /\ SameView(new, page)
    BY <1>4, <2>1, ResumePage
  <2>4. /\ joins' \in [Joins -> JoinCall \cup {None}]
        /\ \A i \in Joins : i # j => joins'[i] = joins[i]
        /\ WireFine(new.up, new.down, p, joins', Len(msgs))
    BY <1>3, <1>4, <2>1, <2>2, CallResumes
  <2> HIDE DEF new
  <2>5. CallsStep(p, new)
    BY <2>1, <2>4 DEF CallsStep
  <2>6. PageStep(p, new)
    BY <1>2, <1>4, <1>5, <2>2, <2>3, Unchanged DEF PageStep, SocketsStep, SameView
  <2> QED BY <1>5, <2>5, <2>6, OnePage
<1>7. CASE packet.type # "ack"
  <2> DEFINE new == OnMessageNew(page, packet.id)
  <2>1. packet.id \in 1..Len(msgs) /\ packet.id \in Ids
    BY <1>3, <1>7, RunningCalls DEF DownOK, Sound, Posted
  <2>2. /\ new \in Page /\ new.link = page.link /\ new.up = page.up /\ new.down = page.down
        /\ \A m \in Ids : new.shown[m] > 0 => page.shown[m] > 0 \/ m = packet.id
    <3>1. CASE Belongs(packet.id, page.room) /\ page.shown[packet.id] = 0
      <4>1. page.shown \in [Ids -> Nat]
        BY <1>4 DEF Page
      <4>2. /\ Show(page.shown, {packet.id}) \in [Ids -> Nat]
            /\ \A m \in Ids : Show(page.shown, {packet.id})[m] > 0
                                <=> page.shown[m] > 0 \/ m \in {packet.id}
        BY <4>1, ShowAdds
      <4>3. new = [page EXCEPT !.shown = Show(page.shown, {packet.id})]
        BY <3>1 DEF OnMessageNew
      <4> QED BY <1>4, <4>2, <4>3 DEF Page
    <3>2. CASE ~ (Belongs(packet.id, page.room) /\ page.shown[packet.id] = 0)
      BY <1>4, <3>2 DEF OnMessageNew
    <3> QED BY <3>1, <3>2
  <2>3. pages' = [pages EXCEPT ![p] = new] /\ UNCHANGED joins
    BY <1>1, <1>7
  <2> HIDE DEF new
  <2>4. CallsStep(p, new)
    BY <1>3, <1>4, <2>2, <2>3, Unchanged DEF CallsStep
  <2>5. \A m \in Ids : new.shown[m] > 0 => m \in Posted
    BY <1>2, <1>4, <2>1, <2>2 DEF Posted
  <2>6. PageStep(p, new)
    BY <1>4, <1>5, <2>2, <2>3, <2>5, Unchanged DEF PageStep, SocketsStep
  <2> QED BY <1>5, <2>4, <2>6, OnePage
<1> QED BY <1>6, <1>7

\* A call that gives up its acknowledgement keeps Sound.
LEMMA GiveUpSound ==
    ASSUME Sound, NEW j \in Joins, joins[j] \in JoinCall, GiveUp(j), EventsStep
    PROVE  Sound'
<1> DEFINE p == joins[j].page
           page == Forget(pages[p], j)
           new == Resume(page, j)
<1>1. p \in Pages /\ TypeOK
  BY DEF JoinCall, Sound
<1>2. /\ pages' = [pages EXCEPT ![p] = new] /\ joins' = Resumed(j) /\ UNCHANGED <<server, loads>>
  BY DEF GiveUp
<1>3. /\ pages[p] \in Page /\ \A m \in Ids : pages[p].shown[m] > 0 => m \in Posted
      /\ WireFine(pages[p].up, pages[p].down, p, joins, Len(msgs))
  BY <1>1, Unchanged
<1> HIDE DEF p
<1>4. /\ WireFine(page.up, page.down, p, joins, Len(msgs))
      /\ NoPacket(page.up, j) /\ NoPacket(page.down, j)
  BY <1>3, WireForgets
<1>5. page \in Page /\ SameView(page, pages[p])
  BY <1>3, ForgetPage DEF WireFine
<1> HIDE DEF page
<1>6. joins[j].page = p
  BY DEF p
<1>7. new \in Page /\ SameView(new, page)
  BY <1>5, ResumePage
<1>8. /\ joins' \in [Joins -> JoinCall \cup {None}]
      /\ \A i \in Joins : i # j => joins'[i] = joins[i]
      /\ WireFine(new.up, new.down, p, joins', Len(msgs))
  BY <1>1, <1>2, <1>4, <1>5, <1>6, CallResumes
<1> HIDE DEF new
<1>9. CallsStep(p, new)
  BY <1>6, <1>8 DEF CallsStep
<1>10. SocketsStep /\ LoadsStep /\ UNCHANGED msgs
  BY <1>2, LeftAlone DEF server
<1>11. PageStep(p, new)
  BY <1>1, <1>2, <1>3, <1>5, <1>7, <1>10, Unchanged DEF PageStep, SocketsStep, SameView
<1> QED BY <1>1, <1>9, <1>10, <1>11, OnePage

\* A read of the messages keeps Sound.
LEMMA ReadSound == ASSUME Sound, NEW l \in Loads, Read(l) PROVE Sound'
<1> DEFINE b == loads[l].before
           asked == {m \in InRoom(loads[l].room) : b = None \/ m < b}
           read == [loads[l] EXCEPT !.pc = "answer", !.got = Newest(asked)]
<1>1. /\ loads[l] # None /\ UNCHANGED <<events, server, pages, joins>>
      /\ loads' = [loads EXCEPT ![l] = read]
  BY DEF Read, Running
<1>2. Newest(asked) \subseteq InRoom(loads[l].room) /\ InRoom(loads[l].room) \subseteq Ids
  BY RunningCalls DEF Newest, InRoom, Sound
<1> HIDE DEF asked
<1>3. loads[l] \in Load
  BY <1>1, RunningCalls DEF Sound
<1>4. /\ read \in Load /\ read.got \subseteq InRoom(read.room)
      /\ read.kind = loads[l].kind /\ read.before = loads[l].before
  BY <1>2, <1>3 DEF Load
<1> HIDE DEF read
<1>5. LoadsStep
  BY <1>1, <1>4, Unchanged DEF LoadsStep
<1>6. EventsStep
  BY <1>1, LeftAlone
<1> QED BY <1>1, <1>5, <1>6, NoPage, Unchanged DEF server, Sound, TypeOK, InRoom, Posted

\* An answer with a list keeps Sound.
LEMMA AnswerSound == ASSUME Sound, NEW l \in Loads, Answer(l) PROVE Sound'
<1> DEFINE load == loads[l]
           p == load.page
           new == Replace(pages[p], load)
<1>1. /\ load \in Load /\ UNCHANGED <<events, server, joins>>
      /\ pages' = [pages EXCEPT ![p] = new] /\ loads' = [loads EXCEPT ![l] = None]
  BY RunningCalls DEF Answer, Sound
<1>2. p \in Pages /\ load.got \subseteq Ids /\ load.got \subseteq Posted
  BY <1>1, Unchanged, NullAssumption DEF Load, InRoom
<1>3. Nothing \in [Ids -> Nat] /\ \A m \in Ids : ~ (Nothing[m] > 0)
  BY DEF Nothing
<1>4. /\ Show(Nothing, load.got) \in [Ids -> Nat]
      /\ \A m \in Ids : Show(Nothing, load.got)[m] > 0 => m \in load.got
  BY <1>3, ShowAdds
<1>5. /\ new \in Page /\ new.link = pages[p].link /\ new.shown = Show(Nothing, load.got)
      /\ new.up = pages[p].up /\ new.down = pages[p].down
  <2>1. pages[p] \in Page
    BY <1>2, Unchanged
  <2>2. (pages[p].gap \cup {m \in Ids : pages[p].shown[m] > 0 /\ Belongs(m, pages[p].room)})
            \ load.got \in SUBSET Ids
    BY <2>1 DEF Page
  <2>3. (load.room # pages[p].room) \in BOOLEAN
    OBVIOUS
  <2> HIDE DEF load, p
  <2> QED BY <1>4, <2>1, <2>2, <2>3 DEF Page, Replace
<1> HIDE DEF new
<1>6. LoadsStep /\ SocketsStep /\ EventsStep /\ UNCHANGED msgs
  BY <1>1, LeftAlone, Unchanged DEF LoadsStep, server
<1>7. CallsStep(p, new)
  BY <1>1, <1>2, <1>5, WiresKept
<1>8. \A m \in Ids : new.shown[m] > 0 => m \in Posted
  BY <1>2, <1>4, <1>5
<1>9. PageStep(p, new)
  BY <1>1, <1>2, <1>5, <1>6, <1>8, Unchanged DEF PageStep, SocketsStep
<1> QED BY <1>2, <1>6, <1>7, <1>9, OnePage

\* An answer with older messages keeps Sound.
LEMMA AnswerOlderSound == ASSUME Sound, NEW l \in Loads, AnswerOlder(l) PROVE Sound'
<1> DEFINE load == loads[l]
           p == load.page
           new == Prepend(pages[p], load)
           list == load.got \cup Shown(p)
           again == [load EXCEPT !.pc = "ask", !.got = {}, !.tries = @ + 1, !.before = Oldest(list)]
<1>1. /\ load \in Load /\ load.kind = "older" /\ UNCHANGED <<events, server, joins>>
      /\ pages' = [pages EXCEPT ![p] = new]
      /\ \E x \in {None, again} : loads' = [loads EXCEPT ![l] = x]
  BY RunningCalls DEF AnswerOlder, Sound
<1>2. p \in Pages /\ load.got \subseteq Ids /\ load.got \subseteq Posted
  BY <1>1, Unchanged, NullAssumption DEF Load, InRoom
<1>3. Oldest(list) \in Ids \cup {None}
  BY <1>2, OldestIsId DEF Shown
<1> HIDE DEF list
<1>4. again \in Load /\ again.got = {} /\ again.kind = "older"
  <2>1. load.tries + 1 \in Nat
    BY <1>1 DEF Load
  <2> HIDE DEF load
  <2>2. again = [load EXCEPT !.pc = "ask", !.got = {}, !.tries = load.tries + 1,
                             !.before = Oldest(list)]
    OBVIOUS
  <2> HIDE DEF again
  <2> QED BY <1>1, <1>3, <2>1, <2>2 DEF Load
<1> HIDE DEF again
<1>5. LoadsStep
  BY <1>1, <1>4, Unchanged DEF LoadsStep
<1>6. pages[p] \in Page /\ \A m \in Ids : pages[p].shown[m] > 0 => m \in Posted
  BY <1>2, Unchanged
<1>7. /\ Show(pages[p].shown, load.got) \in [Ids -> Nat]
      /\ \A m \in Ids : Show(pages[p].shown, load.got)[m] > 0 =>
             pages[p].shown[m] > 0 \/ m \in load.got
  BY <1>6, ShowAdds DEF Page
<1>8. /\ new \in Page /\ new.link = pages[p].link /\ new.shown = Show(pages[p].shown, load.got)
      /\ new.up = pages[p].up /\ new.down = pages[p].down
  <2>1. (pages[p].strange \/ (load.got # {} /\ load.room # pages[p].room)) \in BOOLEAN
    OBVIOUS
  <2> HIDE DEF load, p
  <2> QED BY <1>6, <1>7, <2>1 DEF Page, Prepend
<1> HIDE DEF new
<1>9. SocketsStep /\ EventsStep /\ UNCHANGED msgs
  BY <1>1, LeftAlone DEF server
<1>10. CallsStep(p, new)
  BY <1>1, <1>2, <1>8, WiresKept
<1>11. \A m \in Ids : new.shown[m] > 0 => m \in Posted
  BY <1>2, <1>6, <1>7, <1>8
<1>12. PageStep(p, new)
  BY <1>1, <1>2, <1>8, <1>9, <1>11, Unchanged DEF PageStep, SocketsStep
<1> QED BY <1>2, <1>5, <1>9, <1>10, <1>12, OnePage

\* The notice that a socket is gone keeps Sound.
LEMMA NoticeSound == ASSUME Sound, NEW s \in Sids, Notice(s) PROVE Sound'
<1>1. /\ sockets' = [sockets EXCEPT ![s] = None] /\ present' = {}
      /\ hidden' = (hidden \cup Others(s, present)) \ OfSocket(s, Rooms)
      /\ \A p \in Pages : pages[p].link # s
      /\ UNCHANGED <<events, msgs, pages, joins, loads>>
  BY DEF Notice
<1>2. Others(s, present) \subseteq Sids \X Rooms
  BY Unchanged DEF Others, Connected
<1>3. hidden' \subseteq Sids \X Rooms /\ present' \subseteq Rooms
  BY <1>1, <1>2, Unchanged
<1>4. sockets' \in [Sids -> (SUBSET Rooms) \cup {None}]
  BY <1>1, Unchanged
<1>5. \A p \in Pages : pages[p].link # None => sockets'[pages[p].link] \in SUBSET Rooms
  BY <1>1, Unchanged
<1>6. LoadsStep /\ EventsStep
  BY <1>1, LeftAlone
<1>7. msgs' \in Seq(Message) /\ Len(msgs) <= Len(msgs') /\ Len(msgs') <= MaxMsgs
  <2>1. msgs \in Seq(Message) /\ Len(msgs) \in Nat /\ Len(msgs) <= MaxMsgs
    BY DEF Sound, TypeOK
  <2> QED BY <1>1, <2>1
<1>8. \A r : InRoom(r) \subseteq InRoom(r)'
  BY <1>1 DEF InRoom, Posted
<1> QED BY <1>1, <1>3, <1>4, <1>5, <1>6, <1>7, <1>8, NoPage

\* A message that is stored is the newest of all.
LEMMA Posts ==
    ASSUME TypeOK, NEW r \in Rooms, Post(r)
    PROVE  /\ Len(msgs') = Len(msgs) + 1 /\ Len(msgs) \in Nat /\ Len(msgs) < MaxMsgs
           /\ msgs' \in Seq(Message)
           /\ \A m \in Posted : m \in Posted' /\ msgs'[m] = msgs[m]
           /\ \A m \in Posted' : m \in Posted \/ m = Len(msgs) + 1
           /\ msgs'[Len(msgs) + 1] = [room |-> r, told |-> FALSE]
<1>1. [room |-> r, told |-> FALSE] \in Message
  BY DEF Message
<1> QED BY <1>1 DEF Post, TypeOK, Posted

\* A message that is posted keeps Sound.
LEMMA PostSound == ASSUME Sound, NEW r \in Rooms, Post(r) PROVE Sound'
<1>1. TypeOK /\ UNCHANGED <<events, sockets, present, hidden, pages, joins, loads>>
  BY DEF Post, Sound
<1>2. msgs' \in Seq(Message) /\ Len(msgs) <= Len(msgs') /\ Len(msgs') <= MaxMsgs
  <2>1. /\ Len(msgs') = Len(msgs) + 1 /\ Len(msgs) \in Nat /\ Len(msgs) < MaxMsgs
        /\ msgs' \in Seq(Message)
    BY <1>1, Posts
  <2> QED BY <2>1, Constants
<1>3. LoadsStep /\ EventsStep
  BY <1>1, LeftAlone
<1>4. \A q : InRoom(q) \subseteq InRoom(q)'
  BY <1>1, Posts DEF InRoom
<1> QED BY <1>1, <1>2, <1>3, <1>4, NoPage, Unchanged

\* What a message does to the pages.
LEMMA EmitPages ==
    ASSUME Sound, NEW m \in Ids, NEW by \in {"socket", "http"}, EmitNew(m, by), NEW p \in Pages
    PROVE  /\ pages'[p] \in Page /\ pages'[p].link = pages[p].link
           /\ pages'[p].shown = pages[p].shown /\ pages'[p].room = pages[p].room
           /\ pages'[p].strange = pages[p].strange /\ pages'[p].up = pages[p].up
           /\ pages'[p].down = IF Reached(m, p, by) THEN Append(pages[p].down, New(m))
                               ELSE pages[p].down
           /\ pages'[p].gap = IF /\ ~ Reached(m, p, by)
                                 /\ msgs[m].room = pages[p].room /\ ~ Settled(p)
                              THEN pages[p].gap \cup {m} ELSE pages[p].gap
<1>1. pages[p] \in Page
  BY Unchanged
<1>2. New(m) \in Packet
  BY DEF New, Packet
<1>3. /\ Append(pages[p].down, New(m)) \in Seq(Packet)
      /\ pages[p].gap \cup {m} \in SUBSET Ids
  BY <1>1, <1>2 DEF Page
<1>4. pages'[p] = IF Reached(m, p, by) THEN [pages[p] EXCEPT !.down = Append(@, New(m))]
                  ELSE IF msgs[m].room = pages[p].room /\ ~Settled(p)
                  THEN [pages[p] EXCEPT !.gap = @ \cup {m}]
                  ELSE pages[p]
  BY DEF EmitNew
<1>5. CASE Reached(m, p, by)
  BY <1>1, <1>3, <1>4, <1>5 DEF Page
<1>6. CASE ~ Reached(m, p, by)
  BY <1>1, <1>3, <1>4, <1>6 DEF Page
<1> QED BY <1>5, <1>6

\* What it does to the rows.
LEMMA EmitRows ==
    ASSUME Sound, NEW m \in Ids, NEW by \in {"socket", "http"}, EmitNew(m, by)
    PROVE  /\ m \in Posted /\ ~ msgs[m].told
           /\ msgs' \in Seq(Message) /\ Len(msgs') = Len(msgs) /\ Posted' = Posted
           /\ \A n \in Posted : msgs'[n].room = msgs[n].room
           /\ \A n \in Posted : msgs'[n].told <=> msgs[n].told \/ n = m
           /\ \A r : InRoom(r)' = InRoom(r)
<1>1. m \in Posted /\ ~ msgs[m].told /\ msgs' = [msgs EXCEPT ![m].told = TRUE]
  BY DEF EmitNew
<1>2. msgs \in Seq(Message) /\ \A n \in Posted : msgs[n] \in Message
  BY RunningCalls DEF Sound, TypeOK
<1> DEFINE row == [msgs[m] EXCEPT !.told = TRUE]
<1>3. row \in Message /\ row.room = msgs[m].room /\ row.told
  BY <1>1, <1>2 DEF Message
<1> HIDE DEF row
<1>4. msgs' = [msgs EXCEPT ![m] = row] /\ m \in 1..Len(msgs)
  BY <1>1 DEF row, Posted
<1>5. msgs' \in Seq(Message) /\ Len(msgs') = Len(msgs)
  BY <1>2, <1>3, <1>4
<1>6. \A n \in Posted : /\ msgs'[n].room = msgs[n].room
                        /\ msgs'[n].told <=> msgs[n].told \/ n = m
  <2>1. \A n \in 1..Len(msgs) : msgs'[n] = IF n = m THEN row ELSE msgs[n]
    BY <1>2, <1>4
  <2> QED BY <1>3, <2>1 DEF Posted
<1>7. Posted' = Posted
  BY <1>5 DEF Posted
<1>8. \A r : InRoom(r)' = InRoom(r)
  BY <1>6, <1>7 DEF InRoom
<1> QED BY <1>1, <1>5, <1>6, <1>7, <1>8

\* A new message, copied to the pages, keeps Sound.
LEMMA EmitNewSound ==
    ASSUME Sound, NEW m \in Ids, NEW by \in {"socket", "http"}, EmitNew(m, by)
    PROVE  Sound'
<1>1. /\ pages' \in [Pages -> Page]
      /\ UNCHANGED <<events, sockets, present, hidden, joins, loads>>
  <2>1. DOMAIN pages' = Pages /\ pages' = [p \in Pages |-> pages'[p]]
    BY DEF EmitNew
  <2> QED BY <2>1, EmitPages DEF EmitNew
<1>2. TypeOK /\ WireOK /\ LinksOK /\ LoadsOK /\ ShownOK
  BY DEF Sound
<1>3. TypeOK'
  BY <1>1, <1>2, EmitRows DEF TypeOK
<1>4. WireOK'
  <2>1. ASSUME NEW p \in Pages
        PROVE  WireFine(pages'[p].up, pages'[p].down, p, joins, Len(msgs))
    <3>1. /\ pages[p].up \in Seq(Packet) /\ pages[p].down \in Seq(Packet)
          /\ WireFine(pages[p].up, pages[p].down, p, joins, Len(msgs))
      BY Unchanged
    <3>2. New(m) \in Packet /\ DownOK(New(m), Len(msgs)) /\ New(m).call = None
      BY EmitRows DEF New, Packet, DownOK, Posted
    <3>3. WireFine(pages[p].up, Append(pages[p].down, New(m)), p, joins, Len(msgs))
      BY <3>1, <3>2, WireBrings DEF OfCall
    <3> QED BY <3>1, <3>3, EmitPages
  <2> QED BY <1>1, <2>1, EmitRows DEF WireOK
<1>5. LinksOK'
  <2>1. \A p \in Pages : pages'[p].link = pages[p].link
    BY EmitPages
  <2>2. /\ \A p \in Pages : pages'[p].link # None => sockets'[pages'[p].link] \in SUBSET Rooms
        /\ \A p, q \in Pages :
              pages'[p].link = pages'[q].link => p = q \/ pages'[p].link = None
    BY <1>1, <1>2, <2>1 DEF LinksOK
  <2> QED BY <2>2 DEF LinksOK
<1>6. LoadsOK'
  BY <1>1, <1>2, EmitRows DEF LoadsOK
<1>7. ShownOK'
  BY <1>1, <1>2, EmitRows, EmitPages DEF ShownOK, Shown
<1> QED BY <1>3, <1>4, <1>5, <1>6, <1>7 DEF Sound

\* The first state is sound,
LEMMA InitSound == ASSUME Init PROVE Sound
<1>1. NewPage \in Page
  BY DEF NewPage, Page, Nothing
<1>2. TypeOK
  BY <1>1, BoundsAssumption DEF Init, TypeOK
<1>3. WireOK /\ LinksOK /\ LoadsOK
  BY DEF Init, WireOK, WireFine, Distinct, OneEach, LinksOK, LoadsOK, NewPage
<1>4. ShownOK
  BY DEF Init, ShownOK, Shown, NewPage, Nothing
<1> QED BY <1>2, <1>3, <1>4 DEF Sound

\* and every step keeps it so.
LEMMA NextSound == ASSUME Sound, [Next]_vars PROVE Sound'
<1>1. ASSUME NEW p \in Pages, PageActs(p) PROVE Sound'
  BY <1>1, OpenSound, SearchSound, DisconnectSound, ConnectSound, ServerTakesSound,
     PageTakesSound DEF PageActs
<1>2. ASSUME NEW j \in Joins, Timeout(j) \/ Rejected(j) PROVE Sound'
  <2>1. joins[j] \in JoinCall
    BY <1>2, RunningCalls DEF Timeout, Rejected, Sound
  <2>2. GiveUp(j) /\ EventsStep
    BY <1>2, LeftAlone DEF Timeout, Rejected
  <2> QED BY <2>1, <2>2, GiveUpSound
<1>3. ASSUME NEW l \in Loads, Read(l) \/ Answer(l) \/ AnswerOlder(l) PROVE Sound'
  BY <1>3, ReadSound, AnswerSound, AnswerOlderSound
<1>4. ASSUME NEW s \in Sids, Notice(s) PROVE Sound'
  BY <1>4, NoticeSound
<1>5. ASSUME NEW r \in Rooms, Post(r) PROVE Sound'
  BY <1>5, PostSound
<1>6. ASSUME NEW m \in Ids, NEW by \in {"socket", "http"}, EmitNew(m, by) PROVE Sound'
  BY <1>6, EmitNewSound
<1>7. CASE UNCHANGED vars
  BY <1>7 DEF vars, server, Sound, TypeOK, WireOK, LinksOK, LoadsOK, ShownOK, Shown, InRoom, Posted
<1> QED BY <1>1, <1>2, <1>3, <1>4, <1>5, <1>6, <1>7 DEF Next

\* Whatever the user, the network and the gateway do, every value keeps its type.
THEOREM TypeCorrect == Spec => []TypeOK
<1>1. Init => Sound
  BY InitSound
<1>2. Sound /\ [Next]_vars => Sound'
  BY NextSound
<1>3. Sound => TypeOK
  BY DEF Sound
<1> QED BY <1>1, <1>2, <1>3, PTL DEF Spec

------------------------------------------------------------------------------
(* What a step does to the page it is about; every other page stays.       *)

OnlyPage(p) == \A q \in Pages : q # p => pages'[q] = pages[q]

\* What opening a room does to its page.
LEMMA OpenDoes ==
    ASSUME Sound, NEW p \in Pages, NEW r \in Rooms, NEW j \in Joins, NEW l \in Loads,
           Open(p, r, j, l)
    PROVE  /\ OnlyPage(p)
           /\ pages'[p].up = Append(pages[p].up, First(pages[p], r, j))
           /\ pages'[p].link = pages[p].link /\ pages'[p].room = r /\ pages'[p].strange
           /\ joins[j] = None /\ j \in Joins /\ joins' = [joins EXCEPT ![j] = Entering(p, r)]
           /\ loads[l] = None /\ loads' = [loads EXCEPT ![l] = Ask(p, r, "newest", None, None)]
           /\ UNCHANGED server
<1>1. /\ pages' = [pages EXCEPT ![p] = Opened(p, r, j)] /\ UNCHANGED server
      /\ j \in Idle(joins) /\ joins' = [joins EXCEPT ![j] = Entering(p, r)]
      /\ l \in Idle(loads) /\ loads' = [loads EXCEPT ![l] = Ask(p, r, "newest", None, None)]
  BY DEF Open, Opened
<1>2. pages'[p] = Opened(p, r, j) /\ OnlyPage(p) /\ pages[p] \in Page
  BY <1>1, Unchanged DEF OnlyPage, Sound, TypeOK
<1> QED BY <1>1, <1>2, OpenedPage, IdleCalls DEF Sound

\* What a broken connection does to its page.
LEMMA DisconnectDoes ==
    ASSUME Sound, NEW p \in Pages, Disconnect(p)
    PROVE  /\ OnlyPage(p) /\ pages'[p].link = None /\ pages'[p].room = pages[p].room
           /\ pages'[p].shown = pages[p].shown /\ pages'[p].strange = pages[p].strange
           /\ pages[p].gap \subseteq pages'[p].gap
           /\ \A m \in Ids : Coming(pages[p].down, m) /\ msgs[m].room = pages[p].room =>
                  m \in pages'[p].gap
           /\ UNCHANGED <<server, joins, loads>>
<1> DEFINE lost == {pages[p].down[i].id : i \in DOMAIN pages[p].down} \ {None}
           missed == {m \in lost : msgs[m].room = pages[p].room}
<1>1. /\ pages' = [pages EXCEPT ![p] = [pages[p] EXCEPT !.link = None, !.up = <<>>,
                                              !.down = <<>>, !.gap = @ \cup missed]]
      /\ UNCHANGED <<server, joins, loads>>
  BY DEF Disconnect
<1>2. \A m \in Ids : Coming(pages[p].down, m) /\ msgs[m].room = pages[p].room => m \in missed
  BY Constants DEF Coming
<1> HIDE DEF missed
<1>3. pages[p] \in Page /\ pages \in [Pages -> Page]
  BY DEF Sound, TypeOK
<1> QED BY <1>1, <1>2, <1>3 DEF OnlyPage, Page

\* What a connection does to its page.
LEMMA ConnectDoes ==
    ASSUME Sound, NEW p \in Pages, NEW s \in Sids, NEW j \in Joins, Connect(p, s, j)
    PROVE  /\ OnlyPage(p) /\ pages'[p].link = s
           /\ pages'[p].room = pages[p].room /\ pages'[p].down = pages[p].down
           /\ pages'[p].shown = pages[p].shown /\ pages'[p].strange = pages[p].strange
           /\ pages'[p].gap = pages[p].gap
           /\ sockets[s] = None /\ sockets' = [sockets EXCEPT ![s] = {}]
           /\ UNCHANGED <<msgs, present, hidden, loads>>
           /\ pages[p].room = None => UNCHANGED joins
           /\ pages[p].room # None =>
                 /\ joins[j] = None /\ joins' = [joins EXCEPT ![j] = Entering(p, pages[p].room)]
                 /\ pages'[p].up = Append(pages[p].up, First(pages[p], pages[p].room, j))
<1>1. /\ sockets[s] = None /\ sockets' = [sockets EXCEPT ![s] = {}]
      /\ UNCHANGED <<events, msgs, present, hidden, loads>>
  BY DEF Sound, Connect, Connected
<1>2. /\ Linked(p, s) \in Page /\ Linked(p, s).link = s /\ Linked(p, s).last = pages[p].last
      /\ Linked(p, s).up = pages[p].up /\ Linked(p, s).down = pages[p].down
      /\ Linked(p, s).room = pages[p].room /\ Linked(p, s).shown = pages[p].shown
      /\ Linked(p, s).strange = pages[p].strange /\ Linked(p, s).gap = pages[p].gap
  BY Unchanged DEF Linked, Page
<1>3. pages \in [Pages -> Page] /\ TypeOK
  BY DEF Sound, TypeOK
<1>4. CASE pages[p].room = None
  <2>1. pages' = [pages EXCEPT ![p] = Linked(p, s)] /\ UNCHANGED joins
    BY <1>2, <1>4 DEF Connect, Linked
  <2> QED BY <1>1, <1>2, <1>3, <1>4, <2>1 DEF OnlyPage
<1>5. CASE pages[p].room # None
  <2> DEFINE r == pages[p].room
             page == Enter(Linked(p, s), r, j)
  <2>1. /\ pages' = [pages EXCEPT ![p] = page] /\ j \in Idle(joins)
        /\ joins' = [joins EXCEPT ![j] = Entering(p, r)]
    BY <1>2, <1>5 DEF Connect, Linked
  <2>2. r \in Rooms
    BY <1>5, Unchanged DEF Page
  <2>3. /\ page \in Page /\ SameView(page, Linked(p, s)) /\ page.down = pages[p].down
        /\ page.up = Append(pages[p].up, First(pages[p], r, j))
    BY SMTT(20), <1>2, <2>2, EnterPage DEF First
  <2> HIDE DEF page
  <2> QED BY <1>1, <1>2, <1>3, <1>5, <2>1, <2>3, IdleCalls DEF OnlyPage, SameView
<1> QED BY <1>4, <1>5

\* What the gateway taking a packet does to its page.
LEMMA ServerTakesDoes ==
    ASSUME Sound, NEW p \in Pages, ServerTakes(p)
    PROVE  /\ OnlyPage(p) /\ SameView(pages'[p], pages[p])
           /\ pages[p].up # <<>> /\ UpOK(Head(pages[p].up)) /\ pages'[p].up = Tail(pages[p].up)
           /\ \A i \in DOMAIN pages[p].down :
                 i \in DOMAIN pages'[p].down /\ pages'[p].down[i] = pages[p].down[i]
           /\ pages[p].link \in Sids /\ sockets[pages[p].link] \in SUBSET Rooms
           /\ IF Head(pages[p].up).type = "join"
              THEN JoinRoom(pages[p].link, Head(pages[p].up).room)
              ELSE LeaveRoom(pages[p].link, Head(pages[p].up).room)
           /\ UNCHANGED <<msgs, joins, loads>>
<1> DEFINE packet == Head(pages[p].up)
           answer == IF packet.call = None THEN <<>> ELSE <<Ack(packet.call)>>
<1>1. /\ pages[p].link # None /\ pages[p].up # <<>>
      /\ IF packet.type = "join" THEN JoinRoom(pages[p].link, packet.room)
         ELSE LeaveRoom(pages[p].link, packet.room)
      /\ pages' = [pages EXCEPT ![p] = [pages[p] EXCEPT !.up = Tail(@), !.down = @ \o answer]]
      /\ UNCHANGED <<events, msgs, joins, loads>>
  BY DEF ServerTakes
<1>2. /\ pages[p].up \in Seq(Packet) /\ pages[p].down \in Seq(Packet) /\ pages[p] \in Page
      /\ WireFine(pages[p].up, pages[p].down, p, joins, Len(msgs)) /\ pages \in [Pages -> Page]
      /\ pages[p].link \in Sids /\ sockets[pages[p].link] \in SUBSET Rooms
  BY <1>1, Unchanged DEF Sound, TypeOK
<1>3. UpOK(packet)
  BY <1>1, <1>2, WireTakenUp
<1>4. \A i \in DOMAIN pages[p].down : /\ i \in DOMAIN (pages[p].down \o answer)
                                      /\ (pages[p].down \o answer)[i] = pages[p].down[i]
  <2>1. CASE packet.call = None
    <3>1. pages[p].down \o answer = pages[p].down
      BY <1>2, <2>1
    <3> QED BY <3>1
  <2>2. CASE packet.call # None
    <3>1. packet.call \in Joins
      BY <1>3, <2>2 DEF UpOK
    <3>2. Ack(packet.call) \in Packet
      BY <3>1, Packets, RoomsAssumption DEF Packet, Ack
    <3>3. pages[p].down \o answer = Append(pages[p].down, Ack(packet.call))
      BY <1>2, <2>2, <3>2
    <3>4. \A i \in DOMAIN pages[p].down :
              /\ i \in DOMAIN Append(pages[p].down, Ack(packet.call))
              /\ Append(pages[p].down, Ack(packet.call))[i] = pages[p].down[i]
      BY <1>2, <3>2, Appended
    <3> QED BY <3>3, <3>4
  <2> QED BY <2>1, <2>2
<1> HIDE DEF answer
<1>5. /\ pages'[p].up = Tail(pages[p].up) /\ pages'[p].down = pages[p].down \o answer
      /\ SameView(pages'[p], pages[p]) /\ OnlyPage(p)
  BY <1>1, <1>2 DEF SameView, OnlyPage, Page
<1> QED BY <1>1, <1>2, <1>3, <1>4, <1>5

\* What an acknowledgement does to its page.
LEMMA AckDoes ==
    ASSUME Sound, NEW p \in Pages, PageTakes(p), Head(pages[p].down).type = "ack"
    PROVE  LET j == Head(pages[p].down).call IN
           /\ OnlyPage(p) /\ SameView(pages'[p], pages[p])
           /\ j \in Joins /\ joins[j] \in JoinCall /\ joins[j].page = p /\ joins' = Resumed(j)
           /\ pages'[p].up = IF joins[j].pc = "leave"
                             THEN Append(pages[p].up, Join(joins[j].room, j)) ELSE pages[p].up
           /\ \A m \in Ids : Coming(pages[p].down, m) => Coming(pages'[p].down, m)
           /\ UNCHANGED <<server, loads>>
<1> DEFINE up == pages[p].up
           down == pages[p].down
           j == Head(down).call
           page == [pages[p] EXCEPT !.down = Tail(@)]
           new == Resume(page, j)
<1>1. /\ down # <<>> /\ UNCHANGED <<events, server, loads>>
      /\ pages' = [pages EXCEPT ![p] = new] /\ joins' = Resumed(j)
  BY DEF PageTakes
<1>2. /\ up \in Seq(Packet) /\ down \in Seq(Packet) /\ pages[p] \in Page
      /\ WireFine(up, down, p, joins, Len(msgs)) /\ pages \in [Pages -> Page]
  BY <1>1, Unchanged DEF Sound, TypeOK
<1>3. /\ DownOK(Head(down), Len(msgs)) /\ OfCall(Head(down), p, joins)
      /\ Tail(down) \in Seq(Packet)
  BY <1>1, <1>2, WireTakenDown, Taken
<1>4. /\ page \in Page /\ SameView(page, pages[p]) /\ page.up = up /\ page.down = Tail(down)
  BY <1>2, <1>3 DEF Page, SameView
<1> HIDE DEF page
<1>5. /\ j \in Joins /\ j # None /\ joins[j] \in JoinCall /\ joins[j].page = p
      /\ Head(down).id = None
  BY <1>3, Constants DEF DownOK, OfCall
<1>6. /\ new \in Page /\ SameView(new, page) /\ new.down = Tail(down)
      /\ new.up = IF joins[j].pc = "leave" THEN Append(up, Join(joins[j].room, j)) ELSE up
  BY <1>4, <1>5, ResumePage
<1> HIDE DEF new
<1>7. \A m \in Ids : Coming(down, m) => Coming(Tail(down), m)
  <2>1. ASSUME NEW m \in Ids, NEW i \in DOMAIN down, down[i].id = m
        PROVE  \E k \in DOMAIN Tail(down) : Tail(down)[k].id = m
    <3>1. i # 1
      BY <1>1, <1>2, <1>5, <2>1, Taken, Constants
    <3> QED BY <1>1, <1>2, <2>1, <3>1, Taken
  <2> QED BY <2>1 DEF Coming
<1>8. pages'[p] = new /\ OnlyPage(p)
  BY <1>1, <1>2 DEF OnlyPage
<1> QED BY <1>1, <1>4, <1>5, <1>6, <1>7, <1>8 DEF SameView

\* What a message that arrives does to its page.
LEMMA NewDoes ==
    ASSUME Sound, NEW p \in Pages, PageTakes(p), Head(pages[p].down).type # "ack"
    PROVE  /\ OnlyPage(p)
           /\ pages'[p].link = pages[p].link /\ pages'[p].up = pages[p].up
           /\ pages'[p].room = pages[p].room /\ pages'[p].strange = pages[p].strange
           /\ pages'[p].gap = pages[p].gap
           /\ \A m \in Ids : pages[p].shown[m] > 0 => pages'[p].shown[m] > 0
           /\ \A m \in Ids : pages'[p].shown[m] > 0 /\ ~ (pages[p].shown[m] > 0) =>
                  Belongs(m, pages[p].room)
           /\ \A m \in Ids : Coming(pages[p].down, m) =>
                  \/ Coming(pages'[p].down, m)
                  \/ Belongs(m, pages[p].room) => pages'[p].shown[m] > 0
           /\ UNCHANGED <<server, joins, loads>>
<1> DEFINE down == pages[p].down
           n == Head(down).id
           page == [pages[p] EXCEPT !.down = Tail(@)]
           new == OnMessageNew(page, n)
<1>1. /\ down # <<>> /\ UNCHANGED <<server, joins, loads>> /\ pages' = [pages EXCEPT ![p] = new]
  BY DEF PageTakes
<1>2. /\ pages[p].up \in Seq(Packet) /\ down \in Seq(Packet) /\ pages[p] \in Page
      /\ WireFine(pages[p].up, down, p, joins, Len(msgs)) /\ pages \in [Pages -> Page]
      /\ pages[p].shown \in [Ids -> Nat]
  BY <1>1, Unchanged DEF Sound, TypeOK, Page
<1>3. DownOK(Head(down), Len(msgs)) /\ Tail(down) \in Seq(Packet)
  BY <1>1, <1>2, WireTakenDown, Taken
<1>4. n \in Ids
  BY <1>3, RunningCalls DEF DownOK, Sound, Posted
<1>5. /\ page \in Page /\ SameView(page, pages[p]) /\ page.up = pages[p].up
      /\ page.down = Tail(down)
  BY <1>2, <1>3 DEF Page, SameView
<1> HIDE DEF page
<1>6. /\ new.link = page.link /\ new.up = page.up /\ new.down = page.down
      /\ new.room = page.room /\ new.strange = page.strange /\ new.gap = page.gap
      /\ \A m \in Ids : new.shown[m] > 0 <=>
             page.shown[m] > 0 \/ (m = n /\ Belongs(n, page.room))
  <2>1. CASE Belongs(n, page.room) /\ page.shown[n] = 0
    <3>1. \A m \in Ids : Show(page.shown, {n})[m] > 0 <=> page.shown[m] > 0 \/ m \in {n}
      BY <1>2, <1>5, ShowAdds DEF SameView
    <3>2. new = [page EXCEPT !.shown = Show(page.shown, {n})]
      BY <2>1 DEF OnMessageNew
    <3> QED BY <1>5, <2>1, <3>1, <3>2 DEF Page
  <2>2. CASE ~ (Belongs(n, page.room) /\ page.shown[n] = 0)
    <3>1. new = page
      BY <2>2 DEF OnMessageNew
    <3>2. Belongs(n, page.room) => page.shown[n] > 0
      BY <1>2, <1>4, <1>5, <2>2 DEF SameView
    <3> QED BY <3>1, <3>2
  <2> QED BY <2>1, <2>2
<1> HIDE DEF new
<1>7. pages'[p] = new /\ OnlyPage(p)
  BY <1>1, <1>2 DEF OnlyPage
<1>8. \A m \in Ids : Coming(down, m) => Coming(Tail(down), m) \/ m = n
  <2>1. ASSUME NEW m \in Ids, m # n, NEW i \in DOMAIN down, down[i].id = m
        PROVE  \E k \in DOMAIN Tail(down) : Tail(down)[k].id = m
    <3>1. i # 1
      BY <1>1, <1>2, <2>1, Taken
    <3> QED BY <1>1, <1>2, <2>1, <3>1, Taken
  <2> QED BY <2>1 DEF Coming
<1> QED BY <1>1, <1>5, <1>6, <1>7, <1>8 DEF SameView

\* What a call that gives up its acknowledgement does to its page.
LEMMA GiveUpDoes ==
    ASSUME Sound, NEW j \in Joins, joins[j] \in JoinCall, GiveUp(j), NEW p, p = joins[j].page
    PROVE  /\ p \in Pages /\ OnlyPage(p) /\ SameView(pages'[p], pages[p]) /\ joins' = Resumed(j)
           /\ pages[p].link # None =>
                 pages'[p].up = IF joins[j].pc = "leave"
                                THEN Append(Muted(pages[p].up, j), Join(joins[j].room, j))
                                ELSE Muted(pages[p].up, j)
           /\ \A m \in Ids : Coming(pages[p].down, m) => Coming(pages'[p].down, m)
           /\ UNCHANGED <<server, loads>>
<1> DEFINE down == pages[p].down
           page == Forget(pages[p], j)
           new == Resume(page, j)
<1>1. /\ pages' = [pages EXCEPT ![p] = new] /\ joins' = Resumed(j) /\ UNCHANGED <<server, loads>>
      /\ p \in Pages
  BY DEF GiveUp, JoinCall
<1>2. /\ pages[p] \in Page /\ down \in Seq(Packet) /\ pages \in [Pages -> Page]
      /\ WireFine(pages[p].up, down, p, joins, Len(msgs))
  BY <1>1, Unchanged DEF Sound, TypeOK
<1>3. /\ page \in Page /\ SameView(page, pages[p]) /\ page.down = Without(down, j)
      /\ page.up = IF pages[p].link = None THEN Without(pages[p].up, j)
                   ELSE Muted(pages[p].up, j)
  BY <1>2, ForgetPage DEF WireFine
<1> HIDE DEF page
<1>4. /\ new \in Page /\ SameView(new, page) /\ new.down = page.down
      /\ new.up = IF joins[j].pc = "leave" THEN Append(page.up, Join(joins[j].room, j)) ELSE page.up
  BY <1>3, ResumePage
<1> HIDE DEF new
<1>5. pages'[p] = new /\ OnlyPage(p)
  BY <1>1, <1>2 DEF OnlyPage
<1>6. \A m \in Ids : Coming(down, m) => Coming(Without(down, j), m)
  <2>1. ASSUME NEW m \in Ids, NEW i \in DOMAIN down, down[i].id = m
        PROVE  \E k \in DOMAIN Without(down, j) : Without(down, j)[k].id = m
    <3>1. down[i].call # j
      BY <1>2, <2>1, Constants DEF WireFine, DownOK
    <3>2. Distinct(down) /\ j # None
      BY <1>2, Constants DEF WireFine
    <3>3. \A x \in DOMAIN down : down[x].call # j =>
              \E k \in DOMAIN Without(down, j) : Without(down, j)[k] = down[x]
      BY <1>2, <3>2, WithoutTakes
    <3>4. PICK k \in DOMAIN Without(down, j) : Without(down, j)[k] = down[i]
      BY <2>1, <3>1, <3>3
    <3> QED BY <2>1, <3>4
  <2> QED BY <2>1 DEF Coming
<1> QED BY <1>1, <1>3, <1>4, <1>5, <1>6 DEF SameView

\* What an answer with a list does to its page.
LEMMA AnswerDoes ==
    ASSUME Sound, NEW l \in Loads, Answer(l), NEW p, p = loads[l].page
    PROVE  /\ loads[l] \in Load /\ p \in Pages /\ OnlyPage(p)
           /\ loads[l].got \subseteq InRoom(loads[l].room) /\ loads[l].got \subseteq Ids
           /\ pages'[p].link = pages[p].link /\ pages'[p].up = pages[p].up
           /\ pages'[p].room = pages[p].room /\ pages'[p].down = pages[p].down
           /\ pages'[p].strange <=> loads[l].room # pages[p].room
           /\ \A m \in Ids : pages'[p].shown[m] > 0 <=> m \in loads[l].got
           /\ \A m \in Ids :
                 (pages[p].shown[m] > 0 /\ Belongs(m, pages[p].room)) \/ m \in pages[p].gap
                 => m \in pages'[p].gap \/ m \in loads[l].got
           /\ loads' = [loads EXCEPT ![l] = None]
           /\ UNCHANGED <<server, joins>>
<1> DEFINE load == loads[l]
           new == Replace(pages[p], load)
<1>1. /\ load \in Load /\ UNCHANGED <<server, joins>>
      /\ pages' = [pages EXCEPT ![p] = new] /\ loads' = [loads EXCEPT ![l] = None]
  BY RunningCalls DEF Answer, Sound
<1>2. p \in Pages /\ pages[p] \in Page /\ pages \in [Pages -> Page]
  BY <1>1, Unchanged DEF Load, Sound, TypeOK
<1>3. load.got \subseteq InRoom(load.room) /\ load.got \subseteq Ids
  BY <1>1, Unchanged, NullAssumption DEF Load
<1>4. Nothing \in [Ids -> Nat] /\ \A m \in Ids : ~ (Nothing[m] > 0)
  BY DEF Nothing
<1>5. \A m \in Ids : Show(Nothing, load.got)[m] > 0 <=> m \in load.got
  BY <1>4, ShowAdds
<1>6. /\ new.link = pages[p].link /\ new.up = pages[p].up /\ new.room = pages[p].room
      /\ new.down = pages[p].down /\ new.shown = Show(Nothing, load.got)
      /\ new.strange <=> load.room # pages[p].room
      /\ new.gap = (pages[p].gap \cup
            {m \in Ids : pages[p].shown[m] > 0 /\ Belongs(m, pages[p].room)}) \ load.got
  BY <1>2 DEF Replace, Page
<1> HIDE DEF new
<1>7. pages'[p] = new /\ OnlyPage(p)
  BY <1>1, <1>2 DEF OnlyPage
<1> QED BY <1>1, <1>2, <1>3, <1>5, <1>6, <1>7

\* What an answer with older messages does to its page.
LEMMA AnswerOlderDoes ==
    ASSUME Sound, NEW l \in Loads, AnswerOlder(l), NEW p, p = loads[l].page
    PROVE  /\ loads[l] \in Load /\ p \in Pages /\ OnlyPage(p)
           /\ loads[l].got \subseteq InRoom(loads[l].room) /\ loads[l].got \subseteq Ids
           /\ pages'[p].link = pages[p].link /\ pages'[p].up = pages[p].up
           /\ pages'[p].room = pages[p].room /\ pages'[p].down = pages[p].down
           /\ pages'[p].gap = pages[p].gap
           /\ pages'[p].strange <=>
                 pages[p].strange \/ (loads[l].got # {} /\ loads[l].room # pages[p].room)
           /\ \A m \in Ids : pages'[p].shown[m] > 0 <=>
                 pages[p].shown[m] > 0 \/ m \in loads[l].got
           /\ loads[l].kind = "older"
           /\ loads'[l].kind = "older" \/ loads'[l] = None
           /\ \A x \in Loads : x # l => loads'[x] = loads[x]
           /\ UNCHANGED <<server, joins>>
<1> DEFINE load == loads[l]
           new == Prepend(pages[p], load)
           again == [load EXCEPT !.pc = "ask", !.got = {}, !.tries = @ + 1,
                                 !.before = Oldest(load.got \cup Shown(p))]
<1>1. /\ load \in Load /\ load.kind = "older" /\ UNCHANGED <<server, joins>>
      /\ pages' = [pages EXCEPT ![p] = new]
      /\ \E x \in {None, again} : loads' = [loads EXCEPT ![l] = x]
  BY RunningCalls DEF AnswerOlder, Sound
<1>2. p \in Pages /\ pages[p] \in Page /\ pages \in [Pages -> Page]
  BY <1>1, Unchanged DEF Load, Sound, TypeOK
<1>3. load.got \subseteq InRoom(load.room) /\ load.got \subseteq Ids
  BY <1>1, Unchanged, NullAssumption DEF Load
<1>4. \A m \in Ids : Show(pages[p].shown, load.got)[m] > 0 <=>
          pages[p].shown[m] > 0 \/ m \in load.got
  BY <1>2, ShowAdds DEF Page
<1>5. /\ new.link = pages[p].link /\ new.up = pages[p].up /\ new.room = pages[p].room
      /\ new.down = pages[p].down /\ new.shown = Show(pages[p].shown, load.got)
      /\ new.gap = pages[p].gap
      /\ new.strange <=> pages[p].strange \/ (load.got # {} /\ load.room # pages[p].room)
  BY <1>2 DEF Prepend, Page
<1> HIDE DEF new
<1>6. pages'[p] = new /\ OnlyPage(p)
  BY <1>1, <1>2 DEF OnlyPage
<1>7. again.kind = "older"
  BY <1>1 DEF Load
<1> HIDE DEF again
<1>8. /\ loads'[l].kind = "older" \/ loads'[l] = None
      /\ \A x \in Loads : x # l => loads'[x] = loads[x]
  BY <1>1, <1>7, Unchanged
<1> QED BY <1>1, <1>2, <1>3, <1>4, <1>5, <1>6, <1>8

------------------------------------------------------------------------------
(* A tab's list is of its room, until an answer comes late.                *)

\* A step that shows nothing new and opens no room.
LEMMA SameLists ==
    ASSUME Sound, StrangeOnlyByLateAnswer,
           \A p \in Pages : /\ pages'[p].room = pages[p].room
                            /\ pages'[p].shown = pages[p].shown
                            /\ pages'[p].strange = pages[p].strange,
           \A m \in Posted : msgs'[m].room = msgs[m].room
    PROVE  StrangeOnlyByLateAnswer'
<1>1. ShownOK
  BY DEF Sound
<1> QED BY <1>1 DEF ShownOK, StrangeOnlyByLateAnswer, Shown, Belongs

\* A step that changes what one page shows.
LEMMA OneList ==
    ASSUME StrangeOnlyByLateAnswer, NEW p \in Pages, OnlyPage(p), UNCHANGED msgs,
           \/ pages'[p].strange
           \/ \A m \in Ids : pages'[p].shown[m] > 0 => msgs[m].room = pages'[p].room
    PROVE  StrangeOnlyByLateAnswer'
BY DEF OnlyPage, StrangeOnlyByLateAnswer, Shown, Belongs

\* Every step keeps strange messages out but a late answer's.
LEMMA StrangeStep ==
    ASSUME Sound, StrangeOnlyByLateAnswer, [Next]_vars
    PROVE  StrangeOnlyByLateAnswer'
<1> USE DEF StrangeOnlyByLateAnswer
<1>1. ASSUME NEW p \in Pages, PageActs(p) PROVE StrangeOnlyByLateAnswer'
  <2>1. ASSUME NEW r \in Rooms, NEW j \in Joins, NEW l \in Loads, Open(p, r, j, l)
        PROVE  StrangeOnlyByLateAnswer'
    BY <2>1, OpenDoes, OneList DEF server
  <2>2. ASSUME NEW m \in Posted, NEW l \in Loads, Search(p, m, l)
        PROVE  StrangeOnlyByLateAnswer'
    BY <2>2, SameLists DEF Search, server
  <2>3. CASE Disconnect(p)
    BY <2>3, DisconnectDoes, SameLists DEF server, OnlyPage
  <2>4. ASSUME NEW s \in Sids, NEW j \in Joins, Connect(p, s, j)
        PROVE  StrangeOnlyByLateAnswer'
    BY <2>4, ConnectDoes, SameLists DEF OnlyPage
  <2>5. CASE ServerTakes(p)
    BY <2>5, ServerTakesDoes, SameLists DEF OnlyPage, SameView
  <2>6. CASE PageTakes(p) /\ Head(pages[p].down).type = "ack"
    BY <2>6, AckDoes, SameLists DEF OnlyPage, SameView, server
  <2>7. CASE PageTakes(p) /\ Head(pages[p].down).type # "ack"
    <3>1. UNCHANGED msgs /\ OnlyPage(p) /\ pages'[p].room = pages[p].room
      BY <2>7, NewDoes DEF server
    <3>2. CASE pages[p].strange
      BY <2>7, <3>1, <3>2, NewDoes, OneList
    <3>3. CASE ~ pages[p].strange
      <4>1. \A m \in Ids : pages'[p].shown[m] > 0 => msgs[m].room = pages'[p].room
        BY <2>7, <3>1, <3>3, NewDoes DEF Shown, Belongs
      <4> QED BY <3>1, <4>1, OneList
    <3> QED BY <3>2, <3>3
  <2> QED BY <1>1, <2>1, <2>2, <2>3, <2>4, <2>5, <2>6, <2>7 DEF PageActs
<1>2. ASSUME NEW j \in Joins, Timeout(j) \/ Rejected(j) PROVE StrangeOnlyByLateAnswer'
  <2>1. joins[j] \in JoinCall /\ GiveUp(j)
    BY <1>2, RunningCalls DEF Timeout, Rejected, Sound
  <2> QED BY <2>1, GiveUpDoes, SameLists DEF OnlyPage, SameView, server
<1>3. ASSUME NEW l \in Loads, Read(l) PROVE StrangeOnlyByLateAnswer'
  BY <1>3, SameLists DEF Read, server
<1>4. ASSUME NEW l \in Loads, Answer(l) PROVE StrangeOnlyByLateAnswer'
  <2> DEFINE p == loads[l].page
  <2>1. /\ p \in Pages /\ OnlyPage(p) /\ UNCHANGED msgs
        /\ loads[l].got \subseteq InRoom(loads[l].room)
        /\ pages'[p].strange <=> loads[l].room # pages[p].room
        /\ pages'[p].room = pages[p].room
        /\ \A m \in Ids : pages'[p].shown[m] > 0 <=> m \in loads[l].got
    BY <1>4, AnswerDoes DEF server
  <2>2. \/ pages'[p].strange
        \/ \A m \in Ids : pages'[p].shown[m] > 0 => msgs[m].room = pages'[p].room
    BY <2>1 DEF InRoom
  <2> QED BY <2>1, <2>2, OneList
<1>5. ASSUME NEW l \in Loads, AnswerOlder(l) PROVE StrangeOnlyByLateAnswer'
  <2> DEFINE p == loads[l].page
  <2>1. /\ p \in Pages /\ OnlyPage(p) /\ UNCHANGED msgs
        /\ loads[l].got \subseteq InRoom(loads[l].room)
        /\ pages'[p].strange <=>
              pages[p].strange \/ (loads[l].got # {} /\ loads[l].room # pages[p].room)
        /\ pages'[p].room = pages[p].room
        /\ \A m \in Ids : pages'[p].shown[m] > 0 <=> pages[p].shown[m] > 0 \/ m \in loads[l].got
    BY <1>5, AnswerOlderDoes DEF server
  <2>2. \/ pages'[p].strange
        \/ \A m \in Ids : pages'[p].shown[m] > 0 => msgs[m].room = pages'[p].room
    BY <2>1 DEF InRoom, Shown, Belongs
  <2> QED BY <2>1, <2>2, OneList
<1>6. ASSUME NEW s \in Sids, Notice(s) PROVE StrangeOnlyByLateAnswer'
  BY <1>6, SameLists DEF Notice
<1>7. ASSUME NEW r \in Rooms, Post(r) PROVE StrangeOnlyByLateAnswer'
  <2>1. UNCHANGED pages /\ \A m \in Posted : msgs'[m].room = msgs[m].room
    BY <1>7, Posts DEF Post, Sound
  <2> QED BY <2>1, SameLists
<1>8. ASSUME NEW m \in Ids, NEW by \in {"socket", "http"}, EmitNew(m, by)
      PROVE  StrangeOnlyByLateAnswer'
  BY <1>8, EmitRows, EmitPages, SameLists
<1>9. CASE UNCHANGED vars
  BY <1>9, SameLists DEF vars, server
<1> QED BY <1>1, <1>2, <1>3, <1>4, <1>5, <1>6, <1>7, <1>8, <1>9 DEF Next

\* From the answer of its room on, a tab shows messages of no other room, until an
\* answer that a room before has asked for comes late.
THEOREM ListsAreOfTheirRooms == Spec => []StrangeOnlyByLateAnswer
<1>1. Init => Sound /\ StrangeOnlyByLateAnswer
  BY InitSound DEF Init, NewPage, StrangeOnlyByLateAnswer, Shown, Nothing
<1>2. Sound /\ StrangeOnlyByLateAnswer /\ [Next]_vars => (Sound /\ StrangeOnlyByLateAnswer)'
  BY NextSound, StrangeStep
<1> QED BY <1>1, <1>2, PTL DEF Spec

------------------------------------------------------------------------------
(* Who is listed: the gateway's lists and its sockets.                     *)

\* Joining a room keeps the rooms' lists true.
LEMMA JoinLists ==
    ASSUME Sound, ListedIfASocketIs, NEW s \in Sids, sockets[s] \in SUBSET Rooms,
           NEW r \in Rooms, JoinRoom(s, r)
    PROVE  ListedIfASocketIs'
<1>1. /\ sockets' = [sockets EXCEPT ![s] = sockets[s] \cup {r}]
      /\ present' = present \cup {r} /\ hidden' = {x \in hidden : x[2] # r}
  BY DEF JoinRoom
<1>2. sockets \in [Sids -> (SUBSET Rooms) \cup {None}] /\ s \in Connected
  BY Unchanged, NullAssumption DEF Connected
<1>3. /\ sockets'[s] = sockets[s] \cup {r} /\ sockets'[s] # None
      /\ \A x \in Sids : x # s => sockets'[x] = sockets[x]
      /\ Connected' = Connected
  <2>1. /\ sockets'[s] = sockets[s] \cup {r} /\ sockets[s] \cup {r} \in SUBSET Rooms
        /\ \A x \in Sids : x # s => sockets'[x] = sockets[x]
    BY <1>1, <1>2
  <2> QED BY <1>2, <2>1, NullAssumption DEF Connected
<1>4. \A q \in present' : \E x \in Connected' : q \in sockets'[x]
  BY <1>1, <1>2, <1>3 DEF ListedIfASocketIs, Connected
<1>5. \A x \in Connected' : \A q \in sockets'[x] : q \in present' \/ <<x, q>> \in hidden'
  BY <1>1, <1>2, <1>3 DEF ListedIfASocketIs, Connected
<1> QED BY <1>4, <1>5 DEF ListedIfASocketIs

\* Leaving a room keeps the rooms' lists true.
LEMMA LeaveLists ==
    ASSUME Sound, ListedIfASocketIs, NEW s \in Sids, sockets[s] \in SUBSET Rooms,
           NEW r \in Rooms, LeaveRoom(s, r)
    PROVE  ListedIfASocketIs'
<1>1. /\ sockets' = [sockets EXCEPT ![s] = sockets[s] \ {r}] /\ present' = present \ {r}
      /\ hidden' = (hidden \cup Others(s, present \cap {r})) \ OfSocket(s, {r})
  BY DEF LeaveRoom
<1>2. sockets \in [Sids -> (SUBSET Rooms) \cup {None}] /\ s \in Connected
  BY Unchanged, NullAssumption DEF Connected
<1>3. /\ sockets'[s] = sockets[s] \ {r}
      /\ \A x \in Sids : x # s => sockets'[x] = sockets[x]
      /\ Connected' = Connected
  <2>1. /\ sockets'[s] = sockets[s] \ {r} /\ sockets[s] \ {r} \in SUBSET Rooms
        /\ \A x \in Sids : x # s => sockets'[x] = sockets[x]
    BY <1>1, <1>2
  <2> QED BY <1>2, <2>1, NullAssumption DEF Connected
<1>4. \A q \in present' : \E x \in Connected' : q \in sockets'[x]
  BY <1>1, <1>2, <1>3 DEF ListedIfASocketIs, Connected
<1>5. ASSUME NEW x \in Connected, NEW q \in sockets'[x], q \notin present'
      PROVE  <<x, q>> \in hidden'
  <2>1. q \in sockets[x] /\ (x = s => q # r)
    BY <1>3, <1>5 DEF Connected
  <2>2. <<x, q>> \notin OfSocket(s, {r})
    BY <2>1 DEF OfSocket
  <2>3. CASE q \in present
    <3>1. q = r /\ x # s
      BY <1>1, <1>5, <2>1, <2>3
    <3>2. <<x, q>> \in Others(s, present \cap {r})
      BY <1>5, <2>1, <2>3, <3>1 DEF Others
    <3> QED BY <1>1, <2>2, <3>2
  <2>4. CASE q \notin present
    <3>1. <<x, q>> \in hidden
      BY <1>5, <2>1, <2>4 DEF ListedIfASocketIs
    <3> QED BY <1>1, <2>2, <3>1
  <2> QED BY <2>3, <2>4
<1> QED BY <1>3, <1>4, <1>5 DEF ListedIfASocketIs

\* The notice that a socket is gone keeps the rooms' lists true.
LEMMA NoticeLists ==
    ASSUME Sound, ListedIfASocketIs, NEW s \in Sids, Notice(s)
    PROVE  ListedIfASocketIs'
<1>1. /\ sockets' = [sockets EXCEPT ![s] = None] /\ present' = {}
      /\ hidden' = (hidden \cup Others(s, present)) \ OfSocket(s, Rooms)
      /\ sockets \in [Sids -> (SUBSET Rooms) \cup {None}]
  BY Unchanged DEF Notice
<1>2. \A x \in Connected' : x \in Connected /\ x # s /\ sockets'[x] = sockets[x]
  BY <1>1 DEF Connected
<1>3. ASSUME NEW x \in Connected', NEW q \in sockets[x]
      PROVE  <<x, q>> \in hidden'
  <2>1. x \in Connected /\ x # s /\ <<x, q>> \notin OfSocket(s, Rooms)
    BY <1>2, <1>3 DEF OfSocket
  <2>2. CASE q \in present
    <3>1. <<x, q>> \in Others(s, present)
      BY <1>3, <2>1, <2>2 DEF Others
    <3> QED BY <1>1, <2>1, <3>1
  <2>3. CASE q \notin present
    <3>1. <<x, q>> \in hidden
      BY <1>3, <2>1, <2>3 DEF ListedIfASocketIs
    <3> QED BY <1>1, <2>1, <3>1
  <2> QED BY <2>2, <2>3
<1> QED BY <1>1, <1>2, <1>3 DEF ListedIfASocketIs

\* A connection keeps the rooms' lists true.
LEMMA ConnectLists ==
    ASSUME Sound, ListedIfASocketIs, NEW s \in Sids, sockets[s] = None,
           sockets' = [sockets EXCEPT ![s] = {}], UNCHANGED <<present, hidden>>
    PROVE  ListedIfASocketIs'
<1>1. sockets \in [Sids -> (SUBSET Rooms) \cup {None}]
  BY Unchanged
<1>2. sockets'[s] = {} /\ \A x \in Sids : x # s => sockets'[x] = sockets[x]
  BY <1>1
<1>3. {} # None
  BY NullAssumption
<1>4. \A q \in present' : \E x \in Connected' : q \in sockets'[x]
  BY <1>2 DEF ListedIfASocketIs, Connected
<1>5. \A x \in Connected' : \A q \in sockets'[x] : q \in present' \/ <<x, q>> \in hidden'
  BY <1>2 DEF ListedIfASocketIs, Connected
<1> QED BY <1>4, <1>5 DEF ListedIfASocketIs

\* Every step keeps the lists to rooms that have a socket of his.
LEMMA ListsStep ==
    ASSUME Sound, ListedIfASocketIs, [Next]_vars
    PROVE  ListedIfASocketIs'
<1>1. ASSUME UNCHANGED <<sockets, present, hidden>> PROVE ListedIfASocketIs'
  BY <1>1 DEF ListedIfASocketIs, Connected
<1>2. ASSUME NEW p \in Pages, ServerTakes(p) PROVE ListedIfASocketIs'
  <2>1. Head(pages[p].up).room \in Rooms
    BY <1>2, ServerTakesDoes DEF UpOK
  <2> QED BY <1>2, <2>1, ServerTakesDoes, JoinLists, LeaveLists
<1>3. ASSUME NEW p \in Pages, NEW s \in Sids, NEW j \in Joins, Connect(p, s, j)
      PROVE  ListedIfASocketIs'
  BY <1>3, ConnectDoes, ConnectLists
<1>4. ASSUME NEW s \in Sids, Notice(s) PROVE ListedIfASocketIs'
  BY <1>4, NoticeLists
<1>5. ASSUME NEW p \in Pages,
             \/ \E r \in Rooms, j \in Joins, l \in Loads : Open(p, r, j, l)
             \/ \E m \in Posted, l \in Loads : Search(p, m, l)
             \/ Disconnect(p) \/ PageTakes(p)
      PROVE  UNCHANGED <<sockets, present, hidden>>
  BY <1>5 DEF Open, Search, Disconnect, PageTakes, server
<1>6. ASSUME \/ \E j \in Joins : Timeout(j) \/ Rejected(j)
             \/ \E l \in Loads : Read(l) \/ Answer(l) \/ AnswerOlder(l)
             \/ \E r \in Rooms : Post(r)
             \/ \E m \in Ids, by \in {"socket", "http"} : EmitNew(m, by)
             \/ UNCHANGED vars
      PROVE  UNCHANGED <<sockets, present, hidden>>
  BY <1>6 DEF Timeout, Rejected, GiveUp, Read, Answer, AnswerOlder, Post, EmitNew, server, vars
<1> QED BY <1>1, <1>2, <1>3, <1>4, <1>5, <1>6 DEF Next, PageActs

\* A room lists the user only if one of his sockets is in it, and a socket in a room
\* goes unlisted only if another socket of his left the room or was cut off.
THEOREM ListsAreOfSockets == Spec => []ListedIfASocketIs
<1>1. Init => Sound /\ ListedIfASocketIs
  BY InitSound DEF Init, ListedIfASocketIs, Connected
<1>2. Sound /\ ListedIfASocketIs /\ [Next]_vars => (Sound /\ ListedIfASocketIs)'
  BY NextSound, ListsStep
<1> QED BY <1>1, <1>2, PTL DEF Spec

------------------------------------------------------------------------------
(* A tab gets into the room it shows.                                      *)

\* What is sent behind a join of another room, or of this one, does not undo it.
LEMMA JoinBehind ==
    ASSUME NEW s \in Seq(Packet), NEW q \in Packet, q.type = "join", NEW r
    PROVE  /\ JoinSent(s, r) => JoinSent(Append(s, q), r)
           /\ NoLeave(s, r, 0) => NoLeave(Append(s, q), r, 0)
           /\ q.room = r => JoinSent(Append(s, q), r)
<1>1. /\ DOMAIN Append(s, q) = DOMAIN s \cup {Len(s) + 1}
      /\ \A i \in DOMAIN s : Append(s, q)[i] = s[i] /\ i < Len(s) + 1
      /\ Append(s, q)[Len(s) + 1] = q
  BY Appended
<1>2. \A i : NoLeave(s, r, i) => NoLeave(Append(s, q), r, i)
  BY <1>1 DEF NoLeave
<1>3. NoLeave(Append(s, q), r, Len(s) + 1)
  <2>1. \A k \in DOMAIN Append(s, q) : ~ (k > Len(s) + 1)
    OBVIOUS
  <2> QED BY <2>1 DEF NoLeave
<1> QED BY <1>1, <1>2, <1>3 DEF JoinSent

\* The gateway takes the first packet of those that a page has sent.
LEMMA JoinTaken ==
    ASSUME NEW s \in Seq(Packet), s # <<>>, NEW r
    PROVE  /\ JoinSent(s, r) =>
                 \/ JoinSent(Tail(s), r)
                 \/ Head(s).type = "join" /\ Head(s).room = r /\ NoLeave(Tail(s), r, 0)
           /\ NoLeave(s, r, 0) =>
                 /\ NoLeave(Tail(s), r, 0)
                 /\ Head(s).type = "leave" => Head(s).room # r
<1>1. /\ Head(s) = s[1] /\ 1 \in DOMAIN s /\ DOMAIN s \subseteq Nat /\ DOMAIN Tail(s) \subseteq Nat
      /\ \A i \in DOMAIN Tail(s) : i + 1 \in DOMAIN s /\ Tail(s)[i] = s[i + 1]
      /\ \A i \in DOMAIN s : i = 1 \/ (i - 1 \in DOMAIN Tail(s) /\ Tail(s)[i - 1] = s[i])
  BY Taken
<1>2. ASSUME NEW i \in DOMAIN s, s[i].type = "join", s[i].room = r, NoLeave(s, r, i)
      PROVE  \/ JoinSent(Tail(s), r)
             \/ Head(s).type = "join" /\ Head(s).room = r /\ NoLeave(Tail(s), r, 0)
  <2>1. CASE i = 1
    <3>1. NoLeave(Tail(s), r, 0)
      BY <1>1, <1>2, <2>1 DEF NoLeave
    <3> QED BY <1>1, <1>2, <2>1, <3>1
  <2>2. CASE i # 1
    <3>1. i - 1 \in DOMAIN Tail(s) /\ Tail(s)[i - 1] = s[i]
      BY <1>1, <2>2
    <3>2. NoLeave(Tail(s), r, i - 1)
      BY SMTT(20), <1>1, <1>2, <3>1 DEF NoLeave
    <3> QED BY <1>2, <3>1, <3>2 DEF JoinSent
  <2> QED BY <2>1, <2>2
<1>3. ASSUME NoLeave(s, r, 0)
      PROVE  NoLeave(Tail(s), r, 0) /\ (Head(s).type = "leave" => Head(s).room # r)
  BY <1>1, <1>3 DEF NoLeave
<1> QED BY <1>2, <1>3 DEF JoinSent

\* A call's packets count for the room even if it no longer waits for them.
LEMMA JoinMuted ==
    ASSUME NEW s \in Seq(Packet), NEW j \in Joins, Distinct(s), NEW r
    PROVE  /\ JoinSent(s, r) => JoinSent(Muted(s, j), r)
           /\ NoLeave(s, r, 0) => NoLeave(Muted(s, j), r, 0)
<1>1. /\ DOMAIN Muted(s, j) = DOMAIN s
      /\ \A i \in DOMAIN s : /\ Muted(s, j)[i].type = s[i].type
                             /\ Muted(s, j)[i].room = s[i].room
  BY MutedKeeps, Constants
<1>2. \A i : NoLeave(s, r, i) => NoLeave(Muted(s, j), r, i)
  BY <1>1 DEF NoLeave
<1> QED BY <1>1, <1>2 DEF JoinSent

\* A page that a step leaves alone.
LEMMA ViewerStays ==
    ASSUME Sound, NEW p \in Pages, Viewer(p),
           pages'[p].link = pages[p].link, pages'[p].room = pages[p].room,
           pages'[p].up = pages[p].up,
           \A j \in Joins : joins[j] \in JoinCall /\ joins[j].page = p => joins'[j] = joins[j],
           pages[p].link # None => sockets'[pages[p].link] = sockets[pages[p].link]
    PROVE  Viewer(p)'
<1> SUFFICES ASSUME pages'[p].link # None, pages'[p].room # None
             PROVE  WillBeIn(p, pages[p].room, joins', sockets'[pages[p].link], pages'[p].up)
  BY DEF Viewer
<1> DEFINE r == pages[p].room
<1>1. WillBeIn(p, r, joins, sockets[pages[p].link], pages[p].up)
  BY DEF Viewer
<1>2. JoinToCome(joins, p, r) => JoinToCome(joins', p, r)
  BY DEF JoinToCome
<1> QED BY <1>1, <1>2 DEF WillBeIn

\* A page whose call starts.
LEMMA ViewerEnters ==
    ASSUME Sound, NEW p \in Pages, NEW j \in Joins, NEW r \in Rooms, pages'[p].room = r,
           joins' = [joins EXCEPT ![j] = Entering(p, r)],
           pages'[p].up = Append(pages[p].up, First(pages[p], r, j))
    PROVE  Viewer(p)'
<1>1. joins'[j] = Entering(p, r) /\ Entering(p, r) \in JoinCall
  BY Unchanged DEF Entering, JoinCall
<1>2. CASE pages[p].last = None
  <2>1. First(pages[p], r, j) = Join(r, j) /\ pages[p].up \in Seq(Packet)
    BY <1>2, Unchanged DEF First
  <2>2. JoinSent(pages'[p].up, r)
    BY <2>1, Packets, JoinBehind
  <2> QED BY <2>2 DEF Viewer, WillBeIn
<1>3. CASE pages[p].last # None
  <2>1. joins'[j].page = p /\ joins'[j].room = r /\ joins'[j].pc = "leave"
    BY <1>1, <1>3 DEF Entering
  <2>2. JoinToCome(joins', p, r)
    BY <1>1, <2>1 DEF JoinToCome
  <2> QED BY <2>2 DEF Viewer, WillBeIn
<1> QED BY <1>2, <1>3

\* A page whose call goes on; up is what is left of what it has sent.
LEMMA ViewerResumes ==
    ASSUME Sound, NEW p \in Pages, Viewer(p), NEW j \in Joins, joins[j] \in JoinCall,
           joins' = Resumed(j), UNCHANGED sockets,
           pages'[p].link = pages[p].link, pages'[p].room = pages[p].room,
           NEW up \in Seq(Packet),
           \A r \in Rooms : /\ JoinSent(pages[p].up, r) => JoinSent(up, r)
                            /\ NoLeave(pages[p].up, r, 0) => NoLeave(up, r, 0),
           pages[p].link # None =>
               pages'[p].up = IF joins[j].pc = "leave" THEN Append(up, Join(joins[j].room, j))
                              ELSE up
    PROVE  Viewer(p)'
<1> SUFFICES ASSUME pages[p].link # None, pages[p].room # None
             PROVE  WillBeIn(p, pages[p].room, joins', sockets'[pages[p].link], pages'[p].up)
  BY DEF Viewer
<1> DEFINE r == pages[p].room
<1>1. WillBeIn(p, r, joins, sockets[pages[p].link], pages[p].up) /\ r \in Rooms
  BY Unchanged DEF Viewer, Page
<1>2. \A i \in Joins : i # j => joins'[i] = joins[i]
  BY Unchanged DEF Resumed
<1>3. joins[j].room \in Rooms
  BY DEF JoinCall
<1>4. CASE joins[j].pc = "leave"
  <2> DEFINE q == Join(joins[j].room, j)
  <2>1. q \in Packet /\ q.type = "join" /\ q.room = joins[j].room
    BY <1>3, Packets
  <2> HIDE DEF q
  <2>2. pages'[p].up = Append(up, q)
    BY <1>4 DEF q
  <2>3. /\ JoinSent(up, r) => JoinSent(Append(up, q), r)
        /\ NoLeave(up, r, 0) => NoLeave(Append(up, q), r, 0)
        /\ q.room = r => JoinSent(Append(up, q), r)
    BY <2>1, JoinBehind
  <2>4. JoinToCome(joins, p, r) => JoinToCome(joins', p, r) \/ JoinSent(Append(up, q), r)
    BY <1>2, <2>1, <2>3 DEF JoinToCome
  <2> QED BY <1>1, <2>2, <2>3, <2>4 DEF WillBeIn
<1>5. CASE joins[j].pc # "leave"
  <2>1. JoinToCome(joins, p, r) => JoinToCome(joins', p, r)
    BY <1>2, <1>5 DEF JoinToCome
  <2> QED BY <1>1, <1>5, <2>1 DEF WillBeIn
<1> QED BY <1>4, <1>5

\* The gateway takes a packet of the page.
LEMMA ViewerTaken == ASSUME Sound, NEW p \in Pages, Viewer(p), ServerTakes(p) PROVE Viewer(p)'
<1> DEFINE s == pages[p].link
           up == pages[p].up
           r == pages[p].room
<1> SUFFICES ASSUME s # None, r # None PROVE WillBeIn(p, r, joins', sockets'[s], pages'[p].up)
  BY ServerTakesDoes DEF Viewer, SameView
<1>1. /\ pages'[p].link = s /\ pages'[p].room = r /\ pages'[p].up = Tail(up)
      /\ up # <<>> /\ up \in Seq(Packet) /\ UpOK(Head(up)) /\ UNCHANGED joins
      /\ s \in Sids /\ sockets[s] \in SUBSET Rooms
      /\ sockets \in [Sids -> (SUBSET Rooms) \cup {None}]
  BY ServerTakesDoes, Unchanged DEF SameView
<1>2. sockets'[s] = IF Head(up).type = "join" THEN sockets[s] \cup {Head(up).room}
                    ELSE sockets[s] \ {Head(up).room}
  BY <1>1, ServerTakesDoes DEF JoinRoom, LeaveRoom
<1>3. Head(up).type \in {"join", "leave"}
  BY <1>1 DEF UpOK
<1>4. JoinToCome(joins, p, r) => JoinToCome(joins', p, r)
  BY <1>1 DEF JoinToCome
<1>5. /\ JoinSent(up, r) =>
             \/ JoinSent(Tail(up), r)
             \/ Head(up).type = "join" /\ Head(up).room = r /\ NoLeave(Tail(up), r, 0)
      /\ NoLeave(up, r, 0) =>
             /\ NoLeave(Tail(up), r, 0)
             /\ Head(up).type = "leave" => Head(up).room # r
  BY <1>1, JoinTaken
<1> QED BY <1>1, <1>2, <1>3, <1>4, <1>5 DEF WillBeIn, Viewer

\* A step that touches no page's wire and no call.
LEMMA ViewersStay ==
    ASSUME Sound, ViewersJoin, UNCHANGED joins,
           \A p \in Pages : /\ pages'[p].link = pages[p].link /\ pages'[p].room = pages[p].room
                            /\ pages'[p].up = pages[p].up,
           \A p \in Pages : pages[p].link # None =>
                sockets'[pages[p].link] = sockets[pages[p].link]
    PROVE  ViewersJoin'
BY ViewerStays DEF ViewersJoin

\* Every step keeps what is known of the tabs that show a room.
LEMMA ViewersStep == ASSUME Sound, ViewersJoin, [Next]_vars PROVE ViewersJoin'
<1>1. ASSUME NEW p \in Pages, PageActs(p) PROVE ViewersJoin'
  <2>1. ASSUME NEW r \in Rooms, NEW j \in Joins, NEW l \in Loads, Open(p, r, j, l)
        PROVE  ViewersJoin'
    <3>1. \A i \in Joins : joins[i] \in JoinCall => joins'[i] = joins[i]
      BY <2>1, OpenDoes, NullAssumption, Unchanged
    <3>2. ASSUME NEW q \in Pages, q # p PROVE Viewer(q)'
      BY <2>1, <3>1, <3>2, OpenDoes, ViewerStays DEF OnlyPage, ViewersJoin, server
    <3>3. Viewer(p)'
      BY <2>1, OpenDoes, ViewerEnters
    <3> QED BY <3>2, <3>3 DEF ViewersJoin
  <2>2. ASSUME NEW m \in Posted, NEW l \in Loads, Search(p, m, l) PROVE ViewersJoin'
    BY <2>2, ViewersStay DEF Search, server
  <2>3. CASE Disconnect(p)
    <3>1. ASSUME NEW q \in Pages, q # p PROVE Viewer(q)'
      BY <2>3, <3>1, DisconnectDoes, ViewerStays DEF OnlyPage, ViewersJoin, server
    <3>2. Viewer(p)'
      BY <2>3, DisconnectDoes DEF Viewer
    <3> QED BY <3>1, <3>2 DEF ViewersJoin
  <2>4. ASSUME NEW s \in Sids, NEW j \in Joins, Connect(p, s, j) PROVE ViewersJoin'
    <3>1. \A i \in Joins : joins[i] \in JoinCall => joins'[i] = joins[i]
      BY <2>4, ConnectDoes, NullAssumption, Unchanged
    <3>2. ASSUME NEW q \in Pages, q # p PROVE Viewer(q)'
      <4>1. pages[q].link # None => sockets'[pages[q].link] = sockets[pages[q].link]
        BY <2>4, ConnectDoes, Unchanged, NullAssumption
      <4> QED BY <2>4, <3>1, <3>2, <4>1, ConnectDoes, ViewerStays DEF OnlyPage, ViewersJoin
    <3>3. CASE pages[p].room = None
      <4>1. Viewer(p)'
        BY <2>4, <3>3, ConnectDoes DEF Viewer
      <4> QED BY <3>2, <4>1 DEF ViewersJoin
    <3>4. CASE pages[p].room # None
      <4>1. pages[p].room \in Rooms
        BY <3>4, Unchanged DEF Page
      <4>2. Viewer(p)'
        BY <2>4, <3>4, <4>1, ConnectDoes, ViewerEnters
      <4> QED BY <3>2, <4>2 DEF ViewersJoin
    <3> QED BY <3>3, <3>4
  <2>5. CASE ServerTakes(p)
    <3>1. ASSUME NEW q \in Pages, q # p PROVE Viewer(q)'
      <4>1. pages[q].link # None => pages[q].link # pages[p].link
        BY <3>1 DEF Sound, LinksOK
      <4>2. \A s \in Sids : s # pages[p].link => sockets'[s] = sockets[s]
        BY <2>5, ServerTakesDoes, Unchanged DEF JoinRoom, LeaveRoom
      <4>3. pages[q].link # None => sockets'[pages[q].link] = sockets[pages[q].link]
        BY <4>1, <4>2, Unchanged
      <4> QED BY <2>5, <3>1, <4>3, ServerTakesDoes, ViewerStays DEF OnlyPage, ViewersJoin
    <3>2. Viewer(p)'
      BY <2>5, ViewerTaken DEF ViewersJoin
    <3> QED BY <3>1, <3>2 DEF ViewersJoin
  <2>6. CASE PageTakes(p) /\ Head(pages[p].down).type = "ack"
    <3> DEFINE j == Head(pages[p].down).call
    <3>1. /\ OnlyPage(p) /\ SameView(pages'[p], pages[p]) /\ UNCHANGED sockets
          /\ j \in Joins /\ joins[j] \in JoinCall /\ joins[j].page = p /\ joins' = Resumed(j)
          /\ pages'[p].up = IF joins[j].pc = "leave"
                            THEN Append(pages[p].up, Join(joins[j].room, j)) ELSE pages[p].up
      BY <2>6, AckDoes DEF server
    <3> HIDE DEF j
    <3>2. \A i \in Joins : i # j => joins'[i] = joins[i]
      BY <3>1, Unchanged DEF Resumed
    <3>3. ASSUME NEW q \in Pages, q # p PROVE Viewer(q)'
      BY <3>1, <3>2, <3>3, ViewerStays DEF OnlyPage, ViewersJoin
    <3>4. Viewer(p)'
      BY <3>1, Unchanged, ViewerResumes DEF ViewersJoin, SameView
    <3> QED BY <3>3, <3>4 DEF ViewersJoin
  <2>7. CASE PageTakes(p) /\ Head(pages[p].down).type # "ack"
    <3>1. ASSUME NEW q \in Pages PROVE Viewer(q)'
      BY <2>7, NewDoes, ViewerStays DEF OnlyPage, ViewersJoin, server
    <3> QED BY <3>1 DEF ViewersJoin
  <2> QED BY <1>1, <2>1, <2>2, <2>3, <2>4, <2>5, <2>6, <2>7 DEF PageActs
<1>2. ASSUME NEW j \in Joins, Timeout(j) \/ Rejected(j) PROVE ViewersJoin'
  <2>1. joins[j] \in JoinCall /\ GiveUp(j)
    BY <1>2, RunningCalls DEF Timeout, Rejected, Sound
  <2>2. PICK p \in Pages : p = joins[j].page
    BY <2>1 DEF JoinCall
  <2>3. /\ OnlyPage(p) /\ SameView(pages'[p], pages[p]) /\ joins' = Resumed(j)
        /\ pages[p].link # None =>
              pages'[p].up = IF joins[j].pc = "leave"
                             THEN Append(Muted(pages[p].up, j), Join(joins[j].room, j))
                             ELSE Muted(pages[p].up, j)
        /\ UNCHANGED sockets
    BY <2>1, <2>2, GiveUpDoes DEF server
  <2>4. \A i \in Joins : i # j => joins'[i] = joins[i]
    BY <2>3, Unchanged DEF Resumed
  <2>5. ASSUME NEW q \in Pages, q # p PROVE Viewer(q)'
    BY <2>2, <2>3, <2>4, <2>5, ViewerStays DEF OnlyPage, ViewersJoin
  <2>6. Distinct(pages[p].up) /\ pages[p].up \in Seq(Packet) /\ Muted(pages[p].up, j) \in Seq(Packet)
    BY <2>3, Unchanged, MutedKeeps, Constants DEF WireFine
  <2>7. \A r \in Rooms :
            /\ JoinSent(pages[p].up, r) => JoinSent(Muted(pages[p].up, j), r)
            /\ NoLeave(pages[p].up, r, 0) => NoLeave(Muted(pages[p].up, j), r, 0)
    BY <2>6, JoinMuted
  <2>8. Viewer(p)'
    BY <2>1, <2>3, <2>6, <2>7, ViewerResumes DEF ViewersJoin, SameView
  <2> QED BY <2>5, <2>8 DEF ViewersJoin
<1>3. ASSUME NEW l \in Loads, Read(l) PROVE ViewersJoin'
  BY <1>3, ViewersStay DEF Read, server
<1>4. ASSUME NEW l \in Loads, Answer(l) PROVE ViewersJoin'
  BY <1>4, AnswerDoes, ViewersStay DEF OnlyPage, server
<1>5. ASSUME NEW l \in Loads, AnswerOlder(l) PROVE ViewersJoin'
  BY <1>5, AnswerOlderDoes, ViewersStay DEF OnlyPage, server
<1>6. ASSUME NEW s \in Sids, Notice(s) PROVE ViewersJoin'
  <2>1. \A p \in Pages : pages[p].link # None =>
            sockets'[pages[p].link] = sockets[pages[p].link]
    BY <1>6, Unchanged DEF Notice
  <2> QED BY <1>6, <2>1, ViewersStay DEF Notice
<1>7. ASSUME NEW r \in Rooms, Post(r) PROVE ViewersJoin'
  BY <1>7, ViewersStay DEF Post
<1>8. ASSUME NEW m \in Ids, NEW by \in {"socket", "http"}, EmitNew(m, by) PROVE ViewersJoin'
  BY <1>8, EmitPages, ViewersStay DEF EmitNew
<1>9. CASE UNCHANGED vars
  BY <1>9, ViewersStay DEF vars, server
<1> QED BY <1>1, <1>2, <1>3, <1>4, <1>5, <1>6, <1>7, <1>8, <1>9 DEF Next

\* A page with nothing under way is in its room.
LEMMA ViewersSettle == ASSUME Sound, ViewersJoin PROVE SettledIsJoined
<1> SUFFICES ASSUME NEW p \in Pages, pages[p].link # None, pages[p].up = <<>>, JoinsOf(p) = {},
                    pages[p].room # None
             PROVE  pages[p].room \in sockets[pages[p].link]
  BY DEF SettledIsJoined
<1>1. WillBeIn(p, pages[p].room, joins, sockets[pages[p].link], pages[p].up)
  BY DEF ViewersJoin, Viewer
<1>2. ~ JoinToCome(joins, p, pages[p].room)
  BY RunningCalls DEF Sound, JoinToCome, JoinsOf
<1>3. ~ JoinSent(pages[p].up, pages[p].room)
  BY DEF JoinSent
<1> QED BY <1>1, <1>2, <1>3 DEF WillBeIn

\* However fast the user goes from room to room, and whenever the connection breaks and
\* packets or acknowledgements come late: once joinRoomWs has nothing under way, the
\* tab's socket is in the room the tab shows, not in the one before.
THEOREM SettledTabsAreJoined == Spec => []SettledIsJoined
<1>1. Init => Sound /\ ViewersJoin
  BY InitSound DEF Init, NewPage, ViewersJoin, Viewer
<1>2. Sound /\ ViewersJoin /\ [Next]_vars => (Sound /\ ViewersJoin)'
  BY NextSound, ViewersStep
<1>3. Sound /\ ViewersJoin => SettledIsJoined
  BY ViewersSettle
<1> QED BY <1>1, <1>2, <1>3, PTL DEF Spec

------------------------------------------------------------------------------
(* No message is lost on the way.                                          *)

\* The messages that a page at rest must have.
LEMMA ToldIn ==
    ASSUME Sound, NEW r, NEW m \in Told(r)
    PROVE  /\ m \in Posted /\ m \in Ids /\ m \in Newest(InRoom(r)) /\ msgs[m].told
           /\ msgs[m].room = r
BY RunningCalls DEF Told, Newest, InRoom, Sound

\* What the socket has told of a room changes only by an emit,
LEMMA ToldStays == ASSUME UNCHANGED msgs, NEW r PROVE Told(r)' = Told(r)
<1>1. InRoom(r)' = InRoom(r)
  BY DEF InRoom, Posted
<1> QED BY <1>1 DEF Told, Newest

\* A message that is stored makes none newer, and has not been told.
LEMMA ToldPosts ==
    ASSUME Sound, NEW q \in Rooms, Post(q), NEW r
    PROVE  Told(r)' \subseteq Told(r)
<1> DEFINE new == Len(msgs) + 1
           M == InRoom(r)
           N == InRoom(r)'
<1>1. /\ new \notin Posted /\ msgs'[new].told = FALSE
      /\ \A m \in Posted : m \in Posted' /\ msgs'[m] = msgs[m]
      /\ \A m \in Posted' : m \in Posted \/ m = new
  <2>1. /\ Len(msgs) \in Nat /\ msgs'[new] = [room |-> q, told |-> FALSE]
        /\ \A m \in Posted : m \in Posted' /\ msgs'[m] = msgs[m]
        /\ \A m \in Posted' : m \in Posted \/ m = new
    BY Posts DEF Sound
  <2>2. new \notin Posted
    BY <2>1 DEF Posted
  <2> QED BY <2>1, <2>2
<1>2. M \subseteq N /\ N \subseteq M \cup {new}
  BY <1>1 DEF InRoom
<1>3. IsFiniteSet(N)
  <2>1. N \subseteq 1..Len(msgs')
    BY DEF InRoom, Posted
  <2>2. Len(msgs') \in Nat
    BY Posts DEF Sound
  <2>3. IsFiniteSet(1..Len(msgs'))
    BY <2>2, FS_Interval
  <2> QED BY <2>1, <2>3, FS_Subset
<1>4. M \subseteq Posted
  BY DEF InRoom
<1> HIDE DEF M, N
<1>5. ASSUME NEW m \in M, Cardinality({n \in N : n > m}) < Limit
      PROVE  Cardinality({n \in M : n > m}) < Limit
  <2>1. {n \in M : n > m} \subseteq {n \in N : n > m} /\ {n \in N : n > m} \subseteq N
    BY <1>2
  <2>2. IsFiniteSet({n \in N : n > m})
    BY <1>3, <2>1, FS_Subset
  <2>3. /\ Cardinality({n \in M : n > m}) <= Cardinality({n \in N : n > m})
        /\ IsFiniteSet({n \in M : n > m})
    BY <2>1, <2>2, FS_Subset
  <2>4. Cardinality({n \in M : n > m}) \in Nat /\ Cardinality({n \in N : n > m}) \in Nat
    BY <2>2, <2>3, FS_CardinalityType
  <2> QED BY <1>5, <2>3, <2>4, Constants
<1>6. ASSUME NEW m \in Newest(N), msgs'[m].told PROVE m \in Newest(M) /\ msgs[m].told
  <2>1. m \in N /\ Cardinality({n \in N : n > m}) < Limit
    BY <1>6 DEF Newest
  <2>2. m \in M /\ msgs'[m] = msgs[m]
    BY <1>1, <1>2, <1>4, <1>6, <2>1
  <2> QED BY <1>5, <1>6, <2>1, <2>2 DEF Newest
<1>7. Told(r) = {m \in Newest(M) : msgs[m].told} /\ Told(r)' = {m \in Newest(N) : msgs'[m].told}
  BY DEF Told, M, N
<1> QED BY <1>6, <1>7

\* which adds its message and no other.
LEMMA ToldEmits ==
    ASSUME Sound, NEW m \in Ids, NEW by \in {"socket", "http"}, EmitNew(m, by), NEW r
    PROVE  \A n \in Told(r)' : n \in Told(r) \/ (n = m /\ msgs[m].room = r)
<1>1. InRoom(r)' = InRoom(r)
  BY EmitRows
<1>2. Told(r)' = {n \in Newest(InRoom(r)) : msgs'[n].told}
  BY <1>1 DEF Told, Newest
<1>3. \A n \in Newest(InRoom(r)) : n \in Posted /\ msgs[n].room = r
  BY DEF Newest, InRoom
<1> QED BY <1>2, <1>3, EmitRows DEF Told

\* A page that a step takes nothing from.
LEMMA CompleteStays ==
    ASSUME Sound, NEW p \in Pages, Complete(p), pages'[p].room = pages[p].room,
           NEW r, r = pages[p].room, Told(r)' \subseteq Told(r),
           \A l \in Loads : Newer(loads[l], p, r) => loads'[l] = loads[l],
           \A m \in Ids : Held(pages[p], m) /\ msgs[m].room = r => Held(pages'[p], m)
    PROVE  Complete(p)'
<1>1. Asked(p, r, loads) => Asked(p, r, loads')
  BY DEF Asked
<1>2. \A m : Answered(p, r, loads, m) => Answered(p, r, loads', m)
  BY DEF Answered
<1>3. ASSUME \A m \in Told(r) : Held(pages[p], m) \/ Answered(p, r, loads, m), NEW m \in Told(r)'
      PROVE  Held(pages'[p], m) \/ Answered(p, r, loads', m)
  <2>1. m \in Told(r) /\ m \in Ids /\ msgs[m].room = r
    BY <1>3, ToldIn
  <2> QED BY <1>2, <1>3, <2>1
<1>4. \/ r = None
      \/ Asked(p, r, loads')
      \/ \A m \in Told(r)' : Held(pages'[p], m) \/ Answered(p, r, loads', m)
  BY <1>1, <1>3 DEF Complete
<1> QED BY <1>4 DEF Complete

\* So are all, if what they hold stays and no row changes.
LEMMA AllStay ==
    ASSUME Sound, NothingLost, UNCHANGED msgs,
           \A p \in Pages : pages'[p].room = pages[p].room,
           \A l \in Loads : loads[l] \in Load /\ loads[l].kind = "newest" => loads'[l] = loads[l],
           \A p \in Pages : \A m \in Ids :
               Held(pages[p], m) /\ msgs[m].room = pages[p].room => Held(pages'[p], m)
    PROVE  NothingLost'
<1>1. ASSUME NEW p \in Pages PROVE Complete(p)'
  <2>1. PICK r : r = pages[p].room
    OBVIOUS
  <2> QED BY <2>1, ToldStays, CompleteStays DEF NothingLost, Newer
<1> QED BY <1>1 DEF NothingLost

\* After opening a room what a tab misses is still on its way.
LEMMA OpenKeeps ==
    ASSUME Sound, NothingLost, NEW p \in Pages, NEW r \in Rooms, NEW j \in Joins,
           NEW l \in Loads, Open(p, r, j, l)
    PROVE  NothingLost'
<1>1. /\ OnlyPage(p) /\ pages'[p].room = r /\ loads[l] = None /\ UNCHANGED msgs
      /\ loads' = [loads EXCEPT ![l] = Ask(p, r, "newest", None, None)]
  BY OpenDoes DEF server
<1>2. loads'[l] = Ask(p, r, "newest", None, None) /\ \A x \in Loads : x # l => loads'[x] = loads[x]
  BY <1>1, Unchanged
<1>3. Newer(loads'[l], p, r) /\ loads'[l].pc = "ask"
  BY <1>2 DEF Newer, Ask, Load
<1>4. Complete(p)'
  BY <1>1, <1>3 DEF Complete, Asked
<1>5. ASSUME NEW q \in Pages, q # p PROVE Complete(q)'
  <2>1. PICK x : x = pages[q].room
    OBVIOUS
  <2>2. \A k \in Loads : Newer(loads[k], q, x) => loads'[k] = loads[k]
    BY <1>1, <1>2, NullAssumption DEF Newer
  <2>3. Told(x)' \subseteq Told(x)
    BY <1>1, ToldStays
  <2>4. Complete(q) /\ pages'[q] = pages[q]
    BY <1>1, <1>5 DEF NothingLost, OnlyPage
  <2> QED BY <2>1, <2>2, <2>3, <2>4, CompleteStays
<1> QED BY <1>4, <1>5 DEF NothingLost

\* The answer to a request for the newest holds them all.
LEMMA ReadKeeps ==
    ASSUME Sound, NothingLost, NEW l \in Loads, Read(l)
    PROVE  NothingLost'
<1> DEFINE b == loads[l].before
           asked == {m \in InRoom(loads[l].room) : b = None \/ m < b}
           read == [loads[l] EXCEPT !.pc = "answer", !.got = Newest(asked)]
<1>1. /\ loads[l] \in Load /\ loads[l].pc = "ask" /\ UNCHANGED <<msgs, pages>>
      /\ loads' = [loads EXCEPT ![l] = read]
      /\ loads[l].kind = "newest" => b = None
  BY RunningCalls, Unchanged, NullAssumption DEF Read, server, Sound
<1>2. loads[l].kind = "newest" => asked = InRoom(loads[l].room)
  <2>1. b = None => asked = InRoom(loads[l].room)
    OBVIOUS
  <2> QED BY <1>1, <2>1
<1> HIDE DEF asked
<1>3. /\ read.got = Newest(asked) /\ read.pc = "answer" /\ read.page = loads[l].page
      /\ read.room = loads[l].room /\ read.kind = loads[l].kind
  BY <1>1 DEF Load
<1>4. read \in Load
  <2>1. Newest(asked) \subseteq Ids
    BY RunningCalls DEF Newest, asked, InRoom, Sound
  <2> QED BY <1>1, <2>1 DEF Load
<1> HIDE DEF read
<1>5. loads'[l] = read /\ \A x \in Loads : x # l => loads'[x] = loads[x]
  <2>1. loads \in [Loads -> Load \cup {None}]
    BY Unchanged
  <2> QED BY <1>1, <2>1
<1>6. ASSUME NEW p \in Pages PROVE Complete(p)'
  <2>1. PICK r : r = pages[p].room
    OBVIOUS
  <2>2. Told(r)' = Told(r)
    BY <1>1, ToldStays
  <2>3. CASE Newer(loads[l], p, r)
    <3>1. Newer(loads'[l], p, r) /\ loads'[l].pc = "answer" /\ loads'[l].got = Newest(InRoom(r))
      BY <1>2, <1>3, <1>4, <1>5, <2>3 DEF Newer
    <3>2. \A m \in Told(r) : Answered(p, r, loads', m)
      BY <3>1 DEF Told, Answered
    <3> QED BY <1>1, <2>1, <2>2, <3>2 DEF Complete
  <2>4. CASE ~ Newer(loads[l], p, r)
    <3>1. \A x \in Loads : Newer(loads[x], p, r) => loads'[x] = loads[x]
      BY <1>5, <2>4
    <3> QED BY <1>1, <2>1, <2>2, <3>1, CompleteStays DEF NothingLost
  <2> QED BY <2>3, <2>4
<1> QED BY <1>6 DEF NothingLost

\* An answer takes the place of the list; what it does not bring came meanwhile.
LEMMA AnswerKeeps ==
    ASSUME Sound, NothingLost, NEW l \in Loads, Answer(l)
    PROVE  NothingLost'
<1>1. PICK p \in Pages : p = loads[l].page
  BY AnswerDoes
<1>2. /\ OnlyPage(p) /\ pages'[p].room = pages[p].room /\ pages'[p].down = pages[p].down
      /\ \A m \in Ids : pages'[p].shown[m] > 0 <=> m \in loads[l].got
      /\ \A m \in Ids :
            (pages[p].shown[m] > 0 /\ Belongs(m, pages[p].room)) \/ m \in pages[p].gap
            => m \in pages'[p].gap \/ m \in loads[l].got
      /\ loads' = [loads EXCEPT ![l] = None] /\ UNCHANGED msgs
      /\ loads[l].kind = "newest" /\ loads[l].pc = "answer"
  <2>1. loads[l].kind = "newest" /\ loads[l].pc = "answer"
    BY DEF Answer
  <2> QED BY <1>1, <2>1, AnswerDoes DEF server
<1>3. \A x \in Loads : x # l => loads'[x] = loads[x]
  BY <1>2, Unchanged
<1>4. ASSUME NEW q \in Pages, q # p PROVE Complete(q)'
  <2>1. PICK r : r = pages[q].room
    OBVIOUS
  <2>2. \A x \in Loads : Newer(loads[x], q, r) => loads'[x] = loads[x]
    BY <1>1, <1>3, <1>4 DEF Newer
  <2>3. Told(r)' \subseteq Told(r)
    BY <1>2, ToldStays
  <2> QED BY <1>2, <1>4, <2>1, <2>2, <2>3, CompleteStays DEF NothingLost, OnlyPage
<1>5. Complete(p)'
  <2>1. PICK r : r = pages[p].room
    OBVIOUS
  <2>2. Told(r)' = Told(r)
    BY <1>2, ToldStays
  <2>3. \A m \in Ids : Held(pages[p], m) /\ msgs[m].room = r => Held(pages'[p], m)
    BY <1>2, <2>1 DEF Held, Belongs
  <2>4. Asked(p, r, loads) => Asked(p, r, loads')
    BY <1>2, <1>3 DEF Asked
  <2>5. ASSUME NEW m \in Told(r), Answered(p, r, loads, m)
        PROVE  Held(pages'[p], m) \/ Answered(p, r, loads', m)
    <3>1. m \in Ids
      BY ToldIn
    <3> QED BY <1>2, <1>3, <2>5, <3>1 DEF Answered, Held
  <2>6. \A m \in Told(r) : m \in Ids /\ msgs[m].room = r
    BY ToldIn
  <2>7. Complete(p)
    BY DEF NothingLost
  <2> QED BY <1>2, <2>1, <2>2, <2>3, <2>4, <2>5, <2>6, <2>7 DEF Complete
<1> QED BY <1>4, <1>5 DEF NothingLost

\* A message that is told reaches a page at rest, because it is in its room.
LEMMA EmitKeeps ==
    ASSUME Sound, ViewersJoin, NothingLost, NEW m \in Ids, NEW by \in {"socket", "http"},
           EmitNew(m, by)
    PROVE  NothingLost'
<1>1. UNCHANGED <<joins, loads>> /\ SettledIsJoined
  BY ViewersSettle DEF EmitNew
<1>2. ASSUME NEW p \in Pages PROVE Complete(p)'
  <2>1. PICK r : r = pages[p].room
    OBVIOUS
  <2>2. /\ pages'[p].shown = pages[p].shown /\ pages'[p].room = r
        /\ pages'[p].down = IF Reached(m, p, by) THEN Append(pages[p].down, New(m))
                            ELSE pages[p].down
        /\ pages'[p].gap = IF ~ Reached(m, p, by) /\ msgs[m].room = r /\ ~ Settled(p)
                           THEN pages[p].gap \cup {m} ELSE pages[p].gap
    BY <2>1, EmitPages
  <2>3. pages[p].down \in Seq(Packet) /\ New(m) \in Packet /\ New(m).id = m
    BY Unchanged DEF New, Packet
  <2>4. \A n : Coming(pages[p].down, n) => Coming(pages'[p].down, n)
    BY <2>2, <2>3, Appended DEF Coming
  <2>5. \A n \in Ids : Held(pages[p], n) => Held(pages'[p], n)
    BY <2>2, <2>4 DEF Held
  <2>6. ASSUME msgs[m].room = r, r # None PROVE Held(pages'[p], m)
    <3>1. CASE Reached(m, p, by)
      BY <2>2, <2>3, <3>1, Appended DEF Held, Coming
    <3>2. CASE ~ Reached(m, p, by)
      <4>1. ~ Settled(p)
        BY <1>1, <2>1, <2>6, <3>2 DEF SettledIsJoined, Settled, Reached
      <4> QED BY <2>2, <2>6, <3>2, <4>1 DEF Held
    <3> QED BY <3>1, <3>2
  <2>7. \A n \in Told(r)' : n \in Told(r) \/ (n = m /\ msgs[m].room = r)
    BY ToldEmits
  <2>8. \A n \in Told(r) : n \in Ids
    BY ToldIn
  <2>9. Complete(p)
    BY DEF NothingLost
  <2> QED BY <1>1, <2>1, <2>2, <2>5, <2>6, <2>7, <2>8, <2>9 DEF Complete
<1> QED BY <1>2 DEF NothingLost

\* Every step keeps what is owed to a tab on its way.
LEMMA LostStep ==
    ASSUME Sound, ViewersJoin, NothingLost, [Next]_vars
    PROVE  NothingLost'
<1>1. ASSUME NEW p \in Pages, PageActs(p) PROVE NothingLost'
  <2>1. ASSUME NEW m \in Posted, NEW l \in Loads, Search(p, m, l) PROVE NothingLost'
    <3>1. UNCHANGED <<msgs, pages>> /\ loads[l] = None /\ \A x \in Loads : x # l => loads'[x] = loads[x]
      BY <2>1, IdleCalls, Unchanged DEF Search, server, Sound
    <3> QED BY <3>1, NullAssumption, AllStay
  <2>2. CASE Disconnect(p)
    <3>1. /\ UNCHANGED <<msgs, loads>> /\ OnlyPage(p) /\ pages'[p].room = pages[p].room
          /\ \A m \in Ids : Held(pages[p], m) /\ msgs[m].room = pages[p].room =>
                 Held(pages'[p], m)
      BY <2>2, DisconnectDoes DEF server, Held
    <3> QED BY <3>1, AllStay DEF OnlyPage
  <2>3. ASSUME NEW s \in Sids, NEW j \in Joins, Connect(p, s, j) PROVE NothingLost'
    BY <2>3, ConnectDoes, AllStay DEF OnlyPage, Held
  <2>4. CASE ServerTakes(p)
    <3>1. \A m : Coming(pages[p].down, m) => Coming(pages'[p].down, m)
      BY <2>4, ServerTakesDoes DEF Coming
    <3> QED BY <2>4, <3>1, ServerTakesDoes, AllStay DEF OnlyPage, Held, SameView
  <2>5. CASE PageTakes(p) /\ Head(pages[p].down).type = "ack"
    BY <2>5, AckDoes, AllStay DEF OnlyPage, Held, SameView, server
  <2>6. CASE PageTakes(p) /\ Head(pages[p].down).type # "ack"
    BY <2>6, NewDoes, AllStay DEF OnlyPage, Held, Belongs, server
  <2> QED BY <1>1, <2>1, <2>2, <2>3, <2>4, <2>5, <2>6, OpenKeeps DEF PageActs
<1>2. ASSUME NEW j \in Joins, Timeout(j) \/ Rejected(j) PROVE NothingLost'
  <2>1. joins[j] \in JoinCall /\ GiveUp(j)
    BY <1>2, RunningCalls DEF Timeout, Rejected, Sound
  <2> QED BY <2>1, GiveUpDoes, AllStay DEF OnlyPage, SameView, Held, server
<1>3. ASSUME NEW l \in Loads, Read(l) PROVE NothingLost'
  BY <1>3, ReadKeeps
<1>4. ASSUME NEW l \in Loads, Answer(l) PROVE NothingLost'
  BY <1>4, AnswerKeeps
<1>5. ASSUME NEW l \in Loads, AnswerOlder(l) PROVE NothingLost'
  <2>1. PICK p \in Pages : p = loads[l].page
    BY <1>5, AnswerOlderDoes
  <2>2. /\ UNCHANGED msgs /\ OnlyPage(p) /\ pages'[p].room = pages[p].room
        /\ \A m \in Ids : Held(pages[p], m) => Held(pages'[p], m)
        /\ loads[l].kind = "older" /\ \A x \in Loads : x # l => loads'[x] = loads[x]
    BY <1>5, <2>1, AnswerOlderDoes DEF server, Held
  <2> QED BY <2>2, AllStay DEF OnlyPage
<1>6. ASSUME NEW s \in Sids, Notice(s) PROVE NothingLost'
  BY <1>6, AllStay DEF Notice
<1>7. ASSUME NEW r \in Rooms, Post(r) PROVE NothingLost'
  <2>1. ASSUME NEW p \in Pages PROVE Complete(p)'
    <3>1. PICK x : x = pages[p].room
      OBVIOUS
    <3> QED BY <1>7, <3>1, ToldPosts, CompleteStays DEF Post, NothingLost
  <2> QED BY <2>1 DEF NothingLost
<1>8. ASSUME NEW m \in Ids, NEW by \in {"socket", "http"}, EmitNew(m, by) PROVE NothingLost'
  BY <1>8, EmitKeeps
<1>9. CASE UNCHANGED vars
  BY <1>9, AllStay DEF vars, server
<1> QED BY <1>1, <1>2, <1>3, <1>4, <1>5, <1>6, <1>7, <1>8, <1>9 DEF Next

\* A tab at rest shows the newest messages of its room, but for those that came while it
\* was opening the room or was cut off: a message that is emitted to a tab at rest is
\* never lost on the way.
THEOREM NoneIsLost == Spec => []MissingOnlyFromGaps
<1>1. Init => Sound /\ ViewersJoin /\ NothingLost
  BY InitSound DEF Init, NewPage, ViewersJoin, Viewer, NothingLost, Complete
<1>2. Sound /\ ViewersJoin /\ NothingLost /\ [Next]_vars => (Sound /\ ViewersJoin /\ NothingLost)'
  BY NextSound, ViewersStep, LostStep
<1>3. ASSUME Sound, NothingLost PROVE MissingOnlyFromGaps
  <2>1. ASSUME NEW p \in Pages, Settled(p), pages[p].room # None, NEW m \in Told(pages[p].room)
        PROVE  \/ m \in Shown(p) \/ m \in pages[p].gap
               \/ m \in {pages[p].down[i].id : i \in DOMAIN pages[p].down}
    <3>1. \A l \in Loads : ~ Newer(loads[l], p, pages[p].room)
      BY <1>3, <2>1, RunningCalls DEF Sound, Newer, Settled, LoadsOf
    <3>2. Held(pages[p], m)
      BY <1>3, <2>1, <3>1 DEF NothingLost, Complete, Asked, Answered
    <3>3. m \in Ids
      BY <1>3, <2>1, ToldIn
    <3> QED BY <3>2, <3>3 DEF Held, Coming, Shown
  <2> QED BY <2>1 DEF MissingOnlyFromGaps, Told
<1>4. Sound /\ NothingLost => MissingOnlyFromGaps
  BY <1>3
<1> QED BY <1>1, <1>2, <1>4, PTL DEF Spec
==============================================================================
