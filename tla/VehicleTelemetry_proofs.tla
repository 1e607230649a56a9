----------------------- MODULE VehicleTelemetry_proofs -----------------------
(***************************************************************************)
(* The safety properties of VehicleTelemetry for any number of vehicles    *)
(* and messages.  A message keeps its words from when it comes, so the     *)
(* invariants are about what a handler knows at each await, and what the   *)
(* buffer still holds when something later has left.                       *)
(***************************************************************************)
EXTENDS VehicleTelemetry, FiniteSetTheorems, TLAPS

Pcs == {"unsent", "buffered", "ignite", "count", "find meta", "add meta",
        "archive", "load", "save", "locate", "find trip", "finish", "start", "add",
        "done", "failed", "lost"}
Ends == {"add", "done", "failed", "lost"}

\* What a message has found out when it gets there.
MsgOK(c, stored) ==
    /\ c.pc # "unsent" => c.vehicle \in Vehicles
    /\ c.pc \in {"ignite", "count"} => c.ign # "none"
    /\ c.pc \in {"find trip", "finish", "start", "add"} => DriverAt(c.vehicle, c.ts) # None
    /\ c.pc \in {"add meta", "finish", "add"} => c.trip \in stored
MsgsOK == \A m \in Messages : MsgOK(msg[m], Stored)

\* A key is left for every message that may start a trip.
Able == {m \in Messages : msg[m].pc \notin Ends}
KeysOK ==
    /\ Stored = 1..Cardinality(Stored)
    /\ Cardinality(Stored) + Cardinality(Able) <= MaxMessages

Typed == TypeOK /\ MsgsOK /\ KeysOK

\* Message m of two states says the same.
Same(c, d) ==
    /\ d.vehicle = c.vehicle /\ d.ts = c.ts /\ d.ign = c.ign /\ d.pos = c.pos
    /\ d.seen = c.seen

\* Message m goes on to pc, and nobody else does.
Moves(m, pc) ==
    /\ msg' \in [Messages -> Msg]
    /\ Same(msg[m], msg'[m])
    /\ msg'[m].pc = pc
    /\ \A n \in Messages \ {m} : msg'[n] = msg[n]

\* What has left the buffer in the order o, in f: nothing of it is there again, and what is
\* there and earlier than something that has left came after that had left.
Overtaken(c, d, i) == c.vehicle = d.vehicle /\ d.ts < c.ts => d.seen >= i
LeftOK(f, o) ==
    /\ \A i \in DOMAIN o : f[o[i]].pc \notin {"unsent", "buffered"}
    /\ \A n \in Messages, i \in DOMAIN o : f[n].pc = "buffered" => Overtaken(f[o[i]], f[n], i)
    /\ \A i, j \in DOMAIN o : i < j => Overtaken(f[o[i]], f[o[j]], i)

\* Trip x is made in the vehicle that message c is of, by who drove it then: so are the trips
\* that hold messages, and those that handlers have found and are about to add to.
OfTrip(x, c) == x.vehicle = c.vehicle /\ x.driver = DriverAt(c.vehicle, c.ts)
Taken(x) == x.points \cup x.meta
TripsOK ==
    /\ \A t \in Stored : \A n \in Taken(trips[t]) : ~ At(n, "unsent") /\ OfTrip(trips[t], msg[n])
    /\ \A m \in Messages : msg[m].pc \in {"add meta", "add"} => OfTrip(trips[msg[m].trip], msg[m])

\* A message that shared its day's track with none: what it has read of the track is what is
\* there, and once it has saved its point the point is there, and in every copy that is read.
PointsIn(x) == IF x = None THEN {} ELSE x
ReadTrue(m) ==
    /\ m \in msg[m].copy
    /\ m \notin raced => (msg[m].fresh <=> track[TrackOf(m)] = None)
PointKept(n) ==
    /\ n \in PointsIn(track[TrackOf(n)])
    /\ \A m \in Messages : At(m, "save") /\ TrackOf(m) = TrackOf(n) => n \in msg[m].copy
PointsOK ==
    /\ \A m \in Messages : At(m, "load") \/ At(m, "save") \/ HandledPosition(m) => m \in positions
    /\ \A m \in Messages : At(m, "save") => ReadTrue(m)
    /\ \A n \in Messages : HandledPosition(n) => n \in raced \/ PointKept(n)

\* The messages a, in f, have set a vehicle's ignition in this order: when its engine ran by
\* them, and what is in its row r after the last.
Before(f, a, t) == {i \in DOMAIN a : f[a[i]].ts <= t}
Ran(f, a, t) ==
    \E i \in Before(f, a, t) : f[a[i]].ign = "on" /\ \A j \in Before(f, a, t) : j <= i
RanUntil(f, a, end) == {t \in Times : end # None /\ t < end /\ Ran(f, a, t)}
Sorted(f, a) == \A i, j \in DOMAIN a : i < j => f[a[i]].ts <= f[a[j]].ts
EngineOK(f, a, r) ==
    /\ \A i \in DOMAIN a : f[a[i]].pc # "unsent"
    /\ a = <<>> => r.changed = None
    /\ a # <<>> => r.changed = f[a[Len(a)]].ts /\ r.ign = f[a[Len(a)]].ign
CounterOK(f, a, r) == Sorted(f, a) => r.acc = Cardinality(RanUntil(f, a, r.changed))
HasRead(c, r) == c.was = r.ign /\ c.since = r.changed /\ c.acc = r.acc
EnginesOK ==
    \A v \in Vehicles :
        /\ EngineOK(msg, applied[v], row[v])
        /\ v \notin mixed => CounterOK(msg, applied[v], row[v])
        /\ v \notin mixed =>
               \A m \in Messages : At(m, "count") /\ msg[m].vehicle = v => HasRead(msg[m], row[v])

------------------------------------------------------------------------------
(* Types.                                                                  *)

\* The sets the bounds make are finite.
LEMMA Finite ==
    ASSUME NEW S \in SUBSET Messages
    PROVE  IsFiniteSet(S) /\ Cardinality(S) \in Nat /\ Cardinality(S) <= MaxMessages
<1>1. IsFiniteSet(Messages) /\ Cardinality(Messages) = MaxMessages
  <2>1. 1 \in Int /\ MaxMessages \in Int /\ MaxMessages \in Nat
    BY BoundsAssumption
  <2>2. IsFiniteSet(1..MaxMessages)
        /\ Cardinality(1..MaxMessages) = IF 1 > MaxMessages THEN 0 ELSE MaxMessages - 1 + 1
    BY <2>1, FS_Interval
  <2> QED
    BY <2>1, <2>2 DEF Messages
<1>2. IsFiniteSet(S) /\ Cardinality(S) <= Cardinality(Messages)
  BY <1>1, FS_Subset
<1>3. Cardinality(S) \in Nat
  BY <1>2, FS_CardinalityType
<1> QED
  BY <1>1, <1>2, <1>3

\* A smaller set of messages has fewer.
LEMMA Fewer ==
    ASSUME NEW S \in SUBSET Messages, NEW T \in SUBSET S
    PROVE  Cardinality(T) <= Cardinality(S)
  BY Finite, FS_Subset

\* An ignition reading or a position's first step is where its handler begins.
LEMMA Plains ==
    ASSUME NEW c \in Msg, NEW pc \in Pcs
    PROVE  LET d == [Plain(c) EXCEPT !.pc = pc]
           IN d \in Msg /\ Same(c, d) /\ d.pc = pc
<1> DEFINE d == [Plain(c) EXCEPT !.pc = pc]
<1>1. /\ c.vehicle \in Vehicles \cup {None} /\ c.ts \in Times
      /\ c.ign \in {"on", "off", "none"} /\ c.pos \in BOOLEAN /\ c.seen \in Nat
  BY DEF Msg
<1>2. Unsent \in Msg
  <2>1. 0 \in Times
    BY BoundsAssumption DEF Times
  <2> QED
    BY <2>1 DEF Unsent, Msg
<1>3. Plain(c) \in Msg /\ Same(c, Plain(c))
  BY ZenonT(60), <1>1, <1>2 DEF Plain, Same, Msg
<1>4. d \in Msg
  BY ZenonT(60), <1>3 DEF Msg, Pcs
<1>5. Same(c, d) /\ d.pc = pc
  BY <1>3 DEF Same, Msg
<1> QED
  BY <1>4, <1>5

\* Goto() moves a message and makes its handler forget what it has read.
LEMMA GotoMoves ==
    ASSUME msg \in [Messages -> Msg], NEW m \in Messages, NEW pc \in Pcs, Goto(m, pc)
    PROVE  Moves(m, pc)
<1>1. msg[m] \in Msg
  OBVIOUS
<1>2. msg'[m] = [Plain(msg[m]) EXCEPT !.pc = pc]
  BY DEF Goto
<1>3. msg'[m] \in Msg /\ Same(msg[m], msg'[m]) /\ msg'[m].pc = pc
  BY <1>1, <1>2, Plains
<1>4. msg' \in [Messages -> Msg] /\ \A n \in Messages \ {m} : msg'[n] = msg[n]
  BY <1>3 DEF Goto
<1> QED
  BY <1>3, <1>4 DEF Moves

\* A row's change is a time, and the sum of two counters is a counter.
LEMMA Increments ==
    ASSUME NEW c \in Msg
    PROVE  Increment(c) \in Nat
<1>1. /\ c.ts \in Nat
      /\ c.since # None => c.since \in Nat
  <2>1. c.ts \in Times /\ c.since \in Times \cup {None}
    BY DEF Msg
  <2>2. Times \subseteq Nat
    BY BoundsAssumption DEF Times
  <2> QED
    BY <2>1, <2>2
<1> QED
  BY <1>1 DEF Increment

\* A handler that has read its vehicle's row has it in its hands.
LEMMA IgniteMoves ==
    ASSUME TypeOK, MsgsOK, NEW m \in Messages, Ignite(m)
    PROVE  /\ Moves(m, "count")
           /\ LET r == row[msg[m].vehicle]
              IN msg'[m].was = r.ign /\ msg'[m].since = r.changed /\ msg'[m].acc = r.acc
<1> DEFINE r == row[msg[m].vehicle]
<1>1. msg[m] \in Msg /\ msg[m].vehicle \in Vehicles
  BY DEF TypeOK, MsgsOK, MsgOK, Ignite, At
<1>2. r \in [ign : {"on", "off"}, changed : Times \cup {None}, acc : Nat,
             place : Messages \cup {None}]
  BY <1>1 DEF TypeOK
<1>3. r.ign \in {"on", "off"} /\ r.changed \in Times \cup {None} /\ r.acc \in Nat
  BY <1>2
<1>4. msg'[m] = [msg[m] EXCEPT !.pc = "count", !.was = r.ign, !.since = r.changed, !.acc = r.acc]
  BY DEF Ignite, TypeOK
<1>5. \A n \in Messages \ {m} : msg'[n] = msg[n]
  BY DEF Ignite, TypeOK
<1> HIDE DEF r
<1>6. msg'[m] \in Msg
  BY <1>1, <1>3, <1>4 DEF Msg
<1>7. /\ Same(msg[m], msg'[m]) /\ msg'[m].pc = "count"
      /\ msg'[m].was = r.ign /\ msg'[m].since = r.changed /\ msg'[m].acc = r.acc
  BY <1>1, <1>4 DEF Same, Msg
<1>8. msg' \in [Messages -> Msg]
  BY <1>6 DEF Ignite, TypeOK
<1> QED
  BY <1>5, <1>7, <1>8 DEF Moves, r

\* A message that finds a trip goes on with it.
LEMMA TripMoves ==
    ASSUME msg \in [Messages -> Msg], NEW m \in Messages, NEW pc \in Pcs, NEW t \in TripIds,
           msg' = [msg EXCEPT ![m].pc = pc, ![m].trip = t]
    PROVE  Moves(m, pc) /\ msg'[m].trip = t
<1>1. msg[m] \in Msg /\ msg'[m] = [msg[m] EXCEPT !.pc = pc, !.trip = t]
  OBVIOUS
<1>2. msg'[m] \in Msg
  BY ZenonT(60), <1>1 DEF Msg, Pcs
<1>3. Same(msg[m], msg'[m]) /\ msg'[m].pc = pc /\ msg'[m].trip = t
  BY <1>1 DEF Same, Msg
<1>4. msg' \in [Messages -> Msg] /\ \A n \in Messages \ {m} : msg'[n] = msg[n]
  BY <1>2
<1> QED
  BY <1>3, <1>4 DEF Moves

\* The day of a message is a day, its track is a set of messages.
LEMMA Tracks ==
    ASSUME TypeOK, NEW m \in Messages, msg[m].vehicle \in Vehicles
    PROVE  /\ TrackOf(m) \in Vehicles \X Days
           /\ track[TrackOf(m)] \in (SUBSET Messages) \cup {None}
<1>1. msg[m].ts \in Times
  BY DEF TypeOK, Msg
<1>2. Day(m) \in Days
  BY <1>1 DEF Day, Days
<1> QED
  BY <1>2 DEF TrackOf, TypeOK

\* A handler that has read its day's track has it, and its own point, in its hands.
LEMMA LoadMoves ==
    ASSUME TypeOK, MsgsOK, NEW m \in Messages, Load(m)
    PROVE  /\ Moves(m, "save")
           /\ msg'[m].fresh = (track[TrackOf(m)] = None)
           /\ msg'[m].copy = (IF track[TrackOf(m)] = None THEN {} ELSE track[TrackOf(m)]) \cup {m}
<1> DEFINE points == track[TrackOf(m)]
           copy == (IF points = None THEN {} ELSE points) \cup {m}
<1>1. msg[m] \in Msg /\ msg[m].vehicle \in Vehicles
  BY DEF TypeOK, MsgsOK, MsgOK, Load, At
<1>2. points \in (SUBSET Messages) \cup {None}
  BY <1>1, Tracks
<1>3. copy \in SUBSET Messages /\ (points = None) \in BOOLEAN
  <2> HIDE DEF points
  <2>1. copy \in SUBSET Messages
    BY <1>2
  <2>2. (points = None) \in BOOLEAN
    OBVIOUS
  <2> QED
    BY <2>1, <2>2
<1>4. msg'[m] = [msg[m] EXCEPT !.pc = "save", !.fresh = (points = None), !.copy = copy]
  BY DEF Load, TypeOK
<1>5. \A n \in Messages \ {m} : msg'[n] = msg[n]
  BY DEF Load, TypeOK
<1>6. msg' \in [Messages -> {msg[n] : n \in Messages} \cup {msg'[m]}]
  BY <1>5 DEF Load, TypeOK
<1> HIDE DEF points, copy
<1>7. msg'[m] \in Msg
  BY <1>1, <1>3, <1>4 DEF Msg
<1>8. /\ Same(msg[m], msg'[m]) /\ msg'[m].pc = "save"
      /\ msg'[m].fresh = (points = None) /\ msg'[m].copy = copy
  BY <1>1, <1>4 DEF Same, Msg
<1>9. msg' \in [Messages -> Msg]
  BY <1>6, <1>7 DEF TypeOK
<1> QED
  BY <1>5, <1>8, <1>9 DEF Moves, points, copy

\* Trip t keeps its driver, its vehicle and what it holds.
Unmoved(t) ==
    /\ trips'[t].driver = trips[t].driver /\ trips'[t].vehicle = trips[t].vehicle
    /\ trips'[t].points = trips[t].points /\ trips'[t].meta = trips[t].meta

\* Closing a trip leaves a trip.
LEMMA Closes ==
    ASSUME NEW x \in Trip
    PROVE  LET y == [x EXCEPT !.open = FALSE]
           IN /\ y \in Trip /\ y # None
              /\ y.driver = x.driver /\ y.vehicle = x.vehicle /\ y.points = x.points
              /\ y.meta = x.meta
<1> DEFINE y == [x EXCEPT !.open = FALSE]
<1>1. y \in Trip
  BY DEF Trip
<1>2. y # None
  BY <1>1, NullAssumption
<1>3. y.driver = x.driver /\ y.vehicle = x.vehicle /\ y.points = x.points /\ y.meta = x.meta
  BY DEF Trip
<1> QED
  BY <1>1, <1>2, <1>3

\* All active trips of driver d closed.
Closed(d) ==
    [t \in TripIds |->
        IF t \in ActiveTrip(d) THEN [trips[t] EXCEPT !.open = FALSE] ELSE trips[t]]
\* Closing trips takes none away and changes nothing else of them.
LEMMA ClosesAll ==
    ASSUME trips \in [TripIds -> Trip \cup {None}], NEW d
    PROVE  /\ Closed(d) \in [TripIds -> Trip \cup {None}]
           /\ \A u \in TripIds : Closed(d)[u] # None => trips[u] # None
           /\ \A u \in Stored :
                  /\ Closed(d)[u] # None
                  /\ Closed(d)[u].driver = trips[u].driver
                  /\ Closed(d)[u].vehicle = trips[u].vehicle
                  /\ Closed(d)[u].points = trips[u].points
                  /\ Closed(d)[u].meta = trips[u].meta
<1>1. ASSUME NEW u \in TripIds
      PROVE  /\ Closed(d)[u] \in Trip \cup {None}
             /\ Closed(d)[u] # None => trips[u] # None
             /\ u \in Stored =>
                    /\ Closed(d)[u] # None
                    /\ Closed(d)[u].driver = trips[u].driver
                    /\ Closed(d)[u].vehicle = trips[u].vehicle
                    /\ Closed(d)[u].points = trips[u].points
                    /\ Closed(d)[u].meta = trips[u].meta
  <2>1. CASE u \in ActiveTrip(d)
    <3>1. trips[u] \in Trip /\ trips[u] # None
      BY <2>1 DEF ActiveTrip, Stored
    <3>2. Closed(d)[u] = [trips[u] EXCEPT !.open = FALSE]
      BY <2>1 DEF Closed
    <3> QED
      BY <3>1, <3>2, Closes
  <2>2. CASE u \notin ActiveTrip(d)
    BY <2>2 DEF Closed, Stored
  <2> QED
    BY <2>1, <2>2
<1>2. Closed(d) = [u \in TripIds |-> Closed(d)[u]]
  BY DEF Closed
<1>3. Closed(d) \in [TripIds -> Trip \cup {None}]
  BY <1>1, <1>2
<1> QED
  BY <1>1, <1>3 DEF Stored

\* The keys in use are the first ones: the next is free, for one that has not started a trip.
LEMMA NextKey ==
    ASSUME KeysOK, NEW m \in Able
    PROVE  Cardinality(Stored) + 1 \in TripIds \ Stored
<1>1. /\ Cardinality(Stored) \in Nat
      /\ Cardinality(Able) \in Nat /\ IsFiniteSet(Able)
  <2>1. Stored \in SUBSET Messages /\ Able \in SUBSET Messages
    BY DEF Stored, TripIds, Messages, Able
  <2> QED
    BY <2>1, Finite
<1>2. Cardinality(Able) # 0
  BY <1>1, FS_EmptySet
<1>3. Cardinality(Stored) + 1 \in TripIds
  BY <1>1, <1>2, BoundsAssumption DEF KeysOK, TripIds
<1>4. Cardinality(Stored) + 1 \notin Stored
  BY <1>1 DEF KeysOK
<1> QED
  BY <1>3, <1>4

\* startRoute() answers with a trip of the driver in this vehicle, and takes nothing from any.
LEMMA StartMoves ==
    ASSUME Typed, NEW m \in Messages, StartTrip(m)
    PROVE  \E t \in TripIds :
             /\ Moves(m, "add") /\ msg'[m].trip = t
             /\ trips' \in [TripIds -> Trip \cup {None}]
             /\ Stored' = Stored \cup {t}
             /\ t \in Stored \/ t = Cardinality(Stored) + 1
             /\ trips'[t].driver = DriverAt(msg[m].vehicle, msg[m].ts)
             /\ trips'[t].vehicle = msg[m].vehicle
             /\ \A u \in Stored : Unmoved(u)
             /\ t \notin Stored => trips'[t].points = {} /\ trips'[t].meta = {}
<1> DEFINE v == msg[m].vehicle
           d == DriverAt(v, msg[m].ts)
           same == {t \in ActiveTrip(d) : trips[t].vehicle = v /\ now - trips[t].start <= Fresh}
           closed == [t \in TripIds |->
                         IF t \in ActiveTrip(d) THEN [trips[t] EXCEPT !.open = FALSE] ELSE trips[t]]
           t0 == Cardinality(Stored) + 1
           new == [driver |-> d, vehicle |-> v, start |-> now, open |-> TRUE,
                   points |-> {}, last |-> None, meta |-> {}]
<1>1. /\ msg \in [Messages -> Msg] /\ trips \in [TripIds -> Trip \cup {None}] /\ now \in Times
      /\ At(m, "start") /\ "add" \in Pcs
  BY DEF Typed, TypeOK, StartTrip, Pcs
<1>2. v \in Vehicles /\ d \in Drivers
  <2>1. MsgOK(msg[m], Stored) /\ msg[m] \in Msg
    BY <1>1 DEF Typed, MsgsOK
  <2>2. v \in Vehicles /\ d # None /\ msg[m].ts \in Times
    BY <1>1, <2>1 DEF MsgOK, At, Msg
  <2> QED
    BY <2>2, DriverAssumption
<1>3. \A t \in Stored : t \in TripIds /\ trips[t] \in Trip /\ trips[t] # None
  BY <1>1 DEF Stored
<1>4. CASE same # {}
  <2>1. PICK t \in same : msg' = [msg EXCEPT ![m].pc = "add", ![m].trip = t]
    BY <1>4 DEF StartTrip
  <2>2. trips' = trips
    BY <1>4 DEF StartTrip
  <2>3. t \in Stored /\ trips[t].driver = d /\ trips[t].vehicle = v
    BY DEF ActiveTrip
  <2>4. Moves(m, "add") /\ msg'[m].trip = t
    BY <1>1, <1>3, <2>1, <2>3, TripMoves
  <2>5. Stored' = Stored \cup {t} /\ \A u \in Stored : Unmoved(u)
    BY <2>2, <2>3 DEF Stored, Unmoved
  <2> QED
    BY <1>1, <1>3, <2>2, <2>3, <2>4, <2>5
<1>5. CASE same = {}
  <2>1. /\ msg' = [msg EXCEPT ![m].pc = "add", ![m].trip = t0]
        /\ trips' = [closed EXCEPT ![t0] = new]
    BY <1>5 DEF StartTrip
  <2>2. m \in Able
    BY <1>1 DEF At, Able, Ends
  <2>3. t0 \in TripIds /\ t0 \notin Stored
    BY <2>2, NextKey DEF Typed
  <2>4. Moves(m, "add") /\ msg'[m].trip = t0
    BY <1>1, <2>1, <2>3, TripMoves
  <2>5. new \in Trip /\ new # None
    <3>1. new \in Trip
      BY <1>1, <1>2 DEF Trip
    <3> QED
      BY <3>1, NullAssumption
  <2>6. closed = Closed(d)
    BY DEF Closed
  <2> HIDE DEF closed
  <2>7. /\ closed \in [TripIds -> Trip \cup {None}]
        /\ \A u \in TripIds : closed[u] # None => trips[u] # None
        /\ \A u \in Stored :
               /\ closed[u] # None
               /\ closed[u].driver = trips[u].driver /\ closed[u].vehicle = trips[u].vehicle
               /\ closed[u].points = trips[u].points /\ closed[u].meta = trips[u].meta
    BY <1>1, <2>6, ClosesAll
  <2>8. /\ trips' \in [TripIds -> Trip \cup {None}]
        /\ trips'[t0] = new
        /\ \A u \in TripIds \ {t0} : trips'[u] = closed[u]
    <3> HIDE DEF new, t0
    <3> QED
      BY <2>1, <2>3, <2>5, <2>7
  <2>9. new.driver = d /\ new.vehicle = v /\ new.points = {} /\ new.meta = {}
    OBVIOUS
  <2> HIDE DEF new, t0, same
  <2>10. Stored' = Stored \cup {t0}
    BY <2>3, <2>5, <2>7, <2>8 DEF Stored
  <2>11. \A u \in Stored : Unmoved(u)
    BY <1>3, <2>3, <2>7, <2>8 DEF Unmoved
  <2> QED
    BY <2>3, <2>4, <2>8, <2>9, <2>10, <2>11 DEF t0
<1> QED
  BY <1>4, <1>5

\* Where each step of a handler leads.
LEMMA HandleMoves ==
    ASSUME Typed, NEW m \in Messages, Handle(m)
    PROVE  /\ Running(m)
           /\ \E pc \in Pcs \ {"unsent", "buffered"} : Moves(m, pc)
<1> USE DEF Typed
<1>1. CASE Ignite(m)
  BY <1>1, IgniteMoves DEF Running, Ignite, At, Pcs
<1>2. CASE Count(m)
  BY <1>2, GotoMoves DEF Running, Count, At, Pcs, TypeOK
<1>3. CASE FindMeta(m)
  <2>1. msg \in [Messages -> Msg] /\ Running(m) /\ AfterTelemetry(m) \in {"archive", "done"}
    BY <1>3 DEF FindMeta, At, TypeOK, AfterTelemetry, Running
  <2>2. CASE Goto(m, AfterTelemetry(m))
    BY <2>1, <2>2, GotoMoves DEF Pcs
  <2>3. CASE \E t \in TripIds : msg' = [msg EXCEPT ![m].pc = "add meta", ![m].trip = t]
    <3>1. "add meta" \in Pcs \ {"unsent", "buffered"}
      BY DEF Pcs
    <3> QED
      BY <2>1, <2>3, <3>1, TripMoves
  <2> QED
    BY <1>3, <2>2, <2>3 DEF FindMeta, ActiveTrip, Stored
<1>4. CASE AddMeta(m)
  <2>1. msg \in [Messages -> Msg] /\ Running(m) /\ AfterTelemetry(m) \in {"archive", "done"}
    BY <1>4 DEF AddMeta, At, TypeOK, AfterTelemetry, Running
  <2> QED
    BY <1>4, <2>1, GotoMoves DEF AddMeta, Pcs
<1>5. CASE Archive(m)
  BY <1>5, GotoMoves DEF Running, Archive, At, Pcs, TypeOK
<1>6. CASE Load(m)
  BY <1>6, LoadMoves DEF Running, Load, At, Pcs
<1>7. CASE Save(m)
  <2>1. Goto(m, "failed") \/ Goto(m, "locate")
    BY <1>7 DEF Save
  <2> QED
    BY <1>7, <2>1, GotoMoves DEF Running, Save, At, Pcs, TypeOK
<1>8. CASE Locate(m)
  <2>1. Goto(m, "done") \/ Goto(m, "find trip")
    BY <1>8 DEF Locate
  <2> QED
    BY <1>8, <2>1, GotoMoves DEF Running, Locate, At, Pcs, TypeOK
<1>9. CASE FindTrip(m)
  <2>1. msg \in [Messages -> Msg] /\ Running(m)
    BY <1>9 DEF FindTrip, At, TypeOK, Running
  <2>2. CASE Goto(m, "start")
    BY <2>1, <2>2, GotoMoves DEF Pcs
  <2>3. CASE \E t \in TripIds : msg' = [msg EXCEPT ![m].pc = WhereTo(m, t), ![m].trip = t]
    <3>1. PICK t \in TripIds : msg' = [msg EXCEPT ![m].pc = WhereTo(m, t), ![m].trip = t]
      BY <2>3
    <3>2. WhereTo(m, t) \in Pcs \ {"unsent", "buffered"}
      BY DEF Pcs, WhereTo
    <3> QED
      BY <2>1, <3>1, <3>2, TripMoves
  <2> QED
    BY <1>9, <2>2, <2>3 DEF FindTrip, ActiveTrip, Stored
<1>10. CASE FinishForeign(m)
  BY <1>10, GotoMoves DEF Running, FinishForeign, At, Pcs, TypeOK
<1>11. CASE StartTrip(m)
  BY <1>11, StartMoves DEF Running, StartTrip, At, Pcs
<1>12. CASE AddPoint(m)
  <2>1. Goto(m, "done") \/ Goto(m, "failed")
    BY <1>12 DEF AddPoint
  <2> QED
    BY <1>12, <2>1, GotoMoves DEF Running, AddPoint, At, Pcs, TypeOK
<1> QED
  BY <1>1, <1>2, <1>3, <1>4, <1>5, <1>6, <1>7, <1>8, <1>9, <1>10, <1>11, <1>12 DEF Handle

\* Trip t takes in something, or is closed: its driver and its vehicle stay.
LEMMA Updates ==
    ASSUME trips \in [TripIds -> Trip \cup {None}], NEW t \in Stored, NEW y \in Trip,
           trips' = [trips EXCEPT ![t] = y],
           y.driver = trips[t].driver, y.vehicle = trips[t].vehicle
    PROVE  /\ trips' \in [TripIds -> Trip \cup {None}]
           /\ trips'[t] = y /\ \A u \in TripIds \ {t} : trips'[u] = trips[u]
           /\ Stored' = Stored
           /\ \A u \in Stored : /\ trips'[u].driver = trips[u].driver
                                 /\ trips'[u].vehicle = trips[u].vehicle
<1>1. t \in TripIds /\ trips[t] # None /\ y # None
  BY NullAssumption DEF Stored
<1>2. trips'[t] = y /\ \A u \in TripIds \ {t} : trips'[u] = trips[u]
  BY <1>1
<1>3. trips' \in [TripIds -> Trip \cup {None}]
  BY <1>1
<1>4. Stored' = Stored
  BY <1>1, <1>2 DEF Stored
<1>5. \A u \in Stored : trips'[u].driver = trips[u].driver /\ trips'[u].vehicle = trips[u].vehicle
  BY <1>1, <1>2 DEF Stored
<1> QED
  BY <1>2, <1>3, <1>4, <1>5

\* A trip that takes in a reading, a point.
LEMMA TripTakes ==
    ASSUME NEW x \in Trip, NEW m \in Messages, NEW ts \in Times
    PROVE  LET y == [x EXCEPT !.meta = @ \cup {m}]
               z == [x EXCEPT !.points = @ \cup {m}, !.last = ts]
           IN /\ y \in Trip /\ y.driver = x.driver /\ y.vehicle = x.vehicle
              /\ y.points = x.points /\ y.meta = x.meta \cup {m}
              /\ z \in Trip /\ z.driver = x.driver /\ z.vehicle = x.vehicle
              /\ z.points = x.points \cup {m} /\ z.meta = x.meta
<1> DEFINE y == [x EXCEPT !.meta = @ \cup {m}]
           z == [x EXCEPT !.points = @ \cup {m}, !.last = ts]
<1>1. y \in Trip
  BY DEF Trip
<1>2. z \in Trip
  BY DEF Trip
<1>3. /\ y.driver = x.driver /\ y.vehicle = x.vehicle
      /\ y.points = x.points /\ y.meta = x.meta \cup {m}
  BY DEF Trip
<1>4. /\ z.driver = x.driver /\ z.vehicle = x.vehicle
      /\ z.points = x.points \cup {m} /\ z.meta = x.meta
  BY DEF Trip
<1> QED
  BY <1>1, <1>2, <1>3, <1>4

\* What trip u holds in the next state it holds by now, or it is m.
Holds(u, m) ==
    trips'[u].points \cup trips'[u].meta \subseteq trips[u].points \cup trips[u].meta \cup {m}

\* addRouteMeta() and addPoint() put their message in the trip it goes to.
LEMMA AddsOwn ==
    ASSUME Typed, NEW m \in Messages, AddMeta(m) \/ FinishForeign(m) \/ AddPoint(m)
    PROVE  /\ trips' \in [TripIds -> Trip \cup {None}]
           /\ Stored' = Stored
           /\ \A u \in Stored : /\ trips'[u].driver = trips[u].driver
                                 /\ trips'[u].vehicle = trips[u].vehicle
           /\ \A u \in Stored \ {msg[m].trip} : trips'[u] = trips[u]
           /\ Holds(msg[m].trip, m)
           /\ FinishForeign(m) => Unmoved(msg[m].trip)
<1> DEFINE t == msg[m].trip
<1>1. /\ msg \in [Messages -> Msg] /\ trips \in [TripIds -> Trip \cup {None}]
      /\ msg[m] \in Msg /\ MsgOK(msg[m], Stored)
  BY DEF Typed, TypeOK, MsgsOK
<1>2. t \in Stored /\ t \in TripIds /\ trips[t] \in Trip /\ msg[m].ts \in Times
  <2>1. msg[m].pc \in {"add meta", "finish", "add"}
    BY DEF AddMeta, FinishForeign, AddPoint, At
  <2>2. t \in Stored
    BY <1>1, <2>1 DEF MsgOK
  <2> QED
    BY <1>1, <2>2 DEF Stored, Msg
<1> DEFINE y == [trips[t] EXCEPT !.meta = @ \cup {m}]
           z == [trips[t] EXCEPT !.points = @ \cup {m}, !.last = msg[m].ts]
           c == [trips[t] EXCEPT !.open = FALSE]
<1>3. /\ y \in Trip /\ y.driver = trips[t].driver /\ y.vehicle = trips[t].vehicle
      /\ y.points = trips[t].points /\ y.meta = trips[t].meta \cup {m}
      /\ z \in Trip /\ z.driver = trips[t].driver /\ z.vehicle = trips[t].vehicle
      /\ z.points = trips[t].points \cup {m} /\ z.meta = trips[t].meta
  <2> DEFINE x == trips[t]
             ts == msg[m].ts
  <2>1. x \in Trip /\ ts \in Times
    BY <1>2
  <2> HIDE DEF x, ts
  <2>2. LET y0 == [x EXCEPT !.meta = @ \cup {m}]
            z0 == [x EXCEPT !.points = @ \cup {m}, !.last = ts]
        IN /\ y0 \in Trip /\ y0.driver = x.driver /\ y0.vehicle = x.vehicle
           /\ y0.points = x.points /\ y0.meta = x.meta \cup {m}
           /\ z0 \in Trip /\ z0.driver = x.driver /\ z0.vehicle = x.vehicle
           /\ z0.points = x.points \cup {m} /\ z0.meta = x.meta
    BY <2>1, TripTakes
  <2> QED
    BY <2>2 DEF x, ts
<1>4. /\ c \in Trip /\ c.driver = trips[t].driver /\ c.vehicle = trips[t].vehicle
      /\ c.points = trips[t].points /\ c.meta = trips[t].meta
  BY <1>2, Closes
<1>5. CASE UNCHANGED trips /\ ~ FinishForeign(m)
  <2>1. trips' = trips /\ Stored' = Stored
    BY <1>5 DEF Stored
  <2>2. Holds(t, m)
    BY <2>1 DEF Holds
  <2>3. trips' \in [TripIds -> Trip \cup {None}]
    BY <1>1, <2>1
  <2>4. \A u \in Stored : trips'[u] = trips[u]
    BY <2>1
  <2> QED
    BY <1>5, <2>1, <2>2, <2>3, <2>4
<1>6. ASSUME NEW w \in Trip, trips' = [trips EXCEPT ![t] = w],
              w.driver = trips[t].driver, w.vehicle = trips[t].vehicle
       PROVE  /\ trips' \in [TripIds -> Trip \cup {None}]
              /\ trips'[t] = w /\ Stored' = Stored
              /\ \A u \in Stored : /\ trips'[u].driver = trips[u].driver
                                    /\ trips'[u].vehicle = trips[u].vehicle
              /\ \A u \in Stored \ {t} : trips'[u] = trips[u]
  <2>1. /\ trips' \in [TripIds -> Trip \cup {None}]
        /\ trips'[t] = w /\ \A u \in TripIds \ {t} : trips'[u] = trips[u]
        /\ Stored' = Stored
        /\ \A u \in Stored : /\ trips'[u].driver = trips[u].driver
                              /\ trips'[u].vehicle = trips[u].vehicle
    BY <1>1, <1>2, <1>6, Updates
  <2>2. \A u \in Stored \ {t} : trips'[u] = trips[u]
    BY <2>1 DEF Stored
  <2> QED
    BY <2>1, <2>2
<1>7. CASE trips' = [trips EXCEPT ![t] = y] /\ ~ FinishForeign(m)
  <2> HIDE DEF y
  <2>1. y \in Trip /\ y.driver = trips[t].driver /\ y.vehicle = trips[t].vehicle
    BY <1>3
  <2>2. /\ trips' \in [TripIds -> Trip \cup {None}]
        /\ trips'[t] = y /\ Stored' = Stored
        /\ \A u \in Stored : /\ trips'[u].driver = trips[u].driver
                              /\ trips'[u].vehicle = trips[u].vehicle
        /\ \A u \in Stored \ {t} : trips'[u] = trips[u]
    BY <1>6, <1>7, <2>1
  <2>3. Holds(t, m)
    BY <1>3, <2>2 DEF Holds
  <2> QED
    BY <1>7, <2>2, <2>3
<1>8. CASE trips' = [trips EXCEPT ![t] = z] /\ ~ FinishForeign(m)
  <2> HIDE DEF z
  <2>1. z \in Trip /\ z.driver = trips[t].driver /\ z.vehicle = trips[t].vehicle
    BY <1>3
  <2>2. /\ trips' \in [TripIds -> Trip \cup {None}]
        /\ trips'[t] = z /\ Stored' = Stored
        /\ \A u \in Stored : /\ trips'[u].driver = trips[u].driver
                              /\ trips'[u].vehicle = trips[u].vehicle
        /\ \A u \in Stored \ {t} : trips'[u] = trips[u]
    BY <1>6, <1>8, <2>1
  <2>3. Holds(t, m)
    BY <1>3, <2>2 DEF Holds
  <2> QED
    BY <1>8, <2>2, <2>3
<1>9. CASE trips' = [trips EXCEPT ![t] = c] /\ FinishForeign(m)
  <2> HIDE DEF c
  <2>1. c \in Trip /\ c.driver = trips[t].driver /\ c.vehicle = trips[t].vehicle
    BY <1>4
  <2>2. /\ trips' \in [TripIds -> Trip \cup {None}]
        /\ trips'[t] = c /\ Stored' = Stored
        /\ \A u \in Stored : /\ trips'[u].driver = trips[u].driver
                              /\ trips'[u].vehicle = trips[u].vehicle
        /\ \A u \in Stored \ {t} : trips'[u] = trips[u]
    BY <1>6, <1>9, <2>1
  <2>3. Holds(t, m)
    BY <1>4, <2>2 DEF Holds
  <2>4. Unmoved(t)
    BY <1>4, <2>2 DEF Unmoved
  <2> QED
    BY <1>9, <2>2, <2>3, <2>4
<1>10. CASE AddMeta(m)
  <2>1. ~ FinishForeign(m)
    BY <1>10 DEF AddMeta, FinishForeign, At
  <2>2. UNCHANGED trips \/ trips' = [trips EXCEPT ![t] = y]
    BY <1>10 DEF AddMeta
  <2> HIDE DEF y, z, c
  <2> QED
    BY <1>5, <1>7, <2>1, <2>2
<1>11. CASE FinishForeign(m)
  <2>1. trips' = [trips EXCEPT ![t] = c]
    BY <1>11 DEF FinishForeign
  <2> HIDE DEF y, z, c
  <2> QED
    BY <1>9, <1>11, <2>1
<1>12. CASE AddPoint(m)
  <2>1. ~ FinishForeign(m)
    BY <1>12 DEF AddPoint, FinishForeign, At
  <2>2. UNCHANGED trips \/ trips' = [trips EXCEPT ![t] = z]
    BY <1>12 DEF AddPoint
  <2> HIDE DEF y, z, c
  <2> QED
    BY <1>5, <1>8, <2>1, <2>2
<1> QED
  BY <1>10, <1>11, <1>12

\* No trip is lost, and none changes hands.
LEMMA TripsStay ==
    ASSUME Typed, NEW m \in Messages, Handle(m)
    PROVE  /\ trips' \in [TripIds -> Trip \cup {None}]
           /\ Stored \subseteq Stored'
           /\ ~ StartTrip(m) => Stored' = Stored
           /\ \A u \in Stored : /\ trips'[u].driver = trips[u].driver
                                 /\ trips'[u].vehicle = trips[u].vehicle
<1>1. CASE UNCHANGED trips
  BY <1>1 DEF Typed, TypeOK, Stored
<1>2. CASE StartTrip(m)
  BY <1>2, StartMoves DEF Unmoved
<1>3. CASE AddMeta(m) \/ FinishForeign(m) \/ AddPoint(m)
  BY <1>3, AddsOwn
<1> QED
  BY <1>1, <1>2, <1>3 DEF Handle, Ignite, Count, FindMeta, Archive, Load, Save, Locate, FindTrip,
     tables

\* A handler past the start of its trip will not start another.
LEMMA AbleShrinks ==
    ASSUME Typed, NEW m \in Messages, Handle(m)
    PROVE  Able' \subseteq Able /\ (StartTrip(m) => Able' \subseteq Able \ {m})
<1>1. PICK pc \in Pcs : Moves(m, pc)
  BY HandleMoves
<1>2. \A n \in Messages \ {m} : msg'[n] = msg[n]
  BY <1>1 DEF Moves
<1>3. CASE StartTrip(m)
  <2>1. msg'[m].pc = "add" /\ At(m, "start")
    BY <1>3, StartMoves DEF Moves, StartTrip
  <2> QED
    BY <1>2, <2>1 DEF Able, Ends, At
<1>4. CASE AddPoint(m)
  <2>1. Moves(m, "done") \/ Moves(m, "failed")
    BY <1>4, GotoMoves DEF AddPoint, Typed, TypeOK, Pcs
  <2>2. msg'[m].pc \in Ends
    BY <2>1 DEF Moves, Ends
  <2> QED
    BY <1>2, <1>4, <2>2 DEF Able, StartTrip, AddPoint, At
<1>5. CASE ~ StartTrip(m) /\ ~ AddPoint(m)
  <2>1. msg[m].pc \notin Ends
    BY <1>5 DEF Handle, Ignite, Count, FindMeta, AddMeta, Archive, Load, Save, Locate, FindTrip,
       FinishForeign, At, Ends
  <2> QED
    BY <1>2, <1>5, <2>1 DEF Able
<1> QED
  BY <1>3, <1>4, <1>5

\* Where no trip starts the keys last.
LEMMA KeysStay ==
    ASSUME Typed, Stored' = Stored, Able' \subseteq Able
    PROVE  KeysOK'
<1>1. Cardinality(Able') <= Cardinality(Able)
  BY Fewer DEF Able
<1>2. /\ Cardinality(Stored) \in Nat /\ Cardinality(Able) \in Nat
      /\ Cardinality(Able') \in Nat
  BY Finite DEF Able, Stored, TripIds, Messages
<1> QED
  BY <1>1, <1>2, BoundsAssumption DEF KeysOK, Typed

\* A trip that starts takes the next key from one that will need none.
LEMMA HandleKeys ==
    ASSUME Typed, NEW m \in Messages, Handle(m)
    PROVE  KeysOK'
<1>1. /\ Stored \in SUBSET Messages /\ Able \in SUBSET Messages
      /\ Stored' \in SUBSET Messages /\ Able' \in SUBSET Messages
  BY DEF Stored, Able, TripIds, Messages
<1>2. /\ Cardinality(Stored) \in Nat /\ Cardinality(Able) \in Nat
      /\ Cardinality(Stored') \in Nat /\ Cardinality(Able') \in Nat
      /\ IsFiniteSet(Stored) /\ IsFiniteSet(Able)
  BY <1>1, Finite
<1>3. CASE ~ StartTrip(m) \/ Stored' = Stored
  BY <1>3, TripsStay, AbleShrinks, KeysStay
<1>4. CASE StartTrip(m) /\ Stored' # Stored
  <2>1. m \in Able
    BY <1>4 DEF StartTrip, Able, Ends, At
  <2>2. Cardinality(Able') < Cardinality(Able)
    <3>1. Able' \subseteq Able \ {m}
      BY <1>4, AbleShrinks
    <3>2. Cardinality(Able \ {m}) = Cardinality(Able) - 1
      BY <1>2, <2>1, FS_RemoveElement
    <3>3. Cardinality(Able') <= Cardinality(Able \ {m})
      BY <1>1, <3>1, Fewer
    <3> QED
      BY <1>2, <3>2, <3>3
  <2>3. Stored' = Stored \cup {Cardinality(Stored) + 1} /\ Cardinality(Stored) + 1 \notin Stored
    <3>1. Cardinality(Stored) + 1 \notin Stored
      BY <2>1, NextKey DEF Typed
    <3>2. PICK t \in TripIds : /\ Stored' = Stored \cup {t}
                               /\ t \in Stored \/ t = Cardinality(Stored) + 1
      BY <1>4, StartMoves
    <3> QED
      BY <1>4, <3>1, <3>2
  <2>4. Cardinality(Stored') = Cardinality(Stored) + 1
    BY <1>2, <2>3, FS_AddElement
  <2>5. Stored' = 1..Cardinality(Stored')
    <3> DEFINE k == Cardinality(Stored)
    <3>1. Stored = 1..k /\ Stored' = Stored \cup {k + 1} /\ Cardinality(Stored') = k + 1 /\ k \in Nat
      BY <1>2, <2>3, <2>4 DEF KeysOK, Typed
    <3> HIDE DEF k
    <3> QED
      BY <3>1
  <2> QED
    BY <1>2, <2>2, <2>4, <2>5, BoundsAssumption DEF KeysOK, Typed
<1> QED
  BY <1>3, <1>4

\* A row that is written is a row.
RowSet == [ign : {"on", "off"}, changed : Times \cup {None}, acc : Nat,
           place : Messages \cup {None}]
\* What is written back to the row of a message's vehicle.
LEMMA CountWrites ==
    ASSUME Typed, NEW m \in Messages, Count(m)
    PROVE  LET v == msg[m].vehicle
           IN /\ v \in Vehicles
              /\ row' \in [Vehicles -> RowSet]
              /\ row'[v].ign = msg[m].ign /\ row'[v].changed = msg[m].ts
              /\ row'[v].acc = msg[m].acc + Increment(msg[m])
              /\ \A u \in Vehicles \ {v} : row'[u] = row[u]
<1> DEFINE v == msg[m].vehicle
           acc == msg[m].acc + Increment(msg[m])
           r == [row[v] EXCEPT !.ign = msg[m].ign, !.changed = msg[m].ts, !.acc = acc]
<1>1. /\ msg[m] \in Msg /\ v \in Vehicles /\ msg[m].ign \in {"on", "off"}
      /\ row \in [Vehicles -> RowSet]
  <2>1. msg[m] \in Msg /\ MsgOK(msg[m], Stored) /\ row \in [Vehicles -> RowSet]
    BY DEF Typed, TypeOK, MsgsOK, RowSet
  <2> QED
    BY <2>1 DEF MsgOK, Count, At, Msg
<1>2. acc \in Nat /\ msg[m].ts \in Times
  <2>1. msg[m].acc \in Nat /\ msg[m].ts \in Times
    BY <1>1 DEF Msg
  <2>2. Increment(msg[m]) \in Nat
    BY <1>1, Increments
  <2> QED
    BY <2>1, <2>2
<1>3. row' = [row EXCEPT ![v] = r]
  BY DEF Count
<1> HIDE DEF acc
<1>4. r \in RowSet
  BY ZenonT(60), <1>1, <1>2 DEF RowSet
<1>5. r.ign = msg[m].ign /\ r.changed = msg[m].ts /\ r.acc = acc
  BY <1>1 DEF RowSet
<1> HIDE DEF r, v
<1>6. row' \in [Vehicles -> RowSet] /\ row'[v] = r /\ \A u \in Vehicles \ {v} : row'[u] = row[u]
  BY <1>1, <1>3, <1>4
<1> QED
  BY <1>1, <1>5, <1>6 DEF acc, v

\* A position changes nothing of what the ignition is counted by.
LEMMA LocateWrites ==
    ASSUME Typed, NEW m \in Messages, Locate(m)
    PROVE  /\ row' \in [Vehicles -> RowSet]
           /\ \A u \in Vehicles : /\ row'[u].ign = row[u].ign
                                   /\ row'[u].changed = row[u].changed
                                   /\ row'[u].acc = row[u].acc
<1> DEFINE v == msg[m].vehicle
           r == [row[v] EXCEPT !.place = m]
<1>1. v \in Vehicles /\ row \in [Vehicles -> RowSet]
  BY DEF Typed, TypeOK, MsgsOK, MsgOK, RowSet, Locate, At
<1>2. row' = [row EXCEPT ![v] = r]
  BY DEF Locate
<1>3. row[v] \in RowSet
  BY <1>1
<1>4. r \in RowSet
  BY <1>3 DEF RowSet
<1>5. r.ign = row[v].ign /\ r.changed = row[v].changed /\ r.acc = row[v].acc
  BY <1>3 DEF RowSet
<1> HIDE DEF r, v
<1>6. row' \in [Vehicles -> RowSet] /\ row'[v] = r /\ \A u \in Vehicles \ {v} : row'[u] = row[u]
  BY <1>1, <1>2, <1>4
<1> QED
  BY <1>5, <1>6

\* A saved track is a set of messages.
LEMMA SaveWrites ==
    ASSUME Typed, NEW m \in Messages, Save(m)
    PROVE  /\ TrackOf(m) \in Vehicles \X Days
           /\ track' \in [Vehicles \X Days -> (SUBSET Messages) \cup {None}]
           /\ \A k \in (Vehicles \X Days) \ {TrackOf(m)} : track'[k] = track[k]
           /\ \/ /\ msg[m].fresh /\ track[TrackOf(m)] # None
                 /\ track' = track /\ Moves(m, "failed")
              \/ /\ track'[TrackOf(m)] = msg[m].copy /\ msg[m].copy # None
                 /\ Moves(m, "locate")
<1> DEFINE k == TrackOf(m)
<1>1. /\ msg \in [Messages -> Msg] /\ msg[m].vehicle \in Vehicles
      /\ track \in [Vehicles \X Days -> (SUBSET Messages) \cup {None}]
  BY DEF Typed, TypeOK, MsgsOK, MsgOK, Save, At
<1>2. k \in Vehicles \X Days
  BY <1>1, Tracks DEF Typed
<1>3. msg[m].copy \in SUBSET Messages /\ msg[m].copy # None
  BY <1>1, NullAssumption DEF Msg
<1>4. CASE msg[m].fresh /\ track[k] # None
  <2>1. Goto(m, "failed") /\ track' = track
    BY <1>4 DEF Save
  <2>2. Moves(m, "failed")
    BY <1>1, <2>1, GotoMoves DEF Pcs
  <2> QED
    BY <1>1, <1>2, <1>4, <2>1, <2>2
<1>5. CASE ~ (msg[m].fresh /\ track[k] # None)
  <2>1. Goto(m, "locate") /\ track' = [track EXCEPT ![k] = msg[m].copy]
    BY <1>5 DEF Save
  <2>2. Moves(m, "locate")
    BY <1>1, <2>1, GotoMoves DEF Pcs
  <2> HIDE DEF k
  <2>3. /\ track' \in [Vehicles \X Days -> (SUBSET Messages) \cup {None}]
        /\ track'[k] = msg[m].copy /\ \A j \in (Vehicles \X Days) \ {k} : track'[j] = track[j]
    BY <1>1, <1>2, <1>3, <2>1
  <2> QED
    BY <1>2, <1>3, <2>2, <2>3 DEF k
<1> QED
  BY <1>4, <1>5

\* The tables and the history keep their types.
LEMMA HandleTypes ==
    ASSUME Typed, NEW m \in Messages, Handle(m)
    PROVE  TypeOK'
<1>1. msg' \in [Messages -> Msg]
  BY HandleMoves DEF Moves
<1>2. trips' \in [TripIds -> Trip \cup {None}]
  BY TripsStay
<1> USE DEF Typed, TypeOK, tables, history
<1>3. now' \in Times /\ stops' \in 0..MaxStops /\ out' \in Seq(Messages)
  BY DEF Handle, Ignite, Count, FindMeta, AddMeta, Archive, Load, Save, Locate, FindTrip,
     FinishForeign, StartTrip, AddPoint
<1>4. row' \in [Vehicles -> RowSet]
  <2>1. CASE UNCHANGED row
    BY <2>1 DEF RowSet
  <2> QED
    BY <2>1, CountWrites, LocateWrites DEF Handle, Ignite, FindMeta, AddMeta, Archive, Load, Save,
       FindTrip, FinishForeign, StartTrip, AddPoint
<1>5. track' \in [Vehicles \X Days -> (SUBSET Messages) \cup {None}]
  <2>1. CASE UNCHANGED track
    BY <2>1
  <2> QED
    BY <2>1, SaveWrites DEF Handle, Ignite, Count, FindMeta, AddMeta, Archive, Load, Locate,
       FindTrip, FinishForeign, StartTrip, AddPoint
<1>6. positions' \subseteq Messages
  BY DEF Handle, Ignite, Count, FindMeta, AddMeta, Archive, Load, Save, Locate, FindTrip,
     FinishForeign, StartTrip, AddPoint
<1>7. raced' \subseteq Messages
  BY DEF Handle, Ignite, Count, FindMeta, AddMeta, Archive, Load, Save, Locate, FindTrip,
     FinishForeign, StartTrip, AddPoint
<1>8. mixed' \subseteq Vehicles /\ applied' \in [Vehicles -> Seq(Messages)]
  <2>1. CASE UNCHANGED <<mixed, applied>>
    BY <2>1
  <2>2. CASE Count(m)
    <3> DEFINE v == msg[m].vehicle
    <3>1. v \in Vehicles
      BY <2>2, CountWrites
    <3>2. applied' = [applied EXCEPT ![v] = Append(applied[v], m)] /\ mixed' \subseteq mixed \cup {v}
      BY <2>2 DEF Count
    <3> HIDE DEF v
    <3>3. Append(applied[v], m) \in Seq(Messages)
      BY <3>1
    <3> QED
      BY <3>1, <3>2, <3>3
  <2> QED
    BY <2>1, <2>2 DEF Handle, Ignite, FindMeta, AddMeta, Archive, Load, Save, Locate, FindTrip,
       FinishForeign, StartTrip, AddPoint
<1> QED
  BY <1>1, <1>2, <1>3, <1>4, <1>5, <1>6, <1>7, <1>8 DEF RowSet

\* Every step leaves its message knowing what the next one needs.
LEMMA HandleKnows ==
    ASSUME Typed, NEW m \in Messages, Handle(m)
    PROVE  MsgsOK'
<1>1. /\ msg \in [Messages -> Msg] /\ MsgOK(msg[m], Stored) /\ msg[m] \in Msg
      /\ \A n \in Messages : MsgOK(msg[n], Stored)
      /\ Stored \subseteq Stored'
  BY TripsStay DEF Typed, TypeOK, MsgsOK
<1>2. PICK p \in Pcs : Moves(m, p)
  BY HandleMoves
<1>3. Same(msg[m], msg'[m]) /\ \A n \in Messages \ {m} : msg'[n] = msg[n]
  BY <1>2 DEF Moves
<1>4. \A n \in Messages \ {m} : MsgOK(msg'[n], Stored')
  BY <1>1, <1>3 DEF MsgOK
<1>5. msg'[m].vehicle \in Vehicles
  <2>1. msg[m].pc # "unsent"
    BY HandleMoves DEF Running
  <2> QED
    BY <1>1, <1>3, <2>1 DEF MsgOK, Same
<1>6. SUFFICES MsgOK(msg'[m], Stored')
  BY <1>4 DEF MsgsOK
<1>7. CASE Ignite(m)
  <2>1. msg'[m].pc = "count" /\ msg[m].pc = "ignite"
    BY <1>7, IgniteMoves DEF Moves, Ignite, At, Typed
  <2> QED
    BY <1>1, <1>3, <1>5, <2>1 DEF MsgOK, Same
<1>8. ASSUME NEW pc \in {"find meta", "archive", "load", "done", "failed", "locate", "save"},
             Moves(m, pc)
      PROVE  MsgOK(msg'[m], Stored')
  BY <1>5, <1>8 DEF MsgOK, Moves
<1>9. CASE Count(m)
  BY <1>1, <1>8, <1>9, GotoMoves DEF Count, Pcs
<1>10. AfterTelemetry(m) \in {"archive", "done"}
  BY DEF AfterTelemetry
<1>11. CASE FindMeta(m)
  <2>1. CASE Goto(m, AfterTelemetry(m))
    BY <1>1, <1>8, <1>10, <2>1, GotoMoves DEF Pcs
  <2>2. CASE \E t \in Stored : msg' = [msg EXCEPT ![m].pc = "add meta", ![m].trip = t]
    <3>1. PICK t \in Stored : msg' = [msg EXCEPT ![m].pc = "add meta", ![m].trip = t]
      BY <2>2
    <3>2. t \in TripIds /\ "add meta" \in Pcs
      BY DEF Stored, Pcs
    <3>3. Moves(m, "add meta") /\ msg'[m].trip = t
      BY <1>1, <3>1, <3>2, TripMoves
    <3> QED
      BY <1>1, <1>5, <3>3 DEF MsgOK, Moves
  <2> QED
    BY <1>11, <2>1, <2>2 DEF FindMeta, ActiveTrip
<1>12. CASE AddMeta(m)
  BY <1>1, <1>8, <1>10, <1>12, GotoMoves DEF AddMeta, Pcs
<1>13. CASE Archive(m)
  BY <1>1, <1>8, <1>13, GotoMoves DEF Archive, Pcs
<1>14. CASE Load(m)
  BY <1>8, <1>14, LoadMoves DEF Typed
<1>15. CASE Save(m)
  BY <1>8, <1>15, SaveWrites
<1>16. CASE Locate(m)
  <2>1. CASE Goto(m, "done")
    BY <1>1, <1>8, <2>1, GotoMoves DEF Pcs
  <2>2. CASE Goto(m, "find trip") /\ DriverAt(msg[m].vehicle, msg[m].ts) # None
    <3>1. msg'[m].pc = "find trip"
      BY <1>1, <2>2, GotoMoves DEF Pcs, Moves
    <3> QED
      BY <1>3, <1>5, <2>2, <3>1 DEF MsgOK, Same
  <2> QED
    BY <1>16, <2>1, <2>2 DEF Locate
<1>17. ASSUME Moves(m, "start"), msg[m].pc \in {"find trip", "finish"}
       PROVE  MsgOK(msg'[m], Stored')
  BY <1>1, <1>5, <1>17 DEF MsgOK, Moves, Same
<1>18. CASE FindTrip(m)
  <2>1. msg[m].pc = "find trip" /\ DriverAt(msg[m].vehicle, msg[m].ts) # None
    BY <1>1, <1>18 DEF FindTrip, At, MsgOK
  <2>2. CASE Goto(m, "start")
    BY <1>1, <1>17, <2>1, <2>2, GotoMoves DEF Pcs
  <2>3. CASE \E t \in Stored : msg' = [msg EXCEPT ![m].pc = WhereTo(m, t), ![m].trip = t]
    <3>1. PICK t \in Stored : msg' = [msg EXCEPT ![m].pc = WhereTo(m, t), ![m].trip = t]
      BY <2>3
    <3>2. t \in TripIds /\ WhereTo(m, t) \in Pcs
      BY DEF Stored, Pcs, WhereTo
    <3>3. Moves(m, WhereTo(m, t)) /\ msg'[m].trip = t
      BY <1>1, <3>1, <3>2, TripMoves
    <3>4. msg'[m].pc \in {"add", "finish"}
      BY <3>3 DEF Moves, WhereTo
    <3> QED
      BY <1>1, <1>3, <1>5, <2>1, <3>3, <3>4 DEF MsgOK, Same
  <2> QED
    BY <1>18, <2>2, <2>3 DEF FindTrip, ActiveTrip
<1>19. CASE FinishForeign(m)
  BY <1>1, <1>17, <1>19, GotoMoves DEF FinishForeign, At, Pcs
<1>20. CASE StartTrip(m)
  <2>1. msg[m].pc = "start" /\ DriverAt(msg[m].vehicle, msg[m].ts) # None
    BY <1>1, <1>20 DEF StartTrip, At, MsgOK
  <2>2. PICK t \in TripIds : Moves(m, "add") /\ msg'[m].trip = t /\ Stored' = Stored \cup {t}
    BY <1>20, StartMoves
  <2> QED
    BY <1>3, <1>5, <2>1, <2>2 DEF MsgOK, Moves, Same
<1>21. CASE AddPoint(m)
  BY <1>1, <1>8, <1>21, GotoMoves DEF AddPoint, Pcs
<1> QED
  BY <1>7, <1>9, <1>11, <1>12, <1>13, <1>14, <1>15, <1>16, <1>18, <1>19, <1>20, <1>21 DEF Handle

------------------------------------------------------------------------------
(* The buffer.                                                             *)

\* The clamp keeps a stamp within the clocks' bounds.
LEMMA ClampIsTime ==
    ASSUME now \in Times, NEW stamp \in 0..MaxStamp
    PROVE  Clamp(stamp) \in Times
  BY BoundsAssumption DEF Clamp, Times

\* The buffer of f with the messages ms gone.
LEMMA HandsOver ==
    ASSUME NEW f \in [Messages -> Msg], NEW ms \in SUBSET Messages, out \in Seq(Messages),
           HandOver(f, ms)
    PROVE  /\ msg' \in [Messages -> Msg]
           /\ \A n \in Messages : Same(f[n], msg'[n])
           /\ \A n \in ms : msg'[n].pc = FirstStep(f[n])
           /\ \A n \in Messages \ ms : msg'[n] = f[n]
           /\ \E s \in Orders(f, ms) : s \in Seq(ms) /\ out' = out \o s
           /\ out' \in Seq(Messages)
<1>1. \A n \in ms : msg'[n] = [f[n] EXCEPT !.pc = FirstStep(f[n])]
  BY DEF HandOver
<1>2. \A n \in Messages \ ms : msg'[n] = f[n]
  BY DEF HandOver
<1>3. ASSUME NEW n \in ms
      PROVE  msg'[n] \in Msg /\ Same(f[n], msg'[n]) /\ msg'[n].pc = FirstStep(f[n])
  <2>1. f[n] \in Msg /\ FirstStep(f[n]) \in {"ignite", "archive"}
    BY DEF FirstStep
  <2>2. msg'[n] = [f[n] EXCEPT !.pc = FirstStep(f[n])]
    BY <1>1
  <2>3. msg'[n] \in Msg
    BY <2>1, <2>2 DEF Msg
  <2>4. Same(f[n], msg'[n]) /\ msg'[n].pc = FirstStep(f[n])
    BY <2>1, <2>2 DEF Msg, Same
  <2> QED
    BY <2>3, <2>4
<1>4. \A n \in Messages : msg'[n] \in Msg /\ Same(f[n], msg'[n])
  BY <1>2, <1>3 DEF Same
<1>5. msg' = [n \in Messages |-> msg'[n]]
  BY DEF HandOver
<1>6. msg' \in [Messages -> Msg]
  BY <1>4, <1>5
<1>7. PICK s \in Orders(f, ms) : out' = out \o s
  BY DEF HandOver
<1>8. s \in Seq(ms) /\ s \in Seq(Messages)
  <2>1. s \in [1..Cardinality(ms) -> ms] /\ Cardinality(ms) \in Nat
    BY Finite DEF Orders
  <2> QED
    BY <2>1
<1>9. out' \in Seq(Messages)
  BY <1>7, <1>8
<1> QED
  BY <1>2, <1>3, <1>4, <1>6, <1>7, <1>8, <1>9

\* What push() lets go is due, or it is all there is of the vehicle.
Lets(f, v, ms) ==
    \/ ms = Held(f, v)
    \/ (\A n \in ms : IsDue(f[n])) /\ \A n \in Held(f, v) \ ms : ~ IsDue(f[n])

\* The message m of vehicle v has come in f.
Arrives(f, m, v) ==
    /\ f \in [Messages -> Msg]
    /\ f[m].vehicle = v /\ f[m].pc = "buffered" /\ f[m].seen = Len(out)
    /\ \A n \in Messages \ {m} : f[n] = msg[n]

\* push(): the message is in the buffer, and what is due or a full batch goes from there.
LEMMA ReceiveDoes ==
    ASSUME Typed, NEW m \in Messages, NEW v \in Vehicles, NEW stamp \in 0..MaxStamp,
           NEW c \in Contents, Receive(m, v, stamp, c)
    PROVE  \E f, ms : /\ Arrives(f, m, v) /\ ms \in SUBSET Held(f, v) /\ Lets(f, v, ms)
                      /\ HandOver(f, ms)
<1> DEFINE x == [Unsent EXCEPT !.vehicle = v, !.ts = Clamp(stamp), !.ign = c.ign, !.pos = c.pos,
                               !.pc = "buffered", !.seen = Len(out)]
           f == [msg EXCEPT ![m] = x]
           kept == {n \in Held(f, v) : ~ IsDue(f[n])}
           ms == IF Cardinality(kept) >= MaxBatch THEN Held(f, v) ELSE Held(f, v) \ kept
<1>1. HandOver(f, ms)
  BY DEF Receive
<1>2. /\ c.ign \in {"on", "off", "none"} /\ c.pos \in BOOLEAN
      /\ Clamp(stamp) \in Times /\ Len(out) \in Nat
  <2>1. c \in [ign : {"on", "off", "none"}, pos : BOOLEAN]
    BY ContentsAssumption
  <2>2. now \in Times /\ out \in Seq(Messages)
    BY DEF Typed, TypeOK
  <2> QED
    BY <2>1, <2>2, ClampIsTime
<1>3. Unsent \in Msg
  <2>1. 0 \in Times
    BY BoundsAssumption DEF Times
  <2> QED
    BY <2>1 DEF Unsent, Msg
<1>4. x \in Msg
  BY <1>2, <1>3 DEF Msg
<1>5. x.vehicle = v /\ x.pc = "buffered" /\ x.seen = Len(out)
  BY <1>3 DEF Msg
<1>6. Arrives(f, m, v)
  <2> HIDE DEF x
  <2> QED
    BY <1>4, <1>5 DEF Typed, TypeOK, Arrives
<1> HIDE DEF f
<1>7. ms \in SUBSET Held(f, v) /\ Lets(f, v, ms)
  BY DEF Lets
<1> HIDE DEF ms
<1> QED
  BY <1>1, <1>6, <1>7

\* No message is sent back to be a client's, and those that go on are in no trip yet.
LEMMA ReceiveTypes ==
    ASSUME Typed, NEW m \in Messages, NEW v \in Vehicles, NEW stamp \in 0..MaxStamp,
           NEW c \in Contents, Receive(m, v, stamp, c)
    PROVE  Typed'
<1>1. PICK f, ms : /\ Arrives(f, m, v) /\ ms \in SUBSET Held(f, v) /\ Lets(f, v, ms)
                   /\ HandOver(f, ms)
  BY ReceiveDoes
<1>2. /\ f \in [Messages -> Msg] /\ ms \in SUBSET Messages /\ \A n \in ms : f[n].pc = "buffered"
      /\ out \in Seq(Messages)
  BY <1>1 DEF Arrives, Held, Typed, TypeOK
<1>3. /\ msg' \in [Messages -> Msg] /\ out' \in Seq(Messages)
      /\ \A n \in Messages : Same(f[n], msg'[n])
      /\ \A n \in ms : msg'[n].pc = FirstStep(f[n])
      /\ \A n \in Messages \ ms : msg'[n] = f[n]
  BY <1>1, <1>2, HandsOver
<1>4. UNCHANGED <<now, stops, row, track, positions, trips, applied, mixed, raced>>
  BY <1>1 DEF HandOver, tables, history
<1>5. TypeOK'
  BY <1>3, <1>4 DEF Typed, TypeOK
<1>6. Stored' = Stored
  BY <1>4 DEF Stored
<1>7. \A n \in Messages : MsgOK(f[n], Stored)
  BY <1>1 DEF Arrives, Typed, MsgsOK, MsgOK
<1>8. \A n \in ms : MsgOK(msg'[n], Stored)
  BY ZenonT(60), <1>2, <1>3, <1>7 DEF MsgOK, Same, FirstStep
<1>9. MsgsOK'
  BY <1>3, <1>6, <1>7, <1>8 DEF MsgsOK
<1>10. Able' \subseteq Able
  <2>1. msg[m].pc \notin Ends
    BY DEF Receive, At, Ends
  <2>2. \A n \in ms \ {m} : msg[n].pc \notin Ends
    BY <1>1, <1>2 DEF Arrives, Ends
  <2>3. \A n \in Messages \ (ms \cup {m}) : msg'[n] = msg[n]
    BY <1>1, <1>3 DEF Arrives
  <2> QED
    BY <2>1, <2>2, <2>3 DEF Able
<1>11. KeysOK'
  BY <1>6, <1>10, KeysStay
<1> QED
  BY <1>5, <1>9, <1>11 DEF Typed

\* What the interval hands over is what it was.
LEMMA FlushTypes ==
    ASSUME Typed, FlushDue
    PROVE  Typed'
<1> DEFINE ms == DueNow
<1>1. /\ msg \in [Messages -> Msg] /\ ms \in SUBSET Messages
      /\ out \in Seq(Messages) /\ \A n \in ms : msg[n].pc = "buffered"
  BY DEF Typed, TypeOK, DueNow, At
<1>2. HandOver(msg, ms)
  BY DEF FlushDue
<1> HIDE DEF ms
<1>3. /\ msg' \in [Messages -> Msg] /\ out' \in Seq(Messages)
      /\ \A n \in Messages : Same(msg[n], msg'[n])
      /\ \A n \in ms : msg'[n].pc = FirstStep(msg[n])
      /\ \A n \in Messages \ ms : msg'[n] = msg[n]
  BY <1>1, <1>2, HandsOver
<1>4. UNCHANGED <<now, stops, row, track, positions, trips, applied, mixed, raced>>
  BY <1>2 DEF HandOver, tables, history
<1>5. TypeOK'
  BY <1>3, <1>4 DEF Typed, TypeOK
<1>6. Stored' = Stored
  BY <1>4 DEF Stored
<1>7. \A n \in Messages : MsgOK(msg[n], Stored)
  BY DEF Typed, MsgsOK
<1>8. \A n \in ms : MsgOK(msg'[n], Stored)
  BY <1>1, <1>3, <1>7 DEF MsgOK, Same, FirstStep
<1>9. MsgsOK'
  BY <1>3, <1>6, <1>7, <1>8 DEF MsgsOK
<1>10. Able' \subseteq Able
  BY <1>1, <1>3 DEF Able, Ends
<1>11. KeysOK'
  BY <1>6, <1>10, KeysStay
<1> QED
  BY <1>5, <1>9, <1>11 DEF Typed

\* A restart loses what was on its way.
LEMMA StopDoes ==
    ASSUME Typed, Stop
    PROVE  /\ msg' \in [Messages -> Msg]
           /\ \A n \in Messages : Same(msg[n], msg'[n]) /\ (msg'[n] = msg[n] \/ msg'[n].pc = "lost")
           /\ \A n \in Messages : msg'[n].pc \in {"unsent", "done", "failed", "lost"}
           /\ \A n \in Messages : msg'[n].pc # "lost" => msg'[n] = msg[n]
           /\ \A n \in Messages : msg[n].pc = "unsent" <=> msg'[n].pc = "unsent"
<1>1. ASSUME NEW n \in Messages
      PROVE  /\ msg'[n] \in Msg /\ Same(msg[n], msg'[n])
             /\ (msg'[n] = msg[n] \/ msg'[n].pc = "lost")
             /\ msg'[n].pc \in {"unsent", "done", "failed", "lost"}
             /\ (msg[n].pc = "unsent" <=> msg'[n].pc = "unsent")
  <2>1. msg[n] \in Msg /\ "lost" \in Pcs
    BY DEF Typed, TypeOK, Pcs
  <2>2. CASE At(n, "buffered") \/ Running(n)
    <3>1. msg'[n] = [Plain(msg[n]) EXCEPT !.pc = "lost"]
      BY <2>2 DEF Stop
    <3>2. msg'[n] \in Msg /\ Same(msg[n], msg'[n]) /\ msg'[n].pc = "lost"
      BY <2>1, <3>1, Plains
    <3> QED
      BY <2>2, <3>2 DEF At, Running
  <2>3. CASE ~ (At(n, "buffered") \/ Running(n))
    <3>1. msg'[n] = msg[n]
      BY <2>3 DEF Stop
    <3> QED
      BY <2>1, <2>3, <3>1 DEF At, Running, Same
  <2> QED
    BY <2>2, <2>3
<1>2. msg' = [n \in Messages |-> msg'[n]]
  BY DEF Stop
<1>3. msg' \in [Messages -> Msg]
  BY <1>1, <1>2
<1> QED
  BY <1>1, <1>3

\* What is left after a restart keeps its types.
LEMMA StopTypes ==
    ASSUME Typed, Stop
    PROVE  Typed'
<1>1. /\ msg' \in [Messages -> Msg]
      /\ \A n \in Messages : Same(msg[n], msg'[n]) /\ (msg'[n] = msg[n] \/ msg'[n].pc = "lost")
      /\ \A n \in Messages : msg[n].pc = "unsent" <=> msg'[n].pc = "unsent"
  BY StopDoes
<1>2. UNCHANGED <<now, out, row, track, positions, trips, applied, mixed, raced>>
  BY DEF Stop, tables, history
<1>3. stops' \in 0..MaxStops
  BY BoundsAssumption DEF Typed, TypeOK, Stop
<1>4. TypeOK'
  BY <1>1, <1>2, <1>3 DEF Typed, TypeOK
<1>5. Stored' = Stored
  BY <1>2 DEF Stored
<1>6. MsgsOK'
  <2>1. \A n \in Messages : MsgOK(msg[n], Stored)
    BY DEF Typed, MsgsOK
  <2>2. ASSUME NEW n \in Messages PROVE MsgOK(msg'[n], Stored)
    <3>1. CASE msg'[n] = msg[n]
      BY <2>1, <3>1
    <3>2. CASE msg'[n].pc = "lost" /\ msg'[n].vehicle \in Vehicles
      BY <3>2 DEF MsgOK
    <3>3. msg'[n].pc = "lost" => msg'[n].vehicle \in Vehicles
      BY <1>1, <2>1 DEF MsgOK, Same
    <3> QED
      BY <1>1, <3>1, <3>2, <3>3
  <2> QED
    BY <1>5, <2>2 DEF MsgsOK
<1>7. Able' \subseteq Able
  BY <1>1 DEF Able, Ends
<1> QED
  BY <1>4, <1>5, <1>6, <1>7, KeysStay DEF Typed

\* Time changes nothing but the clock.
LEMMA TickTypes ==
    ASSUME Typed, Tick
    PROVE  Typed'
<1>1. now' \in Times
  BY BoundsAssumption DEF Typed, TypeOK, Tick, Times
<1>2. UNCHANGED <<stops, msg, out, row, track, positions, trips, applied, mixed, raced>>
  BY DEF Tick, tables, history
<1> QED
  BY <1>1, <1>2 DEF Typed, TypeOK, MsgsOK, KeysOK, Stored, Able

\* At first there is no trip, and a key for every message.
LEMMA InitTypes == Init => Typed
<1> SUFFICES ASSUME Init PROVE Typed
  OBVIOUS
<1>1. 0 \in Times /\ 0 \in 0..MaxStops
  BY BoundsAssumption DEF Times
<1>2. Unsent \in Msg
  BY <1>1 DEF Unsent, Msg
<1>3. msg \in [Messages -> Msg] /\ row \in [Vehicles -> RowSet]
  BY <1>2 DEF Init, RowSet
<1>4. TypeOK
  BY <1>1, <1>3 DEF Init, TypeOK, RowSet
<1>5. MsgsOK
  BY DEF Init, MsgsOK, MsgOK, Unsent
<1>6. KeysOK
  <2>1. Stored = {}
    BY DEF Init, Stored
  <2>2. Cardinality(Stored) = 0
    BY <2>1, FS_EmptySet
  <2>3. Cardinality(Able) \in Nat /\ Cardinality(Able) <= MaxMessages
    BY Finite DEF Able
  <2> QED
    BY <2>1, <2>2, <2>3, BoundsAssumption DEF KeysOK
<1> QED
  BY <1>4, <1>5, <1>6 DEF Typed

\* Every step keeps the types.
LEMMA NextTypes == ASSUME Typed, [Next]_vars PROVE Typed'
<1>1. CASE FlushDue
  BY <1>1, FlushTypes
<1>2. CASE Stop
  BY <1>2, StopTypes
<1>3. CASE Tick
  BY <1>3, TickTypes
<1>4. CASE UNCHANGED vars
  BY <1>4 DEF vars, tables, history, Typed, TypeOK, MsgsOK, KeysOK, Stored, Able
<1>5. ASSUME NEW m \in Messages, NEW v \in Vehicles, NEW stamp \in 0..MaxStamp,
             NEW c \in Contents, Receive(m, v, stamp, c)
      PROVE  Typed'
  BY <1>5, ReceiveTypes
<1>6. ASSUME NEW m \in Messages, Handle(m) PROVE Typed'
  BY <1>6, HandleTypes, HandleKnows, HandleKeys DEF Typed
<1> QED
  BY <1>1, <1>2, <1>3, <1>4, <1>5, <1>6 DEF Next

\* The types hold in every state.
LEMMA TypesHold == Spec => []Typed
<1>1. Init => Typed
  BY InitTypes
<1>2. Typed /\ [Next]_vars => Typed'
  BY NextTypes
<1> QED
  BY <1>1, <1>2, PTL DEF Spec

\* TypeOK: messages, rows, tracks and trips keep their shape, whatever runs between two
\* awaits; a trip that starts finds a free key.
THEOREM TypeCorrect == Spec => []TypeOK
<1>1. Typed => TypeOK
  BY DEF Typed
<1> QED
  BY <1>1, TypesHold, PTL

------------------------------------------------------------------------------
(* The order in which messages leave.                                      *)

\* What is handed over leaves in order, and after all it should leave after.
LEMMA OrderKept ==
    ASSUME NEW f \in [Messages -> Msg], NEW ms \in SUBSET Messages, out \in Seq(Messages),
           HandOver(f, ms), LeftOK(f, out),
           \A k \in ms : f[k].pc = "buffered",
           \A n \in Messages \ ms, k \in ms :
               f[n].pc = "buffered" /\ f[n].vehicle = f[k].vehicle => ~ (f[n].ts < f[k].ts)
    PROVE  LeftOK(msg', out')
<1>1. /\ \A n \in Messages : Same(f[n], msg'[n])
      /\ \A n \in ms : msg'[n].pc = FirstStep(f[n])
      /\ \A n \in Messages \ ms : msg'[n] = f[n]
  BY HandsOver
<1>2. PICK s \in Orders(f, ms) : s \in Seq(ms) /\ out' = out \o s
  BY HandsOver
<1>3. \A i \in DOMAIN out' :
         \/ i \in DOMAIN out /\ out'[i] = out[i] /\ out[i] \in Messages
         \/ i - Len(out) \in DOMAIN s /\ out'[i] = s[i - Len(out)] /\ out'[i] \in ms /\ i > Len(out)
  <2>1. Len(out) \in Nat /\ DOMAIN out = 1..Len(out) /\ DOMAIN s = 1..Len(s) /\ Len(s) \in Nat
    BY <1>2
  <2>2. DOMAIN out' = 1..Len(out) + Len(s)
    BY <1>2, <2>1
  <2>3. \A i \in DOMAIN out : out'[i] = out[i] /\ out[i] \in Messages
    BY <1>2, <2>1
  <2>4. ASSUME NEW i \in DOMAIN out', i \notin DOMAIN out
        PROVE  i - Len(out) \in DOMAIN s /\ out'[i] = s[i - Len(out)] /\ i > Len(out)
    BY <1>2, <2>1, <2>2, <2>4
  <2>5. \A i \in DOMAIN s : s[i] \in ms
    BY <1>2
  <2> QED
    BY <2>3, <2>4, <2>5
<1>4. \A k, l \in DOMAIN s : k < l /\ f[s[k]].vehicle = f[s[l]].vehicle => f[s[k]].ts <= f[s[l]].ts
  BY <1>2 DEF Orders
<1>5. \A n \in Messages : f[n].ts \in Nat
  <2>1. Times \subseteq Nat
    BY BoundsAssumption DEF Times
  <2>2. \A n \in Messages : f[n].ts \in Times
    BY DEF Msg
  <2> QED
    BY <2>1, <2>2
<1>6. ASSUME NEW i \in DOMAIN out' PROVE msg'[out'[i]].pc \notin {"unsent", "buffered"}
  <2>1. CASE i \in DOMAIN out /\ out'[i] = out[i] /\ out[i] \in Messages
    BY <1>1, <2>1 DEF LeftOK
  <2>2. CASE out'[i] \in ms
    BY <1>1, <2>2 DEF FirstStep
  <2> QED
    BY <1>3, <2>1, <2>2
<1>7. ASSUME NEW n \in Messages, NEW i \in DOMAIN out', msg'[n].pc = "buffered"
      PROVE  Overtaken(msg'[out'[i]], msg'[n], i)
  <2>1. n \notin ms /\ msg'[n] = f[n]
    BY <1>1, <1>7 DEF FirstStep
  <2>2. CASE i \in DOMAIN out /\ out'[i] = out[i] /\ out[i] \in Messages
    <3>1. Overtaken(f[out[i]], f[n], i)
      BY <1>7, <2>1, <2>2 DEF LeftOK
    <3> QED
      BY <1>1, <2>1, <2>2, <3>1 DEF Overtaken, Same
  <2>3. CASE out'[i] \in ms
    BY <1>1, <1>7, <2>1, <2>3 DEF Overtaken, Same
  <2> QED
    BY <1>3, <2>2, <2>3
<1>8. ASSUME NEW i \in DOMAIN out', NEW j \in DOMAIN out', i < j
      PROVE  Overtaken(msg'[out'[i]], msg'[out'[j]], i)
  <2>1. i \in Nat /\ j \in Nat /\ Len(out) \in Nat /\ DOMAIN out = 1..Len(out)
    <3>1. out' \in Seq(Messages)
      BY HandsOver
    <3> QED
      BY <3>1
  <2>2. CASE i \in DOMAIN out /\ j \in DOMAIN out
    <3>1. /\ out'[i] = out[i] /\ out[i] \in Messages
          /\ out'[j] = out[j] /\ out[j] \in Messages
      BY <1>3, <2>1, <2>2
    <3>2. Overtaken(f[out[i]], f[out[j]], i)
      BY <1>8, <2>2 DEF LeftOK
    <3> QED
      BY <1>1, <3>1, <3>2 DEF Overtaken, Same
  <2>3. CASE i \in DOMAIN out /\ j \notin DOMAIN out
    <3>1. out'[i] = out[i] /\ out[i] \in Messages /\ out'[j] \in ms /\ out'[j] \in Messages
      BY <1>3, <2>1, <2>3
    <3>2. Overtaken(f[out[i]], f[out'[j]], i)
      BY <2>3, <3>1 DEF LeftOK
    <3> QED
      BY <1>1, <3>1, <3>2 DEF Overtaken, Same
  <2>4. CASE i \notin DOMAIN out
    <3>1. j \notin DOMAIN out
      <4>1. i >= 1
        BY <1>3, <2>1, <2>4
      <4> QED
        BY <1>8, <2>1, <2>4, <4>1
    <3>2. PICK k \in DOMAIN s : k = i - Len(out) /\ out'[i] = s[k] /\ s[k] \in ms
      BY <1>3, <2>4
    <3>3. PICK l \in DOMAIN s : l = j - Len(out) /\ out'[j] = s[l] /\ s[l] \in ms
      BY <1>3, <3>1
    <3>4. k < l
      BY <1>8, <2>1, <3>2, <3>3
    <3>5. f[s[k]].vehicle = f[s[l]].vehicle => f[s[k]].ts <= f[s[l]].ts
      BY <1>4, <3>4
    <3>6. f[s[k]].ts \in Nat /\ f[s[l]].ts \in Nat
      BY <1>5, <3>2, <3>3
    <3>7. f[s[k]].vehicle = f[s[l]].vehicle => ~ (f[s[l]].ts < f[s[k]].ts)
      BY <3>5, <3>6
    <3> QED
      BY <1>1, <3>2, <3>3, <3>7 DEF Overtaken, Same
  <2> QED
    BY <2>2, <2>3, <2>4
<1> QED
  BY <1>6, <1>7, <1>8 DEF LeftOK

\* What becomes of a message in any step but its coming: it says the same, and is not in the
\* buffer again.
Goes(n) ==
    /\ Same(msg[n], msg'[n])
    /\ msg'[n].pc = "unsent" => msg[n].pc = "unsent"
    /\ msg'[n].pc = "buffered" => msg[n].pc = "buffered"

\* A handler's step is no step of the buffer.
LEMMA HandleGoes ==
    ASSUME Typed, NEW m \in Messages, Handle(m)
    PROVE  out' = out /\ \A n \in Messages : Goes(n)
<1>1. PICK pc \in Pcs \ {"unsent", "buffered"} : Moves(m, pc)
  BY HandleMoves
<1>2. \A n \in Messages : Goes(n)
  BY <1>1 DEF Moves, Goes, Same
<1>3. out' = out
  BY DEF Handle, Ignite, Count, FindMeta, AddMeta, Archive, Load, Save, Locate, FindTrip,
     FinishForeign, StartTrip, AddPoint
<1> QED
  BY <1>2, <1>3

\* The order stays where the buffer does.
LEMMA LeftStays ==
    ASSUME Typed, LeftOK(msg, out), out' = out, \A n \in Messages : Goes(n)
    PROVE  LeftOK(msg', out')
<1>1. \A i \in DOMAIN out : out[i] \in Messages
  BY DEF Typed, TypeOK
<1> QED
  BY <1>1 DEF LeftOK, Goes, Same, Overtaken

\* What is not due is later than what is.
LEMMA DueIsEarlier ==
    ASSUME now \in Times, NEW c \in Msg, NEW d \in Msg, IsDue(c), ~ IsDue(d)
    PROVE  ~ (d.ts < c.ts)
<1>1. c.ts \in Nat /\ d.ts \in Nat /\ now \in Nat /\ Window \in Nat
  <2>1. Times \subseteq Nat
    BY BoundsAssumption DEF Times
  <2>2. c.ts \in Times /\ d.ts \in Times
    BY DEF Msg
  <2> QED
    BY <2>1, <2>2, BoundsAssumption
<1> QED
  BY <1>1 DEF IsDue

\* push() keeps the order: what stays behind is later, or of another vehicle.
LEMMA ReceiveLeft ==
    ASSUME Typed, LeftOK(msg, out), NEW m \in Messages, NEW v \in Vehicles,
           NEW stamp \in 0..MaxStamp, NEW c \in Contents, Receive(m, v, stamp, c)
    PROVE  LeftOK(msg', out')
<1>1. PICK f, ms : /\ Arrives(f, m, v) /\ ms \in SUBSET Held(f, v) /\ Lets(f, v, ms)
                   /\ HandOver(f, ms)
  BY ReceiveDoes
<1>2. /\ out \in Seq(Messages) /\ now \in Times /\ msg[m].pc = "unsent"
      /\ f \in [Messages -> Msg] /\ ms \in SUBSET Messages
      /\ \A k \in ms : f[k].pc = "buffered" /\ f[k].vehicle = v
  BY <1>1 DEF Typed, TypeOK, Arrives, Held, Receive, At
<1>3. LeftOK(f, out)
  <2>1. \A i \in DOMAIN out : /\ out[i] \in Messages /\ i <= Len(out)
                              /\ f[out[i]] = msg[out[i]] /\ out[i] # m
    <3>1. \A i \in DOMAIN out : out[i] \in Messages /\ i <= Len(out)
      BY <1>2
    <3>2. \A i \in DOMAIN out : out[i] # m
      BY <1>2 DEF LeftOK
    <3> QED
      BY <1>1, <3>1, <3>2 DEF Arrives
  <2>2. \A i \in DOMAIN out : Overtaken(f[out[i]], f[m], i)
    BY <1>1, <2>1 DEF Arrives, Overtaken
  <2>3. \A n \in Messages \ {m} : f[n] = msg[n]
    BY <1>1 DEF Arrives
  <2> QED
    BY <2>1, <2>2, <2>3 DEF LeftOK
<1>4. ASSUME NEW n \in Messages \ ms, NEW k \in ms,
             f[n].pc = "buffered", f[n].vehicle = f[k].vehicle
      PROVE  ~ (f[n].ts < f[k].ts)
  <2>1. n \in Held(f, v) \ ms
    BY <1>2, <1>4 DEF Held
  <2>2. IsDue(f[k]) /\ ~ IsDue(f[n])
    BY <1>1, <2>1 DEF Lets
  <2> QED
    BY <1>2, <2>2, DueIsEarlier
<1> QED
  BY <1>1, <1>2, <1>3, <1>4, OrderKept

\* So does the interval.
LEMMA FlushLeft ==
    ASSUME Typed, LeftOK(msg, out), FlushDue
    PROVE  LeftOK(msg', out')
<1> DEFINE ms == DueNow
<1>1. /\ msg \in [Messages -> Msg] /\ ms \in SUBSET Messages /\ now \in Times
      /\ out \in Seq(Messages) /\ \A k \in ms : msg[k].pc = "buffered"
  BY DEF Typed, TypeOK, DueNow, At
<1>2. HandOver(msg, ms)
  BY DEF FlushDue
<1>3. ASSUME NEW n \in Messages \ ms, NEW k \in ms, msg[n].pc = "buffered"
      PROVE  ~ (msg[n].ts < msg[k].ts)
  <2>1. IsDue(msg[k]) /\ ~ IsDue(msg[n])
    BY <1>3 DEF DueNow, At
  <2>2. msg[n] \in Msg /\ msg[k] \in Msg
    BY <1>1
  <2> QED
    BY <1>1, <2>1, <2>2, DueIsEarlier
<1> HIDE DEF ms
<1> QED
  BY <1>1, <1>2, <1>3, OrderKept

\* Every step keeps the order of what has left.
LEMMA LeftStep ==
    ASSUME Typed, LeftOK(msg, out), [Next]_vars
    PROVE  LeftOK(msg', out')
<1>1. CASE FlushDue
  BY <1>1, FlushLeft
<1>2. CASE Stop
  <2>1. \A n \in Messages : Goes(n)
    BY <1>2, StopDoes DEF Goes
  <2> QED
    BY <1>2, <2>1, LeftStays DEF Stop
<1>3. CASE Tick \/ UNCHANGED vars
  BY <1>3 DEF Tick, vars
<1>4. ASSUME NEW m \in Messages, NEW v \in Vehicles, NEW stamp \in 0..MaxStamp,
             NEW c \in Contents, Receive(m, v, stamp, c)
      PROVE  LeftOK(msg', out')
  BY <1>4, ReceiveLeft
<1>5. ASSUME NEW m \in Messages, Handle(m) PROVE LeftOK(msg', out')
  BY <1>5, HandleGoes, LeftStays
<1> QED
  BY <1>1, <1>2, <1>3, <1>4, <1>5 DEF Next

\* OvertakenOnlyIfLate: however the interval, full batches and restarts come between, a message
\* leaves the buffer after a later one of its vehicle only if it came when that had left.
THEOREM NoneOvertaken == Spec => []OvertakenOnlyIfLate
<1> DEFINE Left == LeftOK(msg, out)
<1>1. Init => Left
  BY DEF Init, LeftOK
<1>2. Typed /\ Left /\ [Next]_vars => Left'
  BY LeftStep
<1>3. Left => OvertakenOnlyIfLate
  BY DEF LeftOK, Overtaken, OvertakenOnlyIfLate
<1> HIDE DEF Left
<1> QED
  BY <1>1, <1>2, <1>3, TypesHold, PTL DEF Spec

------------------------------------------------------------------------------
(* What trips hold.                                                        *)

\* A handler has its trip in its hands when it comes to add to it.
LEMMA FoundTrip ==
    ASSUME Typed, NEW m \in Messages, Handle(m), msg'[m].pc \in {"add meta", "add"}
    PROVE  OfTrip(trips'[msg'[m].trip], msg'[m])
<1>1. msg \in [Messages -> Msg] /\ \A t \in Stored : t \in TripIds
  BY DEF Typed, TypeOK, Stored
<1>2. CASE FindMeta(m)
  <2>1. CASE Goto(m, AfterTelemetry(m))
    <3>1. AfterTelemetry(m) \in {"archive", "done"}
      BY DEF AfterTelemetry
    <3>2. msg'[m].pc \in {"archive", "done"}
      BY <1>1, <2>1, <3>1, GotoMoves DEF Moves, Pcs
    <3> QED
      BY <3>2
  <2>2. CASE ~ Goto(m, AfterTelemetry(m))
    <3>1. PICK t \in Stored : /\ trips[t].vehicle = msg[m].vehicle
                              /\ trips[t].driver = DriverAt(msg[m].vehicle, msg[m].ts)
                              /\ msg' = [msg EXCEPT ![m].pc = "add meta", ![m].trip = t]
      BY <1>2, <2>2 DEF FindMeta, ActiveTrip
    <3>2. "add meta" \in Pcs /\ t \in TripIds
      BY <1>1 DEF Pcs
    <3>4. Moves(m, "add meta") /\ msg'[m].trip = t
      BY <1>1, <3>1, <3>2, TripMoves
    <3>3. trips' = trips
      BY <1>2 DEF FindMeta, tables
    <3> QED
      BY <3>1, <3>3, <3>4 DEF OfTrip, Moves, Same
  <2> QED
    BY <2>1, <2>2
<1>3. CASE FindTrip(m)
  <2>1. CASE Goto(m, "start")
    BY <1>1, <2>1, GotoMoves DEF Moves, Pcs
  <2>2. CASE ~ Goto(m, "start")
    <3>1. PICK t \in Stored : /\ trips[t].driver = DriverAt(msg[m].vehicle, msg[m].ts)
                              /\ msg' = [msg EXCEPT ![m].pc = WhereTo(m, t), ![m].trip = t]
      BY <1>3, <2>2 DEF FindTrip, ActiveTrip
    <3>2. WhereTo(m, t) \in Pcs
      BY DEF WhereTo, Pcs
    <3>3. Moves(m, WhereTo(m, t)) /\ msg'[m].trip = t
      BY <1>1, <3>1, <3>2, TripMoves
    <3>4. trips[t].vehicle = msg[m].vehicle
      BY <3>3 DEF Moves, WhereTo
    <3>5. trips' = trips
      BY <1>3 DEF FindTrip, tables
    <3> QED
      BY <3>1, <3>3, <3>4, <3>5 DEF OfTrip, Moves, Same
  <2> QED
    BY <2>1, <2>2
<1>4. CASE StartTrip(m)
  BY <1>4, StartMoves DEF OfTrip, Moves, Same
<1>5. ASSUME NEW pc \in Pcs \ {"add meta", "add"}, Moves(m, pc) PROVE FALSE
  BY <1>5 DEF Moves
<1>6. CASE Ignite(m) \/ Load(m) \/ Save(m)
  <2>1. Moves(m, "count") \/ Moves(m, "save") \/ Moves(m, "failed") \/ Moves(m, "locate")
    BY <1>6, IgniteMoves, LoadMoves, SaveWrites DEF Typed
  <2> QED
    BY <1>5, <2>1 DEF Pcs
<1>7. CASE \E pc \in Pcs \ {"add meta", "add"} : Goto(m, pc)
  BY <1>1, <1>5, <1>7, GotoMoves
<1>8. CASE Count(m) \/ AddMeta(m) \/ Archive(m) \/ Locate(m) \/ FinishForeign(m) \/ AddPoint(m)
  <2>1. \E pc \in {"find meta", "archive", "done", "load", "find trip", "start", "failed"} :
            Goto(m, pc)
    BY <1>8 DEF Count, AddMeta, Archive, Locate, FinishForeign, AddPoint, AfterTelemetry
  <2> QED
    BY <1>7, <2>1 DEF Pcs
<1> QED
  BY <1>2, <1>3, <1>4, <1>6, <1>8 DEF Handle

\* What a trip holds after a step it held before, or it is of its vehicle.
LEMMA HandleHolds ==
    ASSUME Typed, TripsOK, NEW m \in Messages, Handle(m), NEW t \in Stored',
           NEW n \in Taken(trips'[t])
    PROVE  n \in Messages /\ ~ At(n, "unsent") /\ OfTrip(trips'[t], msg[n])
<1>1. \A u \in Stored : /\ u \in TripIds /\ Taken(trips[u]) \subseteq Messages
                        /\ trips'[u].driver = trips[u].driver
                        /\ trips'[u].vehicle = trips[u].vehicle
  BY TripsStay DEF Typed, TypeOK, Stored, Trip, Taken
<1>2. ASSUME t \in Stored, n \in Taken(trips[t])
      PROVE  n \in Messages /\ ~ At(n, "unsent") /\ OfTrip(trips'[t], msg[n])
  BY <1>1, <1>2 DEF TripsOK, OfTrip
<1>3. CASE UNCHANGED trips
  BY <1>2, <1>3 DEF Stored
<1>4. CASE StartTrip(m)
  <2>1. PICK u \in TripIds :
            /\ Stored' = Stored \cup {u} /\ \A w \in Stored : Unmoved(w)
            /\ u \notin Stored => trips'[u].points = {} /\ trips'[u].meta = {}
    BY <1>4, StartMoves
  <2>2. t \in Stored
    BY <2>1 DEF Taken
  <2> QED
    BY <1>2, <2>1, <2>2 DEF Unmoved, Taken
<1>5. CASE AddMeta(m) \/ FinishForeign(m) \/ AddPoint(m)
  <2> DEFINE u == msg[m].trip
  <2>1. /\ Stored' = Stored
        /\ \A w \in Stored \ {u} : trips'[w] = trips[w]
        /\ Holds(u, m) /\ (FinishForeign(m) => Unmoved(u))
    BY <1>5, AddsOwn
  <2>2. CASE t # u \/ n \in Taken(trips[t])
    BY <1>2, <2>1, <2>2
  <2>3. CASE t = u /\ n \notin Taken(trips[t])
    <3>1. n = m
      BY <2>1, <2>3 DEF Holds, Taken
    <3>2. ~ FinishForeign(m)
      BY <2>1, <2>3 DEF Unmoved, Taken
    <3>3. msg[m].pc \in {"add meta", "add"}
      BY <1>5, <3>2 DEF AddMeta, AddPoint, At
    <3>4. OfTrip(trips[u], msg[m])
      BY <3>3 DEF TripsOK
    <3> QED
      BY <1>1, <2>1, <2>3, <3>1, <3>3, <3>4 DEF OfTrip, At
  <2> QED
    BY <2>2, <2>3
<1> QED
  BY <1>3, <1>4, <1>5 DEF Handle, Ignite, Count, FindMeta, Archive, Load, Save, Locate, FindTrip,
     tables

\* A handler's step leaves every trip with what is of its vehicle.
LEMMA HandleTrips ==
    ASSUME Typed, TripsOK, NEW m \in Messages, Handle(m)
    PROVE  TripsOK'
<1>1. PICK pc \in Pcs \ {"unsent", "buffered"} : Moves(m, pc)
  BY HandleMoves
<1>2. \A n \in Messages : Goes(n)
  BY HandleGoes
<1>3. \A n \in Messages \ {m} : msg'[n] = msg[n]
  BY <1>1 DEF Moves
<1>4. ASSUME NEW t \in Stored', NEW n \in Taken(trips'[t])
      PROVE  msg'[n].pc # "unsent" /\ OfTrip(trips'[t], msg'[n])
  BY <1>2, <1>4, HandleHolds DEF Goes, Same, OfTrip, At
<1>5. ASSUME NEW n \in Messages, msg'[n].pc \in {"add meta", "add"}
      PROVE  OfTrip(trips'[msg'[n].trip], msg'[n])
  <2>1. CASE n = m
    BY <1>5, <2>1, FoundTrip
  <2>2. CASE n # m
    <3>1. msg'[n] = msg[n] /\ MsgOK(msg[n], Stored)
      BY <1>3, <2>2 DEF Typed, MsgsOK
    <3>2. msg[n].trip \in Stored
      BY <1>5, <3>1 DEF MsgOK
    <3>3. OfTrip(trips[msg[n].trip], msg[n])
      BY <1>5, <3>1 DEF TripsOK
    <3> QED
      BY <3>1, <3>2, <3>3, TripsStay DEF OfTrip
  <2> QED
    BY <2>1, <2>2
<1> QED
  BY <1>4, <1>5 DEF TripsOK, At

\* Where no trip changes, those that are sent say the same and nobody finds a trip.
LEMMA TripsOKStays ==
    ASSUME Typed, TripsOK, UNCHANGED trips,
           \A n \in Messages : msg[n].pc # "unsent" => Goes(n),
           \A n \in Messages : msg'[n].pc \in {"add meta", "add"} => msg'[n] = msg[n]
    PROVE  TripsOK'
<1>1. Stored' = Stored
  BY DEF Stored
<1>2. \A t \in Stored : Taken(trips[t]) \subseteq Messages
  BY DEF Typed, TypeOK, Stored, Trip, Taken
<1>3. ASSUME NEW t \in Stored, NEW n \in Taken(trips[t])
      PROVE  msg'[n].pc # "unsent" /\ OfTrip(trips[t], msg'[n])
  BY ZenonT(60), <1>2, <1>3 DEF TripsOK, At, OfTrip, Goes, Same
<1>4. \A n \in Messages : msg'[n].pc \in {"add meta", "add"} => OfTrip(trips[msg'[n].trip], msg'[n])
  BY DEF TripsOK
<1> QED
  BY <1>1, <1>3, <1>4 DEF TripsOK, At

\* So does every other step.
LEMMA TripsStep ==
    ASSUME Typed, TripsOK, [Next]_vars
    PROVE  TripsOK'
<1>1. CASE FlushDue
  <2>1. /\ msg \in [Messages -> Msg] /\ DueNow \in SUBSET Messages /\ out \in Seq(Messages)
        /\ HandOver(msg, DueNow) /\ \A n \in DueNow : msg[n].pc = "buffered"
    BY <1>1 DEF Typed, TypeOK, DueNow, At, FlushDue
  <2>2. /\ \A n \in Messages : Same(msg[n], msg'[n])
        /\ \A n \in DueNow : msg'[n].pc = FirstStep(msg[n])
        /\ \A n \in Messages \ DueNow : msg'[n] = msg[n]
    BY <2>1, HandsOver
  <2>3. trips' = trips
    BY <2>1 DEF HandOver, tables
  <2> QED
    BY <2>1, <2>2, <2>3, TripsOKStays DEF Goes, FirstStep
<1>2. CASE Stop
  <2>1. trips' = trips
    BY <1>2 DEF Stop, tables
  <2> QED
    BY <1>2, <2>1, StopDoes, TripsOKStays DEF Goes
<1>3. CASE Tick \/ UNCHANGED vars
  BY <1>3 DEF Tick, vars, tables, TripsOK, Stored, At
<1>4. ASSUME NEW m \in Messages, NEW v \in Vehicles, NEW stamp \in 0..MaxStamp,
             NEW c \in Contents, Receive(m, v, stamp, c)
      PROVE  TripsOK'
  <2>1. PICK f, ms : /\ Arrives(f, m, v) /\ ms \in SUBSET Held(f, v) /\ HandOver(f, ms)
    BY <1>4, ReceiveDoes
  <2>2. /\ f \in [Messages -> Msg] /\ ms \in SUBSET Messages /\ out \in Seq(Messages)
        /\ \A n \in ms : f[n].pc = "buffered"
    BY <2>1 DEF Arrives, Held, Typed, TypeOK
  <2>3. /\ \A n \in Messages : Same(f[n], msg'[n])
        /\ \A n \in ms : msg'[n].pc = FirstStep(f[n])
        /\ \A n \in Messages \ ms : msg'[n] = f[n]
    BY <2>1, <2>2, HandsOver
  <2>4. /\ trips' = trips /\ msg[m].pc = "unsent" /\ f[m].pc = "buffered"
        /\ \A n \in Messages \ {m} : f[n] = msg[n]
    BY <1>4, <2>1 DEF HandOver, tables, Receive, At, Arrives
  <2>5. ASSUME NEW n \in Messages, msg[n].pc # "unsent" PROVE Goes(n)
    BY <2>2, <2>3, <2>4, <2>5 DEF Goes, FirstStep
  <2>6. ASSUME NEW n \in Messages, msg'[n].pc \in {"add meta", "add"} PROVE msg'[n] = msg[n]
    BY <2>2, <2>3, <2>4, <2>6 DEF FirstStep
  <2> QED
    BY <2>4, <2>5, <2>6, TripsOKStays
<1>5. ASSUME NEW m \in Messages, Handle(m) PROVE TripsOK'
  BY <1>5, HandleTrips
<1> QED
  BY <1>1, <1>2, <1>3, <1>4, <1>5 DEF Next

\* TripsAreOfTheirVehicle: a trip holds the readings and the positions of its vehicle, from
\* while its driver drove it, however many handlers find, close and start trips at once.
THEOREM TripsOfTheirVehicle == Spec => []TripsAreOfTheirVehicle
<1>1. Init => TripsOK
  <2> SUFFICES ASSUME Init PROVE TripsOK
    OBVIOUS
  <2>1. Stored = {} /\ \A m \in Messages : msg[m].pc = "unsent"
    BY DEF Init, Stored, Unsent
  <2> QED
    BY <2>1 DEF TripsOK
<1>2. Typed /\ TripsOK /\ [Next]_vars => TripsOK'
  BY TripsStep
<1>3. TripsOK => TripsAreOfTheirVehicle
  BY DEF TripsOK, TripsAreOfTheirVehicle, OfTrip, Taken
<1> QED
  BY <1>1, <1>2, <1>3, TypesHold, PTL DEF Spec

------------------------------------------------------------------------------
(* Points of a day's track.                                                *)

\* What another message is about keeps the track it goes to.
LEMMA SameTrack ==
    ASSUME NEW n \in Messages, Same(msg[n], msg'[n])
    PROVE  TrackOf(n)' = TrackOf(n)
  BY DEF TrackOf, Day, Same

\* A step in which nobody archives, reads or saves a point.
LEMMA PointsStay ==
    ASSUME PointsOK, UNCHANGED <<track, positions, raced>>,
           \A n \in Messages : msg'[n].pc \in {"load", "save"} => msg'[n] = msg[n],
           \A n \in Messages : HandledPosition(n)' => HandledPosition(n) /\ Same(msg[n], msg'[n])
    PROVE  PointsOK'
<1>1. ASSUME NEW m \in Messages, At(m, "load")' \/ At(m, "save")' \/ HandledPosition(m)'
      PROVE  m \in positions'
  BY <1>1 DEF PointsOK, At
<1>2. ASSUME NEW m \in Messages, At(m, "save")'
      PROVE  At(m, "save") /\ msg'[m] = msg[m] /\ TrackOf(m)' = TrackOf(m)
  BY <1>2 DEF At, TrackOf, Day
<1>3. ASSUME NEW m \in Messages, At(m, "save")' PROVE ReadTrue(m)'
  BY <1>2, <1>3 DEF PointsOK, ReadTrue
<1>4. ASSUME NEW n \in Messages, HandledPosition(n)', n \notin raced' PROVE PointKept(n)'
  <2>1. HandledPosition(n) /\ TrackOf(n)' = TrackOf(n) /\ PointKept(n)
    BY <1>4, SameTrack DEF PointsOK
  <2> QED
    BY <1>2, <2>1 DEF PointKept
<1> QED
  BY <1>1, <1>3, <1>4 DEF PointsOK

\* Only a handler that has saved counts as one that has handled its position.
LEMMA HandledBefore ==
    ASSUME Typed, NEW m \in Messages, Handle(m), ~ Save(m), NEW n \in Messages,
           HandledPosition(n)'
    PROVE  HandledPosition(n) /\ Same(msg[n], msg'[n])
<1>1. PICK pc \in Pcs : Moves(m, pc)
  BY HandleMoves
<1>2. CASE n # m
  BY <1>1, <1>2 DEF Moves, HandledPosition, Same
<1>3. CASE n = m
  <2> DEFINE Late == {"locate", "find trip", "finish", "start", "add", "done", "failed"}
  <2>1. msg'[m].pc = pc /\ pc \in Late /\ Same(msg[m], msg'[m]) /\ msg[m].pos
    BY <1>1, <1>3 DEF Moves, HandledPosition, Same
  <2>2. msg \in [Messages -> Msg]
    BY DEF Typed, TypeOK
  <2>3. CASE Locate(m) \/ FindTrip(m) \/ FinishForeign(m) \/ StartTrip(m) \/ AddPoint(m)
    BY <1>3, <2>1, <2>3 DEF HandledPosition, Locate, FindTrip, FinishForeign, StartTrip, AddPoint, At
  <2>4. CASE Ignite(m) \/ Load(m)
    <3>1. msg'[m].pc \in {"count", "save"}
      BY <2>4, IgniteMoves, LoadMoves DEF Moves, Typed
    <3> QED
      BY <2>1, <3>1
  <2>5. ASSUME NEW p \in Pcs \ Late, Goto(m, p) PROVE FALSE
    BY <2>1, <2>2, <2>5, GotoMoves DEF Moves
  <2>6. AfterTelemetry(m) = "archive"
    BY <2>1 DEF AfterTelemetry
  <2>7. CASE Count(m) \/ Archive(m) \/ AddMeta(m)
    <3>1. \E p \in {"find meta", "load", "archive"} : Goto(m, p)
      BY <2>6, <2>7 DEF Count, Archive, AddMeta
    <3> QED
      BY <2>5, <3>1 DEF Pcs
  <2>8. CASE FindMeta(m)
    <3>1. CASE Goto(m, "archive")
      BY <2>5, <3>1 DEF Pcs
    <3>2. CASE \E t \in TripIds : msg' = [msg EXCEPT ![m].pc = "add meta", ![m].trip = t]
      <4>1. "add meta" \in Pcs
        BY DEF Pcs
      <4>2. Moves(m, "add meta")
        BY <2>2, <3>2, <4>1, TripMoves
      <4> QED
        BY <2>1, <4>2 DEF Moves
    <3> QED
      BY <2>6, <2>8, <3>1, <3>2 DEF FindMeta, ActiveTrip, Stored
  <2> HIDE DEF Late
  <2> QED
    BY <1>3, <2>1, <2>3, <2>4, <2>7, <2>8 DEF Handle
<1> QED
  BY <1>2, <1>3

\* A point is archived before its track is read.
LEMMA ArchivePoints ==
    ASSUME Typed, PointsOK, NEW m \in Messages, Archive(m)
    PROVE  PointsOK'
<1>1. Moves(m, "load") /\ positions' = positions \cup {m} /\ UNCHANGED <<track, raced>>
  BY GotoMoves DEF Archive, Typed, TypeOK, Pcs, history
<1>2. ~ Save(m) /\ Handle(m)
  BY DEF Archive, Save, At, Handle
<1>3. ASSUME NEW n \in Messages, At(n, "load")' \/ At(n, "save")' \/ HandledPosition(n)'
      PROVE  n \in positions'
  <2>1. CASE n = m
    BY <1>1, <2>1
  <2>2. CASE n # m
    BY <1>1, <1>3, <2>2 DEF Moves, PointsOK, At, HandledPosition
  <2> QED
    BY <2>1, <2>2
<1>4. ASSUME NEW n \in Messages, At(n, "save")'
      PROVE  At(n, "save") /\ msg'[n] = msg[n] /\ TrackOf(n)' = TrackOf(n)
  BY <1>1, <1>4 DEF At, TrackOf, Day, Moves
<1>5. ASSUME NEW n \in Messages, At(n, "save")' PROVE ReadTrue(n)'
  BY <1>1, <1>4, <1>5 DEF PointsOK, ReadTrue
<1>6. ASSUME NEW n \in Messages, HandledPosition(n)', n \notin raced' PROVE PointKept(n)'
  <2>1. HandledPosition(n) /\ TrackOf(n)' = TrackOf(n) /\ PointKept(n)
    BY <1>1, <1>2, <1>6, HandledBefore, SameTrack DEF PointsOK
  <2> QED
    BY <1>1, <1>4, <2>1 DEF PointKept
<1> QED
  BY <1>3, <1>5, <1>6 DEF PointsOK

\* Whoever reads a track reads all that has been saved there.
LEMMA LoadPoints ==
    ASSUME Typed, PointsOK, NEW m \in Messages, Load(m)
    PROVE  PointsOK'
<1>1. /\ Moves(m, "save") /\ UNCHANGED <<track, positions, raced>>
      /\ msg'[m].fresh = (track[TrackOf(m)] = None)
      /\ msg'[m].copy = PointsIn(track[TrackOf(m)]) \cup {m}
  BY LoadMoves DEF Load, Typed, tables, history, PointsIn
<1>2. ~ Save(m) /\ Handle(m) /\ At(m, "load")
  BY DEF Load, Save, At, Handle
<1>3. TrackOf(m)' = TrackOf(m)
  BY <1>1, SameTrack DEF Moves
<1>4. ASSUME NEW n \in Messages, At(n, "load")' \/ At(n, "save")' \/ HandledPosition(n)'
      PROVE  n \in positions'
  <2>1. CASE n = m
    BY <1>1, <1>2, <2>1 DEF PointsOK
  <2>2. CASE n # m
    BY <1>1, <1>4, <2>2 DEF Moves, PointsOK, At, HandledPosition
  <2> QED
    BY <2>1, <2>2
<1>5. ASSUME NEW n \in Messages \ {m}, At(n, "save")'
      PROVE  At(n, "save") /\ msg'[n] = msg[n] /\ TrackOf(n)' = TrackOf(n)
  BY <1>1, <1>5 DEF At, TrackOf, Day, Moves
<1>6. ASSUME NEW n \in Messages, At(n, "save")' PROVE ReadTrue(n)'
  <2>1. CASE n = m
    <3>1. m \in msg'[m].copy
      BY <1>1
    <3>2. msg'[m].fresh <=> track'[TrackOf(m)'] = None
      BY <1>1, <1>3
    <3> QED
      BY <2>1, <3>1, <3>2 DEF ReadTrue
  <2>2. CASE n # m
    BY <1>1, <1>5, <1>6, <2>2 DEF PointsOK, ReadTrue
  <2> QED
    BY <2>1, <2>2
<1>7. ASSUME NEW n \in Messages, HandledPosition(n)', n \notin raced' PROVE PointKept(n)'
  <2>1. HandledPosition(n) /\ TrackOf(n)' = TrackOf(n) /\ PointKept(n)
    BY <1>1, <1>2, <1>7, HandledBefore, SameTrack DEF PointsOK
  <2>2. ASSUME NEW l \in Messages, At(l, "save")', TrackOf(l)' = TrackOf(n)' PROVE n \in msg'[l].copy
    <3>1. CASE l = m
      BY <1>1, <1>3, <2>1, <2>2, <3>1 DEF PointKept
    <3>2. CASE l # m
      BY <1>5, <2>1, <2>2, <3>2 DEF PointKept
    <3> QED
      BY <3>1, <3>2
  <2> QED
    BY <1>1, <2>1, <2>2 DEF PointKept
<1> QED
  BY <1>4, <1>6, <1>7 DEF PointsOK

\* Who saves alone puts back what was there and its own; who does not marks the others.
LEMMA SavePoints ==
    ASSUME Typed, PointsOK, NEW m \in Messages, Save(m)
    PROVE  PointsOK'
<1> DEFINE k == TrackOf(m)
           others == {n \in Messages \ {m} : At(n, "save") /\ TrackOf(n) = k}
<1>1. /\ \A j \in (Vehicles \X Days) \ {k} : track'[j] = track[j]
      /\ \/ /\ msg[m].fresh /\ track[k] # None /\ track' = track /\ Moves(m, "failed")
         \/ track'[k] = msg[m].copy /\ msg[m].copy # None /\ Moves(m, "locate")
  BY SaveWrites
<1>2. /\ raced' = raced \cup (IF others = {} THEN {} ELSE others \cup {m})
      /\ positions' = positions /\ At(m, "save")
  BY DEF Save
<1>3. /\ \A n \in Messages \ {m} : msg'[n] = msg[n]
      /\ Same(msg[m], msg'[m]) /\ msg'[m].pc \in {"failed", "locate"}
  BY <1>1 DEF Moves
<1>4. \A n \in Messages : TrackOf(n)' = TrackOf(n)
  BY <1>3, SameTrack DEF Same
<1>5. \A n \in Messages : msg[n].pc # "unsent" => TrackOf(n) \in Vehicles \X Days
  BY Tracks DEF Typed, MsgsOK, MsgOK
<1>6. ASSUME NEW n \in Messages, At(n, "load")' \/ At(n, "save")' \/ HandledPosition(n)'
      PROVE  n \in positions'
  <2>1. CASE n = m
    BY <1>2, <2>1 DEF PointsOK
  <2>2. CASE n # m
    BY <1>2, <1>3, <1>6, <2>2 DEF PointsOK, At, HandledPosition
  <2> QED
    BY <2>1, <2>2
<1>7. ASSUME NEW n \in Messages, At(n, "save")'
      PROVE  n # m /\ At(n, "save") /\ msg'[n] = msg[n] /\ (TrackOf(n) = k => n \in others)
  <2>1. n # m
    BY <1>3, <1>7 DEF At
  <2> QED
    BY <1>3, <1>7, <2>1 DEF At
<1>8. ASSUME NEW n \in Messages, At(n, "save")' PROVE ReadTrue(n)'
  <2>1. ReadTrue(n) /\ n # m /\ msg'[n] = msg[n] /\ At(n, "save")
    BY <1>7, <1>8 DEF PointsOK
  <2>2. CASE n \notin raced'
    <3>1. TrackOf(n) # k
      BY <1>2, <1>7, <1>8, <2>2
    <3>2. track'[TrackOf(n)] = track[TrackOf(n)]
      BY <1>1, <1>5, <2>1, <3>1 DEF At
    <3> QED
      BY <1>2, <1>4, <2>1, <2>2, <3>2 DEF ReadTrue
  <2> QED
    BY <2>1, <2>2 DEF ReadTrue
<1>9. ASSUME NEW n \in Messages, HandledPosition(n)', n \notin raced' PROVE PointKept(n)'
  <2>1. CASE n = m
    <3>1. others = {} /\ m \notin raced
      BY <1>2, <1>9, <2>1
    <3>2. ReadTrue(m)
      BY <1>2 DEF PointsOK
    <3>3. track'[k] = msg[m].copy /\ msg[m].copy # None /\ m \in msg[m].copy
      BY <1>1, <3>1, <3>2 DEF ReadTrue
    <3>4. n \in PointsIn(track'[TrackOf(n)'])
      BY <1>4, <2>1, <3>3 DEF PointsIn
    <3>5. \A l \in Messages : At(l, "save")' => TrackOf(l)' # TrackOf(n)'
      BY <1>4, <1>7, <2>1, <3>1
    <3> QED
      BY <3>4, <3>5 DEF PointKept
  <2>2. CASE n # m
    <3>1. HandledPosition(n) /\ PointKept(n) /\ msg[n].pc # "unsent"
      BY <1>2, <1>3, <1>9, <2>2 DEF PointsOK, HandledPosition
    <3>2. n \in PointsIn(track'[TrackOf(n)])
      <4>1. CASE TrackOf(n) # k \/ track' = track
        BY <1>1, <1>5, <3>1, <4>1 DEF PointKept
      <4>2. CASE TrackOf(n) = k /\ track'[k] = msg[m].copy /\ msg[m].copy # None
        <5>1. n \in msg[m].copy
          BY <1>2, <3>1, <4>2 DEF PointKept
        <5> QED
          BY <4>2, <5>1 DEF PointsIn
      <4> QED
        BY <1>1, <4>1, <4>2
    <3>3. \A l \in Messages : At(l, "save")' /\ TrackOf(l)' = TrackOf(n)' => n \in msg'[l].copy
      BY <1>4, <1>7, <3>1 DEF PointKept
    <3> QED
      BY <1>4, <3>2, <3>3 DEF PointKept
  <2> QED
    BY <2>1, <2>2
<1> QED
  BY <1>6, <1>8, <1>9 DEF PointsOK

\* Where the steps lead that do not begin the counter's or the track's reads.
LEMMA LeadsOn ==
    ASSUME Typed, NEW m \in Messages, Handle(m), ~ Ignite(m), ~ Archive(m), ~ Load(m)
    PROVE  \E p \in Pcs \ {"count", "load", "save"} : Moves(m, p)
<1>1. msg \in [Messages -> Msg]
  BY DEF Typed, TypeOK
<1>2. CASE StartTrip(m) \/ Save(m)
  BY <1>2, StartMoves, SaveWrites DEF Pcs
<1>3. CASE FindMeta(m) \/ FindTrip(m)
  <2>1. AfterTelemetry(m) \in {"archive", "done"}
    BY DEF AfterTelemetry
  <2>2. CASE \E p \in {"archive", "done", "start"} : Goto(m, p)
    BY <1>1, <2>2, GotoMoves DEF Pcs
  <2>3. CASE \E t \in TripIds, p \in {"add meta", "add", "finish"} :
                msg' = [msg EXCEPT ![m].pc = p, ![m].trip = t]
    <3>1. \A p \in {"add meta", "add", "finish"} : p \in Pcs \ {"count", "load", "save"}
      BY DEF Pcs
    <3> QED
      BY <1>1, <2>3, <3>1, TripMoves
  <2>4. \A t \in TripIds : WhereTo(m, t) \in {"add", "finish"}
    BY DEF WhereTo
  <2> QED
    BY <1>3, <2>1, <2>2, <2>3, <2>4 DEF FindMeta, FindTrip, ActiveTrip, Stored
<1>4. CASE Count(m) \/ AddMeta(m) \/ Locate(m) \/ FinishForeign(m) \/ AddPoint(m)
  <2>1. \E p \in {"find meta", "archive", "done", "find trip", "start", "failed"} : Goto(m, p)
    BY <1>4 DEF Count, AddMeta, Locate, FinishForeign, AddPoint, AfterTelemetry
  <2> QED
    BY <1>1, <2>1, GotoMoves DEF Pcs
<1> QED
  BY <1>2, <1>3, <1>4 DEF Handle

\* Nobody else comes to read or to save a track.
LEMMA OtherPoints ==
    ASSUME Typed, PointsOK, NEW m \in Messages, Handle(m), ~ Archive(m), ~ Load(m), ~ Save(m)
    PROVE  PointsOK'
<1>1. UNCHANGED <<track, positions, raced>>
  BY DEF Handle, Ignite, Count, FindMeta, AddMeta, Locate, FindTrip, FinishForeign, StartTrip,
     AddPoint, tables, history
<1>2. \E p \in Pcs \ {"load", "save"} : Moves(m, p)
  BY LeadsOn, IgniteMoves DEF Typed, Pcs
<1>3. \A n \in Messages : msg'[n].pc \in {"load", "save"} => msg'[n] = msg[n]
  BY <1>2 DEF Moves
<1> QED
  BY <1>1, <1>3, HandledBefore, PointsStay

\* Every step keeps the points of those that shared their track with none.
LEMMA PointsStep ==
    ASSUME Typed, PointsOK, [Next]_vars
    PROVE  PointsOK'
<1>1. CASE FlushDue
  <2>1. /\ msg \in [Messages -> Msg] /\ DueNow \in SUBSET Messages /\ out \in Seq(Messages)
        /\ HandOver(msg, DueNow) /\ \A n \in DueNow : msg[n].pc = "buffered"
    BY <1>1 DEF Typed, TypeOK, DueNow, At, FlushDue
  <2>2. /\ \A n \in Messages : Same(msg[n], msg'[n])
        /\ \A n \in DueNow : msg'[n].pc = FirstStep(msg[n])
        /\ \A n \in Messages \ DueNow : msg'[n] = msg[n]
    BY <2>1, HandsOver
  <2>3. UNCHANGED <<track, positions, raced>>
    BY <2>1 DEF HandOver, tables, history
  <2>4. \A n \in DueNow : msg'[n].pc \in {"ignite", "archive"}
    BY <2>2 DEF FirstStep
  <2> QED
    BY <2>2, <2>3, <2>4, PointsStay DEF HandledPosition
<1>2. CASE Stop
  <2>1. UNCHANGED <<track, positions, raced>>
    BY <1>2 DEF Stop, tables, history
  <2> QED
    BY <1>2, <2>1, StopDoes, PointsStay DEF HandledPosition, Same
<1>3. CASE Tick \/ UNCHANGED vars
  <2>1. UNCHANGED <<msg, track, positions, raced>>
    BY <1>3 DEF Tick, vars, tables, history
  <2> QED
    BY <2>1 DEF PointsOK, ReadTrue, PointKept, TrackOf, Day, At, HandledPosition
<1>4. ASSUME NEW m \in Messages, NEW v \in Vehicles, NEW stamp \in 0..MaxStamp,
             NEW c \in Contents, Receive(m, v, stamp, c)
      PROVE  PointsOK'
  <2>1. PICK f, ms : /\ Arrives(f, m, v) /\ ms \in SUBSET Held(f, v) /\ HandOver(f, ms)
    BY <1>4, ReceiveDoes
  <2>2. /\ f \in [Messages -> Msg] /\ ms \in SUBSET Messages /\ out \in Seq(Messages)
        /\ \A n \in ms : f[n].pc = "buffered"
    BY <2>1 DEF Arrives, Held, Typed, TypeOK
  <2>3. /\ \A n \in ms : msg'[n].pc = FirstStep(f[n])
        /\ \A n \in Messages \ ms : msg'[n] = f[n]
    BY <2>1, <2>2, HandsOver
  <2>4. /\ UNCHANGED <<track, positions, raced>>
        /\ f[m].pc = "buffered" /\ \A n \in Messages \ {m} : f[n] = msg[n]
    BY <2>1 DEF HandOver, tables, history, Arrives
  <2>5. ASSUME NEW n \in Messages, msg'[n].pc \notin {"ignite", "archive", "buffered"}
        PROVE  msg'[n] = msg[n]
    BY <2>3, <2>4, <2>5 DEF FirstStep
  <2>6. \A n \in Messages : HandledPosition(n)' => HandledPosition(n) /\ Same(msg[n], msg'[n])
    BY <2>5 DEF HandledPosition, Same
  <2> QED
    BY <2>4, <2>5, <2>6, PointsStay
<1>5. ASSUME NEW m \in Messages, Handle(m) PROVE PointsOK'
  BY <1>5, ArchivePoints, LoadPoints, SavePoints, OtherPoints
<1> QED
  BY <1>1, <1>2, <1>3, <1>4, <1>5 DEF Next

\* PointsLostOnlyByRaces: a position that has been handled is in the archive and, unless
\* another of that day was between its load and its save when it was saved or the other way
\* about, in its day's track.
THEOREM PointsLostByRacesOnly == Spec => []PointsLostOnlyByRaces
<1>1. Init => PointsOK
  <2> SUFFICES ASSUME Init PROVE PointsOK
    OBVIOUS
  <2>1. \A m \in Messages : msg[m].pc = "unsent"
    BY DEF Init, Unsent
  <2> QED
    BY <2>1 DEF PointsOK, At, HandledPosition
<1>2. Typed /\ PointsOK /\ [Next]_vars => PointsOK'
  BY PointsStep
<1>3. PointsOK => PointsLostOnlyByRaces
  <2> SUFFICES ASSUME PointsOK, NEW m \in Messages, HandledPosition(m)
               PROVE  /\ m \in positions
                      /\ m \in raced \/ (track[TrackOf(m)] # None /\ m \in track[TrackOf(m)])
    BY DEF PointsLostOnlyByRaces, TrackOf, Day
  <2>1. m \in positions /\ (m \in raced \/ PointKept(m))
    BY DEF PointsOK
  <2> QED
    BY <2>1 DEF PointKept, PointsIn
<1> QED
  BY <1>1, <1>2, <1>3, TypesHold, PTL DEF Spec

------------------------------------------------------------------------------
(* The counter.                                                            *)

\* When an engine ran is in what the messages say.
LEMMA EngineSame ==
    ASSUME NEW f, NEW g, NEW a \in Seq(Messages), NEW r, NEW q, EngineOK(f, a, r),
           \A n \in Messages : f[n].pc # "unsent" => Same(f[n], g[n]) /\ g[n].pc # "unsent",
           q.ign = r.ign, q.changed = r.changed, q.acc = r.acc
    PROVE  EngineOK(g, a, q) /\ (CounterOK(f, a, r) => CounterOK(g, a, q))
<1>1. \A i \in DOMAIN a : /\ g[a[i]].ts = f[a[i]].ts /\ g[a[i]].ign = f[a[i]].ign
                          /\ g[a[i]].pc # "unsent"
  <2>1. \A i \in DOMAIN a : a[i] \in Messages
    OBVIOUS
  <2> QED
    BY <2>1 DEF EngineOK, Same
<1>2. EngineOK(g, a, q)
  <2>1. a # <<>> => Len(a) \in DOMAIN a
    OBVIOUS
  <2> QED
    BY <1>1, <2>1 DEF EngineOK
<1>3. Sorted(g, a) => Sorted(f, a)
  BY <1>1 DEF Sorted
<1>4. \A t \in Times : Before(g, a, t) = Before(f, a, t)
  BY <1>1 DEF Before
<1>5. \A t \in Times : Before(f, a, t) \subseteq DOMAIN a
  BY DEF Before
<1>6. \A t \in Times : Ran(g, a, t) <=> Ran(f, a, t)
  BY <1>1, <1>4, <1>5 DEF Ran
<1>7. RanUntil(g, a, q.changed) = RanUntil(f, a, r.changed)
  BY <1>6 DEF RanUntil
<1> QED
  BY <1>2, <1>3, <1>7 DEF CounterOK

\* One more message m, none of the others later: until it comes the engine is as the last of
\* the others left it.
LEMMA RunsOn ==
    ASSUME NEW f \in [Messages -> Msg], NEW a \in Seq(Messages), NEW m \in Messages,
           a # <<>>, Sorted(f, Append(a, m)),
           NEW last, last = f[a[Len(a)]]
    PROVE  /\ Sorted(f, a) /\ last.ts <= f[m].ts
           /\ RanUntil(f, Append(a, m), f[m].ts)
                = RanUntil(f, a, last.ts)
                  \cup IF last.ign = "on" THEN last.ts..(f[m].ts - 1) ELSE {}
           /\ RanUntil(f, a, last.ts) \cap (last.ts..(f[m].ts - 1)) = {}
<1> DEFINE b == Append(a, m)
           k == Len(a)
           end == f[m].ts
<1>1. /\ k \in Nat /\ k > 0 /\ DOMAIN a = 1..k /\ DOMAIN b = 1..k + 1 /\ b[k + 1] = m
      /\ \A i \in 1..k : b[i] = a[i] /\ a[i] \in Messages
  OBVIOUS
<1>2. Times \subseteq Nat /\ None \notin Times
  BY BoundsAssumption, NoneAssumption DEF Times
<1>3. \A n \in Messages : f[n].ts \in Times /\ f[n].ts \in Nat
  BY <1>2 DEF Msg
<1>4. last = f[a[k]]
  OBVIOUS
<1> HIDE DEF b, k, end
<1>5. \A i \in 1..k : f[a[i]].ts <= last.ts /\ f[a[i]].ts <= end
  <2>1. Sorted(f, b)
    BY DEF b
  <2>2. \A i \in 1..k : i < k + 1 /\ i \in DOMAIN b /\ k + 1 \in DOMAIN b
    BY <1>1
  <2>3. \A i \in 1..k : f[a[i]].ts <= end
    BY <1>1, <2>1, <2>2 DEF Sorted, end
  <2>4. ASSUME NEW i \in 1..k PROVE f[a[i]].ts <= last.ts
    <3>1. CASE i = k
      BY <1>1, <1>3, <1>4, <3>1
    <3>2. CASE i < k
      BY <1>1, <1>4, <2>1, <3>2 DEF Sorted
    <3> QED
      BY <1>1, <3>1, <3>2
  <2> QED
    BY <2>3, <2>4
<1>6. Sorted(f, a)
  <2>1. Sorted(f, b)
    BY DEF b
  <2> QED
    BY <1>1, <2>1 DEF Sorted
<1>7. last.ts \in Nat /\ last.ts \in Times /\ last.ts <= end /\ end \in Nat /\ end \in Times
  <2>1. k \in 1..k
    BY <1>1
  <2> QED
    BY <1>1, <1>3, <1>4, <1>5, <2>1 DEF end
<1>8. ASSUME NEW t \in Times, t < end
      PROVE  /\ Before(f, b, t) = Before(f, a, t)
             /\ Ran(f, b, t) <=> Ran(f, a, t)
             /\ ~ (t < last.ts) => (Ran(f, a, t) <=> last.ign = "on")
  <2>1. t \in Nat
    BY <1>2
  <2>2. Before(f, b, t) = Before(f, a, t)
    <3>1. ~ (f[b[k + 1]].ts <= t)
      BY <1>1, <1>7, <1>8, <2>1 DEF end
    <3>2. \A i \in DOMAIN b : i \in 1..k \/ i = k + 1
      BY <1>1
    <3>3. \A i \in 1..k : i \in DOMAIN b /\ b[i] = a[i]
      BY <1>1
    <3> QED
      BY <1>1, <3>1, <3>2, <3>3 DEF Before
  <2>3. \A i \in Before(f, a, t) : i \in 1..k
    BY <1>1 DEF Before
  <2>4. Ran(f, b, t) <=> Ran(f, a, t)
    BY <1>1, <2>2, <2>3 DEF Ran
  <2>5. ASSUME ~ (t < last.ts) PROVE Ran(f, a, t) <=> last.ign = "on"
    <3>1. \A i \in 1..k : f[a[i]].ts <= t
      BY <1>1, <1>3, <1>5, <1>7, <2>1, <2>5
    <3>2. Before(f, a, t) = 1..k
      BY <1>1, <3>1 DEF Before
    <3>3. \A i \in 1..k : (\A j \in 1..k : j <= i) => i = k
      BY <1>1
    <3>4. k \in 1..k /\ \A j \in 1..k : j <= k
      BY <1>1
    <3> QED
      BY <1>4, <3>2, <3>3, <3>4 DEF Ran
  <2> QED
    BY <2>2, <2>4, <2>5
<1>9. RanUntil(f, b, end)
        = RanUntil(f, a, last.ts) \cup IF last.ign = "on" THEN last.ts..(end - 1) ELSE {}
  <2>1. \A t : t \in RanUntil(f, b, end) <=> t \in Times /\ t < end /\ Ran(f, a, t)
    BY <1>2, <1>7, <1>8 DEF RanUntil
  <2>2. \A t : t \in RanUntil(f, a, last.ts) <=> t \in Times /\ t < last.ts /\ Ran(f, a, t)
    BY <1>2, <1>7 DEF RanUntil
  <2>3. \A t : t \in last.ts..(end - 1) <=> t \in Times /\ ~ (t < last.ts) /\ t < end
    BY <1>2, <1>7, BoundsAssumption DEF Times
  <2>4. \A t \in Times : t < last.ts => t < end
    BY <1>2, <1>7
  <2>5. \A t \in Times : t < end /\ ~ (t < last.ts) => (Ran(f, a, t) <=> last.ign = "on")
    BY <1>8
  <2> QED
    BY <2>1, <2>2, <2>3, <2>4, <2>5
<1>10. RanUntil(f, a, last.ts) \cap (last.ts..(end - 1)) = {}
  BY <1>2, <1>7 DEF RanUntil
<1> QED
  BY <1>6, <1>7, <1>9, <1>10 DEF b, end

\* What applyIgnitionAccum() adds is what the engine has run since the message before.
LEMMA Counts ==
    ASSUME NEW f \in [Messages -> Msg], NEW a \in Seq(Messages), NEW m \in Messages,
           NEW r, EngineOK(f, a, r), CounterOK(f, a, r), HasRead(f[m], r),
           Sorted(f, Append(a, m))
    PROVE  f[m].acc + Increment(f[m]) = Cardinality(RanUntil(f, Append(a, m), f[m].ts))
<1> DEFINE b == Append(a, m)
           c == f[m]
<1>1. c.ts \in Times /\ c.acc \in Nat /\ Times \subseteq Nat /\ None \notin Times
  <2>1. Times \subseteq Nat /\ None \notin Times
    BY BoundsAssumption, NoneAssumption DEF Times
  <2>2. c.ts \in Times /\ c.acc \in Nat
    BY DEF Msg
  <2> QED
    BY <2>1, <2>2
<1>2. CASE a = <<>>
  <2>1. Increment(c) = 0
    BY <1>2 DEF EngineOK, HasRead, Increment
  <2>2. RanUntil(f, a, None) = {}
    BY DEF RanUntil
  <2>3. c.acc = 0
    <3>1. Sorted(f, a)
      BY <1>2 DEF Sorted
    <3>2. r.acc = Cardinality({})
      BY <1>2, <2>2, <3>1 DEF CounterOK, EngineOK
    <3> QED
      BY <3>2, FS_EmptySet DEF HasRead
  <2>4. RanUntil(f, b, c.ts) = {}
    <3>1. DOMAIN b = {1} /\ b[1] = m
      BY <1>2
    <3>2. \A t \in Times : t < c.ts => ~ (c.ts <= t)
      <4>1. c.ts \in Nat /\ \A t \in Times : t \in Nat
        BY <1>1
      <4> HIDE DEF c
      <4> QED
        BY <4>1
    <3> HIDE DEF b
    <3>3. \A t \in Times : t < c.ts => Before(f, b, t) = {}
      BY <3>1, <3>2 DEF Before
    <3> QED
      BY <3>3 DEF RanUntil, Ran
  <2> QED
    BY <2>1, <2>3, <2>4, FS_EmptySet
<1>3. CASE a # <<>>
  <2> DEFINE last == f[a[Len(a)]]
             S == RanUntil(f, a, last.ts)
             T == IF last.ign = "on" THEN last.ts..(c.ts - 1) ELSE {}
  <2>1. /\ Sorted(f, a) /\ last.ts <= c.ts
        /\ RanUntil(f, b, c.ts) = S \cup T
        /\ S \cap T = {}
    BY <1>3, RunsOn
  <2>2. /\ c.was = last.ign /\ c.since = last.ts /\ c.acc = Cardinality(S)
    BY <1>3, <2>1 DEF EngineOK, HasRead, CounterOK
  <2>3. last.ts \in Times
    <3>1. Len(a) \in DOMAIN a /\ a[Len(a)] \in Messages
      BY <1>3
    <3> QED
      BY <3>1 DEF Msg
  <2>4. IsFiniteSet(S)
    <3>1. IsFiniteSet(Times)
      BY BoundsAssumption, FS_Interval DEF Times
    <3> QED
      BY <3>1, FS_Subset DEF RanUntil
  <2>5. /\ IsFiniteSet(last.ts..(c.ts - 1))
        /\ Cardinality(last.ts..(c.ts - 1)) = c.ts - last.ts
    <3> DEFINE x == last.ts
               y == c.ts - 1
    <3>1. x \in Int /\ y \in Int /\ x <= y + 1 /\ c.ts \in Int
      <4>1. x \in Nat /\ c.ts \in Nat /\ x <= c.ts
        BY <1>1, <2>1, <2>3
      <4> HIDE DEF x, c
      <4> QED
        BY <4>1
    <3>2. IsFiniteSet(x..y) /\ Cardinality(x..y) = IF x > y THEN 0 ELSE y - x + 1
      <4> HIDE DEF x, y
      <4> QED
        BY <3>1, FS_Interval
    <3>3. Cardinality(x..y) = c.ts - x
      <4>1. y = c.ts - 1
        OBVIOUS
      <4> HIDE DEF x, y
      <4> QED
        BY <3>1, <3>2, <4>1
    <3> QED
      BY <3>2, <3>3
  <2>6. Increment(c) = IF last.ign = "on" THEN c.ts - last.ts ELSE 0
    <3>1. last.ts \in Nat /\ c.ts \in Nat /\ last.ts # None /\ last.ts <= c.ts
      BY <1>1, <2>1, <2>3
    <3>2. Increment(c) = IF last.ign = "on" /\ c.ts > last.ts THEN c.ts - last.ts ELSE 0
      BY <2>2, <3>1 DEF Increment
    <3> HIDE DEF last, c
    <3>3. c.ts > last.ts \/ c.ts - last.ts = 0
      BY <3>1
    <3> QED
      BY <3>2, <3>3
  <2>7. IsFiniteSet(T) /\ Cardinality(T) = Increment(c)
    BY <2>5, <2>6, FS_EmptySet
  <2> HIDE DEF S, T
  <2>8. Cardinality(S \cup T) = Cardinality(S) + Cardinality(T) - Cardinality(S \cap T)
    BY <2>4, <2>7, FS_Union
  <2>9. Cardinality(S \cap T) = 0
    BY <2>1, FS_EmptySet
  <2>10. Cardinality(S) \in Nat /\ Cardinality(T) \in Nat
    BY <2>4, <2>7, FS_CardinalityType
  <2> QED
    BY <2>1, <2>2, <2>7, <2>8, <2>9, <2>10
<1> QED
  BY <1>2, <1>3

\* A step that changes no ignition, and after which nobody has read one anew.
LEMMA EnginesStay ==
    ASSUME Typed, EnginesOK, UNCHANGED <<applied, mixed>>,
           \A v \in Vehicles : /\ row'[v].ign = row[v].ign /\ row'[v].changed = row[v].changed
                               /\ row'[v].acc = row[v].acc,
           \A n \in Messages : msg[n].pc # "unsent" => Goes(n),
           \A n \in Messages : msg'[n].pc = "count" => msg'[n] = msg[n]
    PROVE  EnginesOK'
<1> SUFFICES ASSUME NEW v \in Vehicles
             PROVE  /\ EngineOK(msg', applied'[v], row'[v])
                    /\ v \notin mixed' => CounterOK(msg', applied'[v], row'[v])
                    /\ v \notin mixed' =>
                           \A m \in Messages : msg'[m].pc = "count" /\ msg'[m].vehicle = v
                                                  => HasRead(msg'[m], row'[v])
  BY DEF EnginesOK, At
<1>1. applied'[v] = applied[v] /\ applied[v] \in Seq(Messages) /\ mixed' = mixed
  BY DEF Typed, TypeOK
<1>2. \A n \in Messages : msg[n].pc # "unsent" => Same(msg[n], msg'[n]) /\ msg'[n].pc # "unsent"
  BY DEF Goes
<1>3. /\ EngineOK(msg', applied[v], row'[v])
      /\ CounterOK(msg, applied[v], row[v]) => CounterOK(msg', applied[v], row'[v])
  <2>1. EngineOK(msg, applied[v], row[v])
    BY DEF EnginesOK
  <2> QED
    BY <1>1, <1>2, <2>1, EngineSame
<1>4. ASSUME v \notin mixed, NEW m \in Messages, msg'[m].pc = "count", msg'[m].vehicle = v
      PROVE  HasRead(msg'[m], row'[v])
  <2>1. msg'[m] = msg[m]
    BY <1>4
  <2>2. HasRead(msg[m], row[v])
    BY <1>4, <2>1 DEF EnginesOK, At
  <2> QED
    BY <2>1, <2>2 DEF HasRead
<1> QED
  BY <1>1, <1>3, <1>4 DEF EnginesOK

\* Who reads a row reads what is there.
LEMMA IgniteEngines ==
    ASSUME Typed, EnginesOK, NEW m \in Messages, Ignite(m)
    PROVE  EnginesOK'
<1>1. /\ Moves(m, "count") /\ UNCHANGED <<row, applied, mixed>>
      /\ HasRead(msg'[m], row[msg[m].vehicle])
  BY IgniteMoves DEF Typed, Ignite, tables, history, HasRead
<1>2. \A n \in Messages : Goes(n)
  BY HandleGoes DEF Handle
<1> SUFFICES ASSUME NEW v \in Vehicles
             PROVE  /\ EngineOK(msg', applied[v], row[v])
                    /\ v \notin mixed => CounterOK(msg', applied[v], row[v])
                    /\ v \notin mixed =>
                           \A n \in Messages : msg'[n].pc = "count" /\ msg'[n].vehicle = v
                                                  => HasRead(msg'[n], row[v])
  BY <1>1 DEF EnginesOK, At
<1>3. /\ EngineOK(msg', applied[v], row[v])
      /\ CounterOK(msg, applied[v], row[v]) => CounterOK(msg', applied[v], row[v])
  <2>1. \A n \in Messages : msg[n].pc # "unsent" => Same(msg[n], msg'[n]) /\ msg'[n].pc # "unsent"
    BY <1>2 DEF Goes
  <2>2. EngineOK(msg, applied[v], row[v]) /\ applied[v] \in Seq(Messages)
    BY DEF EnginesOK, Typed, TypeOK
  <2> QED
    BY <2>1, <2>2, EngineSame
<1>4. ASSUME v \notin mixed, NEW n \in Messages, msg'[n].pc = "count", msg'[n].vehicle = v
      PROVE  HasRead(msg'[n], row[v])
  <2>1. CASE n = m
    BY <1>1, <1>4, <2>1 DEF Moves, Same
  <2>2. CASE n # m
    BY <1>1, <1>4, <2>2 DEF Moves, EnginesOK, At
  <2> QED
    BY <2>1, <2>2
<1> QED
  BY <1>3, <1>4 DEF EnginesOK

\* Who writes what it has added, if nobody else is between the two, writes how long the engine
\* has run.
LEMMA CountEngines ==
    ASSUME Typed, EnginesOK, NEW m \in Messages, Count(m)
    PROVE  EnginesOK'
<1> DEFINE v == msg[m].vehicle
           b == Append(applied[v], m)
<1>1. /\ v \in Vehicles
      /\ row'[v].ign = msg[m].ign /\ row'[v].changed = msg[m].ts
      /\ row'[v].acc = msg[m].acc + Increment(msg[m])
      /\ \A u \in Vehicles \ {v} : row'[u] = row[u]
  BY CountWrites
<1>2. /\ msg \in [Messages -> Msg] /\ applied \in [Vehicles -> Seq(Messages)]
      /\ At(m, "count")
      /\ applied' = [applied EXCEPT ![v] = b]
      /\ mixed' = mixed \cup {v : n \in {n \in Messages \ {m} : At(n, "count") /\ msg[n].vehicle = v}}
  BY DEF Typed, TypeOK, Count
<1>3. Moves(m, "find meta")
  BY GotoMoves DEF Count, Typed, TypeOK, Pcs
<1>4. \A n \in Messages : msg[n].pc # "unsent" => Same(msg[n], msg'[n]) /\ msg'[n].pc # "unsent"
  BY HandleGoes DEF Handle, Goes
<1>5. applied'[v] = b /\ \A u \in Vehicles \ {v} : applied'[u] = applied[u]
  BY <1>1, <1>2
<1>6. \A n \in Messages : msg'[n].pc = "count" => n # m /\ msg'[n] = msg[n]
  BY <1>3 DEF Moves
<1> SUFFICES ASSUME NEW u \in Vehicles
             PROVE  /\ EngineOK(msg', applied'[u], row'[u])
                    /\ u \notin mixed' => CounterOK(msg', applied'[u], row'[u])
                    /\ u \notin mixed' =>
                           \A n \in Messages : msg'[n].pc = "count" /\ msg'[n].vehicle = u
                                                  => HasRead(msg'[n], row'[u])
  BY DEF EnginesOK, At
<1>7. CASE u # v
  <2>1. row'[u] = row[u] /\ applied'[u] = applied[u] /\ (u \notin mixed' => u \notin mixed)
    BY <1>1, <1>2, <1>5, <1>7
  <2>2. EngineOK(msg, applied[u], row[u]) /\ applied[u] \in Seq(Messages)
    BY <1>2 DEF EnginesOK
  <2>3. /\ EngineOK(msg', applied[u], row[u])
        /\ CounterOK(msg, applied[u], row[u]) => CounterOK(msg', applied[u], row[u])
    BY <1>4, <2>2, EngineSame
  <2>4. u \notin mixed =>
            \A n \in Messages : msg'[n].pc = "count" /\ msg'[n].vehicle = u
                                   => HasRead(msg'[n], row[u])
    BY <1>6 DEF EnginesOK, At
  <2>5. u \notin mixed => CounterOK(msg, applied[u], row[u])
    BY DEF EnginesOK
  <2> QED
    BY <2>1, <2>3, <2>4, <2>5
<1>8. CASE u = v
  <2> DEFINE a == applied[v]
             r == row[v]
             q == row'[v]
  <2>1. EngineOK(msg, a, r) /\ a \in Seq(Messages)
    BY <1>1, <1>2 DEF EnginesOK
  <2>2. /\ b # <<>> /\ b \in Seq(Messages) /\ b[Len(b)] = m
        /\ \A i \in DOMAIN b : b[i] = m \/ (i \in DOMAIN a /\ b[i] = a[i])
    <3> HIDE DEF a, v
    <3> SUFFICES ASSUME a \in Seq(Messages)
                 PROVE  /\ Append(a, m) # <<>> /\ Append(a, m) \in Seq(Messages)
                        /\ Append(a, m)[Len(Append(a, m))] = m
                        /\ \A i \in DOMAIN Append(a, m) :
                               Append(a, m)[i] = m \/ (i \in DOMAIN a /\ Append(a, m)[i] = a[i])
      BY <2>1 DEF a
    <3> QED
      OBVIOUS
  <2>3. EngineOK(msg, b, q)
    <3>1. \A i \in DOMAIN b : msg[b[i]].pc # "unsent"
      BY <1>2, <2>1, <2>2 DEF EngineOK, At
    <3>2. q.changed = msg[b[Len(b)]].ts /\ q.ign = msg[b[Len(b)]].ign
      BY <1>1, <2>2
    <3> HIDE DEF b, q
    <3> QED
      BY <2>2, <3>1, <3>2 DEF EngineOK
  <2>4. ASSUME v \notin mixed' PROVE CounterOK(msg, b, q)
    <3>1. v \notin mixed
      BY <1>2, <2>4
    <3>2. HasRead(msg[m], r) /\ CounterOK(msg, a, r)
      BY <1>1, <1>2, <3>1 DEF EnginesOK
    <3>3. ASSUME Sorted(msg, b) PROVE q.acc = Cardinality(RanUntil(msg, b, q.changed))
      <4>1. msg[m].acc + Increment(msg[m]) = Cardinality(RanUntil(msg, b, msg[m].ts))
        BY <1>2, <2>1, <3>2, <3>3, Counts
      <4> HIDE DEF b
      <4> QED
        BY <1>1, <4>1
    <3> HIDE DEF b, q
    <3> QED
      BY <3>3 DEF CounterOK
  <2>5. /\ EngineOK(msg', b, q)
        /\ CounterOK(msg, b, q) => CounterOK(msg', b, q)
    <3> HIDE DEF b, q
    <3> QED
      BY <1>4, <2>2, <2>3, EngineSame
  <2>6. ASSUME v \notin mixed', NEW n \in Messages, msg'[n].pc = "count", msg'[n].vehicle = v
        PROVE  FALSE
    BY <1>2, <1>6, <2>6 DEF At
  <2> QED
    BY <1>5, <1>8, <2>4, <2>5, <2>6
<1> QED
  BY <1>7, <1>8

\* A handler's step keeps the counters.
LEMMA HandleEngines ==
    ASSUME Typed, EnginesOK, NEW m \in Messages, Handle(m)
    PROVE  EnginesOK'
<1>1. CASE Ignite(m)
  BY <1>1, IgniteEngines
<1>2. CASE Count(m)
  BY <1>2, CountEngines
<1>3. CASE ~ Ignite(m) /\ ~ Count(m)
  <2>1. UNCHANGED <<applied, mixed>>
    BY <1>3 DEF Handle, FindMeta, AddMeta, Archive, Load, Save, Locate, FindTrip, FinishForeign,
       StartTrip, AddPoint, history
  <2>2. \A v \in Vehicles : /\ row'[v].ign = row[v].ign /\ row'[v].changed = row[v].changed
                             /\ row'[v].acc = row[v].acc
    <3>1. CASE Locate(m)
      BY <3>1, LocateWrites
    <3>2. CASE ~ Locate(m)
      <4>1. row' = row
        BY <1>3, <3>2 DEF Handle, FindMeta, AddMeta, Archive, Load, Save, FindTrip, FinishForeign,
           StartTrip, AddPoint, tables
      <4> QED
        BY <4>1
    <3> QED
      BY <3>1, <3>2
  <2>3. \E p \in Pcs \ {"count"} : Moves(m, p)
    <3>1. CASE Archive(m)
      BY <3>1, GotoMoves DEF Archive, Pcs, Typed, TypeOK
    <3>2. CASE Load(m)
      BY <3>2, LoadMoves DEF Typed, Pcs
    <3> QED
      BY <1>3, <3>1, <3>2, LeadsOn
  <2>4. \A n \in Messages : msg'[n].pc = "count" => msg'[n] = msg[n]
    BY <2>3 DEF Moves
  <2> QED
    BY <2>1, <2>2, <2>4, HandleGoes, EnginesStay
<1> QED
  BY <1>1, <1>2, <1>3

\* So does every other step.
LEMMA EnginesStep ==
    ASSUME Typed, EnginesOK, [Next]_vars
    PROVE  EnginesOK'
<1>1. CASE FlushDue
  <2>1. /\ msg \in [Messages -> Msg] /\ DueNow \in SUBSET Messages /\ out \in Seq(Messages)
        /\ HandOver(msg, DueNow) /\ \A n \in DueNow : msg[n].pc = "buffered"
    BY <1>1 DEF Typed, TypeOK, DueNow, At, FlushDue
  <2>2. /\ \A n \in Messages : Same(msg[n], msg'[n])
        /\ \A n \in DueNow : msg'[n].pc \in {"ignite", "archive"}
        /\ \A n \in Messages \ DueNow : msg'[n] = msg[n]
    BY <2>1, HandsOver DEF FirstStep
  <2>3. UNCHANGED <<row, applied, mixed>>
    BY <2>1 DEF HandOver, tables, history
  <2>4. \A n \in Messages : Goes(n)
    BY <2>1, <2>2 DEF Goes
  <2> QED
    BY <2>2, <2>3, <2>4, EnginesStay
<1>2. CASE Stop
  <2>1. UNCHANGED <<row, applied, mixed>>
    BY <1>2 DEF Stop, tables, history
  <2>2. /\ \A n \in Messages : Goes(n)
        /\ \A n \in Messages : msg'[n].pc = "count" => msg'[n] = msg[n]
    BY <1>2, StopDoes DEF Goes
  <2> QED
    BY <2>1, <2>2, EnginesStay
<1>3. CASE Tick \/ UNCHANGED vars
  <2>1. UNCHANGED <<msg, row, applied, mixed>>
    BY <1>3 DEF Tick, vars, tables, history
  <2> QED
    BY <2>1 DEF EnginesOK, At
<1>4. ASSUME NEW m \in Messages, NEW v \in Vehicles, NEW stamp \in 0..MaxStamp,
             NEW c \in Contents, Receive(m, v, stamp, c)
      PROVE  EnginesOK'
  <2>1. PICK f, ms : /\ Arrives(f, m, v) /\ ms \in SUBSET Held(f, v) /\ HandOver(f, ms)
    BY <1>4, ReceiveDoes
  <2>2. /\ f \in [Messages -> Msg] /\ ms \in SUBSET Messages /\ out \in Seq(Messages)
        /\ \A n \in ms : f[n].pc = "buffered"
    BY <2>1 DEF Arrives, Held, Typed, TypeOK
  <2>3. /\ \A n \in Messages : Same(f[n], msg'[n])
        /\ \A n \in ms : msg'[n].pc \in {"ignite", "archive"}
        /\ \A n \in Messages \ ms : msg'[n] = f[n]
    BY <2>1, <2>2, HandsOver DEF FirstStep
  <2>4. /\ UNCHANGED <<row, applied, mixed>> /\ msg[m].pc = "unsent"
        /\ f[m].pc = "buffered" /\ \A n \in Messages \ {m} : f[n] = msg[n]
    BY <1>4, <2>1 DEF HandOver, tables, history, Arrives, Receive, At
  <2>5. ASSUME NEW n \in Messages, msg[n].pc # "unsent" PROVE Goes(n)
    BY <2>2, <2>3, <2>4, <2>5 DEF Goes
  <2>6. ASSUME NEW n \in Messages, msg'[n].pc = "count" PROVE msg'[n] = msg[n]
    BY <2>3, <2>4, <2>6
  <2> QED
    BY <2>4, <2>5, <2>6, EnginesStay
<1>5. ASSUME NEW m \in Messages, Handle(m) PROVE EnginesOK'
  BY <1>5, HandleEngines
<1> QED
  BY <1>1, <1>2, <1>3, <1>4, <1>5 DEF Next

\* CounterIsRunningTime: where no two handlers have had a vehicle's row between its read and
\* its write at once and its messages came in order, its counter is the time its engine ran.
THEOREM CounterCounts == Spec => []CounterIsRunningTime
<1>1. Init => EnginesOK
  <2> SUFFICES ASSUME Init, NEW v \in Vehicles
               PROVE  /\ EngineOK(msg, applied[v], row[v])
                      /\ CounterOK(msg, applied[v], row[v])
                      /\ \A m \in Messages : ~ At(m, "count")
    BY DEF EnginesOK
  <2>1. applied[v] = <<>> /\ row[v].changed = None /\ row[v].acc = 0
    BY DEF Init
  <2>2. \A m \in Messages : ~ At(m, "count")
    BY DEF Init, Unsent, At
  <2>3. RanUntil(msg, applied[v], row[v].changed) = {}
    BY <2>1 DEF RanUntil
  <2>4. EngineOK(msg, applied[v], row[v])
    <3>1. DOMAIN applied[v] = {}
      BY <2>1
    <3> QED
      BY <2>1, <3>1 DEF EngineOK
  <2>5. CounterOK(msg, applied[v], row[v])
    <3>1. Cardinality(RanUntil(msg, applied[v], row[v].changed)) = 0
      BY <2>3, FS_EmptySet
    <3> QED
      BY <2>1, <3>1 DEF CounterOK
  <2> QED
    BY <2>2, <2>4, <2>5
<1>2. Typed /\ EnginesOK /\ [Next]_vars => EnginesOK'
  BY EnginesStep
<1>3. EnginesOK => CounterIsRunningTime
  <2> SUFFICES ASSUME EnginesOK, NEW v \in Vehicles, v \notin mixed, InOrder(v)
               PROVE  row[v].acc = Cardinality({t \in Times : /\ row[v].changed # None
                                                             /\ t < row[v].changed
                                                             /\ RanAt(v, t)})
    BY DEF CounterIsRunningTime
  <2>1. Sorted(msg, applied[v]) /\ CounterOK(msg, applied[v], row[v])
    BY DEF InOrder, Sorted, EnginesOK
  <2>2. \A t \in Times : RanAt(v, t) <=> Ran(msg, applied[v], t)
    BY DEF RanAt, Ran, Before
  <2>3. {t \in Times : row[v].changed # None /\ t < row[v].changed /\ RanAt(v, t)}
          = RanUntil(msg, applied[v], row[v].changed)
    BY <2>2 DEF RanUntil
  <2> QED
    BY <2>1, <2>3 DEF CounterOK
<1> QED
  BY <1>1, <1>2, <1>3, TypesHold, PTL DEF Spec
=============================================================================
