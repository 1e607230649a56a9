-------------------------- MODULE VehicleTelemetry --------------------------
(***************************************************************************)
(* From a board's message to the rows of its vehicle (IngestService and    *)
(* the first half of VehiclesService).  A message waits in the reorder     *)
(* buffer until it is Window old, or the buffer is full; what leaves is    *)
(* sorted and handled with forEach, that is all at once: every handler     *)
(* runs on its own from one await to the next.                             *)
(*                                                                         *)
(* The calls to the trips are one step each, DriverRoutes has their        *)
(* insides; who drives what and when is given, DriverAssignments says how  *)
(* that changes; the fences and stations that end a handler are            *)
(* RouteWatch's.  Stamps that the fence of INGEST_TS_POLICY=reject would   *)
(* drop are messages that were never sent.                                 *)
(***************************************************************************)
EXTENDS Integers, FiniteSets, Sequences

CONSTANTS
    Vehicles, Drivers,
    Contents,          \* what messages may carry: records [ign, pos]
    DriverAt(_, _),    \* getDriverByVehicleAt(vehicle, time)
    Window,            \* 8 s
    MaxBatch,          \* 50
    Skew,              \* 1 h
    Fresh,             \* 30 s: startRoute() returns a trip this young
    DayLength,
    MaxStamp, MaxTime, \* bound the clocks of the boards and of the server
    MaxStops,          \* bounds the restarts
    MaxMessages,       \* bounds the messages, which are numbered as they come
    None

Messages == 1..MaxMessages
TripIds == 1..MaxMessages   \* serial keys; a message starts one trip at most
Times == 0..MaxTime
Days == {t \div DayLength : t \in Times}

ASSUME BoundsAssumption ==
    /\ Window \in Nat /\ MaxBatch \in Nat /\ Skew \in Nat /\ Fresh \in Nat
    /\ DayLength \in Nat \ {0} /\ MaxStamp \in Nat /\ MaxTime \in Nat
    /\ MaxStops \in Nat /\ MaxMessages \in Nat
    /\ MaxStamp + Window <= MaxTime
ASSUME ContentsAssumption ==
    /\ Contents \subseteq [ign : {"on", "off", "none"}, pos : BOOLEAN]
    /\ \A c \in Contents : c.ign # "none" \/ c.pos
ASSUME DriverAssumption ==
    /\ \A v \in Vehicles, t \in Times : DriverAt(v, t) \in Drivers \cup {None}
ASSUME NoneAssumption ==
    /\ None \notin Drivers /\ None \notin Vehicles
    /\ None \notin Times /\ None \notin Messages

VARIABLES
    now,
    stops,      \* restarts so far
    msg,        \* per message: what it says and where it is
    out,        \* messages in the order they left the buffer (history)
    row,        \* the table vehicles
    track,      \* vehicle_daily_tracks: per vehicle and day, None or its points
    positions,  \* the archive
    trips,      \* driver_routes
    applied,    \* per vehicle: messages in the order they set the ignition (history)
    mixed,      \* vehicles whose ignition two handlers have changed at once (history)
    raced       \* messages that shared a day's track with another (history)

tables == <<row, track, positions, trips>>
history == <<applied, mixed, raced>>
vars == <<now, stops, msg, out, tables, history>>

Msg == [vehicle : Vehicles \cup {None}, ts : Times, ign : {"on", "off", "none"},
        pos : BOOLEAN,
        pc : {"unsent", "buffered", "ignite", "count", "find meta", "add meta",
              "archive", "load", "save", "locate", "find trip", "finish", "start", "add",
              "done", "failed", "lost"},
        seen : Nat,                              \* how many had left when it came (history)
        since : Times \cup {None}, acc : Nat,
        was : {"on", "off"},                     \* the vehicle's row as it was read
        copy : SUBSET Messages, fresh : BOOLEAN, \* the day's track as it was read
        trip : TripIds \cup {None}]              \* the trip it goes to
Trip == [driver : Drivers, vehicle : Vehicles, start : Times, open : BOOLEAN,
         points : SUBSET Messages, last : Times \cup {None}, meta : SUBSET Messages]
ASSUME NullAssumption ==
    None \notin Trip /\ \A points \in SUBSET Messages : points # None

Unsent == [vehicle |-> None, ts |-> 0, ign |-> "none", pos |-> FALSE, pc |-> "unsent",
           seen |-> 0, since |-> None, acc |-> 0, was |-> "off", copy |-> {}, fresh |-> FALSE,
           trip |-> None]

At(m, pc) == msg[m].pc = pc
Running(m) == msg[m].pc \notin {"unsent", "buffered", "done", "failed", "lost"}
Buffered(v) == {m \in Messages : At(m, "buffered") /\ msg[m].vehicle = v}
Day(m) == msg[m].ts \div DayLength

\* What message c says, without what its handler has read.
Plain(c) == [Unsent EXCEPT !.vehicle = c.vehicle, !.ts = c.ts, !.ign = c.ign, !.pos = c.pos,
                           !.seen = c.seen]
Goto(m, pc) == msg' = [msg EXCEPT ![m] = [Plain(@) EXCEPT !.pc = pc]]

Stored == {t \in TripIds : trips[t] # None}
ActiveTrip(d) == {t \in Stored : trips[t].driver = d /\ trips[t].open}

------------------------------------------------------------------------------
(* The reorder buffer.                                                     *)

\* normalizeTsWithFence() under the policy clamp.
Clamp(ts) ==
    IF ts < now - Skew THEN now - Skew ELSE IF ts > now + Skew THEN now + Skew ELSE ts

\* processOne(): telemetry first, then the position.
FirstStep(c) == IF c.ign # "none" THEN "ignite" ELSE "archive"

\* Mutant of Orders: a batch leaves as it came.
OrdersUnsorted(f, ms) ==
    {s \in [1..Cardinality(ms) -> ms] : \A i, j \in DOMAIN s : i # j => s[i] # s[j]}

\* Ways to hand over ms, each vehicle's sorted by time.
Orders(f, ms) ==
    {s \in [1..Cardinality(ms) -> ms] : \A i, j \in DOMAIN s : i < j =>
        /\ s[i] # s[j]
        /\ f[s[i]].vehicle = f[s[j]].vehicle => f[s[i]].ts <= f[s[j]].ts}

\* The messages ms of f leave the buffer and are handled.
HandOver(f, ms) ==
    /\ msg' = [m \in Messages |->
                  IF m \in ms THEN [f[m] EXCEPT !.pc = FirstStep(f[m])] ELSE f[m]]
    /\ \E s \in Orders(f, ms) : out' = out \o s
    /\ UNCHANGED <<now, stops, tables, history>>

Held(f, v) == {m \in Messages : f[m].pc = "buffered" /\ f[m].vehicle = v}
IsDue(c) == c.ts <= now - Window

\* route() and push(): what is due leaves, and the rest of the vehicle's with it if that is a full
\* batch.
Receive(m, v, stamp, c) ==
    /\ At(m, "unsent") /\ \A n \in 1..m - 1 : ~At(n, "unsent")
    /\ \E f \in {[msg EXCEPT ![m] = [Unsent EXCEPT !.vehicle = v, !.ts = Clamp(stamp),
                                        !.ign = c.ign, !.pos = c.pos, !.pc = "buffered",
                                        !.seen = Len(out)]]} :
          LET kept == {n \in Held(f, v) : ~IsDue(f[n])}
          IN HandOver(f, IF Cardinality(kept) >= MaxBatch THEN Held(f, v)
                         ELSE Held(f, v) \ kept)

\* Mutant of DueNow: only a vehicle that has a full batch.
DueNowIfFull ==
    {m \in Messages : At(m, "buffered") /\ IsDue(msg[m])
                        /\ Cardinality(Held(msg, msg[m].vehicle)) >= MaxBatch}

DueNow == {m \in Messages : At(m, "buffered") /\ IsDue(msg[m])}

\* flushDue(), every 1.5 s.
FlushDue == DueNow # {} /\ HandOver(msg, DueNow)

\* onModuleDestroy() and the end of the process: flushAll() hands the rest to a callback
\* that does nothing, and handlers stop where they are.
Stop ==
    /\ stops < MaxStops                                                   \* bound
    /\ stops' = stops + 1
    /\ msg' = [m \in Messages |-> IF At(m, "buffered") \/ Running(m)
                                  THEN [Plain(msg[m]) EXCEPT !.pc = "lost"]
                                  ELSE msg[m]]
    /\ UNCHANGED <<now, out, tables, history>>

Tick ==
    /\ now < MaxTime                                                      \* bound
    /\ now' = now + 1
    /\ UNCHANGED <<stops, msg, out, tables, history>>

------------------------------------------------------------------------------
(* ingestVehicleTelemetry().  Odometer, idle time and temperature travel    *)
(* with the ignition; the last writer's stay, and nothing here reads them.  *)

\* applyIgnitionAccum(): the row is read ...
Ignite(m) ==
    LET r == row[msg[m].vehicle]
    IN /\ At(m, "ignite")
       /\ msg' = [msg EXCEPT ![m].pc = "count", ![m].was = r.ign,
                             ![m].since = r.changed, ![m].acc = r.acc]
       /\ UNCHANGED <<now, stops, out, tables, history>>

\* Mutant of Increment: the engine counts as running whatever it was.
IncrementAlways(c) ==
    IF c.since # None /\ c.ts > c.since THEN c.ts - c.since ELSE 0

\* Mutant of Increment: a late message counts backwards.
IncrementSigned(c) ==
    IF c.was = "on" /\ c.since # None THEN c.ts - c.since ELSE 0

\* Seconds the engine has run since the row was changed, by what was read of it.
Increment(c) ==
    IF c.was = "on" /\ c.since # None /\ c.ts > c.since THEN c.ts - c.since ELSE 0

\* ... and written, with what was read.
Count(m) ==
    LET v == msg[m].vehicle
    IN /\ At(m, "count")
       /\ row' = [row EXCEPT ![v].ign = msg[m].ign, ![v].changed = msg[m].ts,
                             ![v].acc = msg[m].acc + Increment(msg[m])]
       /\ applied' = [applied EXCEPT ![v] = Append(@, m)]
       /\ mixed' = mixed \cup
              {v : n \in {n \in Messages \ {m} : At(n, "count") /\ msg[n].vehicle = v}}
       /\ Goto(m, "find meta")
       /\ UNCHANGED <<now, stops, out, track, positions, trips, raced>>

AfterTelemetry(m) == IF msg[m].pos THEN "archive" ELSE "done"

\* The trip of the vehicle's driver, if it is in this vehicle.
FindMeta(m) ==
    LET d == DriverAt(msg[m].vehicle, msg[m].ts)
        own == {t \in ActiveTrip(d) : trips[t].vehicle = msg[m].vehicle}
    IN /\ At(m, "find meta")
       /\ IF own = {} THEN Goto(m, AfterTelemetry(m))
          ELSE \E t \in own :
                   msg' = [msg EXCEPT ![m].pc = "add meta", ![m].trip = t]
       /\ UNCHANGED <<now, stops, out, tables, history>>

\* addRouteMeta(): nothing is added to a trip that is over by now.
AddMeta(m) ==
    /\ At(m, "add meta")
    /\ trips' = IF trips[msg[m].trip].open
                THEN [trips EXCEPT ![msg[m].trip].meta = @ \cup {m}] ELSE trips
    /\ Goto(m, AfterTelemetry(m))
    /\ UNCHANGED <<now, stops, out, row, track, positions, history>>

------------------------------------------------------------------------------
(* The position: processOne() and ingestVehiclePos().                      *)

Archive(m) ==
    /\ At(m, "archive")
    /\ positions' = positions \cup {m}
    /\ Goto(m, "load")
    /\ UNCHANGED <<now, stops, out, row, track, trips, history>>

\* Mutant of TrackOf: any day's track of the vehicle.
TrackOfAnyDay(m) ==
    IF \E d \in Days : track[<<msg[m].vehicle, d>>] # None
    THEN CHOOSE k \in {msg[m].vehicle} \X Days : track[k] # None
    ELSE <<msg[m].vehicle, Day(m)>>

TrackOf(m) == <<msg[m].vehicle, Day(m)>>

Load(m) ==
    LET points == track[TrackOf(m)]
    IN /\ At(m, "load")
       /\ msg' = [msg EXCEPT ![m].pc = "save", ![m].fresh = points = None,
                             ![m].copy = (IF points = None THEN {} ELSE points) \cup {m}]
       /\ UNCHANGED <<now, stops, out, tables, history>>

\* save(): an insert that finds the day's row there already throws, and the rest of the
\* point is not handled; an update writes the copy over whatever is there.
Save(m) ==
    LET k == TrackOf(m)
        others == {n \in Messages \ {m} : At(n, "save") /\ TrackOf(n) = k}
    IN /\ At(m, "save")
       /\ IF msg[m].fresh /\ track[k] # None
          THEN Goto(m, "failed") /\ UNCHANGED track
          ELSE Goto(m, "locate") /\ track' = [track EXCEPT ![k] = msg[m].copy]
       /\ raced' = raced \cup (IF others = {} THEN {} ELSE others \cup {m})
       /\ UNCHANGED <<now, stops, out, row, positions, trips, applied, mixed>>

Locate(m) ==
    /\ At(m, "locate")
    /\ row' = [row EXCEPT ![msg[m].vehicle].place = m]
    /\ Goto(m, IF DriverAt(msg[m].vehicle, msg[m].ts) = None THEN "done" ELSE "find trip")
    /\ UNCHANGED <<now, stops, out, track, positions, trips, history>>

\* Mutant of WhereTo: a trip in another vehicle is taken for this one's.
WhereToAnyTrip(m, t) == "add"

\* What becomes of the trip the driver is on.
WhereTo(m, t) == IF trips[t].vehicle = msg[m].vehicle THEN "add" ELSE "finish"

\* getActiveRoute() of whoever drove at the time of the message.
FindTrip(m) ==
    LET active == ActiveTrip(DriverAt(msg[m].vehicle, msg[m].ts))
    IN /\ At(m, "find trip")
       /\ IF active = {} THEN Goto(m, "start")
          ELSE \E t \in active :
                   msg' = [msg EXCEPT ![m].pc = WhereTo(m, t), ![m].trip = t]
       /\ UNCHANGED <<now, stops, out, tables, history>>

FinishForeign(m) ==
    /\ At(m, "finish")
    /\ trips' = [trips EXCEPT ![msg[m].trip].open = FALSE]
    /\ Goto(m, "start")
    /\ UNCHANGED <<now, stops, out, row, track, positions, history>>

\* startRoute(): a trip in the same vehicle that has just begun is taken as it is, any
\* other is closed.  A trip begins now, whenever the message is from.
StartTrip(m) ==
    LET v == msg[m].vehicle
        d == DriverAt(v, msg[m].ts)
        same == {t \in ActiveTrip(d) : trips[t].vehicle = v /\ now - trips[t].start <= Fresh}
        closed == [t \in TripIds |->
                      IF t \in ActiveTrip(d) THEN [trips[t] EXCEPT !.open = FALSE] ELSE trips[t]]
    IN /\ At(m, "start")
       /\ IF same # {}
          THEN /\ \E t \in same : msg' = [msg EXCEPT ![m].pc = "add", ![m].trip = t]
               /\ UNCHANGED trips
          ELSE LET t == Cardinality(Stored) + 1 IN
                  /\ msg' = [msg EXCEPT ![m].pc = "add", ![m].trip = t]
                  /\ trips' = [closed EXCEPT ![t] =
                        [driver |-> d, vehicle |-> v, start |-> now, open |-> TRUE,
                         points |-> {}, last |-> None, meta |-> {}]]
       /\ UNCHANGED <<now, stops, out, row, track, positions, history>>

\* addPoint(): throws at a closed trip, ignores a point from before its start or its
\* last point.
AddPoint(m) ==
    LET t == msg[m].trip
        old == \/ msg[m].ts < trips[t].start
               \/ trips[t].last # None /\ msg[m].ts <= trips[t].last
    IN /\ At(m, "add")
       /\ Goto(m, IF trips[t].open THEN "done" ELSE "failed")
       /\ trips' = IF ~trips[t].open \/ old THEN trips
                   ELSE [trips EXCEPT ![t].points = @ \cup {m}, ![t].last = msg[m].ts]
       /\ UNCHANGED <<now, stops, out, row, track, positions, history>>

------------------------------------------------------------------------------
Init ==
    /\ now = 0 /\ stops = 0 /\ out = <<>>
    /\ msg = [m \in Messages |-> Unsent]
    /\ row = [v \in Vehicles |->
                 [ign |-> "off", changed |-> None, acc |-> 0, place |-> None]]
    /\ track = [k \in Vehicles \X Days |-> None]
    /\ positions = {} /\ raced = {} /\ mixed = {}
    /\ trips = [t \in TripIds |-> None]
    /\ applied = [v \in Vehicles |-> <<>>]

Handle(m) ==
    \/ Ignite(m) \/ Count(m) \/ FindMeta(m) \/ AddMeta(m)
    \/ Archive(m) \/ Load(m) \/ Save(m) \/ Locate(m)
    \/ FindTrip(m) \/ FinishForeign(m) \/ StartTrip(m) \/ AddPoint(m)

Next ==
    \/ \E m \in Messages, v \in Vehicles, stamp \in 0..MaxStamp, c \in Contents :
           Receive(m, v, stamp, c)
    \/ FlushDue \/ Stop \/ Tick
    \/ \E m \in Messages : Handle(m)

\* Time passes, setInterval() fires, and some call or other returns.
Fairness ==
    WF_vars(Tick) /\ WF_vars(FlushDue) /\ WF_vars(\E m \in Messages : Handle(m))

Spec == Init /\ [][Next]_vars /\ Fairness

------------------------------------------------------------------------------
(* What holds.                                                             *)

TypeOK ==
    /\ now \in Times /\ stops \in 0..MaxStops
    /\ msg \in [Messages -> Msg] /\ out \in Seq(Messages)
    /\ row \in [Vehicles -> [ign : {"on", "off"}, changed : Times \cup {None}, acc : Nat,
                             place : Messages \cup {None}]]
    /\ track \in [Vehicles \X Days -> (SUBSET Messages) \cup {None}]
    /\ positions \subseteq Messages /\ raced \subseteq Messages /\ mixed \subseteq Vehicles
    /\ trips \in [TripIds -> Trip \cup {None}]
    /\ applied \in [Vehicles -> Seq(Messages)]

\* Late is a message that came when later ones of its vehicle had left: nothing else is
\* overtaken on its way through the buffer.
OvertakenOnlyIfLate ==
    \A i, j \in DOMAIN out :
        /\ i < j
        /\ msg[out[i]].vehicle = msg[out[j]].vehicle
        /\ msg[out[j]].ts < msg[out[i]].ts
        => msg[out[j]].seen >= i

\* A handled position is missing from its day's track only if another position of that
\* day was between its load and its save at the same time; and it is in the archive.
HandledPosition(m) ==
    msg[m].pos /\ msg[m].pc \in {"locate", "find trip", "finish", "start", "add", "done", "failed"}
PointsLostOnlyByRaces ==
    \A m \in Messages : HandledPosition(m) =>
        /\ m \in positions
        /\ m \in raced \/ \E points \in {track[<<msg[m].vehicle, msg[m].ts \div DayLength>>]} :
                              points # None /\ m \in points

\* What the messages say of vehicle v's engine at t: the last one that is not later.
RanAt(v, t) ==
    LET before == {i \in DOMAIN applied[v] : msg[applied[v][i]].ts <= t}
    IN \E i \in before : msg[applied[v][i]].ign = "on" /\ \A j \in before : j <= i

InOrder(v) ==
    \A i, j \in DOMAIN applied[v] : i < j => msg[applied[v][i]].ts <= msg[applied[v][j]].ts

\* If no two messages change a vehicle's ignition at once and none is late, its counter
\* is the time its engine has run up to its last message.
CounterIsRunningTime ==
    \A v \in Vehicles : v \notin mixed /\ InOrder(v) =>
        row[v].acc = Cardinality({t \in Times : /\ row[v].changed # None /\ t < row[v].changed
                                               /\ RanAt(v, t)})

\* A trip holds the readings of the vehicle it is made in, from while its driver drove
\* it, however late they come and whatever hand-overs there were.
TripsAreOfTheirVehicle ==
    \A t \in Stored : \A m \in trips[t].points \cup trips[t].meta :
        /\ msg[m].vehicle = trips[t].vehicle
        /\ DriverAt(msg[m].vehicle, msg[m].ts) = trips[t].driver

\* Whatever is in the buffer is handled to the end, unless the process stops.
EveryMessageEnds ==
    \A m \in Messages : At(m, "buffered") ~> (msg[m].pc \in {"done", "failed", "lost"})
=============================================================================
