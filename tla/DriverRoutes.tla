---------------------------- MODULE DriverRoutes ----------------------------
(***************************************************************************)
(* driver_routes and the operations of DriverRouteService that write it:   *)
(* startRoute, finishRoute, addPoint, addRouteMeta and the mirroring of a  *)
(* vehicle's telemetry.  addPoint appends under a row lock, addRouteMeta   *)
(* in one UPDATE; the others load the row, change their copy and save() it *)
(* with nothing held in between.                                           *)
(*                                                                         *)
(* A point is its timestamp, a telemetry event is only counted, distances  *)
(* and the other summaries are left out.  An end of 0 is finished_at NULL. *)
(***************************************************************************)
EXTENDS Integers, FiniteSets, Sequences

CONSTANTS
    Drivers,
    Vehicles,
    RouteIds,     \* primary keys the table can hand out; bounds the table
    Calls,        \* service calls that may be in flight together
    MaxTime,      \* bounds the times clients and devices send
    MaxEvents,    \* bounds the telemetry events of a route
    FreshFor,     \* how far apart two starts of one trip may be (30 s)
    None          \* no row, no vehicle

Route ==
    [driver : Drivers, vehicle : Vehicles \cup {None}, start : Nat, end : Nat,
     active : BOOLEAN, points : Seq(Nat), last : Nat, count : Nat, events : Nat]

ASSUME NoneAssumption ==
    None \notin RouteIds \cup Drivers \cup Vehicles \cup Route
ASSUME BoundsAssumption == MaxTime \in Nat /\ MaxEvents \in Nat /\ FreshFor \in Nat

VARIABLES
    routes,       \* driver_routes, by primary key
    call          \* per call: the operation it runs and its local variables

vars == <<routes, call>>

Times == 1..MaxTime
Null  == 0

PCs == {"idle", "findActive", "findOne", "findCovering", "readMeta", "updateMeta",
        "reload", "write", "insert", "append", "broadcast", "reply", "failed"}
Ops == {"none", "start", "finish", "point", "meta", "mirror"}

Call ==
    [pc : PCs, op : Ops, driver : Drivers \cup {None},
     vehicle : Vehicles \cup {None}, at : Nat,
     id : RouteIds \cup {None},        \* the route the call works on
     copy : Route \cup {None},         \* the entity it has loaded and changed
     base : Route \cup {None},         \* the row save() has compared it with
     sent : RouteIds \cup {None}]      \* the route the gateway has broadcast

NoCall ==
    [pc |-> "idle", op |-> "none", driver |-> None, vehicle |-> None, at |-> 0,
     id |-> None, copy |-> None, base |-> None, sent |-> None]

------------------------------------------------------------------------------
(* The table, with the constraints of its entity.                          *)

Stored(t) == {i \in RouteIds : t[i] # None}
ActiveOf(t, d) == {i \in Stored(t) : t[i].active /\ t[i].driver = d}

NewRoute(d, v, at) ==
    [driver |-> d, vehicle |-> v, start |-> at, end |-> Null, active |-> TRUE,
     points |-> <<>>, last |-> Null, count |-> 0, events |-> 0]

\* Mutant of Allowed: the partial unique index is missing.
AllowedWithoutIndex(t, i) == t[i].end = Null \/ t[i].end > t[i].start

\* The constraints the database checks on the row a statement writes.
Allowed(t, i) ==
    /\ t[i].end = Null \/ t[i].end > t[i].start
    /\ t[i].active => ActiveOf(t, t[i].driver) \subseteq {i}

\* save() writes the columns in which the entity differs from the row it has
\* just reloaded, and only those.
Merge(copy, base, row) ==
    LET written(c, b, r) == IF c # b THEN c ELSE r IN
    [row EXCEPT
        !.active = written(copy.active, base.active, row.active),
        !.end    = written(copy.end, base.end, row.end),
        !.points = written(copy.points, base.points, row.points),
        !.last   = written(copy.last, base.last, row.last),
        !.count  = written(copy.count, base.count, row.count),
        !.events = written(copy.events, base.events, row.events)]

\* Mutant of Finished: counts the legs between the points.
FinishedCountingLegs(r, at) ==
    [r EXCEPT !.active = FALSE, !.end = at, !.count = Len(r.points) - 1]

\* finishRoute and a start that ends the previous trip: what they make of their
\* copy.  finishRoute also recomputes the summaries from the points it has loaded.
Finished(r, at) ==
    [r EXCEPT !.active = FALSE, !.end = at, !.count = Len(r.points)]
Superseded(r, at) == [r EXCEPT !.active = FALSE, !.end = at]

\* addRouteMeta adds an event, in the UPDATE or in its copy.
WithEvent(r) == [r EXCEPT !.events = @ + 1]

\* The UPDATE of addPoint.
WithPoint(r, ts) ==
    [r EXCEPT !.points = Append(@, ts), !.last = ts, !.count = @ + 1]

\* getRouteByDriverAt takes the driver's latest start up to `at`, and drops it if
\* it had finished by then.
StartedBy(d, at) ==
    {i \in Stored(routes) : routes[i].driver = d /\ routes[i].start <= at}
Latest(rows) == {i \in rows : \A j \in rows : routes[j].start <= routes[i].start}
Covers(r, at) == r.end = Null \/ r.end > at

------------------------------------------------------------------------------
(* Calls arrive: from the gateway, the controllers, the assignment toggle  *)
(* and the vehicle ingest.                                                 *)

Accept(q, c) ==
    /\ call[q].pc = "idle"
    /\ call' = [call EXCEPT ![q] = c]
    /\ UNCHANGED routes

\* Bounds: a call that may insert leaves a key for the others that may, and one
\* that may add an event leaves room for theirs.
InFlight(ops) == Cardinality({q \in Calls : call[q].op \in ops})
RoomForRow == InFlight({"start", "mirror"}) < Cardinality(RouteIds \ Stored(routes))
RoomForEvent(i) == routes[i].events + InFlight({"meta", "mirror"}) < MaxEvents

StartRoute(q, d, v, at) ==
    /\ RoomForRow
    /\ Accept(q, [NoCall EXCEPT !.pc = "findActive", !.op = "start",
                                !.driver = d, !.vehicle = v, !.at = at])

FinishRoute(q, i, at) ==
    Accept(q, [NoCall EXCEPT !.pc = "findOne", !.op = "finish", !.id = i, !.at = at])

AddPoint(q, i, ts) ==
    Accept(q, [NoCall EXCEPT !.pc = "append", !.op = "point", !.id = i, !.at = ts])

AddRouteMeta(q, i) ==
    /\ RoomForEvent(i)
    /\ Accept(q, [NoCall EXCEPT !.pc = "readMeta", !.op = "meta", !.id = i])

\* The vehicle's assignment at that time named this driver.
IngestTelemetryForVehicle(q, d, v, at) ==
    /\ RoomForRow /\ MaxEvents > 0 /\ \A i \in Stored(routes) : RoomForEvent(i)
    /\ Accept(q, [NoCall EXCEPT !.pc = "findCovering", !.op = "mirror",
                                !.driver = d, !.vehicle = v, !.at = at])

------------------------------------------------------------------------------
(* The steps of the calls: one per statement sent to the database.         *)

\* To a step that does not use what has been loaded; to "idle": the call returns.
Goto(q, pc) ==
    call' = [call EXCEPT ![q] =
        IF pc = "idle" THEN NoCall
        ELSE [call[q] EXCEPT !.pc = pc, !.copy = None, !.base = None]]

\* To save(): reload the row and compare, then write.
ToSave(q, i, copy) ==
    call' = [call EXCEPT ![q].pc = "reload", ![q].id = i, ![q].copy = copy]

\* startRoute: a young trip on the same vehicle is the answer; any other active
\* trip of the driver is superseded first.
SameTrip(c, r) ==
    /\ c.vehicle # None /\ r.vehicle = c.vehicle
    /\ c.at - r.start <= FreshFor /\ r.start - c.at <= FreshFor

FindActive(q) ==
    LET c == call[q] IN
    /\ c.pc = "findActive"
    /\ \/ \E i \in ActiveOf(routes, c.driver) :
             IF SameTrip(c, routes[i]) THEN Goto(q, "idle")
             ELSE ToSave(q, i, Superseded(routes[i], c.at))
       \/ ActiveOf(routes, c.driver) = {} /\ Goto(q, "insert")
    /\ UNCHANGED routes

\* finishRoute: a trip already finished is the answer.
FindOne(q) ==
    LET i == call[q].id IN
    /\ call[q].pc = "findOne"
    /\ IF routes[i].active THEN ToSave(q, i, Finished(routes[i], call[q].at))
                           ELSE Goto(q, "idle")
    /\ UNCHANGED routes

\* ingestTelemetryForVehicle: the trip that covers the message, or a new one.
FindCovering(q) ==
    LET found == Latest(StartedBy(call[q].driver, call[q].at)) IN
    /\ call[q].pc = "findCovering"
    /\ \/ \E i \in found :
             IF Covers(routes[i], call[q].at)
             THEN call' = [call EXCEPT ![q].pc = "readMeta", ![q].id = i]
             ELSE Goto(q, "insert")
       \/ found = {} /\ Goto(q, "insert")
    /\ UNCHANGED routes

Reload(q) ==
    /\ call[q].pc = "reload"
    /\ call' = [call EXCEPT ![q].pc = "write", ![q].base = routes[call[q].id]]
    /\ UNCHANGED routes

\* A mirrored message is appended when it has coordinates.
AfterMeta(q) == IF call[q].op = "mirror" THEN {"append", "idle"} ELSE {"idle"}
AfterSave(q) == IF call[q].op = "start" THEN {"insert"} ELSE AfterMeta(q)

Write(q) ==
    LET i == call[q].id
        t == [routes EXCEPT ![i] = Merge(call[q].copy, call[q].base, @)]
    IN
    /\ call[q].pc = "write"
    /\ IF Allowed(t, i)
       THEN routes' = t /\ \E pc \in AfterSave(q) : Goto(q, pc)
       ELSE Goto(q, "failed") /\ UNCHANGED routes

\* A start without a vehicle takes the one of the driver's assignment, if any.
Insert(q) ==
    LET c == call[q] IN
    /\ c.pc = "insert"
    /\ \E i \in RouteIds \ Stored(routes), v \in Vehicles \cup {None} :
          LET t == [routes EXCEPT ![i] = NewRoute(c.driver, v, c.at)] IN
          /\ c.vehicle # None => v = c.vehicle
          /\ IF Allowed(t, i)
             THEN /\ routes' = t
                  /\ IF c.op = "start" THEN Goto(q, "idle")
                     ELSE call' = [call EXCEPT ![q].pc = "readMeta", ![q].id = i]
             ELSE Goto(q, "failed") /\ UNCHANGED routes

\* addRouteMeta: an event for a trip that is over is dropped.
ReadMeta(q) ==
    LET r == routes[call[q].id] IN
    /\ call[q].pc = "readMeta"
    /\ IF r.active
       THEN call' = [call EXCEPT ![q].pc = "updateMeta", ![q].copy = r]
       ELSE \E pc \in AfterMeta(q) : Goto(q, pc)
    /\ UNCHANGED routes

\* The UPDATE matches only an active row and is answered the same either way.
UpdateMeta(q) ==
    LET i == call[q].id IN
    /\ call[q].pc = "updateMeta"
    /\ routes' = IF routes[i].active THEN [routes EXCEPT ![i] = WithEvent(@)] ELSE routes
    /\ \E pc \in AfterMeta(q) : Goto(q, pc)

\* When the UPDATE throws, the copy read before it is saved with the event.
UpdateMetaThrows(q) ==
    /\ call[q].pc = "updateMeta"
    /\ ToSave(q, call[q].id, WithEvent(call[q].copy))
    /\ UNCHANGED routes

\* Mutant of Ignored: no look at the start.
IgnoredByOrderOnly(r, ts) == r.last # Null /\ ts <= r.last

\* A point from before the trip, or not after the last one, is passed over.
Ignored(r, ts) == ts < r.start \/ (r.last # Null /\ ts <= r.last)

\* addPoint: one transaction that holds the row from its read to its commit.
AppendPoint(q) ==
    LET i == call[q].id  ts == call[q].at  r == routes[i] IN
    /\ call[q].pc = "append"
    /\ CASE ~r.active -> Goto(q, "failed") /\ UNCHANGED routes
         [] r.active /\ Ignored(r, ts) -> Goto(q, "idle") /\ UNCHANGED routes
         [] OTHER ->
               /\ routes' = [routes EXCEPT ![i] = WithPoint(r, ts)]
               /\ Goto(q, "broadcast")

\* The raw UPDATE answers with a pair, not with rows: the id it is asked for is
\* undefined, and the route found and broadcast is any route there is.
Broadcast(q) ==
    /\ call[q].pc = "broadcast"
    /\ \E i \in Stored(routes) :
          call' = [call EXCEPT ![q].pc = "reply", ![q].sent = i]
    /\ UNCHANGED routes

Reply(q) ==
    /\ call[q].pc \in {"reply", "failed"}
    /\ call' = [call EXCEPT ![q] = NoCall]
    /\ UNCHANGED routes

------------------------------------------------------------------------------
Init ==
    /\ routes = [i \in RouteIds |-> None]
    /\ call = [q \in Calls |-> NoCall]

Arrive(q) ==
    \/ \E d \in Drivers, at \in Times :
          \/ \E v \in Vehicles \cup {None} : StartRoute(q, d, v, at)
          \/ \E v \in Vehicles : IngestTelemetryForVehicle(q, d, v, at)
    \/ \E i \in Stored(routes) :
          \/ \E at \in Times : FinishRoute(q, i, at) \/ AddPoint(q, i, at)
          \/ AddRouteMeta(q, i)

Step(q) ==
    \/ FindActive(q) \/ FindOne(q) \/ FindCovering(q) \/ Reload(q) \/ Write(q)
    \/ Insert(q) \/ ReadMeta(q) \/ UpdateMeta(q) \/ UpdateMetaThrows(q)
    \/ AppendPoint(q) \/ Broadcast(q) \/ Reply(q)

Next == \E q \in Calls : Arrive(q) \/ Step(q)

Spec == Init /\ [][Next]_vars

------------------------------------------------------------------------------
(* Properties.                                                             *)

\* The table holds rows and every call in flight has the locals its point in the
\* service needs.
TypeOK ==
    /\ routes \in [RouteIds -> Route \cup {None}]
    /\ call \in [Calls -> Call]

\* However starts, finishes, mirrored telemetry and stale save()s interleave, a
\* driver has one active trip at most (the partial unique index that startRoute
\* and getActiveRoute rely on).
OneActiveRoutePerDriver ==
    \A d \in Drivers : \A i, j \in ActiveOf(routes, d) : i = j

\* A trip with an end ends after it starts, whatever times finishRoute and a
\* superseding startRoute are given.
EndsAfterStart ==
    \A i \in Stored(routes) :
        routes[i].end # Null => routes[i].end > routes[i].start

\* No trip keeps a point from before its start: addPoint refuses them, and no
\* stale save() brings one in.
PointsFromStart ==
    \A i \in Stored(routes) :
        /\ routes[i].last # Null => routes[i].last >= routes[i].start
        /\ \A k \in DOMAIN routes[i].points : routes[i].points[k] >= routes[i].start

\* A point addPoint has accepted stays in its trip: a later write only adds to
\* the points.
AcceptedPointsKept ==
    [][\A i \in Stored(routes) :
          LET n == Len(routes[i].points) IN
          /\ Len(routes'[i].points) >= n
          /\ SubSeq(routes'[i].points, 1, n) = routes[i].points]_vars
=============================================================================
