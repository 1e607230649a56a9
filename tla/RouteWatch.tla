----------------------------- MODULE RouteWatch -----------------------------
(***************************************************************************)
(* What ends the handling of a position: is the vehicle on its route       *)
(* (checkRouteGeofence) and how far is it along its stations               *)
(* (processStationsOnPoint), while routes are edited.  The lines of routes *)
(* are kept in routeCache, a Map that an edit has to invalidate; fences    *)
(* and stations are rows that are read, and saved later.                   *)
(*                                                                         *)
(* A line and a threshold are what they cover: Covers(shape, thr, place).  *)
(* A station is its order_no, and a place is in one core at most.          *)
(***************************************************************************)
EXTENDS Integers, Sequences, FiniteSets

CONSTANTS
    Vehicles, Routes,
    Places,
    Shapes, Thresholds,
    Covers(_, _, _),
    StationAt(_),      \* the station whose core a place is in, or 0
    Stations,          \* order numbers
    Dwell,             \* how long a vehicle stays for a visit
    Watchers,          \* positions that may be handled at once
    Editors,           \* edits that may be under way at once
    MaxTime,
    MaxEvents,         \* bounds positions, restarts and, counted twice, edits
    None

Times == 0..MaxTime

ASSUME StationsAssumption ==
    /\ Stations \subseteq Nat \ {0}
    /\ \A p \in Places : StationAt(p) \in Stations \cup {0}
ASSUME CoversAssumption ==
    \A s \in Shapes, t \in Thresholds, p \in Places : Covers(s, t, p) \in BOOLEAN
ASSUME BoundsAssumption ==
    Dwell \in Nat \ {0} /\ MaxTime \in Nat /\ MaxEvents \in Nat
ASSUME NoneAssumption ==
    /\ None \notin Vehicles \cup Routes \cup Shapes \cup Thresholds
    /\ None \notin {"in", "out", "enter", "exit", "visit"}

VARIABLES
    now, events,   \* the clock and what has happened so far
    routes,     \* the table of routes with their points
    cache,      \* routeCache
    current,    \* vehicles.current_route_id
    fence,      \* route_geofence_state
    crossings,  \* route_geofence_event, per vehicle and route
    offRoute,   \* violations, per vehicle and route
    stations,   \* vehicle_stations, per vehicle
    progress,   \* vehicle_station_state
    visits,     \* vehicle_station_event, per vehicle
    watch,      \* per position: where its handler is
    edit,       \* per edit: where it is
    raced,      \* routes that were loaded and edited at once since they left the cache (history)
    tangled,    \* fences and stations that two handlers had at once, or a crash cut (history)
    first       \* per fence: the side it was first seen on (history)

clocks == <<now, events>>
lines == <<routes, cache, current, raced>>
fences == <<fence, crossings, offRoute, first>>
stops == <<stations, progress, visits>>
vars == <<clocks, lines, fences, stops, watch, edit, tangled>>

Fences == Vehicles \X Routes
Line == [shape : Shapes \cup {None}, thr : Thresholds]
Progress == [next : Nat, had : BOOLEAN, inside : Nat, since : Times \cup {None}]
ASSUME NullAssumption ==
    None \notin [shape : Shapes, thr : Thresholds] \cup Progress \cup Times
Event == [type : {"enter", "exit", "visit"}, station : Stations, at : Times]

Watch == [pc : {"idle", "route", "threshold", "points", "fill", "fence", "save fence",
                "cross", "violate", "stations", "state", "init", "save state", "note"},
          vehicle : Vehicles \cup {None}, place : Places \cup {None}, at : Times,
          route : Routes \cup {None},
          shape : Shapes \cup {None}, thr : Thresholds \cup {None},
          was : {"in", "out", None},             \* the fence as it was read
          known : SUBSET Stations,               \* the stations as they were read
          state : Progress \cup {None},          \* the progress to save
          type : {"enter", "exit", "visit", None},
          station : Nat]
Idle == [pc |-> "idle", vehicle |-> None, place |-> None, at |-> 0, route |-> None,
         shape |-> None, thr |-> None, was |-> None, known |-> {}, state |-> None,
         type |-> None, station |-> 0]

Edit == [pc : {"idle", "assign", "threshold", "delete points", "invalidate", "save points",
               "update", "drop"},
         vehicle : Vehicles \cup {None}, route : Routes \cup {None},
         shape : Shapes \cup {None}, thr : Thresholds \cup {None}]
NoEdit == [pc |-> "idle", vehicle |-> None, route |-> None, shape |-> None, thr |-> None]

Happens(n) == events + n <= MaxEvents /\ events' = events + n            \* bound

Goto(w, pc) == watch' = [watch EXCEPT ![w].pc = pc]
Return(w) == watch' = [watch EXCEPT ![w] = Idle]
ToStations(w) ==
    watch' = [watch EXCEPT ![w] = [Idle EXCEPT !.pc = "stations",
                  !.vehicle = watch[w].vehicle, !.place = watch[w].place, !.at = watch[w].at]]

Live == {r \in Routes : routes[r].state = "live"}
Loading(r) == \E w \in Watchers :
    watch[w].route = r /\ watch[w].pc \in {"threshold", "points", "fill"}
Edits(r) == {e \in Editors : edit[e].route = r /\ edit[e].pc # "idle"}
Editing(r) == Edits(r) # {}

------------------------------------------------------------------------------
(* A position: the route of its vehicle and the line of the route.         *)

\* A position reaches the end of ingestVehiclePos().
Point(w, v, p) ==
    /\ watch[w].pc = "idle" /\ Happens(1)
    /\ watch' = [watch EXCEPT ![w] = [Idle EXCEPT
                     !.pc = "route", !.vehicle = v, !.place = p, !.at = now]]
    /\ UNCHANGED <<now, lines, fences, stops, edit, tangled>>

\* The current route is read; its line is in the cache, or has to be loaded.
ReadRoute(w) ==
    LET r == current[watch[w].vehicle]
    IN /\ watch[w].pc = "route"
       /\ IF r = None THEN ToStations(w) /\ UNCHANGED raced
          ELSE IF cache[r] # None
          THEN /\ watch' = [watch EXCEPT ![w].pc = "fence", ![w].route = r,
                               ![w].shape = cache[r].shape, ![w].thr = cache[r].thr]
               /\ UNCHANGED raced
          ELSE /\ watch' = [watch EXCEPT ![w].pc = "threshold", ![w].route = r]
               /\ raced' = IF Editing(r) THEN raced \cup {r} ELSE raced
       /\ UNCHANGED <<clocks, routes, cache, current, fences, stops, edit, tangled>>

ReadThreshold(w) ==
    LET r == watch[w].route
    IN /\ watch[w].pc = "threshold"
       /\ IF r \in Live
          THEN watch' = [watch EXCEPT ![w].pc = "points", ![w].thr = routes[r].thr]
          ELSE ToStations(w)
       /\ UNCHANGED <<clocks, lines, fences, stops, edit, tangled>>

\* Mutant of ReadPoints: no points are a line, too.
ReadPointsOrNone(w) ==
    /\ watch[w].pc = "points"
    /\ watch' = [watch EXCEPT ![w].pc = "fill", ![w].shape = routes[watch[w].route].shape]
    /\ UNCHANGED <<clocks, lines, fences, stops, edit, tangled>>

\* Fewer than two points are no line, and that is not remembered.
ReadPoints(w) ==
    LET r == watch[w].route
    IN /\ watch[w].pc = "points"
       /\ IF routes[r].shape = None THEN ToStations(w)
          ELSE watch' = [watch EXCEPT ![w].pc = "fill", ![w].shape = routes[r].shape]
       /\ UNCHANGED <<clocks, lines, fences, stops, edit, tangled>>

Fill(w) ==
    /\ watch[w].pc = "fill"
    /\ cache' = [cache EXCEPT ![watch[w].route] =
                    [shape |-> watch[w].shape, thr |-> watch[w].thr]]
    /\ Goto(w, "fence")
    /\ UNCHANGED <<clocks, routes, current, raced, fences, stops, edit, tangled>>

------------------------------------------------------------------------------
(* The fence.                                                              *)

Side(w) == IF Covers(watch[w].shape, watch[w].thr, watch[w].place) THEN "in" ELSE "out"
Fence(w) == <<watch[w].vehicle, watch[w].route>>
AtFence(w) == watch[w].pc \in {"save fence", "cross"}

ReadFence(w) ==
    /\ watch[w].pc = "fence"
    /\ watch' = [watch EXCEPT ![w].pc = "save fence", ![w].was = fence[Fence(w)]]
    /\ tangled' = IF \E u \in Watchers : AtFence(u) /\ Fence(u) = Fence(w)
                  THEN tangled \cup {Fence(w)} ELSE tangled
    /\ UNCHANGED <<clocks, lines, fences, stops, edit>>

\* The first position of a vehicle on a route makes the row; another handler may have
\* made it meanwhile, and then the insert throws and the stations are not looked at.
FirstFence(w) ==
    /\ watch[w].pc = "save fence" /\ watch[w].was = None
    /\ IF fence[Fence(w)] = None
       THEN /\ fence' = [fence EXCEPT ![Fence(w)] = Side(w)]
            /\ first' = [first EXCEPT ![Fence(w)] = Side(w)]
            /\ ToStations(w)
       ELSE Return(w) /\ UNCHANGED <<fence, first>>
    /\ UNCHANGED <<clocks, lines, crossings, offRoute, stops, edit, tangled>>

\* Mutant of Changed: an exit however often.
ChangedOrOut(w) == watch[w].was # Side(w) \/ Side(w) = "out"

Changed(w) == watch[w].was # Side(w)

SaveFence(w) ==
    /\ watch[w].pc = "save fence" /\ watch[w].was # None
    /\ fence' = [fence EXCEPT ![Fence(w)] = Side(w)]
    /\ IF Changed(w) THEN Goto(w, "cross") ELSE ToStations(w)
    /\ UNCHANGED <<clocks, lines, crossings, offRoute, first, stops, edit, tangled>>

Cross(w) ==
    /\ watch[w].pc = "cross"
    /\ crossings' = [crossings EXCEPT ![Fence(w)] = Append(@, Side(w))]
    /\ IF Side(w) = "out" THEN Goto(w, "violate") ELSE ToStations(w)
    /\ UNCHANGED <<clocks, lines, fence, offRoute, first, stops, edit, tangled>>

\* addOffRoute() and handleGeofenceExit().
Violate(w) ==
    /\ watch[w].pc = "violate"
    /\ offRoute' = [offRoute EXCEPT ![Fence(w)] = @ + 1]
    /\ ToStations(w)
    /\ UNCHANGED <<clocks, lines, fence, crossings, first, stops, edit, tangled>>

------------------------------------------------------------------------------
(* The stations.                                                           *)

ReadStations(w) ==
    LET v == watch[w].vehicle
    IN /\ watch[w].pc = "stations"
       /\ IF stations[v] = {} THEN Return(w)
          ELSE watch' = [watch EXCEPT ![w].pc = "state", ![w].known = stations[v]]
       /\ UNCHANGED <<clocks, lines, fences, stops, edit, tangled>>

\* Mutant of Stayed: however long the vehicle has been there.
StayedAtAll(st, at) == TRUE

\* Has a vehicle in state st been in the core long enough?
Stayed(st, at) == at - st.since >= Dwell

\* What a position makes of the state st: what is saved, and the event that follows.
Step(st, known, s, at) ==
    LET here == s = st.next
        enters == [next |-> st.next, had |-> TRUE, inside |-> s, since |-> at]
        leaves == [next |-> st.next, had |-> TRUE, inside |-> 0, since |-> None]
        done == [next |-> st.next + 1, had |-> TRUE, inside |-> 0, since |-> None]
        nothing == [save |-> None, type |-> None]
    IN IF st.next \notin known THEN nothing
       ELSE IF ~st.had /\ ~here THEN [save |-> [st EXCEPT !.had = TRUE], type |-> None]
       ELSE IF st.inside = st.next /\ ~here THEN [save |-> leaves, type |-> "exit"]
       ELSE IF here /\ st.inside # st.next THEN [save |-> enters, type |-> "enter"]
       ELSE IF here /\ Stayed(st, at) THEN [save |-> done, type |-> "visit"]
       ELSE nothing

\* w has the state st: on with it.
Decide(w, st) ==
    LET do == Step(st, watch[w].known, StationAt(watch[w].place), watch[w].at)
    IN IF do.save = None THEN Return(w)
       ELSE watch' = [watch EXCEPT ![w].pc = "save state", ![w].state = do.save,
                                   ![w].type = do.type, ![w].station = st.next]

AtState(w) == watch[w].pc \in {"init", "save state", "note"}

\* getOrInitStationState(): the row, or the wish to make one.
ReadState(w) ==
    LET v == watch[w].vehicle
    IN /\ watch[w].pc = "state"
       /\ IF progress[v] = None THEN Goto(w, "init") ELSE Decide(w, progress[v])
       /\ tangled' = IF \E u \in Watchers : AtState(u) /\ watch[u].vehicle = v
                     THEN tangled \cup {v} ELSE tangled
       /\ UNCHANGED <<clocks, lines, fences, stops, edit>>

\* The insert throws if another handler was faster.
InitState(w) ==
    LET v == watch[w].vehicle
        st == [next |-> 1, had |-> FALSE, inside |-> 0, since |-> None]
    IN /\ watch[w].pc = "init"
       /\ IF progress[v] = None
          THEN progress' = [progress EXCEPT ![v] = st] /\ Decide(w, st)
          ELSE Return(w) /\ UNCHANGED progress
       /\ UNCHANGED <<clocks, lines, fences, stations, visits, edit, tangled>>

\* save() of the whole copy.
SaveState(w) ==
    /\ watch[w].pc = "save state"
    /\ progress' = [progress EXCEPT ![watch[w].vehicle] = watch[w].state]
    /\ IF watch[w].type = None THEN Return(w) ELSE Goto(w, "note")
    /\ UNCHANGED <<clocks, lines, fences, stations, visits, edit, tangled>>

\* The event; whether it can be written does not matter.
Note(w) ==
    /\ watch[w].pc = "note"
    /\ visits' = [visits EXCEPT ![watch[w].vehicle] = Append(@,
           [type |-> watch[w].type, station |-> watch[w].station, at |-> watch[w].at])]
    /\ Return(w)
    /\ UNCHANGED <<clocks, lines, fences, stations, progress, edit, tangled>>

DeleteStation(v, s) ==
    /\ Happens(2)
    /\ s \in stations[v]
    /\ stations' = [stations EXCEPT ![v] = @ \ {s}]
    /\ UNCHANGED <<now, lines, fences, progress, visits, watch, edit, tangled>>

------------------------------------------------------------------------------
(* Edits of routes.                                                        *)

\* Mutant of Invalidate: it is forgotten.
InvalidateNot(e, r) == UNCHANGED <<cache, raced>>

\* invalidateRouteCache(), by the edit e.  A route that is being loaded may be put back.
Invalidate(e, r) ==
    /\ cache' = [cache EXCEPT ![r] = None]
    /\ raced' = IF Loading(r) \/ Edits(r) \ {e} # {} THEN raced \cup {r} ELSE raced \ {r}

\* An edit of r begins: it has found r there.
Begin(e, r, next) ==
    /\ edit[e].pc = "idle" /\ Happens(2)
    /\ r \in Live
    /\ edit' = [edit EXCEPT ![e] = next]
    /\ UNCHANGED <<now, routes, current, fences, stops, watch, tangled>>

Racing(r) == raced' = IF Loading(r) \/ Editing(r) THEN raced \cup {r} ELSE raced
Done(e) == edit' = [edit EXCEPT ![e] = NoEdit]
KeepWatch == UNCHANGED <<clocks, fences, stops, watch, tangled>>

\* setOrUpdateCurrentRoute(): another route for a vehicle, a threshold for the route, or
\* both; thr is None if the threshold stays.
BeginAssign(e, v, r, thr) ==
    /\ Begin(e, r, [NoEdit EXCEPT !.pc = "assign", !.vehicle = v, !.route = r, !.thr = thr])
    /\ Racing(r) /\ UNCHANGED cache

\* The vehicle is given the route, then the cache is invalidated for a new threshold.
Assign(e) ==
    LET r == edit[e].route
    IN /\ edit[e].pc = "assign"
       /\ current' = [current EXCEPT ![edit[e].vehicle] = r]
       /\ IF edit[e].thr = None THEN Done(e) /\ UNCHANGED <<cache, raced>>
          ELSE edit' = [edit EXCEPT ![e].pc = "threshold"] /\ Invalidate(e, r)
       /\ UNCHANGED routes /\ KeepWatch

BeginThreshold(e, v, thr) ==
    /\ current[v] # None
    /\ edit[e].pc = "idle" /\ Happens(2)
    /\ edit' = [edit EXCEPT ![e] = [NoEdit EXCEPT
                    !.pc = "threshold", !.route = current[v], !.thr = thr]]
    /\ Invalidate(e, current[v])
    /\ UNCHANGED <<now, routes, current, fences, stops, watch, tangled>>

SetThreshold(e) ==
    LET r == edit[e].route
    IN /\ edit[e].pc = "threshold"
       /\ routes' = IF r \in Live THEN [routes EXCEPT ![r].thr = edit[e].thr] ELSE routes
       /\ Done(e)
       /\ UNCHANGED <<cache, current, raced>> /\ KeepWatch

\* replaceRouteStations(): the points are deleted, the cache invalidated, new points saved.
BeginReplace(e, r, shape) ==
    /\ Begin(e, r, [NoEdit EXCEPT !.pc = "delete points", !.route = r, !.shape = shape])
    /\ Racing(r) /\ UNCHANGED cache

DeletePoints(e) ==
    LET r == edit[e].route
    IN /\ edit[e].pc = "delete points"
       /\ routes' = [routes EXCEPT ![r].shape = None]
       /\ edit' = [edit EXCEPT ![e].pc = "invalidate"]
       /\ UNCHANGED <<cache, current, raced>> /\ KeepWatch

InvalidateAfterDelete(e) ==
    /\ edit[e].pc = "invalidate"
    /\ Invalidate(e, edit[e].route)
    /\ edit' = [edit EXCEPT ![e].pc = "save points"]
    /\ UNCHANGED <<routes, current>> /\ KeepWatch

\* The insert throws if the route is gone, or has got points from another edit.
SavePoints(e) ==
    LET r == edit[e].route
    IN /\ edit[e].pc = "save points"
       /\ routes' = IF r \in Live /\ routes[r].shape = None
                    THEN [routes EXCEPT ![r].shape = edit[e].shape] ELSE routes
       /\ Done(e)
       /\ UNCHANGED <<cache, current, raced>> /\ KeepWatch

\* updateRouteForUser(): the cache is invalidated before the transaction.
BeginUpdate(e, r, shape, thr) ==
    /\ Begin(e, r, [NoEdit EXCEPT !.pc = "update", !.route = r, !.shape = shape, !.thr = thr])
    /\ Invalidate(e, r)

Update(e) ==
    LET r == edit[e].route
    IN /\ edit[e].pc = "update"
       /\ routes' = IF r \in Live
                    THEN [routes EXCEPT ![r].shape = edit[e].shape, ![r].thr = edit[e].thr]
                    ELSE routes
       /\ Done(e)
       /\ UNCHANGED <<cache, current, raced>> /\ KeepWatch

\* createRouteForVehicle(), one transaction; nobody can have loaded the route before.
Create(v, r, shape, thr) ==
    /\ Happens(2)
    /\ routes[r].state = "unused"
    /\ routes' = [routes EXCEPT ![r] = [state |-> "live", shape |-> shape, thr |-> thr]]
    /\ current' = [current EXCEPT ![v] = r]
    /\ UNCHANGED <<now, cache, raced, fences, stops, watch, edit, tangled>>

\* deleteRouteForUser(): the line stays in the cache, and no key is used twice.
BeginDelete(e, r) ==
    /\ Begin(e, r, [NoEdit EXCEPT !.pc = "drop", !.route = r])
    /\ Racing(r) /\ UNCHANGED cache

Drop(e) ==
    LET r == edit[e].route
    IN /\ edit[e].pc = "drop"
       /\ routes' = [routes EXCEPT ![r] = [@ EXCEPT !.state = "gone", !.shape = None]]
       /\ current' = [v \in Vehicles |-> IF current[v] = r THEN None ELSE current[v]]
       /\ Done(e)
       /\ UNCHANGED <<cache, raced>> /\ KeepWatch

Unassign(v) ==
    /\ Happens(2)
    /\ current' = [current EXCEPT ![v] = None]
    /\ UNCHANGED <<now, routes, cache, raced, fences, stops, watch, edit,
                   tangled>>

------------------------------------------------------------------------------
Tick ==
    /\ now < MaxTime /\ now' = now + 1                                    \* bound
    /\ UNCHANGED <<events, lines, fences, stops, watch, edit, tangled>>

Crossing == {w \in Watchers : watch[w].pc \in {"cross", "violate"}}

\* The process starts anew: the cache is empty, and what had begun is not ended.
Crash ==
    /\ Happens(1)
    /\ cache' = [r \in Routes |-> None]
    /\ raced' = {}
    /\ tangled' = tangled \cup {Fence(w) : w \in Crossing}
                    \cup {watch[w].vehicle : w \in {u \in Watchers : watch[u].pc = "note"}}
    /\ watch' = [w \in Watchers |-> Idle] /\ edit' = [e \in Editors |-> NoEdit]
    /\ UNCHANGED <<now, routes, current, fences, stops>>

Init ==
    /\ now = 0 /\ events = 0
    /\ \E on \in [Routes -> BOOLEAN], s \in Shapes, t \in Thresholds :
          routes = [r \in Routes |-> [state |-> IF on[r] THEN "live" ELSE "unused",
                                      shape |-> IF on[r] THEN s ELSE None, thr |-> t]]
    /\ current \in [Vehicles -> Live \cup {None}]
    /\ cache = [r \in Routes |-> None]
    /\ fence = [f \in Fences |-> None] /\ first = [f \in Fences |-> None]
    /\ crossings = [f \in Fences |-> <<>>] /\ offRoute = [f \in Fences |-> 0]
    /\ stations \in [Vehicles -> {{}, Stations}]
    /\ progress = [v \in Vehicles |-> None] /\ visits = [v \in Vehicles |-> <<>>]
    /\ watch = [w \in Watchers |-> Idle] /\ edit = [e \in Editors |-> NoEdit]
    /\ raced = {} /\ tangled = {}

Handle(w) ==
    \/ ReadRoute(w) \/ ReadThreshold(w) \/ ReadPoints(w) \/ Fill(w)
    \/ ReadFence(w) \/ FirstFence(w) \/ SaveFence(w) \/ Cross(w) \/ Violate(w)
    \/ ReadStations(w) \/ ReadState(w) \/ InitState(w) \/ SaveState(w) \/ Note(w)

Request(e) ==
    \/ \E v \in Vehicles, r \in Routes, t \in Thresholds \cup {None} : BeginAssign(e, v, r, t)
    \/ \E v \in Vehicles, t \in Thresholds : BeginThreshold(e, v, t)
    \/ \E r \in Routes, s \in Shapes : BeginReplace(e, r, s)
    \/ \E r \in Routes, s \in Shapes, t \in Thresholds : BeginUpdate(e, r, s, t)
    \/ \E r \in Routes : BeginDelete(e, r)

Continue(e) ==
    \/ Assign(e) \/ SetThreshold(e) \/ DeletePoints(e) \/ InvalidateAfterDelete(e)
    \/ SavePoints(e) \/ Update(e) \/ Drop(e)

Next ==
    \/ \E w \in Watchers, v \in Vehicles, p \in Places : Point(w, v, p)
    \/ \E w \in Watchers : Handle(w)
    \/ \E e \in Editors : Request(e) \/ Continue(e)
    \/ \E v \in Vehicles, r \in Routes, s \in Shapes, t \in Thresholds : Create(v, r, s, t)
    \/ \E v \in Vehicles : Unassign(v) \/ \E s \in Stations : DeleteStation(v, s)
    \/ Tick \/ Crash

Spec == Init /\ [][Next]_vars

------------------------------------------------------------------------------
(* What holds.                                                             *)

TypeOK ==
    /\ now \in Times /\ events \in 0..MaxEvents
    /\ routes \in [Routes -> [state : {"unused", "live", "gone"},
                              shape : Shapes \cup {None}, thr : Thresholds]]
    /\ cache \in [Routes -> [shape : Shapes, thr : Thresholds] \cup {None}]
    /\ current \in [Vehicles -> Routes \cup {None}]
    /\ fence \in [Fences -> {"in", "out", None}] /\ first \in [Fences -> {"in", "out", None}]
    /\ crossings \in [Fences -> Seq({"in", "out"})] /\ offRoute \in [Fences -> Nat]
    /\ stations \in [Vehicles -> SUBSET Stations]
    /\ progress \in [Vehicles -> Progress \cup {None}]
    /\ visits \in [Vehicles -> Seq(Event)]
    /\ watch \in [Watchers -> Watch] /\ edit \in [Editors -> Edit]
    /\ raced \subseteq Routes /\ tangled \subseteq Fences \cup Vehicles

\* When no edit of a route is under way, its line in the cache is the line in the tables,
\* unless an edit and a load of it have overlapped since the cache was last emptied.
CacheStaleOnlyByRace ==
    \A r \in Live :
        cache[r] = None \/ Editing(r) \/ r \in raced
            \/ cache[r] = [shape |-> routes[r].shape, thr |-> routes[r].thr]

\* A vehicle whose positions are handled one after the other is told to have entered and
\* left its route in turn, beginning with what it was not at first; the row agrees with
\* the last event, and there is a violation for every exit.
CrossingsAlternate ==
    \A f \in Fences : f \in tangled \/
        /\ \A i \in DOMAIN crossings[f] :
               crossings[f][i] # IF i = 1 THEN first[f] ELSE crossings[f][i - 1]
        /\ \/ \E w \in Crossing : Fence(w) = f
           \/ /\ fence[f] = IF crossings[f] = <<>> THEN first[f]
                            ELSE crossings[f][Len(crossings[f])]
              /\ offRoute[f] = Cardinality({i \in DOMAIN crossings[f] : crossings[f][i] = "out"})

\* A vehicle whose positions are handled one after the other visits stations in order,
\* each once, and each after it has entered it, not left it and stayed for Dwell.
StationsInOrder ==
    \A v \in Vehicles : v \in tangled \/
        \A j \in DOMAIN visits[v] : visits[v][j].type = "visit" =>
            /\ j > 1
            /\ visits[v][j - 1].type = "enter"
            /\ visits[v][j - 1].station = visits[v][j].station
            /\ visits[v][j].at - visits[v][j - 1].at >= Dwell
            /\ \A i \in 1..j - 1 : visits[v][i].type = "visit" =>
                   visits[v][i].station < visits[v][j].station
=============================================================================
