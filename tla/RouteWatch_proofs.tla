--------------------------- MODULE RouteWatch_proofs ---------------------------
(***************************************************************************)
(* The safety properties of RouteWatch for any number of vehicles, routes, *)
(* handlers and edits.  Each is about what no other handler or edit came   *)
(* between, so the invariants say what such a handler knows: a loader that *)
(* has read half a line, one that has read a fence and not saved it, one   *)
(* that has decided about a station and not noted it.                      *)
(***************************************************************************)
EXTENDS RouteWatch, FiniteSetTheorems, TLAPS

\* What a handler and an edit have read when they get there.
OnRoute == {"threshold", "points", "fill", "fence", "save fence", "cross", "violate"}
Lined == {"fill", "fence", "save fence", "cross", "violate"}
WatchOK(x) ==
    /\ x.pc # "idle" => x.vehicle \in Vehicles /\ x.place \in Places
    /\ x.pc \in OnRoute => x.route \in Routes
    /\ x.pc \in Lined \cup {"points"} => x.thr \in Thresholds
    /\ x.pc \in Lined => x.shape \in Shapes
    /\ x.pc \in {"save state", "note"} =>
           x.state \in Progress /\ (x.type = None \/ x.station \in Stations)
    /\ x.pc = "note" => x.type # None
EditOK(x) ==
    /\ x.pc # "idle" => x.route \in Routes
    /\ x.pc = "assign" => x.vehicle \in Vehicles
    /\ x.pc \in {"threshold", "update"} => x.thr \in Thresholds
    /\ x.pc \in {"delete points", "invalidate", "save points", "update"} => x.shape \in Shapes
StepsOK == (\A w \in Watchers : WatchOK(watch[w])) /\ (\A e \in Editors : EditOK(edit[e]))

\* A route that was not loaded and edited at once: what is read of it is what is in the
\* tables, and the edit that is under way has emptied the cache, or will.
LineOf(r) == [shape |-> routes[r].shape, thr |-> routes[r].thr]
CacheTrue(r) ==
    /\ \A e, d \in Edits(r) : e = d
    /\ Editing(r) => ~ Loading(r)
    /\ \A w \in Watchers : watch[w].route = r =>
           /\ watch[w].pc \in {"points", "fill"} => watch[w].thr = routes[r].thr
           /\ watch[w].pc = "fill" => watch[w].shape = routes[r].shape
    /\ \A e \in Edits(r) : edit[e].pc \in {"threshold", "save points", "update"} => cache[r] = None
    /\ \/ cache[r] = None \/ r \notin Live \/ cache[r] = LineOf(r)
       \/ \E e \in Edits(r) : edit[e].pc = "invalidate"
Unused(r) == cache[r] = None /\ ~ Loading(r) /\ ~ Editing(r) /\ \A v \in Vehicles : current[v] # r
LinesOK ==
    \A r \in Routes : /\ routes[r].state = "unused" => Unused(r)
                      /\ r \in raced \/ CacheTrue(r)

\* A fence that one handler has had at a time: it knows the row, and an event or a
\* violation that is missing is its to write.
Prev(f) == IF crossings[f] = <<>> THEN first[f] ELSE crossings[f][Len(crossings[f])]
Outs(s) == {i \in DOMAIN s : s[i] = "out"}
Alternate(s, side) == \A i \in DOMAIN s : s[i] # IF i = 1 THEN side ELSE s[i - 1]
At(f) == {w \in Watchers : AtFence(w) /\ Fence(w) = f}
Violating(f) == {w \in Watchers : watch[w].pc = "violate" /\ Fence(w) = f}
FenceTrue(f) ==
    /\ \A w, u \in At(f) : w = u
    /\ \A w \in At(f) : watch[w].pc = "save fence" => watch[w].was = fence[f]
    /\ \A w \in At(f) : watch[w].pc = "cross" => fence[f] = Side(w) /\ Prev(f) # Side(w)
    /\ fence[f] = Prev(f) \/ \E w \in At(f) : watch[w].pc = "cross"
    /\ fence[f] = None => crossings[f] = <<>>
    /\ Alternate(crossings[f], first[f])
    /\ IsFiniteSet(Violating(f))
    /\ offRoute[f] + Cardinality(Violating(f)) = Cardinality(Outs(crossings[f]))
FencesOK == \A f \in Fences : f \in tangled \/ FenceTrue(f)

\* A vehicle whose state one handler has had at a time: the log ends in what the state says,
\* and a handler between the two is about to write what is missing.
Below(log, n) == \A i \in DOMAIN log : log[i].type = "visit" => log[i].station < n
Entered(log, s, t) ==
    /\ log # <<>>
    /\ LET last == log[Len(log)] IN last.type = "enter" /\ last.station = s /\ last.at = t
InOrder(log) ==
    \A j \in DOMAIN log : log[j].type = "visit" =>
        /\ j > 1
        /\ log[j - 1].type = "enter"
        /\ log[j - 1].station = log[j].station
        /\ log[j].at - log[j - 1].at >= Dwell
        /\ \A i \in 1..j - 1 : log[i].type = "visit" => log[i].station < log[j].station
Having(v) == {w \in Watchers : AtState(w) /\ watch[w].vehicle = v}
Agrees(st, log) ==
    /\ Below(log, st.next)
    /\ st.inside # 0 => st.inside = st.next /\ Entered(log, st.next, st.since)
Saves(x, st) ==
    LET do == Step(st, x.known, StationAt(x.place), x.at)
    IN do.save # None /\ x.state = do.save /\ x.type = do.type /\ x.station = st.next
Notes(x, log) ==
    \/ /\ x.type = "enter" /\ x.station = x.state.next
       /\ x.state.inside = x.state.next /\ x.state.since = x.at /\ Below(log, x.state.next)
    \/ x.type = "exit" /\ x.state.inside = 0 /\ Below(log, x.state.next)
    \/ /\ x.type = "visit" /\ x.state.inside = 0 /\ x.state.next = x.station + 1
       /\ Below(log, x.station)
       /\ \E t \in Times : Entered(log, x.station, t) /\ x.at - t >= Dwell
StopTrue(v) ==
    /\ \A w, u \in Having(v) : w = u
    /\ progress[v] = None => visits[v] = <<>>
    /\ \A w \in Having(v) : watch[w].pc = "save state" =>
           progress[v] # None /\ Saves(watch[w], progress[v])
    /\ \A w \in Having(v) : watch[w].pc = "note" =>
           progress[v] = watch[w].state /\ Notes(watch[w], visits[v])
    /\ \/ progress[v] = None \/ Agrees(progress[v], visits[v])
       \/ \E w \in Having(v) : watch[w].pc = "note"
    /\ InOrder(visits[v])
StopsOK == \A v \in Vehicles : v \in tangled \/ StopTrue(v)

------------------------------------------------------------------------------
(* Records of handlers and edits.                                          *)

Pcs == {"idle", "route", "threshold", "points", "fill", "fence", "save fence",
        "cross", "violate", "stations", "state", "init", "save state", "note"}

\* A handler that goes on to pc with all it has read.
SameBut(y, x, pc) ==
    /\ y.pc = pc /\ y.vehicle = x.vehicle /\ y.place = x.place /\ y.at = x.at
    /\ y.route = x.route /\ y.shape = x.shape /\ y.thr = x.thr
    /\ y.was = x.was /\ y.known = x.known /\ y.state = x.state /\ y.type = x.type
    /\ y.station = x.station

\* A handler that is idle, one that goes on,
LEMMA IdleWatch == Idle \in Watch /\ WatchOK(Idle) /\ Idle.pc = "idle"
BY BoundsAssumption DEF Idle, Watch, WatchOK, OnRoute, Lined, Times

\* at another await with all it has read,
LEMMA GotoWatch ==
    ASSUME NEW x \in Watch, NEW pc \in Pcs
    PROVE  [x EXCEPT !.pc = pc] \in Watch /\ SameBut([x EXCEPT !.pc = pc], x, pc)
<1>1. [x EXCEPT !.pc = pc] \in Watch
  BY DEF Watch, Pcs
<1>2. SameBut([x EXCEPT !.pc = pc], x, pc)
  BY DEF Watch, SameBut
<1> QED BY <1>1, <1>2

\* What ToStations keeps.
Back(x) == [Idle EXCEPT !.pc = "stations", !.vehicle = x.vehicle, !.place = x.place, !.at = x.at]

\* and one that goes to the stations are well formed.
LEMMA BackWatch ==
    ASSUME NEW x \in Watch, x.vehicle \in Vehicles, x.place \in Places
    PROVE  /\ Back(x) \in Watch /\ WatchOK(Back(x)) /\ Back(x).pc = "stations"
           /\ Back(x).vehicle = x.vehicle /\ Back(x).place = x.place /\ Back(x).at = x.at
<1>1. /\ Back(x) = [Idle EXCEPT !.pc = "stations", !.vehicle = x.vehicle, !.place = x.place,
                                !.at = x.at]
      /\ x.at \in Times
  BY DEF Back, Watch
<1>2. Back(x) \in Watch
  BY <1>1, IdleWatch DEF Watch
<1>3. /\ Back(x).pc = "stations" /\ Back(x).vehicle = x.vehicle /\ Back(x).place = x.place
      /\ Back(x).at = x.at
  BY <1>1, IdleWatch DEF Watch
<1> QED BY <1>2, <1>3 DEF WatchOK, OnRoute, Lined

\* So is a request that is idle.
LEMMA NoEditOK == NoEdit \in Edit /\ EditOK(NoEdit) /\ NoEdit.pc = "idle"
BY DEF NoEdit, Edit, EditOK

------------------------------------------------------------------------------
(* What the steps of a handler do to what it knows, and that it is sound.  *)

Typed == TypeOK /\ StepsOK
OnlyWatch(w) == \A u \in Watchers : u # w => watch'[u] = watch[u]
Becomes(w, x) ==
    /\ watch' = [watch EXCEPT ![w] = x]
    /\ x \in Watch /\ WatchOK(x)

\* What a step that leaves a handler as x does.
LEMMA BecomesDoes ==
    ASSUME Typed, NEW w \in Watchers, NEW x, Becomes(w, x)
    PROVE  /\ watch'[w] = x /\ OnlyWatch(w)
           /\ watch' \in [Watchers -> Watch] /\ \A u \in Watchers : WatchOK(watch'[u])
BY DEF Typed, TypeOK, StepsOK, Becomes, OnlyWatch

\* What is known of a handler and its rows.
LEMMA WatchKnows ==
    ASSUME Typed, NEW w \in Watchers
    PROVE  LET x == watch[w] IN
           /\ x \in Watch /\ WatchOK(x) /\ watch \in [Watchers -> Watch]
           /\ x.pc \in Pcs /\ x.at \in Times /\ x.known \subseteq Stations
           /\ x.pc # "idle" => x.vehicle \in Vehicles /\ x.place \in Places
           /\ x.pc \in OnRoute => x.route \in Routes /\ Fence(w) \in Fences
           /\ x.pc \in Lined \cup {"points"} => x.thr \in Thresholds
           /\ x.pc \in Lined => x.shape \in Shapes
BY DEF Typed, TypeOK, StepsOK, WatchOK, Watch, Pcs, OnRoute, Lined, Fence, Fences

\* What the end of a handler does.
LEMMA ReturnDoes ==
    ASSUME Typed, NEW w \in Watchers, Return(w)
    PROVE  Becomes(w, Idle)
BY IdleWatch DEF Return, Becomes

\* What going on to the stations does.
LEMMA ToStationsDoes ==
    ASSUME Typed, NEW w \in Watchers, watch[w].pc # "idle", ToStations(w)
    PROVE  Becomes(w, Back(watch[w]))
BY WatchKnows, BackWatch DEF ToStations, Back, Becomes

\* Going on with what was read before.
LEMMA GotoDoes ==
    ASSUME Typed, NEW w \in Watchers, NEW pc \in Pcs \ {"note", "save state"}, Goto(w, pc),
           watch[w].pc # "idle",
           pc \in OnRoute => watch[w].pc \in OnRoute,
           pc \in Lined => watch[w].pc \in Lined,
           pc # "points"
    PROVE  /\ Becomes(w, [watch[w] EXCEPT !.pc = pc])
           /\ SameBut([watch[w] EXCEPT !.pc = pc], watch[w], pc)
<1> DEFINE x == watch[w]
           y == [x EXCEPT !.pc = pc]
<1>1. watch' = [watch EXCEPT ![w] = y]
  BY DEF Goto
<1>2. x \in Watch /\ WatchOK(x)
  BY WatchKnows
<1>3. y \in Watch /\ SameBut(y, x, pc)
  BY <1>2, GotoWatch
<1> HIDE DEF y
<1>4. WatchOK(y)
  BY <1>2, <1>3 DEF WatchOK, SameBut
<1> QED BY <1>1, <1>3, <1>4 DEF Becomes, y

\* What a handler comes to is sound; the others stay where they are.
Moves(w) ==
    /\ OnlyWatch(w) /\ watch' \in [Watchers -> Watch]
    /\ \A u \in Watchers : WatchOK(watch'[u])
RowsOK ==
    /\ now \in Times /\ events \in 0..MaxEvents
    /\ routes \in [Routes -> [state : {"unused", "live", "gone"},
                              shape : Shapes \cup {None}, thr : Thresholds]]
    /\ cache \in [Routes -> [shape : Shapes, thr : Thresholds] \cup {None}]
    /\ current \in [Vehicles -> Routes \cup {None}]
    /\ fence \in [Fences -> {"in", "out", None}] /\ first \in [Fences -> {"in", "out", None}]
    /\ crossings \in [Fences -> Seq({"in", "out"})] /\ offRoute \in [Fences -> Nat]
    /\ stations \in [Vehicles -> SUBSET Stations]
    /\ progress \in [Vehicles -> Progress \cup {None}]
    /\ visits \in [Vehicles -> Seq(Event)]
    /\ raced \subseteq Routes /\ tangled \subseteq Fences \cup Vehicles

\* The part of the types that is about the rows.
LEMMA RowsAreTyped == Typed => RowsOK
BY DEF Typed, TypeOK, RowsOK

\* A step of a handler keeps the types if it keeps those of the rows.
LEMMA MovesTyped ==
    ASSUME Typed, NEW w \in Watchers, Moves(w), RowsOK', UNCHANGED edit
    PROVE  Typed'
BY DEF Typed, TypeOK, RowsOK, StepsOK, Moves

\* Such a step leaves the other handlers where they are.
LEMMA BecomesMoves ==
    ASSUME Typed, NEW w \in Watchers, NEW x, Becomes(w, x)
    PROVE  Moves(w) /\ watch'[w] = x
BY BecomesDoes DEF Moves

\* The steps up to the line.
LEMMA PointDoes ==
    ASSUME Typed, NEW w \in Watchers, NEW v \in Vehicles, NEW p \in Places, Point(w, v, p)
    PROVE  Moves(w) /\ watch'[w].pc = "route" /\ watch[w].pc = "idle" /\ Typed'
<1> DEFINE y == [Idle EXCEPT !.pc = "route", !.vehicle = v, !.place = p, !.at = now]
<1>1. now \in Times /\ watch' = [watch EXCEPT ![w] = y]
  BY DEF Point, Typed, TypeOK
<1>2. y \in Watch
  BY <1>1, IdleWatch DEF Watch
<1>3. y.pc = "route" /\ y.vehicle = v /\ y.place = p
  BY IdleWatch DEF Watch
<1> HIDE DEF y
<1>4. WatchOK(y)
  BY <1>3 DEF WatchOK, OnRoute, Lined
<1>5. Moves(w) /\ watch'[w] = y
  BY <1>1, <1>2, <1>4, BecomesMoves DEF Becomes
<1>6. RowsOK' /\ UNCHANGED edit
  BY RowsAreTyped, BoundsAssumption DEF Point, Happens, lines, fences, stops, RowsOK
<1> QED BY <1>3, <1>5, <1>6, MovesTyped DEF Point

\* What reading the vehicle's route does, and that it keeps the types.
LEMMA ReadRouteDoes ==
    ASSUME Typed, NEW w \in Watchers, ReadRoute(w)
    PROVE  LET r == current[watch[w].vehicle] IN
           /\ Moves(w) /\ watch[w].pc = "route" /\ Typed'
           /\ \/ watch'[w].pc \in {"stations", "fence"} /\ raced' = raced
              \/ /\ r \in Routes /\ cache[r] = None
                 /\ watch'[w].pc = "threshold" /\ watch'[w].route = r
                 /\ raced' = IF Editing(r) THEN raced \cup {r} ELSE raced
<1> DEFINE x == watch[w]
           r == current[x.vehicle]
           y == [x EXCEPT !.pc = "fence", !.route = r, !.shape = cache[r].shape,
                          !.thr = cache[r].thr]
           z == [x EXCEPT !.pc = "threshold", !.route = r]
<1>1. x \in Watch /\ WatchOK(x) /\ x.pc = "route" /\ x.vehicle \in Vehicles /\ x.place \in Places
  BY WatchKnows DEF ReadRoute
<1>2. r \in Routes \cup {None} /\ raced \subseteq Routes
  BY <1>1 DEF Typed, TypeOK
<1>3. CASE r = None
  <2>1. ToStations(w) /\ raced' = raced
    BY <1>3 DEF ReadRoute
  <2>2. Moves(w) /\ watch'[w] = Back(x)
    BY <1>1, <2>1, ToStationsDoes, BecomesMoves
  <2> QED BY <1>1, <2>1, <2>2, RowsAreTyped, MovesTyped, BackWatch
          DEF ReadRoute, RowsOK, clocks, fences, stops
<1>4. CASE r # None /\ cache[r] # None
  <2>1. watch' = [watch EXCEPT ![w] = y] /\ raced' = raced
    BY <1>1, <1>4 DEF ReadRoute, Typed, TypeOK
  <2>2. r \in Routes /\ cache[r].shape \in Shapes /\ cache[r].thr \in Thresholds
    BY <1>2, <1>4 DEF Typed, TypeOK
  <2>3. y \in Watch /\ y.pc = "fence"
    BY <1>1, <2>2 DEF Watch
  <2>4. /\ y.route = r /\ y.shape = cache[r].shape /\ y.thr = cache[r].thr
        /\ y.vehicle = x.vehicle /\ y.place = x.place
    BY <1>1 DEF Watch
  <2> HIDE DEF y
  <2>5. WatchOK(y)
    BY <1>1, <2>2, <2>3, <2>4 DEF WatchOK
  <2>6. Moves(w) /\ watch'[w] = y
    BY <2>1, <2>3, <2>5, BecomesMoves DEF Becomes
  <2> QED BY <1>1, <2>1, <2>3, <2>6, RowsAreTyped, MovesTyped
          DEF ReadRoute, RowsOK, clocks, fences, stops
<1>5. CASE r # None /\ cache[r] = None
  <2>1. /\ watch' = [watch EXCEPT ![w] = z]
        /\ raced' = IF Editing(r) THEN raced \cup {r} ELSE raced
    BY <1>1, <1>5 DEF ReadRoute, Typed, TypeOK
  <2>2. r \in Routes
    BY <1>2, <1>5
  <2>3. z \in Watch /\ z.pc = "threshold"
    BY <1>1, <2>2 DEF Watch
  <2>4. z.route = r /\ z.vehicle = x.vehicle /\ z.place = x.place
    BY <1>1 DEF Watch
  <2> HIDE DEF z
  <2>5. WatchOK(z)
    BY <1>1, <2>2, <2>3, <2>4 DEF WatchOK, Lined
  <2>6. Moves(w) /\ watch'[w] = z
    BY <2>1, <2>3, <2>5, BecomesMoves DEF Becomes
  <2>7. RowsOK' /\ UNCHANGED edit
    BY <1>2, <2>1, <2>2, RowsAreTyped DEF ReadRoute, RowsOK, clocks, fences, stops
  <2> QED BY <1>1, <1>5, <2>1, <2>2, <2>3, <2>4, <2>6, <2>7, MovesTyped
<1> QED BY <1>3, <1>4, <1>5

\* What reading the threshold of a line does, and that it keeps the types.
LEMMA ReadThresholdDoes ==
    ASSUME Typed, NEW w \in Watchers, ReadThreshold(w)
    PROVE  LET r == watch[w].route IN
           /\ Moves(w) /\ watch[w].pc = "threshold" /\ r \in Routes /\ Typed'
           /\ \/ watch'[w].pc = "stations"
              \/ /\ watch'[w].pc = "points" /\ watch'[w].route = r
                 /\ watch'[w].thr = routes[r].thr
<1> DEFINE x == watch[w]
           r == x.route
           y == [x EXCEPT !.pc = "points", !.thr = routes[r].thr]
<1>1. /\ x \in Watch /\ WatchOK(x) /\ x.pc = "threshold" /\ x.vehicle \in Vehicles
      /\ x.place \in Places /\ r \in Routes
  BY WatchKnows DEF ReadThreshold, OnRoute
<1>2. RowsOK' /\ UNCHANGED edit
  BY RowsAreTyped DEF ReadThreshold, RowsOK, clocks, lines, fences, stops
<1>3. CASE r \notin Live
  <2>1. ToStations(w)
    BY <1>3 DEF ReadThreshold
  <2>2. Moves(w) /\ watch'[w] = Back(x)
    BY <1>1, <2>1, ToStationsDoes, BecomesMoves
  <2> QED BY <1>1, <1>2, <2>2, MovesTyped, BackWatch
<1>4. CASE r \in Live
  <2>1. watch' = [watch EXCEPT ![w] = y]
    BY <1>1, <1>4 DEF ReadThreshold, Typed, TypeOK
  <2>2. routes[r].thr \in Thresholds
    BY <1>1 DEF Typed, TypeOK
  <2>3. y \in Watch /\ y.pc = "points"
    BY <1>1, <2>2 DEF Watch
  <2>4. y.route = r /\ y.thr = routes[r].thr /\ y.vehicle = x.vehicle /\ y.place = x.place
    BY <1>1 DEF Watch
  <2> HIDE DEF y
  <2>5. WatchOK(y)
    BY <1>1, <2>2, <2>3, <2>4 DEF WatchOK, Lined
  <2>6. Moves(w) /\ watch'[w] = y
    BY <2>1, <2>3, <2>5, BecomesMoves DEF Becomes
  <2> QED BY <1>1, <1>2, <2>3, <2>4, <2>6, MovesTyped
<1> QED BY <1>3, <1>4

\* What reading the points of a line does, and that it keeps the types.
LEMMA ReadPointsDoes ==
    ASSUME Typed, NEW w \in Watchers, ReadPoints(w)
    PROVE  LET r == watch[w].route IN
           /\ Moves(w) /\ watch[w].pc = "points" /\ r \in Routes /\ Typed'
           /\ \/ watch'[w].pc = "stations"
              \/ /\ watch'[w].pc = "fill" /\ watch'[w].route = r
                 /\ watch'[w].thr = watch[w].thr /\ watch'[w].shape = routes[r].shape
<1> DEFINE x == watch[w]
           r == x.route
           y == [x EXCEPT !.pc = "fill", !.shape = routes[r].shape]
<1>1. /\ x \in Watch /\ WatchOK(x) /\ x.pc = "points" /\ x.vehicle \in Vehicles
      /\ x.place \in Places /\ r \in Routes /\ x.thr \in Thresholds
  BY WatchKnows DEF ReadPoints, OnRoute
<1>2. RowsOK' /\ UNCHANGED edit
  BY RowsAreTyped DEF ReadPoints, RowsOK, clocks, lines, fences, stops
<1>3. CASE routes[r].shape = None
  <2>1. ToStations(w)
    BY <1>3 DEF ReadPoints
  <2>2. Moves(w) /\ watch'[w] = Back(x)
    BY <1>1, <2>1, ToStationsDoes, BecomesMoves
  <2> QED BY <1>1, <1>2, <2>2, MovesTyped, BackWatch
<1>4. CASE routes[r].shape # None
  <2>1. watch' = [watch EXCEPT ![w] = y]
    BY <1>1, <1>4 DEF ReadPoints, Typed, TypeOK
  <2>2. routes[r].shape \in Shapes
    BY <1>1, <1>4 DEF Typed, TypeOK
  <2>3. y \in Watch /\ y.pc = "fill"
    BY <1>1, <2>2 DEF Watch
  <2>4. /\ y.route = r /\ y.shape = routes[r].shape /\ y.thr = x.thr
        /\ y.vehicle = x.vehicle /\ y.place = x.place
    BY <1>1 DEF Watch
  <2> HIDE DEF y
  <2>5. WatchOK(y)
    BY <1>1, <2>2, <2>3, <2>4 DEF WatchOK
  <2>6. Moves(w) /\ watch'[w] = y
    BY <2>1, <2>3, <2>5, BecomesMoves DEF Becomes
  <2> QED BY <1>1, <1>2, <2>3, <2>4, <2>6, MovesTyped
<1> QED BY <1>3, <1>4

\* What putting the line into the cache does, and that it keeps the types.
LEMMA FillDoes ==
    ASSUME Typed, NEW w \in Watchers, Fill(w)
    PROVE  /\ Moves(w) /\ watch[w].pc = "fill" /\ watch'[w].pc = "fence" /\ Typed'
           /\ watch[w].route \in Routes
           /\ cache' = [cache EXCEPT ![watch[w].route] =
                           [shape |-> watch[w].shape, thr |-> watch[w].thr]]
<1> DEFINE x == watch[w]
<1>1. /\ x \in Watch /\ WatchOK(x) /\ x.pc = "fill" /\ x.route \in Routes /\ x.shape \in Shapes
      /\ x.thr \in Thresholds
  BY WatchKnows DEF Fill, OnRoute, Lined
<1>2. Moves(w) /\ watch'[w].pc = "fence"
  <2>1. "fence" \in Pcs \ {"note", "save state"} /\ Goto(w, "fence")
    BY DEF Fill, Pcs
  <2>2. /\ Becomes(w, [x EXCEPT !.pc = "fence"])
        /\ SameBut([x EXCEPT !.pc = "fence"], x, "fence")
    BY <1>1, <2>1, GotoDoes DEF OnRoute, Lined
  <2> QED BY <2>2, BecomesMoves DEF SameBut
<1>3. RowsOK' /\ UNCHANGED edit
  BY <1>1, RowsAreTyped DEF Fill, RowsOK, clocks, fences, stops
<1> QED BY <1>1, <1>2, <1>3, MovesTyped DEF Fill

\* The steps at the fence.
SameLine(y, x) ==
    /\ y.vehicle = x.vehicle /\ y.place = x.place /\ y.route = x.route
    /\ y.shape = x.shape /\ y.thr = x.thr

\* What reading the fence's row does, and that it keeps the types.
LEMMA ReadFenceDoes ==
    ASSUME Typed, NEW w \in Watchers, ReadFence(w)
    PROVE  /\ Moves(w) /\ watch[w].pc = "fence" /\ watch'[w].pc = "save fence" /\ Typed'
           /\ SameLine(watch'[w], watch[w]) /\ watch'[w].was = fence[Fence(w)]
           /\ Fence(w) \in Fences
<1> DEFINE x == watch[w]
           y == [x EXCEPT !.pc = "save fence", !.was = fence[Fence(w)]]
<1>1. x \in Watch /\ WatchOK(x) /\ x.pc = "fence" /\ Fence(w) \in Fences
  BY WatchKnows DEF ReadFence, OnRoute
<1>2. fence[Fence(w)] \in {"in", "out", None}
  BY <1>1 DEF Typed, TypeOK
<1>3. watch' = [watch EXCEPT ![w] = y]
  BY <1>1 DEF ReadFence, Typed, TypeOK
<1>4. y \in Watch /\ y.pc = "save fence" /\ y.was = fence[Fence(w)]
  BY <1>1, <1>2 DEF Watch
<1>5. SameLine(y, x)
  BY <1>1 DEF Watch, SameLine
<1> HIDE DEF y
<1>6. WatchOK(y)
  BY <1>1, <1>4, <1>5 DEF WatchOK, SameLine, Lined, OnRoute
<1>7. Moves(w) /\ watch'[w] = y
  BY <1>3, <1>4, <1>6, BecomesMoves DEF Becomes
<1>8. RowsOK' /\ UNCHANGED edit
  BY <1>1, RowsAreTyped DEF ReadFence, RowsOK, clocks, lines, fences, stops
<1> QED BY <1>1, <1>4, <1>5, <1>7, <1>8, MovesTyped

\* A place is inside a fence or outside.
LEMMA SideOfFence == \A w : Side(w) \in {"in", "out"}
BY DEF Side

\* What the first row of a fence does, and that it keeps the types.
LEMMA FirstFenceDoes ==
    ASSUME Typed, NEW w \in Watchers, FirstFence(w)
    PROVE  /\ Moves(w) /\ watch[w].pc = "save fence" /\ watch'[w].pc \in {"stations", "idle"}
           /\ Typed' /\ Fence(w) \in Fences
<1> DEFINE x == watch[w]
<1>1. /\ x \in Watch /\ x.pc = "save fence" /\ Fence(w) \in Fences /\ x.vehicle \in Vehicles
      /\ x.place \in Places
  BY WatchKnows DEF FirstFence, OnRoute
<1>2. ToStations(w) \/ Return(w)
  BY DEF FirstFence
<1>3. Moves(w) /\ watch'[w] \in {Back(x), Idle}
  BY <1>1, <1>2, ToStationsDoes, ReturnDoes, BecomesMoves
<1>4. fence' \in [Fences -> {"in", "out", None}] /\ first' \in [Fences -> {"in", "out", None}]
  <2>1. CASE fence[Fence(w)] = None
    BY <1>1, <2>1, SideOfFence, RowsAreTyped DEF FirstFence, RowsOK
  <2>2. CASE fence[Fence(w)] # None
    BY <2>2, RowsAreTyped DEF FirstFence, RowsOK
  <2> QED BY <2>1, <2>2
<1>5. RowsOK' /\ UNCHANGED edit
  BY <1>4, RowsAreTyped DEF FirstFence, RowsOK, clocks, lines, stops
<1> QED BY <1>1, <1>3, <1>5, MovesTyped, BackWatch, IdleWatch

\* What saving the fence's row does, and that it keeps the types.
LEMMA SaveFenceDoes ==
    ASSUME Typed, NEW w \in Watchers, SaveFence(w)
    PROVE  /\ Moves(w) /\ watch[w].pc = "save fence" /\ Typed' /\ Fence(w) \in Fences
           /\ \/ watch'[w].pc = "stations" /\ ~ Changed(w)
              \/ watch'[w].pc = "cross" /\ SameLine(watch'[w], watch[w]) /\ Changed(w)
<1> DEFINE x == watch[w]
<1>1. /\ x \in Watch /\ x.pc = "save fence" /\ Fence(w) \in Fences /\ x.vehicle \in Vehicles
      /\ x.place \in Places
  BY WatchKnows DEF SaveFence, OnRoute
<1>2. RowsOK' /\ UNCHANGED edit
  BY <1>1, SideOfFence, RowsAreTyped DEF SaveFence, RowsOK, clocks, lines, stops
<1>3. CASE Changed(w)
  <2>1. Goto(w, "cross")
    BY <1>3 DEF SaveFence
  <2>2. Moves(w) /\ watch'[w].pc = "cross" /\ SameLine(watch'[w], x)
    <3>1. "cross" \in Pcs \ {"note", "save state"}
      BY DEF Pcs
    <3>2. /\ Becomes(w, [x EXCEPT !.pc = "cross"])
          /\ SameBut([x EXCEPT !.pc = "cross"], x, "cross")
      BY <1>1, <2>1, <3>1, GotoDoes DEF OnRoute, Lined
    <3> QED BY <3>2, BecomesMoves DEF SameBut, SameLine
  <2> QED BY <1>1, <1>2, <1>3, <2>2, MovesTyped
<1>4. CASE ~ Changed(w)
  <2>1. ToStations(w)
    BY <1>4 DEF SaveFence
  <2>2. Moves(w) /\ watch'[w] = Back(x)
    BY <1>1, <2>1, ToStationsDoes, BecomesMoves
  <2> QED BY <1>1, <1>2, <1>4, <2>2, MovesTyped, BackWatch
<1> QED BY <1>3, <1>4

\* What storing an exit or a return does, and that it keeps the types.
LEMMA CrossDoes ==
    ASSUME Typed, NEW w \in Watchers, Cross(w)
    PROVE  /\ Moves(w) /\ watch[w].pc = "cross" /\ Typed' /\ Fence(w) \in Fences
           /\ \/ watch'[w].pc = "stations" /\ Side(w) = "in"
              \/ watch'[w].pc = "violate" /\ SameLine(watch'[w], watch[w]) /\ Side(w) = "out"
<1> DEFINE x == watch[w]
<1>1. /\ x \in Watch /\ x.pc = "cross" /\ Fence(w) \in Fences /\ x.vehicle \in Vehicles
      /\ x.place \in Places
  BY WatchKnows DEF Cross, OnRoute
<1>2. RowsOK' /\ UNCHANGED edit
  BY <1>1, SideOfFence, RowsAreTyped DEF Cross, RowsOK, clocks, lines, stops
<1>3. CASE Side(w) = "out"
  <2>1. Goto(w, "violate")
    BY <1>3 DEF Cross
  <2>2. Moves(w) /\ watch'[w].pc = "violate" /\ SameLine(watch'[w], x)
    <3>1. "violate" \in Pcs \ {"note", "save state"}
      BY DEF Pcs
    <3>2. /\ Becomes(w, [x EXCEPT !.pc = "violate"])
          /\ SameBut([x EXCEPT !.pc = "violate"], x, "violate")
      BY <1>1, <2>1, <3>1, GotoDoes DEF OnRoute, Lined
    <3> QED BY <3>2, BecomesMoves DEF SameBut, SameLine
  <2> QED BY <1>1, <1>2, <1>3, <2>2, MovesTyped
<1>4. CASE Side(w) # "out"
  <2>1. ToStations(w)
    BY <1>4 DEF Cross
  <2>2. Moves(w) /\ watch'[w] = Back(x)
    BY <1>1, <2>1, ToStationsDoes, BecomesMoves
  <2> QED BY <1>1, <1>2, <1>4, <2>2, MovesTyped, BackWatch, SideOfFence
<1> QED BY <1>3, <1>4

\* What storing a violation does, and that it keeps the types.
LEMMA ViolateDoes ==
    ASSUME Typed, NEW w \in Watchers, Violate(w)
    PROVE  /\ Moves(w) /\ watch[w].pc = "violate" /\ watch'[w].pc = "stations"
           /\ Typed' /\ Fence(w) \in Fences
<1> DEFINE x == watch[w]
<1>1. /\ x \in Watch /\ x.pc = "violate" /\ Fence(w) \in Fences /\ x.vehicle \in Vehicles
      /\ x.place \in Places
  BY WatchKnows DEF Violate, OnRoute
<1>2. Moves(w) /\ watch'[w] = Back(x)
  BY <1>1, ToStationsDoes, BecomesMoves DEF Violate
<1>3. RowsOK' /\ UNCHANGED edit
  BY <1>1, RowsAreTyped DEF Violate, RowsOK, clocks, lines, stops
<1> QED BY <1>1, <1>2, <1>3, MovesTyped, BackWatch

\* The steps at the stations.
SamePlace(y, x) ==
    y.vehicle = x.vehicle /\ y.place = x.place /\ y.at = x.at /\ y.known = x.known

\* What a position makes of a state is a state, and the event is at the station that is next.
LEMMA StepSaves ==
    ASSUME NEW st \in Progress, NEW known \in SUBSET Stations,
           NEW s \in Stations \cup {0}, NEW at \in Times,
           Step(st, known, s, at).save # None
    PROVE  /\ Step(st, known, s, at).save \in Progress /\ st.next \in Stations
           /\ Step(st, known, s, at).type \in {"enter", "exit", "visit", None}
<1>1. st.next \in known /\ st.next \in Nat /\ s \in Nat
  BY StationsAssumption DEF Step, Progress
<1>2. /\ [next |-> st.next, had |-> TRUE, inside |-> s, since |-> at] \in Progress
      /\ [next |-> st.next, had |-> TRUE, inside |-> 0, since |-> None] \in Progress
      /\ [next |-> st.next + 1, had |-> TRUE, inside |-> 0, since |-> None] \in Progress
      /\ [st EXCEPT !.had = TRUE] \in Progress
  <2>1. [next |-> st.next, had |-> TRUE, inside |-> s, since |-> at] \in Progress
    BY <1>1 DEF Progress
  <2>2. [next |-> st.next, had |-> TRUE, inside |-> 0, since |-> None] \in Progress
    BY <1>1 DEF Progress
  <2>3. st.next + 1 \in Nat
    BY <1>1
  <2>4. [next |-> st.next + 1, had |-> TRUE, inside |-> 0, since |-> None] \in Progress
    BY <2>3 DEF Progress
  <2>5. [st EXCEPT !.had = TRUE] \in Progress
    BY DEF Progress
  <2> QED BY <2>1, <2>2, <2>4, <2>5
<1>3. /\ Step(st, known, s, at).save \in Progress
      /\ Step(st, known, s, at).type \in {"enter", "exit", "visit", None}
  BY <1>1, <1>2 DEF Step
<1> QED BY <1>1, <1>3

\* What the decision at a station does, and that it keeps the types.
LEMMA DecideDoes ==
    ASSUME Typed, NEW w \in Watchers, NEW st \in Progress,
           watch[w].pc \in {"state", "init"}, Decide(w, st)
    PROVE  /\ Moves(w)
           /\ \/ watch'[w].pc = "idle"
              \/ /\ watch'[w].pc = "save state" /\ SamePlace(watch'[w], watch[w])
                 /\ Saves(watch'[w], st)
<1> DEFINE x == watch[w]
           do == Step(st, x.known, StationAt(x.place), x.at)
           y == [x EXCEPT !.pc = "save state", !.state = do.save, !.type = do.type,
                          !.station = st.next]
<1>1. /\ x \in Watch /\ x.at \in Times /\ x.known \in SUBSET Stations
      /\ x.vehicle \in Vehicles /\ x.place \in Places /\ StationAt(x.place) \in Stations \cup {0}
  BY WatchKnows, StationsAssumption
<1>2. CASE do.save = None
  <2>1. Return(w)
    BY <1>2 DEF Decide
  <2> QED BY <2>1, ReturnDoes, BecomesMoves, IdleWatch
<1>3. CASE do.save # None
  <2>1. watch' = [watch EXCEPT ![w] = y]
    BY <1>1, <1>3 DEF Decide, Typed, TypeOK
  <2>2. /\ do.save \in Progress /\ st.next \in Stations /\ st.next \in Nat
        /\ do.type \in {"enter", "exit", "visit", None}
    BY <1>1, <1>3, StepSaves, StationsAssumption
  <2> HIDE DEF do
  <2>3. y \in Watch /\ y.pc = "save state"
    BY <1>1, <2>2 DEF Watch
  <2>4. y.state = do.save /\ y.type = do.type /\ y.station = st.next /\ SamePlace(y, x)
    BY <1>1 DEF Watch, SamePlace
  <2> HIDE DEF y
  <2>5. WatchOK(y)
    BY <1>1, <2>2, <2>3, <2>4 DEF WatchOK, OnRoute, Lined, SamePlace
  <2>6. Moves(w) /\ watch'[w] = y
    BY <2>1, <2>3, <2>5, BecomesMoves DEF Becomes
  <2>7. Saves(y, st)
    BY <1>3, <2>4 DEF Saves, SamePlace, do
  <2> QED BY <2>3, <2>4, <2>6, <2>7
<1> QED BY <1>2, <1>3

\* What reading the stations does, and that it keeps the types.
LEMMA ReadStationsDoes ==
    ASSUME Typed, NEW w \in Watchers, ReadStations(w)
    PROVE  /\ Moves(w) /\ watch[w].pc = "stations" /\ watch'[w].pc \in {"idle", "state"}
           /\ Typed'
<1> DEFINE x == watch[w]
           y == [x EXCEPT !.pc = "state", !.known = stations[x.vehicle]]
<1>1. /\ x \in Watch /\ x.pc = "stations" /\ x.vehicle \in Vehicles /\ x.place \in Places
      /\ stations[x.vehicle] \subseteq Stations
  BY WatchKnows DEF ReadStations, Typed, TypeOK
<1>2. RowsOK' /\ UNCHANGED edit
  BY RowsAreTyped DEF ReadStations, RowsOK, clocks, lines, fences, stops
<1>3. CASE Return(w)
  BY <1>1, <1>2, <1>3, ReturnDoes, BecomesMoves, IdleWatch, MovesTyped
<1>4. CASE ~ Return(w)
  <2>1. watch' = [watch EXCEPT ![w] = y]
    BY <1>1, <1>4 DEF ReadStations, Typed, TypeOK
  <2>2. y \in Watch /\ y.pc = "state"
    BY <1>1 DEF Watch
  <2>3. y.vehicle = x.vehicle /\ y.place = x.place
    BY <1>1 DEF Watch
  <2> HIDE DEF y
  <2>4. WatchOK(y)
    BY <1>1, <2>2, <2>3 DEF WatchOK, OnRoute, Lined
  <2>5. Moves(w) /\ watch'[w] = y
    BY <2>1, <2>2, <2>4, BecomesMoves DEF Becomes
  <2> QED BY <1>1, <1>2, <2>2, <2>5, MovesTyped
<1> QED BY <1>3, <1>4

\* What reading how far the vehicle has come does, and that it keeps the types.
LEMMA ReadStateDoes ==
    ASSUME Typed, NEW w \in Watchers, ReadState(w)
    PROVE  LET v == watch[w].vehicle IN
           /\ Moves(w) /\ watch[w].pc = "state" /\ v \in Vehicles /\ Typed'
           /\ \/ watch'[w].pc = "idle"
              \/ /\ watch'[w].pc = "init" /\ SamePlace(watch'[w], watch[w])
                 /\ progress[v] = None
              \/ /\ watch'[w].pc = "save state" /\ SamePlace(watch'[w], watch[w])
                 /\ progress[v] # None /\ Saves(watch'[w], progress[v])
<1> DEFINE x == watch[w]
           v == x.vehicle
<1>1. x \in Watch /\ x.pc = "state" /\ v \in Vehicles
  BY WatchKnows DEF ReadState
<1>2. RowsOK' /\ UNCHANGED edit
  BY <1>1, RowsAreTyped DEF ReadState, RowsOK, clocks, lines, fences, stops
<1>3. CASE progress[v] = None
  <2>1. Goto(w, "init") /\ "init" \in Pcs \ {"note", "save state"}
    BY <1>3 DEF ReadState, Pcs
  <2>2. Becomes(w, [x EXCEPT !.pc = "init"]) /\ SameBut([x EXCEPT !.pc = "init"], x, "init")
    BY <1>1, <2>1, GotoDoes DEF OnRoute, Lined
  <2>3. Moves(w) /\ watch'[w].pc = "init" /\ SamePlace(watch'[w], x)
    BY <2>2, BecomesMoves DEF SameBut, SamePlace
  <2> QED BY <1>1, <1>2, <1>3, <2>3, MovesTyped
<1>4. CASE progress[v] # None
  <2>1. Decide(w, progress[v]) /\ progress[v] \in Progress
    BY <1>1, <1>4 DEF ReadState, Typed, TypeOK
  <2>2. /\ Moves(w)
        /\ \/ watch'[w].pc = "idle"
           \/ /\ watch'[w].pc = "save state" /\ SamePlace(watch'[w], x)
              /\ Saves(watch'[w], progress[v])
    BY <1>1, <2>1, DecideDoes
  <2> QED BY <1>1, <1>2, <1>4, <2>2, MovesTyped
<1> QED BY <1>3, <1>4

Fresh == [next |-> 1, had |-> FALSE, inside |-> 0, since |-> None]

\* What the first row of a vehicle's progress does, and that it keeps the types.
LEMMA InitStateDoes ==
    ASSUME Typed, NEW w \in Watchers, InitState(w)
    PROVE  LET v == watch[w].vehicle IN
           /\ Moves(w) /\ watch[w].pc = "init" /\ v \in Vehicles /\ Typed'
           /\ \/ progress[v] # None /\ progress' = progress /\ watch'[w].pc = "idle"
              \/ /\ progress[v] = None /\ progress' = [progress EXCEPT ![v] = Fresh]
                 /\ \/ watch'[w].pc = "idle"
                    \/ /\ watch'[w].pc = "save state" /\ SamePlace(watch'[w], watch[w])
                       /\ Saves(watch'[w], Fresh)
<1> DEFINE x == watch[w]
           v == x.vehicle
<1>1. x \in Watch /\ x.pc = "init" /\ v \in Vehicles /\ Fresh \in Progress
  BY WatchKnows DEF InitState, Fresh, Progress
<1>2. CASE progress[v] = None
  <2>1. progress' = [progress EXCEPT ![v] = Fresh] /\ Decide(w, Fresh)
    BY <1>2 DEF InitState, Fresh
  <2>2. RowsOK' /\ UNCHANGED edit
    BY <1>1, <2>1, RowsAreTyped DEF InitState, RowsOK, clocks, lines, fences
  <2>3. /\ Moves(w)
        /\ \/ watch'[w].pc = "idle"
           \/ /\ watch'[w].pc = "save state" /\ SamePlace(watch'[w], x)
              /\ Saves(watch'[w], Fresh)
    BY <1>1, <2>1, DecideDoes
  <2> QED BY <1>1, <1>2, <2>1, <2>2, <2>3, MovesTyped
<1>3. CASE progress[v] # None
  <2>1. Return(w) /\ progress' = progress
    BY <1>3 DEF InitState
  <2>2. RowsOK' /\ UNCHANGED edit
    BY <1>1, <2>1, RowsAreTyped DEF InitState, RowsOK, clocks, lines, fences
  <2>3. Moves(w) /\ watch'[w] = Idle
    BY <2>1, ReturnDoes, BecomesMoves
  <2> QED BY <1>1, <1>3, <2>1, <2>2, <2>3, MovesTyped, IdleWatch
<1> QED BY <1>2, <1>3

\* What saving a vehicle's progress does, and that it keeps the types.
LEMMA SaveStateDoes ==
    ASSUME Typed, NEW w \in Watchers, SaveState(w)
    PROVE  LET x == watch[w] IN
           /\ Moves(w) /\ x.pc = "save state" /\ x.vehicle \in Vehicles /\ Typed'
           /\ x.state \in Progress /\ progress' = [progress EXCEPT ![x.vehicle] = x.state]
           /\ \/ x.type = None /\ watch'[w].pc = "idle"
              \/ x.type # None /\ SameBut(watch'[w], x, "note")
<1> DEFINE x == watch[w]
           y == [x EXCEPT !.pc = "note"]
<1>1. /\ x \in Watch /\ x.pc = "save state" /\ x.vehicle \in Vehicles /\ x.place \in Places
      /\ x.state \in Progress
      /\ (x.type = None \/ x.station \in Stations)
  BY WatchKnows DEF SaveState, WatchOK
<1>2. progress' = [progress EXCEPT ![x.vehicle] = x.state]
  BY DEF SaveState
<1>3. RowsOK' /\ UNCHANGED edit
  BY <1>1, <1>2, RowsAreTyped DEF SaveState, RowsOK, clocks, lines, fences
<1>4. CASE x.type = None
  <2>1. Return(w)
    BY <1>4 DEF SaveState
  <2>2. Moves(w) /\ watch'[w] = Idle
    BY <2>1, ReturnDoes, BecomesMoves
  <2> QED BY <1>1, <1>2, <1>3, <1>4, <2>2, MovesTyped, IdleWatch
<1>5. CASE x.type # None
  <2>1. watch' = [watch EXCEPT ![w] = y]
    BY <1>5 DEF SaveState, Goto
  <2>2. y \in Watch /\ SameBut(y, x, "note")
    BY <1>1, GotoWatch DEF Pcs
  <2> HIDE DEF y
  <2>3. WatchOK(y)
    BY <1>1, <1>5, <2>2 DEF WatchOK, SameBut, OnRoute, Lined
  <2>4. Moves(w) /\ watch'[w] = y
    BY <2>1, <2>2, <2>3, BecomesMoves DEF Becomes
  <2> QED BY <1>1, <1>2, <1>3, <1>5, <2>2, <2>4, MovesTyped
<1> QED BY <1>4, <1>5

\* The event a handler notes.
EventOf(x) == [type |-> x.type, station |-> x.station, at |-> x.at]

\* What storing what happened at a station does, and that it keeps the types.
LEMMA NoteDoes ==
    ASSUME Typed, NEW w \in Watchers, Note(w)
    PROVE  LET x == watch[w] IN
           /\ Moves(w) /\ x.pc = "note" /\ x.vehicle \in Vehicles /\ Typed'
           /\ watch'[w].pc = "idle" /\ EventOf(x) \in Event
           /\ visits' = [visits EXCEPT ![x.vehicle] = Append(@, EventOf(x))]
<1> DEFINE x == watch[w]
<1>1. /\ x \in Watch /\ x.pc = "note" /\ x.vehicle \in Vehicles
      /\ x.type # None /\ x.station \in Stations
  BY WatchKnows DEF Note, WatchOK
<1>2. EventOf(x) \in Event
  <2>1. x.type \in {"enter", "exit", "visit"} /\ x.at \in Times
    BY <1>1 DEF Watch
  <2> QED BY <1>1, <2>1 DEF EventOf, Event
<1>3. visits' = [visits EXCEPT ![x.vehicle] = Append(@, EventOf(x))]
  BY DEF Note, EventOf
<1>4. RowsOK' /\ UNCHANGED edit
  BY <1>1, <1>2, <1>3, RowsAreTyped DEF Note, RowsOK, clocks, lines, fences
<1>5. Moves(w) /\ watch'[w] = Idle
  BY ReturnDoes, BecomesMoves DEF Note
<1> QED BY <1>1, <1>2, <1>3, <1>4, <1>5, MovesTyped, IdleWatch

------------------------------------------------------------------------------
(* The steps of an edit, and what is sound in all steps.                   *)

\* A request that changes only itself and rows keeps the types.
LEMMA EditTyped ==
    ASSUME Typed, NEW e \in Editors, NEW y \in Edit, EditOK(y),
           edit' = [edit EXCEPT ![e] = y], UNCHANGED watch, RowsOK'
    PROVE  Typed'
BY DEF Typed, TypeOK, RowsOK, StepsOK

\* What is known of an edit.
LEMMA EditKnows ==
    ASSUME Typed, NEW e \in Editors
    PROVE  LET x == edit[e] IN
           /\ x \in Edit
           /\ x.pc # "idle" => x.route \in Routes
           /\ x.pc = "assign" => x.vehicle \in Vehicles
           /\ x.pc \in {"threshold", "update"} => x.thr \in Thresholds
           /\ x.pc \in {"delete points", "invalidate", "save points", "update"} =>
                  x.shape \in Shapes
BY DEF Typed, TypeOK, StepsOK, EditOK

\* Emptying the cache of a route keeps the types of the rows.
LEMMA InvalidateTyped ==
    ASSUME Typed, NEW e \in Editors, NEW r \in Routes, Invalidate(e, r)
    PROVE  /\ cache' \in [Routes -> [shape : Shapes, thr : Thresholds] \cup {None}]
           /\ raced' \subseteq Routes
BY DEF Invalidate, Typed, TypeOK

\* Noting a race does so too.
LEMMA RacingTyped ==
    ASSUME Typed, NEW r \in Routes, Racing(r)
    PROVE  raced' \subseteq Routes
BY DEF Racing, Typed, TypeOK

\* A request that finds the route there.
LEMMA BeginTyped ==
    ASSUME Typed, NEW e \in Editors, NEW r, NEW y \in Edit, EditOK(y), Begin(e, r, y),
           cache' \in [Routes -> [shape : Shapes, thr : Thresholds] \cup {None}],
           raced' \subseteq Routes
    PROVE  Typed'
<1>1. RowsOK'
  BY RowsAreTyped, BoundsAssumption DEF Begin, Happens, RowsOK, fences, stops
<1> QED BY <1>1, EditTyped DEF Begin

\* A request that begins keeps the types.
LEMMA RequestTyped ==
    ASSUME Typed, NEW e \in Editors, Request(e)
    PROVE  Typed'
<1>1. ASSUME NEW v \in Vehicles, NEW r \in Routes, NEW t \in Thresholds \cup {None},
             BeginAssign(e, v, r, t)
      PROVE  Typed'
  <2> DEFINE y == [NoEdit EXCEPT !.pc = "assign", !.vehicle = v, !.route = r, !.thr = t]
  <2>1. y \in Edit /\ EditOK(y)
    BY NoEditOK DEF NoEdit, Edit, EditOK
  <2>2. Begin(e, r, y) /\ Racing(r) /\ cache' = cache
    BY <1>1 DEF BeginAssign
  <2> HIDE DEF y
  <2> QED BY <2>1, <2>2, RacingTyped, RowsAreTyped, BeginTyped DEF RowsOK
<1>2. ASSUME NEW v \in Vehicles, NEW t \in Thresholds, BeginThreshold(e, v, t)
      PROVE  Typed'
  <2> DEFINE y == [NoEdit EXCEPT !.pc = "threshold", !.route = current[v], !.thr = t]
  <2>1. current[v] \in Routes
    BY <1>2 DEF BeginThreshold, Typed, TypeOK
  <2>2. y \in Edit /\ EditOK(y)
    BY <2>1, NoEditOK DEF NoEdit, Edit, EditOK
  <2>3. edit' = [edit EXCEPT ![e] = y] /\ Invalidate(e, current[v]) /\ UNCHANGED watch
    BY <1>2 DEF BeginThreshold
  <2>4. RowsOK'
    BY <1>2, <2>1, <2>3, InvalidateTyped, RowsAreTyped, BoundsAssumption
       DEF BeginThreshold, Happens, RowsOK, fences, stops
  <2> HIDE DEF y
  <2> QED BY <2>2, <2>3, <2>4, EditTyped
<1>3. ASSUME NEW r \in Routes, NEW s \in Shapes, BeginReplace(e, r, s)
      PROVE  Typed'
  <2> DEFINE y == [NoEdit EXCEPT !.pc = "delete points", !.route = r, !.shape = s]
  <2>1. y \in Edit /\ EditOK(y)
    BY NoEditOK DEF NoEdit, Edit, EditOK
  <2>2. Begin(e, r, y) /\ Racing(r) /\ cache' = cache
    BY <1>3 DEF BeginReplace
  <2> HIDE DEF y
  <2> QED BY <2>1, <2>2, RacingTyped, RowsAreTyped, BeginTyped DEF RowsOK
<1>4. ASSUME NEW r \in Routes, NEW s \in Shapes, NEW t \in Thresholds, BeginUpdate(e, r, s, t)
      PROVE  Typed'
  <2> DEFINE y == [NoEdit EXCEPT !.pc = "update", !.route = r, !.shape = s, !.thr = t]
  <2>1. y \in Edit /\ EditOK(y)
    BY NoEditOK DEF NoEdit, Edit, EditOK
  <2>2. Begin(e, r, y) /\ Invalidate(e, r)
    BY <1>4 DEF BeginUpdate
  <2> HIDE DEF y
  <2> QED BY <2>1, <2>2, InvalidateTyped, BeginTyped
<1>5. ASSUME NEW r \in Routes, BeginDelete(e, r)
      PROVE  Typed'
  <2> DEFINE y == [NoEdit EXCEPT !.pc = "drop", !.route = r]
  <2>1. y \in Edit /\ EditOK(y)
    BY NoEditOK DEF NoEdit, Edit, EditOK
  <2>2. Begin(e, r, y) /\ Racing(r) /\ cache' = cache
    BY <1>5 DEF BeginDelete
  <2> HIDE DEF y
  <2> QED BY <2>1, <2>2, RacingTyped, RowsAreTyped, BeginTyped DEF RowsOK
<1> QED BY <1>1, <1>2, <1>3, <1>4, <1>5 DEF Request

\* A request that goes on keeps the types.
LEMMA ContinueTyped ==
    ASSUME Typed, NEW e \in Editors, Continue(e)
    PROVE  Typed'
<1> DEFINE x == edit[e]
           r == x.route
<1>1. /\ x \in Edit /\ r \in Routes
      /\ x.pc = "assign" => x.vehicle \in Vehicles
      /\ x.pc \in {"threshold", "update"} => x.thr \in Thresholds
      /\ x.pc \in {"delete points", "invalidate", "save points", "update"} => x.shape \in Shapes
  BY EditKnows DEF Continue, Assign, SetThreshold, DeletePoints, InvalidateAfterDelete,
                   SavePoints, Update, Drop
<1>2. ASSUME NEW pc \in {"threshold", "invalidate", "save points"}
      PROVE  /\ [x EXCEPT !.pc = pc] \in Edit /\ [x EXCEPT !.pc = pc].pc = pc
             /\ [x EXCEPT !.pc = pc].route = r /\ [x EXCEPT !.pc = pc].shape = x.shape
             /\ [x EXCEPT !.pc = pc].thr = x.thr
  BY <1>1 DEF Edit
<1>3. ASSUME Done(e), UNCHANGED watch, RowsOK'
      PROVE  Typed'
  BY <1>3, NoEditOK, EditTyped DEF Done
<1>4. CASE Assign(e)
  <2>1. x.vehicle \in Vehicles /\ UNCHANGED watch
    BY <1>1, <1>4 DEF Assign, KeepWatch
  <2>2. CASE x.thr = None
    <3>1. RowsOK'
      BY <1>1, <1>4, <2>1, <2>2, RowsAreTyped
         DEF Assign, KeepWatch, RowsOK, clocks, fences, stops
    <3> QED BY <1>3, <1>4, <2>1, <2>2, <3>1 DEF Assign
  <2>3. CASE x.thr # None
    <3> DEFINE y == [x EXCEPT !.pc = "threshold"]
    <3>1. edit' = [edit EXCEPT ![e] = y] /\ Invalidate(e, r)
      BY <1>1, <1>4, <2>3 DEF Assign, Typed, TypeOK
    <3>2. RowsOK'
      BY <1>1, <1>4, <2>1, <3>1, InvalidateTyped, RowsAreTyped
         DEF Assign, KeepWatch, RowsOK, clocks, fences, stops
    <3>3. y \in Edit /\ y.pc = "threshold" /\ y.route = r /\ y.thr = x.thr
      BY <1>2
    <3>4. x.thr \in Thresholds
      BY <1>1, <2>3 DEF Edit
    <3> HIDE DEF y
    <3>5. EditOK(y)
      BY <1>1, <3>3, <3>4 DEF EditOK
    <3> QED BY <2>1, <3>1, <3>2, <3>3, <3>5, EditTyped
  <2> QED BY <2>2, <2>3
<1>5. CASE SetThreshold(e)
  <2>1. RowsOK'
    BY ZenonT(60), <1>1, <1>5, RowsAreTyped
       DEF SetThreshold, KeepWatch, RowsOK, clocks, fences, stops
  <2> QED BY <1>3, <1>5, <2>1 DEF SetThreshold, KeepWatch
<1>6. CASE DeletePoints(e)
  <2> DEFINE y == [x EXCEPT !.pc = "invalidate"]
  <2>1. edit' = [edit EXCEPT ![e] = y] /\ UNCHANGED watch
    BY <1>1, <1>6 DEF DeletePoints, KeepWatch, Typed, TypeOK
  <2>2. RowsOK'
    BY ZenonT(60), <1>1, <1>6, RowsAreTyped
       DEF DeletePoints, KeepWatch, RowsOK, clocks, fences, stops
  <2>3. y \in Edit /\ y.pc = "invalidate" /\ y.route = r /\ y.shape = x.shape
    BY <1>2
  <2> HIDE DEF y
  <2>4. EditOK(y)
    BY <1>1, <1>6, <2>3 DEF EditOK, DeletePoints
  <2> QED BY <2>1, <2>2, <2>3, <2>4, EditTyped
<1>7. CASE InvalidateAfterDelete(e)
  <2> DEFINE y == [x EXCEPT !.pc = "save points"]
  <2>1. edit' = [edit EXCEPT ![e] = y] /\ UNCHANGED watch /\ Invalidate(e, r)
    BY <1>1, <1>7 DEF InvalidateAfterDelete, KeepWatch, Typed, TypeOK
  <2>2. RowsOK'
    BY <1>1, <1>7, <2>1, InvalidateTyped, RowsAreTyped
       DEF InvalidateAfterDelete, KeepWatch, RowsOK, clocks, fences, stops
  <2>3. y \in Edit /\ y.pc = "save points" /\ y.route = r /\ y.shape = x.shape
    BY <1>2
  <2> HIDE DEF y
  <2>4. EditOK(y)
    BY <1>1, <1>7, <2>3 DEF EditOK, InvalidateAfterDelete
  <2> QED BY <2>1, <2>2, <2>3, <2>4, EditTyped
<1>8. CASE SavePoints(e)
  <2>1. RowsOK'
    BY ZenonT(60), <1>1, <1>8, RowsAreTyped
       DEF SavePoints, KeepWatch, RowsOK, clocks, fences, stops
  <2> QED BY <1>3, <1>8, <2>1 DEF SavePoints, KeepWatch
<1>9. CASE Update(e)
  <2>1. x.shape \in Shapes /\ x.thr \in Thresholds /\ RowsOK
    BY <1>1, <1>9, RowsAreTyped DEF Update
  <2>2. routes' \in [Routes -> [state : {"unused", "live", "gone"},
                               shape : Shapes \cup {None}, thr : Thresholds]]
    <3> DEFINE y == [routes[r] EXCEPT !.shape = x.shape, !.thr = x.thr]
    <3>1. y \in [state : {"unused", "live", "gone"}, shape : Shapes \cup {None},
                 thr : Thresholds]
      BY ZenonT(60), <1>1, <2>1 DEF RowsOK
    <3>2. routes' \in {routes, [routes EXCEPT ![r] = y]}
      BY <1>1, <1>9, <2>1 DEF Update, RowsOK
    <3> HIDE DEF y
    <3> QED BY <1>1, <2>1, <3>1, <3>2 DEF RowsOK
  <2>3. RowsOK'
    BY <1>9, <2>1, <2>2 DEF Update, KeepWatch, RowsOK, clocks, fences, stops
  <2> QED BY <1>3, <1>9, <2>3 DEF Update, KeepWatch
<1>10. CASE Drop(e)
  <2>1. RowsOK'
    BY ZenonT(60), <1>1, <1>10, RowsAreTyped
       DEF Drop, KeepWatch, RowsOK, clocks, fences, stops
  <2> QED BY <1>3, <1>10, <2>1 DEF Drop, KeepWatch
<1> QED BY <1>4, <1>5, <1>6, <1>7, <1>8, <1>9, <1>10 DEF Continue

\* Any await of a handler keeps the types.
LEMMA HandleTyped ==
    ASSUME Typed, NEW w \in Watchers, Handle(w)
    PROVE  Typed'
BY ReadRouteDoes, ReadThresholdDoes, ReadPointsDoes, FillDoes, ReadFenceDoes, FirstFenceDoes,
   SaveFenceDoes, CrossDoes, ViolateDoes, ReadStationsDoes, ReadStateDoes, InitStateDoes,
   SaveStateDoes, NoteDoes
   DEF Handle

\* A crash keeps the types.
LEMMA CrashTyped ==
    ASSUME Typed, Crash
    PROVE  Typed'
<1>1. \A w \in Watchers : watch[w].pc \in {"cross", "violate"} => Fence(w) \in Fences
  BY WatchKnows DEF OnRoute
<1>2. \A w \in Watchers : watch[w].pc = "note" => watch[w].vehicle \in Vehicles
  BY WatchKnows
<1>3. tangled' \subseteq Fences \cup Vehicles
  BY <1>1, <1>2, RowsAreTyped DEF Crash, Crossing, RowsOK
<1>4. RowsOK'
  BY <1>3, RowsAreTyped, BoundsAssumption DEF Crash, Happens, RowsOK, fences, stops
<1>5. watch' \in [Watchers -> Watch] /\ \A w \in Watchers : WatchOK(watch'[w])
  BY IdleWatch DEF Crash
<1>6. edit' \in [Editors -> Edit] /\ \A e \in Editors : EditOK(edit'[e])
  BY NoEditOK DEF Crash
<1> QED BY <1>4, <1>5, <1>6 DEF Typed, TypeOK, StepsOK, RowsOK

\* The first state is well typed,
LEMMA TypedInit == Init => Typed
<1> SUFFICES ASSUME Init PROVE Typed
  OBVIOUS
<1>1. routes \in [Routes -> [state : {"unused", "live", "gone"},
                             shape : Shapes \cup {None}, thr : Thresholds]]
  <2>1. PICK on \in [Routes -> BOOLEAN], s \in Shapes, t \in Thresholds :
            routes = [r \in Routes |-> [state |-> IF on[r] THEN "live" ELSE "unused",
                                        shape |-> IF on[r] THEN s ELSE None, thr |-> t]]
    BY DEF Init
  <2> QED BY <2>1
<1>2. current \in [Vehicles -> Routes \cup {None}]
  BY DEF Init, Live
<1>3. /\ watch \in [Watchers -> Watch] /\ edit \in [Editors -> Edit]
      /\ \A w \in Watchers : WatchOK(watch[w])
      /\ \A e \in Editors : EditOK(edit[e])
  BY IdleWatch, NoEditOK DEF Init
<1>4. now \in Times /\ events \in 0..MaxEvents
  BY BoundsAssumption DEF Init, Times
<1>5. /\ cache \in [Routes -> [shape : Shapes, thr : Thresholds] \cup {None}]
      /\ fence \in [Fences -> {"in", "out", None}] /\ first \in [Fences -> {"in", "out", None}]
      /\ crossings \in [Fences -> Seq({"in", "out"})] /\ offRoute \in [Fences -> Nat]
      /\ stations \in [Vehicles -> SUBSET Stations]
      /\ progress \in [Vehicles -> Progress \cup {None}]
      /\ visits \in [Vehicles -> Seq(Event)]
      /\ raced \subseteq Routes /\ tangled \subseteq Fences \cup Vehicles
  BY DEF Init
<1> QED BY <1>1, <1>2, <1>3, <1>4, <1>5 DEF Typed, TypeOK, StepsOK

\* and every step keeps it so.
LEMMA TypedStep ==
    ASSUME Typed, [Next]_vars
    PROVE  Typed'
<1>1. ASSUME NEW w \in Watchers, NEW v \in Vehicles, NEW p \in Places, Point(w, v, p)
      PROVE  Typed'
  BY <1>1, PointDoes
<1>2. ASSUME NEW w \in Watchers, Handle(w)
      PROVE  Typed'
  BY <1>2, HandleTyped
<1>3. ASSUME NEW e \in Editors, Request(e) \/ Continue(e)
      PROVE  Typed'
  BY <1>3, RequestTyped, ContinueTyped
<1>4. ASSUME NEW v \in Vehicles, NEW r \in Routes, NEW s \in Shapes, NEW t \in Thresholds,
             Create(v, r, s, t)
      PROVE  Typed'
  <2>1. /\ routes' = [routes EXCEPT ![r] = [state |-> "live", shape |-> s, thr |-> t]]
        /\ current' = [current EXCEPT ![v] = r]
    BY <1>4 DEF Create
  <2>2. /\ routes' \in [Routes -> [state : {"unused", "live", "gone"},
                                   shape : Shapes \cup {None}, thr : Thresholds]]
        /\ current' \in [Vehicles -> Routes \cup {None}]
    BY <2>1 DEF Typed, TypeOK
  <2> QED BY <1>4, <2>2, BoundsAssumption
          DEF Create, Happens, Typed, TypeOK, StepsOK, fences, stops
<1>5. ASSUME NEW v \in Vehicles, Unassign(v)
      PROVE  Typed'
  BY <1>5, BoundsAssumption DEF Unassign, Happens, Typed, TypeOK, StepsOK, fences, stops
<1>6. ASSUME NEW v \in Vehicles, NEW s \in Stations, DeleteStation(v, s)
      PROVE  Typed'
  BY <1>6, BoundsAssumption DEF DeleteStation, Happens, Typed, TypeOK, StepsOK, lines, fences
<1>7. CASE Tick
  BY <1>7, BoundsAssumption DEF Tick, Times, Typed, TypeOK, StepsOK, lines, fences, stops
<1>8. CASE Crash
  BY <1>8, CrashTyped
<1>9. CASE UNCHANGED vars
  BY <1>9 DEF vars, clocks, lines, fences, stops, Typed, TypeOK, StepsOK
<1> QED BY <1>1, <1>2, <1>3, <1>4, <1>5, <1>6, <1>7, <1>8, <1>9 DEF Next

\* Every reachable state has the types of the module, whatever the handlers, the edits and
\* the crashes; a handler and an edit have read what their next statement needs.
THEOREM TypeCorrect == Spec => []TypeOK
<1>1. Init => Typed
  BY TypedInit
<1>2. Typed /\ [Next]_vars => Typed'
  BY TypedStep
<1>3. Typed => TypeOK
  BY DEF Typed
<1> QED BY <1>1, <1>2, <1>3, PTL DEF Spec

------------------------------------------------------------------------------
(* The line in the cache.                                                  *)

KeepsLines == UNCHANGED <<routes, cache, current, raced, edit>>
Loads == {"threshold", "points", "fill"}

\* The conjuncts of LinesOK that are about one route.
LineOK(r) == (routes[r].state = "unused" => Unused(r)) /\ (r \in raced \/ CacheTrue(r))

\* A step of one request leaves the others where they are.
LEMMA EditBecomes ==
    ASSUME Typed, NEW e \in Editors, NEW y, edit' = [edit EXCEPT ![e] = y]
    PROVE  edit'[e] = y /\ \A d \in Editors : d # e => edit'[d] = edit[d]
BY DEF Typed, TypeOK

\* A step of a handler that neither loads a line nor goes on with it keeps what is known.
LEMMA LinesKept ==
    ASSUME LinesOK, NEW w \in Watchers, Moves(w), watch'[w].pc \notin Loads, KeepsLines
    PROVE  LinesOK'
<1> SUFFICES ASSUME NEW r \in Routes PROVE LineOK(r)'
  BY DEF LinesOK, LineOK
<1>1. LineOK(r)
  BY DEF LinesOK, LineOK
<1>2. Loading(r)' => Loading(r)
  BY DEF Loading, Moves, OnlyWatch, Loads
<1>3. (routes[r].state = "unused" => Unused(r))'
  BY <1>1, <1>2 DEF LineOK, Unused, KeepsLines, Editing, Edits
<1>4. (r \in raced \/ CacheTrue(r))'
  BY <1>1, <1>2
     DEF LineOK, CacheTrue, KeepsLines, Editing, Edits, LineOf, Live, Moves, OnlyWatch, Loads
<1> QED BY <1>3, <1>4 DEF LineOK

\* A route that begins to be loaded is not being edited, or it has been raced for.
LEMMA ReadRouteLines ==
    ASSUME Typed, LinesOK, NEW w \in Watchers, ReadRoute(w)
    PROVE  LinesOK'
<1>1. UNCHANGED <<routes, cache, current, edit>> /\ Moves(w)
  BY ReadRouteDoes DEF ReadRoute
<1>2. CASE watch'[w].pc \in {"stations", "fence"} /\ raced' = raced
  BY <1>1, <1>2, LinesKept DEF KeepsLines, Loads
<1>3. CASE ~ (watch'[w].pc \in {"stations", "fence"} /\ raced' = raced)
  <2>1. PICK q : q = current[watch[w].vehicle]
    OBVIOUS
  <2>2. /\ q \in Routes /\ cache[q] = None /\ watch'[w].pc = "threshold"
        /\ watch'[w].route = q /\ raced' = IF Editing(q) THEN raced \cup {q} ELSE raced
        /\ watch[w].pc = "route" /\ watch[w].vehicle \in Vehicles
    BY <1>3, <2>1, ReadRouteDoes, WatchKnows
  <2> SUFFICES ASSUME NEW r \in Routes PROVE LineOK(r)'
    BY DEF LinesOK, LineOK
  <2>3. LineOK(r)
    BY DEF LinesOK, LineOK
  <2>4. r # q => (Loading(r)' => Loading(r))
    BY <1>1, <2>2 DEF Loading, Moves, OnlyWatch
  <2>5. (routes[r].state = "unused" => Unused(r))'
    <3>1. routes[r].state = "unused" => r # q
      BY <2>1, <2>2, <2>3 DEF LineOK, Unused
    <3> QED BY <1>1, <2>3, <2>4, <3>1 DEF LineOK, Unused, Editing, Edits
  <2>6. (r \in raced \/ CacheTrue(r))'
    <3> SUFFICES ASSUME r \notin raced' PROVE CacheTrue(r)'
      OBVIOUS
    <3>1. CacheTrue(r)
      BY <2>2, <2>3 DEF LineOK
    <3>2. Editing(r)' = Editing(r) /\ (r = q => ~ Editing(r))
      BY <1>1, <2>2 DEF Editing, Edits
    <3>3. (Editing(r) => ~ Loading(r))'
      BY <2>4, <3>1, <3>2 DEF CacheTrue
    <3> QED BY ZenonT(60), <1>1, <2>2, <3>1, <3>3
            DEF CacheTrue, Editing, Edits, LineOf, Live, Moves, OnlyWatch
  <2> QED BY <2>5, <2>6 DEF LineOK
<1> QED BY <1>2, <1>3

\* What a loader has read of a route that is not edited is what is in the tables.
LEMMA LoadLines ==
    ASSUME Typed, LinesOK, NEW w \in Watchers, Moves(w), KeepsLines,
           watch[w].pc \in Loads, watch'[w].pc \in Loads, watch'[w].route = watch[w].route,
           watch'[w].pc = "points" => watch'[w].thr = routes[watch[w].route].thr,
           watch'[w].pc = "fill" =>
               /\ watch[w].pc = "points" /\ watch'[w].thr = watch[w].thr
               /\ watch'[w].shape = routes[watch[w].route].shape
    PROVE  LinesOK'
<1> SUFFICES ASSUME NEW r \in Routes PROVE LineOK(r)'
  BY DEF LinesOK, LineOK
<1>1. LineOK(r)
  BY DEF LinesOK, LineOK
<1>2. Loading(r)' => Loading(r)
  BY DEF Loading, Moves, OnlyWatch, Loads
<1>3. (routes[r].state = "unused" => Unused(r))'
  BY <1>1, <1>2 DEF LineOK, Unused, KeepsLines, Editing, Edits
<1>4. (r \in raced \/ CacheTrue(r))'
  <2> SUFFICES ASSUME r \notin raced' PROVE CacheTrue(r)'
    OBVIOUS
  <2>1. CacheTrue(r)
    BY <1>1 DEF LineOK, KeepsLines
  <2>2. (Editing(r) => ~ Loading(r))'
    BY <1>2, <2>1 DEF CacheTrue, Editing, Edits, KeepsLines
  <2>3. \A u \in Watchers : watch'[u].route = r =>
            /\ watch'[u].pc \in {"points", "fill"} => watch'[u].thr = routes[r].thr
            /\ watch'[u].pc = "fill" => watch'[u].shape = routes[r].shape
    <3> SUFFICES ASSUME NEW u \in Watchers, watch'[u].route = r
                 PROVE  /\ watch'[u].pc \in {"points", "fill"} => watch'[u].thr = routes[r].thr
                        /\ watch'[u].pc = "fill" => watch'[u].shape = routes[r].shape
      OBVIOUS
    <3>1. watch[u].route = r =>
              /\ watch[u].pc \in {"points", "fill"} => watch[u].thr = routes[r].thr
              /\ watch[u].pc = "fill" => watch[u].shape = routes[r].shape
      BY <2>1 DEF CacheTrue
    <3>2. CASE u # w
      BY <3>1, <3>2 DEF Moves, OnlyWatch
    <3>3. CASE u = w
      BY <3>1, <3>3
    <3> QED BY <3>2, <3>3
  <2> QED BY <2>1, <2>2, <2>3 DEF CacheTrue, Editing, Edits, LineOf, Live, KeepsLines
<1> QED BY <1>3, <1>4 DEF LineOK

\* Putting the line into the cache keeps what is known of the lines.
LEMMA FillLines ==
    ASSUME Typed, LinesOK, NEW w \in Watchers, Fill(w)
    PROVE  LinesOK'
<1>1. PICK q : q = watch[w].route
  OBVIOUS
<1>2. /\ Moves(w) /\ watch[w].pc = "fill" /\ watch'[w].pc = "fence" /\ q \in Routes
      /\ cache' = [cache EXCEPT ![q] = [shape |-> watch[w].shape, thr |-> watch[w].thr]]
      /\ UNCHANGED <<routes, current, raced, edit>>
  BY <1>1, FillDoes DEF Fill
<1> SUFFICES ASSUME NEW r \in Routes PROVE LineOK(r)'
  BY DEF LinesOK, LineOK
<1>3. LineOK(r)
  BY DEF LinesOK, LineOK
<1>4. (Loading(r)' => Loading(r)) /\ (r = q => Loading(r))
  BY <1>1, <1>2 DEF Loading, Moves, OnlyWatch
<1>5. r # q => cache'[r] = cache[r]
  BY <1>2 DEF Typed, TypeOK
<1>6. (routes[r].state = "unused" => Unused(r))'
  BY <1>2, <1>3, <1>4, <1>5 DEF LineOK, Unused, Editing, Edits
<1>7. (r \in raced \/ CacheTrue(r))'
  <2> SUFFICES ASSUME r \notin raced' PROVE CacheTrue(r)'
    OBVIOUS
  <2>1. CacheTrue(r)
    BY <1>2, <1>3 DEF LineOK
  <2>2. /\ r = q => ~ Editing(r)
        /\ r = q => cache'[r] = LineOf(r)
    BY <1>1, <1>2, <1>4, <2>1 DEF CacheTrue, LineOf, Typed, TypeOK
  <2>3. (\A u \in Watchers : watch[u].route = r =>
            /\ watch[u].pc \in {"points", "fill"} => watch[u].thr = routes[r].thr
            /\ watch[u].pc = "fill" => watch[u].shape = routes[r].shape)'
    BY <1>2, <2>1 DEF CacheTrue, Moves, OnlyWatch
  <2> QED BY <1>2, <1>4, <1>5, <2>1, <2>2, <2>3 DEF CacheTrue, Editing, Edits, LineOf, Live
<1> QED BY <1>6, <1>7 DEF LineOK

\* Any await of a handler keeps what is known of the lines.
LEMMA HandleLines ==
    ASSUME Typed, LinesOK, NEW w \in Watchers, Handle(w)
    PROVE  LinesOK'
<1>1. CASE ReadRoute(w)
  BY <1>1, ReadRouteLines
<1>2. CASE ReadThreshold(w)
  <2>1. KeepsLines
    BY <1>2 DEF ReadThreshold, KeepsLines, lines
  <2> QED BY <1>2, <2>1, ReadThresholdDoes, LinesKept, LoadLines DEF Loads
<1>3. CASE ReadPoints(w)
  <2>1. KeepsLines
    BY <1>3 DEF ReadPoints, KeepsLines, lines
  <2> QED BY <1>3, <2>1, ReadPointsDoes, LinesKept, LoadLines DEF Loads
<1>4. CASE Fill(w)
  BY <1>4, FillLines
<1>5. CASE ReadFence(w) \/ FirstFence(w) \/ SaveFence(w) \/ Cross(w) \/ Violate(w)
  <2>1. KeepsLines
    BY <1>5 DEF ReadFence, FirstFence, SaveFence, Cross, Violate, KeepsLines, lines
  <2>2. Moves(w) /\ watch'[w].pc \notin Loads
    BY <1>5, ReadFenceDoes, FirstFenceDoes, SaveFenceDoes, CrossDoes, ViolateDoes DEF Loads
  <2> QED BY <2>1, <2>2, LinesKept
<1>6. CASE \/ ReadStations(w) \/ ReadState(w) \/ InitState(w) \/ SaveState(w) \/ Note(w)
  <2>1. KeepsLines
    BY <1>6 DEF ReadStations, ReadState, InitState, SaveState, Note, KeepsLines, lines
  <2>2. Moves(w) /\ watch'[w].pc \notin Loads
    BY <1>6, ReadStationsDoes, ReadStateDoes, InitStateDoes, SaveStateDoes, NoteDoes
       DEF Loads, SameBut
  <2> QED BY <2>1, <2>2, LinesKept
<1> QED BY <1>1, <1>2, <1>3, <1>4, <1>5, <1>6 DEF Handle

\* What an edit of another route leaves as it is.
LEMMA OtherLine ==
    ASSUME NEW r \in Routes, CacheTrue(r), UNCHANGED watch, Edits(r)' = Edits(r),
           \A d \in Edits(r) : edit'[d] = edit[d],
           cache'[r] = cache[r], routes'[r] = routes[r]
    PROVE  CacheTrue(r)'
<1>1. Editing(r)' = Editing(r) /\ Loading(r)' = Loading(r) /\ LineOf(r)' = LineOf(r)
  BY DEF Editing, Loading, LineOf
<1>2. (r \in Live)' = (r \in Live)
  BY DEF Live
<1> QED BY <1>1, <1>2 DEF CacheTrue

\* An edit that has yet to empty the cache begins: no other edit or load is under way, or
\* the route has been raced for.
LEMMA BegunLines ==
    ASSUME Typed, LinesOK, NEW e \in Editors, NEW q \in Routes, NEW y,
           y.route = q, y.pc \in {"assign", "delete points", "drop"},
           Begin(e, q, y), Racing(q), UNCHANGED cache
    PROVE  LinesOK'
<1>1. /\ edit[e].pc = "idle" /\ q \in Live /\ edit'[e] = y
      /\ \A d \in Editors : d # e => edit'[d] = edit[d]
      /\ UNCHANGED <<routes, current, watch, cache>>
  BY EditBecomes DEF Begin
<1> SUFFICES ASSUME NEW r \in Routes PROVE LineOK(r)'
  BY DEF LinesOK, LineOK
<1>2. LineOK(r)
  BY DEF LinesOK, LineOK
<1>3. Loading(r)' = Loading(r) /\ (r # q => Edits(r)' = Edits(r))
  BY <1>1 DEF Loading, Edits
<1>4. (routes[r].state = "unused" => Unused(r))'
  BY <1>1, <1>2, <1>3 DEF LineOK, Unused, Editing, Live
<1>5. (r \in raced \/ CacheTrue(r))'
  <2> SUFFICES ASSUME r \notin raced' PROVE CacheTrue(r)'
    OBVIOUS
  <2>1. r \notin raced /\ (r = q => ~ Loading(r) /\ ~ Editing(r))
    BY DEF Racing
  <2>2. CacheTrue(r)
    BY <1>2, <2>1 DEF LineOK
  <2>3. CASE r # q
    <3>1. \A d \in Edits(r) : edit'[d] = edit[d]
      BY <1>1 DEF Edits
    <3> QED BY <1>1, <1>3, <2>2, <2>3, <3>1, OtherLine
  <2>4. CASE r = q
    <3>1. Edits(r) = {} /\ Edits(r)' = {e} /\ ~ Loading(r)
      BY ZenonT(60), <1>1, <2>1, <2>4 DEF Editing, Edits
    <3> QED BY <1>1, <1>3, <2>2, <3>1 DEF CacheTrue, Editing, LineOf, Live
  <2> QED BY <2>3, <2>4
<1> QED BY <1>4, <1>5 DEF LineOK

\* An edit that empties the cache has yet to write.
LEMMA EmptiedLines ==
    ASSUME Typed, LinesOK, NEW e \in Editors, NEW q \in Routes, NEW y,
           y.route = q, y.pc \in {"threshold", "save points", "update"},
           edit[e].pc = "idle" \/ edit[e].route = q,
           edit' = [edit EXCEPT ![e] = y], Invalidate(e, q),
           routes[q].state # "unused", UNCHANGED <<routes, watch>>,
           \A v \in Vehicles : current'[v] \in {current[v], q}
    PROVE  LinesOK'
<1>1. edit'[e] = y /\ \A d \in Editors : d # e => edit'[d] = edit[d]
  BY EditBecomes
<1> SUFFICES ASSUME NEW r \in Routes PROVE LineOK(r)'
  BY DEF LinesOK, LineOK
<1>2. LineOK(r)
  BY DEF LinesOK, LineOK
<1>3. Loading(r)' = Loading(r) /\ (r # q => Edits(r)' = Edits(r))
  BY <1>1 DEF Loading, Edits
<1>4. /\ r # q => cache'[r] = cache[r]
      /\ r = q => cache'[r] = None
  BY DEF Invalidate, Typed, TypeOK
<1>5. (routes[r].state = "unused" => Unused(r))'
  BY <1>2, <1>3, <1>4 DEF LineOK, Unused, Editing
<1>6. (r \in raced \/ CacheTrue(r))'
  <2> SUFFICES ASSUME r \notin raced' PROVE CacheTrue(r)'
    OBVIOUS
  <2>1. CASE r # q
    <3>1. r \notin raced
      BY <2>1 DEF Invalidate
    <3>2. CacheTrue(r)
      BY <1>2, <3>1 DEF LineOK
    <3>3. \A d \in Edits(r) : edit'[d] = edit[d]
      BY <1>1, <2>1 DEF Edits
    <3> QED BY <1>3, <1>4, <2>1, <3>2, <3>3, OtherLine
  <2>2. CASE r = q
    <3>1. ~ Loading(r) /\ Edits(r) \ {e} = {}
      BY <2>2 DEF Invalidate
    <3>2. Edits(r)' = {e}
      BY <1>1, <2>2, <3>1 DEF Edits
    <3>3. \A w \in Watchers : watch'[w].route = r => watch'[w].pc \notin {"points", "fill"}
      BY <3>1 DEF Loading
    <3> QED BY <1>3, <1>4, <2>2, <3>1, <3>2, <3>3 DEF CacheTrue, Editing
  <2> QED BY <2>1, <2>2
<1> QED BY <1>5, <1>6 DEF LineOK

\* An edit ends: it has emptied the cache before it wrote, or has not written, or the
\* route is gone.
LEMMA EndedLines ==
    ASSUME Typed, LinesOK, NEW e \in Editors, NEW q \in Routes,
           edit[e].route = q, edit[e].pc \notin {"idle", "invalidate"}, Done(e),
           UNCHANGED <<cache, raced, watch>>,
           \A r \in Routes \ {q} : routes'[r] = routes[r],
           routes'[q].state \in {routes[q].state, "gone"},
           \/ edit[e].pc \in {"threshold", "save points", "update"}
           \/ UNCHANGED routes
           \/ routes'[q].state = "gone",
           \A v \in Vehicles : current'[v] \in {current[v], q, None}
    PROVE  LinesOK'
<1>1. edit'[e] = NoEdit /\ \A d \in Editors : d # e => edit'[d] = edit[d]
  BY EditBecomes DEF Done
<1>2. e \in Edits(q)
  BY DEF Edits
<1> SUFFICES ASSUME NEW r \in Routes PROVE LineOK(r)'
  BY DEF LinesOK, LineOK
<1>3. LineOK(r)
  BY DEF LinesOK, LineOK
<1>4. Loading(r)' = Loading(r) /\ Edits(r)' = Edits(r) \ {e} /\ (r # q => Edits(r)' = Edits(r))
  BY <1>1, NoEditOK DEF Loading, Edits
<1>5. (routes[r].state = "unused" => Unused(r))'
  <2>1. CASE r # q
    <3>1. r # None
      BY NoneAssumption
    <3> QED BY <1>3, <1>4, <2>1, <3>1 DEF LineOK, Unused, Editing
  <2>2. CASE r = q
    BY <1>2, <1>3, <2>2 DEF LineOK, Unused, Editing
  <2> QED BY <2>1, <2>2
<1>6. (r \in raced \/ CacheTrue(r))'
  <2> SUFFICES ASSUME r \notin raced' PROVE CacheTrue(r)'
    OBVIOUS
  <2>1. CacheTrue(r)
    BY <1>3 DEF LineOK
  <2>2. CASE r # q
    <3>1. routes'[r] = routes[r]
      BY <2>2
    <3>2. \A d \in Edits(r) : edit'[d] = edit[d]
      BY <1>1, <2>2 DEF Edits
    <3> QED BY <1>4, <2>1, <2>2, <3>1, <3>2, OtherLine
  <2>3. CASE r = q
    <3>1. Edits(r) = {e} /\ Edits(r)' = {} /\ ~ Loading(r)
      BY <1>2, <1>4, <2>1, <2>3 DEF CacheTrue, Editing
    <3>2. \A w \in Watchers : watch'[w].route = r => watch'[w].pc \notin {"points", "fill"}
      BY <3>1 DEF Loading
    <3>3. cache'[r] = None \/ r \notin Live' \/ cache'[r] = LineOf(r)'
      BY <2>1, <2>3, <3>1 DEF CacheTrue, LineOf, Live
    <3> QED BY <1>4, <3>1, <3>2, <3>3 DEF CacheTrue, Editing
  <2> QED BY <2>2, <2>3
<1> QED BY <1>5, <1>6 DEF LineOK

\* A request that begins keeps what is known of the lines.
LEMMA RequestLines ==
    ASSUME Typed, LinesOK, NEW e \in Editors, Request(e)
    PROVE  LinesOK'
<1>1. ASSUME NEW v \in Vehicles, NEW r \in Routes, NEW t \in Thresholds \cup {None},
             BeginAssign(e, v, r, t)
      PROVE  LinesOK'
  <2> DEFINE y == [NoEdit EXCEPT !.pc = "assign", !.vehicle = v, !.route = r, !.thr = t]
  <2>1. y.route = r /\ y.pc = "assign"
    BY DEF NoEdit
  <2>2. Begin(e, r, y) /\ Racing(r) /\ UNCHANGED cache
    BY <1>1 DEF BeginAssign
  <2> HIDE DEF y
  <2> QED BY <2>1, <2>2, BegunLines
<1>2. ASSUME NEW v \in Vehicles, NEW t \in Thresholds, BeginThreshold(e, v, t)
      PROVE  LinesOK'
  <2> DEFINE y == [NoEdit EXCEPT !.pc = "threshold", !.route = current[v], !.thr = t]
  <2>1. PICK q : q = current[v]
    OBVIOUS
  <2>2. q \in Routes /\ routes[q].state # "unused"
    BY <1>2, <2>1 DEF BeginThreshold, Typed, TypeOK, LinesOK, Unused
  <2>3. y.route = q /\ y.pc = "threshold"
    BY <2>1 DEF NoEdit
  <2>4. /\ edit' = [edit EXCEPT ![e] = y] /\ Invalidate(e, q) /\ UNCHANGED <<routes, watch>>
        /\ edit[e].pc = "idle" /\ UNCHANGED current
    BY <1>2, <2>1 DEF BeginThreshold
  <2> HIDE DEF y
  <2> QED BY <2>2, <2>3, <2>4, EmptiedLines
<1>3. ASSUME NEW r \in Routes, NEW s \in Shapes, BeginReplace(e, r, s)
      PROVE  LinesOK'
  <2> DEFINE y == [NoEdit EXCEPT !.pc = "delete points", !.route = r, !.shape = s]
  <2>1. y.route = r /\ y.pc = "delete points"
    BY DEF NoEdit
  <2>2. Begin(e, r, y) /\ Racing(r) /\ UNCHANGED cache
    BY <1>3 DEF BeginReplace
  <2> HIDE DEF y
  <2> QED BY <2>1, <2>2, BegunLines
<1>4. ASSUME NEW r \in Routes, NEW s \in Shapes, NEW t \in Thresholds, BeginUpdate(e, r, s, t)
      PROVE  LinesOK'
  <2> DEFINE y == [NoEdit EXCEPT !.pc = "update", !.route = r, !.shape = s, !.thr = t]
  <2>1. y.route = r /\ y.pc = "update"
    BY DEF NoEdit
  <2>2. /\ edit' = [edit EXCEPT ![e] = y] /\ Invalidate(e, r) /\ UNCHANGED <<routes, watch>>
        /\ edit[e].pc = "idle" /\ UNCHANGED current /\ routes[r].state = "live"
    BY <1>4 DEF BeginUpdate, Begin, Live
  <2> HIDE DEF y
  <2> QED BY <2>1, <2>2, EmptiedLines
<1>5. ASSUME NEW r \in Routes, BeginDelete(e, r)
      PROVE  LinesOK'
  <2> DEFINE y == [NoEdit EXCEPT !.pc = "drop", !.route = r]
  <2>1. y.route = r /\ y.pc = "drop"
    BY DEF NoEdit
  <2>2. Begin(e, r, y) /\ Racing(r) /\ UNCHANGED cache
    BY <1>5 DEF BeginDelete
  <2> HIDE DEF y
  <2> QED BY <2>1, <2>2, BegunLines
<1> QED BY <1>1, <1>2, <1>3, <1>4, <1>5 DEF Request

\* The points are deleted, the cache is not yet emptied: the edit will do it.
LEMMA DeletePointsLines ==
    ASSUME Typed, LinesOK, NEW e \in Editors, DeletePoints(e)
    PROVE  LinesOK'
<1>1. PICK q : q = edit[e].route
  OBVIOUS
<1>2. q \in Routes /\ edit[e].pc = "delete points" /\ edit[e] \in Edit
  BY <1>1, EditKnows DEF DeletePoints
<1>3. PICK y : y = [edit[e] EXCEPT !.pc = "invalidate"]
  OBVIOUS
<1>4. /\ edit' = [edit EXCEPT ![e] = y]
      /\ routes' = [routes EXCEPT ![q].shape = None]
      /\ UNCHANGED <<watch, cache, raced, current>>
  BY <1>1, <1>2, <1>3 DEF DeletePoints, KeepWatch, Typed, TypeOK
<1>5. /\ edit'[e] = y /\ y.pc = "invalidate" /\ y.route = q
      /\ \A d \in Editors : d # e => edit'[d] = edit[d]
  <2>1. y.pc = "invalidate" /\ y.route = q
    BY <1>1, <1>2, <1>3 DEF Edit
  <2> QED BY <1>4, <2>1, EditBecomes
<1>6. /\ \A r \in Routes : r # q => routes'[r] = routes[r]
      /\ routes'[q].state = routes[q].state
  BY <1>2, <1>4 DEF Typed, TypeOK
<1>7. \A r \in Routes : Edits(r)' = Edits(r) /\ Loading(r)' = Loading(r)
  BY ZenonT(60), <1>1, <1>2, <1>4, <1>5 DEF Edits, Loading
<1> SUFFICES ASSUME NEW r \in Routes PROVE LineOK(r)'
  BY DEF LinesOK, LineOK
<1>8. LineOK(r)
  BY DEF LinesOK, LineOK
<1>9. (routes[r].state = "unused" => Unused(r))'
  <2>1. routes'[r].state = routes[r].state
    BY <1>6
  <2> QED BY <1>4, <1>7, <1>8, <2>1 DEF LineOK, Unused, Editing
<1>10. (r \in raced \/ CacheTrue(r))'
  <2> SUFFICES ASSUME r \notin raced' PROVE CacheTrue(r)'
    OBVIOUS
  <2>1. CacheTrue(r)
    BY <1>4, <1>8 DEF LineOK
  <2>2. CASE r # q
    <3>1. \A d \in Edits(r) : edit'[d] = edit[d]
      BY <1>1, <1>5, <2>2 DEF Edits
    <3> QED BY <1>4, <1>6, <1>7, <2>1, <2>2, <3>1, OtherLine
  <2>3. CASE r = q
    <3>1. e \in Edits(r)
      BY <1>1, <1>2, <2>3 DEF Edits
    <3>2. Edits(r) = {e} /\ ~ Loading(r)
      BY <2>1, <3>1 DEF CacheTrue, Editing
    <3>3. \A w \in Watchers : watch'[w].route = r => watch'[w].pc \notin {"points", "fill"}
      BY <1>4, <3>2 DEF Loading
    <3>4. Edits(r)' = {e} /\ edit'[e].pc = "invalidate" /\ ~ Loading(r)'
      BY <1>5, <1>7, <3>2
    <3> QED BY <3>3, <3>4 DEF CacheTrue
  <2> QED BY <2>2, <2>3
<1> QED BY <1>9, <1>10 DEF LineOK

\* A request that goes on keeps what is known of the lines.
LEMMA ContinueLines ==
    ASSUME Typed, LinesOK, NEW e \in Editors, Continue(e)
    PROVE  LinesOK'
<1>1. PICK q : q = edit[e].route
  OBVIOUS
<1>2. edit[e] \in Edit /\ edit[e].pc # "idle" /\ q \in Routes
  BY <1>1, EditKnows DEF Continue, Assign, SetThreshold, DeletePoints, InvalidateAfterDelete,
                   SavePoints, Update, Drop
<1>3. routes[q].state # "unused"
  BY <1>1, <1>2 DEF LinesOK, Unused, Editing, Edits
<1>4. ASSUME Assign(e)
      PROVE  LinesOK'
  <2>1. /\ edit[e].pc = "assign" /\ UNCHANGED <<routes, watch>>
        /\ current' = [current EXCEPT ![edit[e].vehicle] = q]
    BY <1>1, <1>4 DEF Assign, KeepWatch
  <2>2. \A v \in Vehicles : current'[v] \in {current[v], q}
    BY <2>1 DEF Typed, TypeOK
  <2>3. CASE edit[e].thr = None
    BY <1>1, <1>2, <1>4, <2>1, <2>2, <2>3, EndedLines DEF Assign
  <2>4. CASE edit[e].thr # None
    <3>1. PICK y : y = [edit[e] EXCEPT !.pc = "threshold"]
      OBVIOUS
    <3>2. y.pc = "threshold" /\ y.route = q
      BY <1>1, <1>2, <3>1 DEF Edit
    <3>3. edit' = [edit EXCEPT ![e] = y] /\ Invalidate(e, q)
      BY <1>1, <1>4, <2>4, <3>1 DEF Assign, Typed, TypeOK
    <3> QED BY <1>1, <1>2, <1>3, <2>1, <2>2, <3>2, <3>3, EmptiedLines
  <2> QED BY <2>3, <2>4
<1>5. ASSUME SetThreshold(e) \/ SavePoints(e) \/ Update(e)
      PROVE  LinesOK'
  <2>1. /\ edit[e].pc \in {"threshold", "save points", "update"} /\ Done(e)
        /\ UNCHANGED <<cache, raced, watch, current>>
    BY <1>5 DEF SetThreshold, SavePoints, Update, KeepWatch
  <2>2. /\ \A r \in Routes \ {q} : routes'[r] = routes[r]
        /\ routes'[q].state = routes[q].state
    <3>1. CASE SetThreshold(e)
      BY <1>1, <1>2, <3>1 DEF SetThreshold, Typed, TypeOK
    <3>2. CASE SavePoints(e)
      BY <1>1, <1>2, <3>2 DEF SavePoints, Typed, TypeOK
    <3>3. CASE Update(e)
      BY <1>1, <1>2, <3>3 DEF Update, Typed, TypeOK
    <3> QED BY <1>5, <3>1, <3>2, <3>3
  <2> QED BY <1>1, <1>2, <2>1, <2>2, EndedLines
<1>6. ASSUME InvalidateAfterDelete(e)
      PROVE  LinesOK'
  <2>1. PICK y : y = [edit[e] EXCEPT !.pc = "save points"]
    OBVIOUS
  <2>2. y.pc = "save points" /\ y.route = q
    BY <1>1, <1>2, <2>1 DEF Edit
  <2>3. /\ edit' = [edit EXCEPT ![e] = y] /\ Invalidate(e, q)
        /\ UNCHANGED <<routes, watch, current>>
    BY <1>1, <1>6, <2>1 DEF InvalidateAfterDelete, KeepWatch, Typed, TypeOK
  <2> QED BY <1>1, <1>2, <1>3, <2>2, <2>3, EmptiedLines
<1>7. ASSUME Drop(e)
      PROVE  LinesOK'
  <2>1. /\ edit[e].pc = "drop" /\ Done(e) /\ UNCHANGED <<cache, raced, watch>>
        /\ routes' = [routes EXCEPT ![q] = [@ EXCEPT !.state = "gone", !.shape = None]]
        /\ current' = [v \in Vehicles |-> IF current[v] = q THEN None ELSE current[v]]
    BY <1>1, <1>7 DEF Drop, KeepWatch
  <2>2. /\ \A r \in Routes \ {q} : routes'[r] = routes[r]
        /\ routes'[q].state = "gone"
        /\ \A v \in Vehicles : current'[v] \in {current[v], q, None}
    BY <1>2, <2>1 DEF Typed, TypeOK
  <2> QED BY <1>1, <1>2, <2>1, <2>2, EndedLines
<1> QED BY <1>4, <1>5, <1>6, <1>7, DeletePointsLines DEF Continue

\* It is true at first, when nothing is cached,
LEMMA LinesInit == Init => LinesOK
<1> SUFFICES ASSUME Init PROVE LinesOK
  OBVIOUS
<1>1. PICK on \in [Routes -> BOOLEAN], s \in Shapes, t \in Thresholds :
          routes = [r \in Routes |-> [state |-> IF on[r] THEN "live" ELSE "unused",
                                      shape |-> IF on[r] THEN s ELSE None, thr |-> t]]
  BY DEF Init
<1>2. /\ cache = [r \in Routes |-> None] /\ raced = {}
      /\ watch = [w \in Watchers |-> Idle] /\ edit = [e \in Editors |-> NoEdit]
      /\ current \in [Vehicles -> Live \cup {None}]
  BY DEF Init
<1> SUFFICES ASSUME NEW r \in Routes PROVE LineOK(r)
  BY DEF LinesOK, LineOK
<1>3. ~ Loading(r) /\ Edits(r) = {} /\ cache[r] = None
  BY <1>2, IdleWatch, NoEditOK DEF Loading, Edits
<1>4. \A w \in Watchers : watch[w].pc \notin {"points", "fill"}
  BY <1>2, IdleWatch
<1>5. routes[r].state = "unused" => \A v \in Vehicles : current[v] # r
  BY <1>2, NoneAssumption DEF Live
<1>6. CacheTrue(r)
  BY <1>3, <1>4 DEF CacheTrue, Editing
<1> QED BY <1>3, <1>5, <1>6 DEF LineOK, Unused, Editing

\* A crash forgets every load, every edit and the cache.
LEMMA CrashLines ==
    ASSUME LinesOK, Crash
    PROVE  LinesOK'
<1>1. /\ cache' = [r \in Routes |-> None]
      /\ watch' = [w \in Watchers |-> Idle] /\ edit' = [e \in Editors |-> NoEdit]
      /\ UNCHANGED <<routes, current>>
  BY DEF Crash
<1> SUFFICES ASSUME NEW r \in Routes PROVE LineOK(r)'
  BY DEF LinesOK, LineOK
<1>2. ~ Loading(r)' /\ Edits(r)' = {} /\ cache'[r] = None
  BY <1>1, IdleWatch, NoEditOK DEF Loading, Edits
<1>3. \A w \in Watchers : watch'[w].pc \notin {"points", "fill"}
  BY <1>1, IdleWatch
<1>4. CacheTrue(r)'
  BY <1>2, <1>3 DEF CacheTrue, Editing
<1>5. (routes[r].state = "unused" => Unused(r))'
  BY <1>1, <1>2 DEF LinesOK, Unused, Editing
<1> QED BY <1>4, <1>5 DEF LineOK

\* A new route has not been loaded, and nobody edits it.
LEMMA CreateLines ==
    ASSUME Typed, LinesOK, NEW v \in Vehicles, NEW q \in Routes, NEW s \in Shapes,
           NEW t \in Thresholds, Create(v, q, s, t)
    PROVE  LinesOK'
<1>1. /\ routes[q].state = "unused" /\ UNCHANGED <<cache, raced, watch, edit>>
      /\ routes' = [routes EXCEPT ![q] = [state |-> "live", shape |-> s, thr |-> t]]
      /\ current' = [current EXCEPT ![v] = q]
  BY DEF Create
<1>2. Unused(q)
  BY <1>1 DEF LinesOK
<1>3. /\ \A r \in Routes : r # q => routes'[r] = routes[r]
      /\ routes'[q].state = "live"
      /\ \A u \in Vehicles : current'[u] \in {current[u], q}
  BY <1>1 DEF Typed, TypeOK
<1> SUFFICES ASSUME NEW r \in Routes PROVE LineOK(r)'
  BY DEF LinesOK, LineOK
<1>4. LineOK(r)
  BY DEF LinesOK, LineOK
<1>5. Loading(r)' = Loading(r) /\ Edits(r)' = Edits(r)
  BY <1>1 DEF Loading, Edits
<1>6. (routes[r].state = "unused" => Unused(r))'
  BY <1>1, <1>3, <1>4, <1>5 DEF LineOK, Unused, Editing
<1>7. (r \in raced \/ CacheTrue(r))'
  <2>1. CASE r # q
    BY <1>1, <1>3, <1>4, <1>5, <2>1, OtherLine DEF LineOK
  <2>2. CASE r = q
    <3>1. \A w \in Watchers : watch'[w].route = r => watch'[w].pc \notin {"points", "fill"}
      BY <1>1, <1>2, <2>2 DEF Unused, Loading
    <3>2. ~ Loading(r)' /\ Edits(r)' = {} /\ cache'[r] = None
      BY <1>1, <1>2, <1>5, <2>2 DEF Unused, Editing
    <3> QED BY <3>1, <3>2 DEF CacheTrue, Editing
  <2> QED BY <2>1, <2>2
<1> QED BY <1>6, <1>7 DEF LineOK

\* What is known of the lines is kept by a step that leaves lines, loaders and edits alone.
LEMMA PlainLines ==
    ASSUME LinesOK, UNCHANGED <<routes, cache, raced, watch, edit>>,
           \A v \in Vehicles : current'[v] \in {current[v], None}
    PROVE  LinesOK'
<1> SUFFICES ASSUME NEW r \in Routes PROVE LineOK(r)'
  BY DEF LinesOK, LineOK
<1>1. LineOK(r) /\ r # None
  BY NoneAssumption DEF LinesOK, LineOK
<1>2. Loading(r)' = Loading(r) /\ Edits(r)' = Edits(r)
  BY DEF Loading, Edits
<1>3. (r \in raced \/ CacheTrue(r))'
  BY <1>1, <1>2, OtherLine DEF LineOK
<1> QED BY <1>1, <1>2, <1>3 DEF LineOK, Unused, Editing

\* and every step keeps it.
LEMMA LinesStep ==
    ASSUME Typed, LinesOK, [Next]_vars
    PROVE  LinesOK'
<1>1. ASSUME NEW w \in Watchers, NEW v \in Vehicles, NEW p \in Places, Point(w, v, p)
      PROVE  LinesOK'
  <2>1. KeepsLines
    BY <1>1 DEF Point, KeepsLines, lines
  <2> QED BY <1>1, <2>1, PointDoes, LinesKept DEF Loads
<1>2. ASSUME NEW w \in Watchers, Handle(w)
      PROVE  LinesOK'
  BY <1>2, HandleLines
<1>3. ASSUME NEW e \in Editors, Request(e) \/ Continue(e)
      PROVE  LinesOK'
  BY <1>3, RequestLines, ContinueLines
<1>4. ASSUME NEW v \in Vehicles, NEW r \in Routes, NEW s \in Shapes, NEW t \in Thresholds,
             Create(v, r, s, t)
      PROVE  LinesOK'
  BY <1>4, CreateLines
<1>5. ASSUME NEW v \in Vehicles, Unassign(v)
      PROVE  LinesOK'
  <2>1. \A u \in Vehicles : current'[u] \in {current[u], None}
    BY <1>5 DEF Unassign, Typed, TypeOK
  <2> QED BY <1>5, <2>1, PlainLines DEF Unassign
<1>6. ASSUME NEW v \in Vehicles, NEW s \in Stations, DeleteStation(v, s)
      PROVE  LinesOK'
  BY <1>6, PlainLines DEF DeleteStation, lines
<1>7. CASE Tick
  BY <1>7, PlainLines DEF Tick, lines
<1>8. CASE Crash
  BY <1>8, CrashLines
<1>9. CASE UNCHANGED vars
  BY <1>9, PlainLines DEF vars, lines
<1> QED BY <1>1, <1>2, <1>3, <1>4, <1>5, <1>6, <1>7, <1>8, <1>9 DEF Next

\* While no edit of a route is under way, the line in routeCache is the one in the tables,
\* for a route that was not loaded and edited at once since the cache was last emptied.
THEOREM LinesAreTrue == Spec => []CacheStaleOnlyByRace
<1>1. Init => Typed /\ LinesOK
  BY TypedInit, LinesInit
<1>2. Typed /\ LinesOK /\ [Next]_vars => (Typed /\ LinesOK)'
  BY TypedStep, LinesStep
<1>3. LinesOK => CacheStaleOnlyByRace
  BY DEF LinesOK, CacheTrue, CacheStaleOnlyByRace, LineOf, Live, Editing
<1> QED BY <1>1, <1>2, <1>3, PTL DEF Spec

------------------------------------------------------------------------------
(* The fence.                                                              *)

Near(w, f) == watch[w].pc \in {"save fence", "cross", "violate"} /\ Fence(w) = f
SameFence(f) ==
    /\ fence'[f] = fence[f] /\ crossings'[f] = crossings[f]
    /\ offRoute'[f] = offRoute[f] /\ first'[f] = first[f]

\* A handler that keeps its line keeps its fence and its side,
LEMMA SameLineFence ==
    ASSUME NEW w, SameLine(watch'[w], watch[w])
    PROVE  Fence(w)' = Fence(w) /\ Side(w)' = Side(w)
BY DEF SameLine, Fence, Side

\* and so do the handlers that do not move.
LEMMA OthersFence ==
    ASSUME NEW w \in Watchers, Moves(w), NEW u \in Watchers, u # w
    PROVE  /\ Fence(u)' = Fence(u) /\ Side(u)' = Side(u) /\ AtFence(u)' = AtFence(u)
           /\ watch'[u].pc = watch[u].pc /\ watch'[u].was = watch[u].was
BY DEF Moves, OnlyWatch, Fence, Side, AtFence

\* A handler that is not at the fence, before or after, does not matter to it.
LEMMA FenceKept ==
    ASSUME NEW f \in Fences, FenceTrue(f), NEW w \in Watchers, Moves(w), SameFence(f),
           ~ Near(w, f), ~ Near(w, f)'
    PROVE  FenceTrue(f)'
<1>1. w \notin At(f) /\ w \notin At(f)' /\ w \notin Violating(f) /\ w \notin Violating(f)'
  BY DEF Near, At, AtFence, Violating
<1>2. At(f)' = At(f) /\ Violating(f)' = Violating(f)
  BY <1>1, OthersFence DEF At, Violating
<1>3. \A u \in At(f) : /\ Side(u)' = Side(u) /\ watch'[u].pc = watch[u].pc
                       /\ watch'[u].was = watch[u].was
  BY <1>1, OthersFence DEF At
<1>4. Prev(f)' = Prev(f) /\ Outs(crossings[f])' = Outs(crossings[f])
  BY DEF SameFence, Prev, Outs
<1>5. Alternate(crossings[f], first[f])' = Alternate(crossings[f], first[f])
  BY DEF SameFence, Alternate
<1> QED BY <1>2, <1>3, <1>4, <1>5 DEF FenceTrue, SameFence

\* What is known of the fences is kept by a step away from them.
LEMMA FencesKept ==
    ASSUME FencesOK, NEW w \in Watchers, Moves(w), UNCHANGED fences, tangled \subseteq tangled',
           watch[w].pc \notin {"save fence", "cross", "violate"},
           watch'[w].pc \notin {"save fence", "cross", "violate"}
    PROVE  FencesOK'
BY FenceKept DEF FencesOK, fences, SameFence, Near

\* The outs of a log, and one more.
LEMMA OutsFinite ==
    ASSUME NEW s \in Seq({"in", "out"})
    PROVE  IsFiniteSet(Outs(s)) /\ Cardinality(Outs(s)) \in Nat
<1>1. Outs(s) \in SUBSET (1..Len(s))
  BY DEF Outs
<1>2. IsFiniteSet(1..Len(s))
  <2>1. 1 \in Int /\ Len(s) \in Int
    OBVIOUS
  <2> QED BY <2>1, FS_Interval
<1>3. IsFiniteSet(Outs(s))
  BY <1>1, <1>2, FS_Subset
<1> QED BY <1>3, FS_CardinalityType

\* One more crossing is one more exit or none.
LEMMA OutsAppend ==
    ASSUME NEW s \in Seq({"in", "out"}), NEW x \in {"in", "out"}
    PROVE  Cardinality(Outs(Append(s, x))) =
               IF x = "out" THEN Cardinality(Outs(s)) + 1 ELSE Cardinality(Outs(s))
<1>1. Len(s) + 1 \notin Outs(s)
  BY DEF Outs
<1>2. Outs(Append(s, x)) = IF x = "out" THEN Outs(s) \cup {Len(s) + 1} ELSE Outs(s)
  BY DEF Outs
<1> QED BY <1>1, <1>2, OutsFinite, FS_AddElement

\* Crossings that alternate still do after one that differs from the last.
LEMMA AlternateAppend ==
    ASSUME NEW s \in Seq({"in", "out"}), NEW x \in {"in", "out"}, NEW side,
           Alternate(s, side), x # IF s = <<>> THEN side ELSE s[Len(s)]
    PROVE  Alternate(Append(s, x), side)
<1> SUFFICES ASSUME NEW i \in DOMAIN Append(s, x)
             PROVE  Append(s, x)[i] # IF i = 1 THEN side ELSE Append(s, x)[i - 1]
  BY DEF Alternate
<1>1. CASE i = Len(s) + 1
  BY <1>1
<1>2. CASE i # Len(s) + 1
  <2>1. i \in DOMAIN s
    BY <1>2
  <2>2. s[i] # IF i = 1 THEN side ELSE s[i - 1]
    BY <2>1 DEF Alternate
  <2>3. Append(s, x)[i] = s[i] /\ (i # 1 => Append(s, x)[i - 1] = s[i - 1])
    BY <2>1
  <2> QED BY <2>2, <2>3
<1> QED BY <1>1, <1>2

\* A fence is read: a second handler at it entangles it.
LEMMA ReadFenceFences ==
    ASSUME Typed, FencesOK, NEW w \in Watchers, ReadFence(w)
    PROVE  FencesOK'
<1>1. /\ Moves(w) /\ watch[w].pc = "fence" /\ watch'[w].pc = "save fence"
      /\ SameLine(watch'[w], watch[w]) /\ watch'[w].was = fence[Fence(w)]
      /\ UNCHANGED fences
  BY ReadFenceDoes DEF ReadFence
<1>2. Fence(w)' = Fence(w)
  BY <1>1, SameLineFence
<1>3. tangled' = IF \E u \in Watchers : AtFence(u) /\ Fence(u) = Fence(w)
                 THEN tangled \cup {Fence(w)} ELSE tangled
  BY DEF ReadFence
<1> SUFFICES ASSUME NEW f \in Fences, f \notin tangled' PROVE FenceTrue(f)'
  BY DEF FencesOK
<1>4. FenceTrue(f) /\ SameFence(f)
  BY <1>1, <1>3 DEF FencesOK, fences, SameFence
<1>5. CASE f # Fence(w)
  BY <1>1, <1>2, <1>4, <1>5, FenceKept DEF Near
<1>6. CASE f = Fence(w)
  <2>1. At(f) = {}
    BY <1>3, <1>6 DEF At
  <2>2. At(f)' = {w}
    <3>1. \A u \in Watchers : u # w => (u \in At(f)' <=> u \in At(f))
      BY <1>1, OthersFence DEF At
    <3>2. w \in At(f)'
      BY <1>1, <1>2, <1>6 DEF At, AtFence
    <3>3. At(f)' \subseteq Watchers
      BY DEF At
    <3> QED BY <2>1, <3>1, <3>2, <3>3
  <2>3. Violating(f)' = Violating(f)
    BY <1>1, <1>2, OthersFence DEF Violating
  <2>4. /\ Prev(f)' = Prev(f) /\ Outs(crossings[f])' = Outs(crossings[f])
        /\ Alternate(crossings[f], first[f])' = Alternate(crossings[f], first[f])
    BY <1>4 DEF SameFence, Prev, Outs, Alternate
  <2>5. watch'[w].was = fence'[f] /\ fence'[f] = Prev(f)'
    BY <1>1, <1>4, <1>6, <2>1, <2>4 DEF FenceTrue, SameFence
  <2> QED BY <1>1, <1>4, <2>2, <2>3, <2>4, <2>5 DEF FenceTrue, SameFence
<1> QED BY <1>5, <1>6

\* What the rows of a fence are that is not w's.
LEMMA OtherFences ==
    ASSUME Typed, FencesOK, NEW w \in Watchers, Moves(w),
           watch'[w].pc \in {"idle", "stations"} \/ Fence(w)' = Fence(w),
           tangled \subseteq tangled',
           NEW q \in Fences, q = Fence(w),
           \A f \in Fences : f # q => SameFence(f),
           q \in tangled' \/ FenceTrue(q)'
    PROVE  FencesOK'
<1> SUFFICES ASSUME NEW f \in Fences, f \notin tangled' PROVE FenceTrue(f)'
  BY DEF FencesOK
<1>1. CASE f # q
  <2>1. FenceTrue(f) /\ SameFence(f)
    BY <1>1 DEF FencesOK
  <2>2. ~ Near(w, f) /\ ~ Near(w, f)'
    BY <1>1 DEF Near
  <2> QED BY <2>1, <2>2, FenceKept
<1>2. CASE f = q
  BY <1>2
<1> QED BY <1>1, <1>2

\* A handler that has a fence for itself leaves it.
LEMMA LeavesFence ==
    ASSUME NEW w \in Watchers, NEW f \in Fences, FenceTrue(f), w \in At(f), Moves(w),
           watch'[w].pc \notin {"save fence", "cross"}
    PROVE  At(f) = {w} /\ At(f)' = {}
<1>1. At(f) = {w}
  BY DEF FenceTrue
<1>2. \A u \in Watchers : u # w => (u \in At(f)' <=> u \in At(f))
  BY OthersFence DEF At
<1>3. w \notin At(f)'
  BY DEF At, AtFence
<1>4. At(f)' \subseteq Watchers
  BY DEF At
<1> QED BY <1>1, <1>2, <1>3, <1>4

\* The first row of a fence keeps what is known of the fences.
LEMMA FirstFenceFences ==
    ASSUME Typed, FencesOK, NEW w \in Watchers, FirstFence(w)
    PROVE  FencesOK'
<1>1. PICK f : f = Fence(w)
  OBVIOUS
<1>2. /\ Moves(w) /\ watch[w].pc = "save fence" /\ watch'[w].pc \in {"stations", "idle"}
      /\ f \in Fences /\ watch[w].was = None /\ UNCHANGED <<crossings, offRoute, tangled>>
  BY <1>1, FirstFenceDoes DEF FirstFence
<1>3. \A g \in Fences : g # f => SameFence(g)
  BY <1>1, <1>2 DEF FirstFence, SameFence, Typed, TypeOK
<1>4. ASSUME f \notin tangled PROVE FenceTrue(f)'
  <2>1. FenceTrue(f) /\ w \in At(f)
    BY <1>1, <1>2, <1>4 DEF FencesOK, At, AtFence
  <2>2. fence[f] = None /\ crossings[f] = <<>>
    BY <1>2, <2>1 DEF FenceTrue
  <2>3. fence'[f] = Side(w) /\ first'[f] = Side(w)
    BY <1>1, <1>2, <2>2 DEF FirstFence, Typed, TypeOK
  <2>4. At(f)' = {}
    BY <1>2, <2>1, LeavesFence
  <2>5. Violating(f)' = Violating(f)
    BY <1>2, OthersFence DEF Violating
  <2>6. Prev(f)' = Side(w) /\ Alternate(crossings[f], first[f])'
    <3>1. crossings'[f] = <<>>
      BY <1>2, <2>2
    <3> QED BY <2>3, <3>1 DEF Prev, Alternate
  <2>7. fence'[f] # None /\ Outs(crossings[f])' = Outs(crossings[f])
    BY <1>2, <2>3, SideOfFence, NoneAssumption DEF Outs
  <2> QED BY <1>2, <2>1, <2>3, <2>4, <2>5, <2>6, <2>7 DEF FenceTrue
<1> QED BY <1>1, <1>2, <1>3, <1>4, OtherFences

\* Saving the fence's row keeps what is known of the fences.
LEMMA SaveFenceFences ==
    ASSUME Typed, FencesOK, NEW w \in Watchers, SaveFence(w)
    PROVE  FencesOK'
<1>1. PICK f : f = Fence(w)
  OBVIOUS
<1>2. /\ Moves(w) /\ watch[w].pc = "save fence" /\ f \in Fences /\ watch[w].was # None
      /\ UNCHANGED <<crossings, offRoute, first, tangled>>
      /\ fence' = [fence EXCEPT ![f] = Side(w)]
  BY <1>1, SaveFenceDoes DEF SaveFence
<1>3. \/ watch'[w].pc = "stations" /\ ~ Changed(w)
      \/ /\ watch'[w].pc = "cross" /\ Changed(w)
         /\ Fence(w)' = Fence(w) /\ Side(w)' = Side(w)
  BY SaveFenceDoes, SameLineFence
<1>4. \A g \in Fences : g # f => SameFence(g)
  BY <1>2 DEF SameFence, Typed, TypeOK
<1>5. ASSUME f \notin tangled PROVE FenceTrue(f)'
  <2>1. FenceTrue(f) /\ w \in At(f)
    BY <1>1, <1>2, <1>5 DEF FencesOK, At, AtFence
  <2>2. At(f) = {w} /\ watch[w].was = fence[f] /\ fence[f] = Prev(f)
    BY <1>2, <2>1 DEF FenceTrue
  <2>3. fence'[f] = Side(w) /\ fence'[f] # None
    BY <1>2, SideOfFence, NoneAssumption DEF Typed, TypeOK
  <2>4. Violating(f)' = Violating(f)
    BY <1>2, <1>3, OthersFence DEF Violating
  <2>5. /\ Prev(f)' = Prev(f) /\ Outs(crossings[f])' = Outs(crossings[f])
        /\ Alternate(crossings[f], first[f])' = Alternate(crossings[f], first[f])
    BY <1>2 DEF Prev, Outs, Alternate
  <2>6. CASE watch'[w].pc = "stations" /\ ~ Changed(w)
    <3>1. At(f)' = {}
      BY <1>2, <2>1, <2>6, LeavesFence
    <3>2. fence'[f] = Prev(f)'
      BY <2>2, <2>3, <2>5, <2>6 DEF Changed
    <3> QED BY <1>2, <2>1, <2>3, <2>4, <2>5, <3>1, <3>2 DEF FenceTrue
  <2>7. CASE /\ watch'[w].pc = "cross" /\ Changed(w)
             /\ Fence(w)' = Fence(w) /\ Side(w)' = Side(w)
    <3>1. At(f)' = {w}
      BY <1>1, <1>2, <2>2, <2>7, OthersFence DEF At, AtFence
    <3>2. fence'[f] = Side(w)' /\ Prev(f)' # Side(w)'
      BY <2>2, <2>3, <2>5, <2>7 DEF Changed
    <3> QED BY <1>2, <2>1, <2>3, <2>4, <2>5, <2>7, <3>1, <3>2 DEF FenceTrue
  <2> QED BY <1>3, <2>6, <2>7
<1> QED BY <1>1, <1>2, <1>3, <1>4, <1>5, OtherFences

\* The event is written that the row has shown since it was saved.
LEMMA CrossFences ==
    ASSUME Typed, FencesOK, NEW w \in Watchers, Cross(w)
    PROVE  FencesOK'
<1>1. PICK f : f = Fence(w)
  OBVIOUS
<1>2. PICK x : x = Side(w)
  OBVIOUS
<1>3. /\ Moves(w) /\ watch[w].pc = "cross" /\ f \in Fences /\ x \in {"in", "out"}
      /\ UNCHANGED <<fence, offRoute, first, tangled>>
      /\ crossings' = [crossings EXCEPT ![f] = Append(@, x)]
  BY <1>1, <1>2, CrossDoes, SideOfFence DEF Cross
<1>4. \/ watch'[w].pc = "stations" /\ x = "in"
      \/ watch'[w].pc = "violate" /\ x = "out" /\ Fence(w)' = Fence(w)
  BY <1>2, CrossDoes, SameLineFence
<1>5. \A g \in Fences : g # f => SameFence(g)
  BY <1>3 DEF SameFence, Typed, TypeOK
<1>6. ASSUME f \notin tangled PROVE FenceTrue(f)'
  <2>1. FenceTrue(f) /\ w \in At(f)
    BY <1>1, <1>3, <1>6 DEF FencesOK, At, AtFence
  <2>2. fence[f] = x /\ Prev(f) # x /\ x # None
    BY <1>2, <1>3, <2>1, NoneAssumption DEF FenceTrue
  <2>3. PICK s : s = crossings[f]
    OBVIOUS
  <2>4. s \in Seq({"in", "out"}) /\ crossings'[f] = Append(s, x)
    BY <1>3, <2>3 DEF Typed, TypeOK
  <2>5. At(f)' = {}
    BY <1>3, <1>4, <2>1, LeavesFence
  <2>6. Prev(f)' = x
    <3>1. Append(s, x) # <<>> /\ Append(s, x)[Len(Append(s, x))] = x
      BY <2>4
    <3> QED BY <2>4, <3>1 DEF Prev
  <2>7. Alternate(Append(s, x), first[f])
    BY <1>3, <2>1, <2>2, <2>3, <2>4, AlternateAppend DEF FenceTrue, Prev
  <2>8. \A u \in Watchers : u # w => (u \in Violating(f)' <=> u \in Violating(f))
    BY <1>3, OthersFence DEF Violating
  <2>9. w \notin Violating(f) /\ (w \in Violating(f)' <=> x = "out")
    BY <1>1, <1>3, <1>4 DEF Violating
  <2>10. Violating(f)' \subseteq Watchers /\ Violating(f) \subseteq Watchers
    BY DEF Violating
  <2>11. Violating(f)' = IF x = "out" THEN Violating(f) \cup {w} ELSE Violating(f)
    BY <2>8, <2>9, <2>10
  <2>12. /\ IsFiniteSet(Violating(f)) /\ Cardinality(Violating(f)) \in Nat
         /\ offRoute[f] + Cardinality(Violating(f)) = Cardinality(Outs(s))
         /\ offRoute[f] \in Nat /\ Cardinality(Outs(s)) \in Nat
    BY <1>3, <2>1, <2>3, <2>4, FS_CardinalityType, OutsFinite
       DEF FenceTrue, Typed, TypeOK
  <2>13. /\ IsFiniteSet(Violating(f))'
         /\ Cardinality(Violating(f)') = Cardinality(Violating(f)) + IF x = "out" THEN 1 ELSE 0
    BY <2>9, <2>11, <2>12, FS_AddElement
  <2>14. Cardinality(Outs(Append(s, x))) = Cardinality(Outs(s)) + IF x = "out" THEN 1 ELSE 0
    BY <1>3, <2>4, <2>12, OutsAppend
  <2>15. offRoute'[f] + Cardinality(Violating(f)') = Cardinality(Outs(crossings'[f]))
    <3>1. offRoute'[f] = offRoute[f] /\ crossings'[f] = Append(s, x)
      BY <1>3, <2>4
    <3>2. ASSUME NEW o \in Nat, NEW c \in Nat, NEW n \in Nat, NEW k \in Nat, o + c = n
          PROVE  o + (c + k) = n + k
      BY <3>2
    <3>3. (IF x = "out" THEN 1 ELSE 0) \in Nat
      OBVIOUS
    <3> QED BY <2>12, <2>13, <2>14, <3>1, <3>2, <3>3
  <2>16. Alternate(crossings[f], first[f])'
    BY <1>3, <2>4, <2>7
  <2>17. fence'[f] = x /\ x # None
    BY <1>3, <2>2
  <2> QED BY <2>5, <2>6, <2>13, <2>15, <2>16, <2>17 DEF FenceTrue
<1> QED BY <1>1, <1>3, <1>4, <1>5, <1>6, OtherFences

\* A violation is written for an exit.
LEMMA ViolateFences ==
    ASSUME Typed, FencesOK, NEW w \in Watchers, Violate(w)
    PROVE  FencesOK'
<1>1. PICK f : f = Fence(w)
  OBVIOUS
<1>2. /\ Moves(w) /\ watch[w].pc = "violate" /\ watch'[w].pc = "stations" /\ f \in Fences
      /\ UNCHANGED <<fence, crossings, first, tangled>>
      /\ offRoute' = [offRoute EXCEPT ![f] = @ + 1]
  BY <1>1, ViolateDoes DEF Violate
<1>3. \A g \in Fences : g # f => SameFence(g)
  BY <1>2 DEF SameFence, Typed, TypeOK
<1>4. ASSUME f \notin tangled PROVE FenceTrue(f)'
  <2>1. FenceTrue(f)
    BY <1>2, <1>4 DEF FencesOK
  <2>2. \A u \in Watchers : u # w => /\ u \in Violating(f)' <=> u \in Violating(f)
                                     /\ u \in At(f)' <=> u \in At(f)
    BY <1>2, OthersFence DEF Violating, At
  <2>3. w \in Violating(f) /\ w \notin Violating(f)' /\ w \notin At(f) /\ w \notin At(f)'
    BY <1>1, <1>2 DEF Violating, At, AtFence
  <2>4. /\ Violating(f)' \subseteq Watchers /\ Violating(f) \subseteq Watchers
        /\ At(f)' \subseteq Watchers /\ At(f) \subseteq Watchers
    BY DEF Violating, At
  <2>5. Violating(f)' = Violating(f) \ {w} /\ At(f)' = At(f)
    BY <2>2, <2>3, <2>4
  <2>6. IsFiniteSet(Violating(f)) /\ Cardinality(Violating(f)) \in Nat /\ offRoute[f] \in Nat
    BY <1>2, <2>1, FS_CardinalityType DEF FenceTrue, Typed, TypeOK
  <2>7. IsFiniteSet(Violating(f))' /\ Cardinality(Violating(f)') = Cardinality(Violating(f)) - 1
    BY <2>3, <2>5, <2>6, FS_RemoveElement
  <2>8. /\ Prev(f)' = Prev(f) /\ Outs(crossings[f])' = Outs(crossings[f])
        /\ Alternate(crossings[f], first[f])' = Alternate(crossings[f], first[f])
    BY <1>2 DEF Prev, Outs, Alternate
  <2>9. offRoute'[f] = offRoute[f] + 1
    BY <1>2 DEF Typed, TypeOK
  <2>10. (offRoute[f] + Cardinality(Violating(f)) = Cardinality(Outs(crossings[f])))'
    <3>1. offRoute[f] + Cardinality(Violating(f)) = Cardinality(Outs(crossings[f]))
      BY <2>1 DEF FenceTrue
    <3>2. offRoute'[f] + Cardinality(Violating(f)') = offRoute[f] + Cardinality(Violating(f))
      BY <2>6, <2>7, <2>9
    <3> QED BY <2>8, <3>1, <3>2
  <2>11. \A u \in At(f) : /\ Side(u)' = Side(u) /\ watch'[u].pc = watch[u].pc
                          /\ watch'[u].was = watch[u].was
    BY <1>2, <2>3, <2>4, OthersFence
  <2> QED BY ZenonT(60), <1>2, <2>1, <2>5, <2>7, <2>8, <2>10, <2>11 DEF FenceTrue
<1> QED BY <1>1, <1>2, <1>3, <1>4, OtherFences

\* A crash cuts a crossing, and that is remembered; nothing else of a fence is under way.
LEMMA CrashFences ==
    ASSUME FencesOK, Crash
    PROVE  FencesOK'
<1>1. /\ watch' = [w \in Watchers |-> Idle] /\ UNCHANGED fences
      /\ tangled \cup {Fence(w) : w \in Crossing} \subseteq tangled'
  BY DEF Crash
<1> SUFFICES ASSUME NEW f \in Fences, f \notin tangled' PROVE FenceTrue(f)'
  BY DEF FencesOK
<1>2. FenceTrue(f) /\ SameFence(f) /\ \A w \in Crossing : Fence(w) # f
  BY <1>1 DEF FencesOK, fences, SameFence
<1>3. Violating(f) = {} /\ \A w \in At(f) : watch[w].pc # "cross"
  BY <1>2 DEF Violating, At, Crossing
<1>4. Violating(f)' = {} /\ At(f)' = {}
  BY <1>1, IdleWatch DEF Violating, At, AtFence
<1>5. /\ Prev(f)' = Prev(f) /\ Outs(crossings[f])' = Outs(crossings[f])
      /\ Alternate(crossings[f], first[f])' = Alternate(crossings[f], first[f])
  BY <1>2 DEF SameFence, Prev, Outs, Alternate
<1>6. fence'[f] = Prev(f)'
  BY <1>2, <1>3, <1>5 DEF FenceTrue, SameFence
<1> QED BY <1>2, <1>3, <1>4, <1>5, <1>6, FS_EmptySet DEF FenceTrue, SameFence

\* What is known of the fences is kept when no fence and no handler changes.
LEMMA PlainFences ==
    ASSUME FencesOK, UNCHANGED <<fences, watch, tangled>>
    PROVE  FencesOK'
<1> SUFFICES ASSUME NEW f \in Fences, f \notin tangled' PROVE FenceTrue(f)'
  BY DEF FencesOK
<1>1. FenceTrue(f) /\ SameFence(f)
  BY DEF FencesOK, fences, SameFence
<1>2. At(f)' = At(f) /\ Violating(f)' = Violating(f)
  BY DEF At, AtFence, Violating, Fence
<1>3. \A u \in At(f) : Side(u)' = Side(u)
  BY DEF Side
<1>4. /\ Prev(f)' = Prev(f) /\ Outs(crossings[f])' = Outs(crossings[f])
      /\ Alternate(crossings[f], first[f])' = Alternate(crossings[f], first[f])
  BY <1>1 DEF SameFence, Prev, Outs, Alternate
<1> QED BY <1>1, <1>2, <1>3, <1>4 DEF FenceTrue, SameFence

\* It is true at first, when no fence has a row,
LEMMA FencesInit == Init => FencesOK
<1> SUFFICES ASSUME Init, NEW f \in Fences PROVE FenceTrue(f)
  BY DEF FencesOK
<1>1. fence[f] = None /\ first[f] = None /\ crossings[f] = <<>> /\ offRoute[f] = 0
  BY DEF Init
<1>2. At(f) = {} /\ Violating(f) = {}
  BY IdleWatch DEF Init, At, AtFence, Violating
<1>3. Outs(crossings[f]) = {} /\ Prev(f) = None /\ Alternate(crossings[f], first[f])
  BY <1>1 DEF Outs, Prev, Alternate
<1>4. IsFiniteSet({}) /\ Cardinality({}) = 0
  BY FS_EmptySet
<1>5. offRoute[f] + Cardinality(Violating(f)) = Cardinality(Outs(crossings[f]))
  <2>1. Cardinality(Violating(f)) = 0 /\ Cardinality(Outs(crossings[f])) = 0
    BY <1>2, <1>3, <1>4
  <2> QED BY <1>1, <2>1
<1>6. IsFiniteSet(Violating(f)) /\ fence[f] = Prev(f)
  BY <1>1, <1>2, <1>3, <1>4
<1> QED BY <1>1, <1>2, <1>3, <1>5, <1>6 DEF FenceTrue

\* and every step keeps it.
LEMMA FencesStep ==
    ASSUME Typed, FencesOK, [Next]_vars
    PROVE  FencesOK'
<1>1. ASSUME NEW w \in Watchers, NEW v \in Vehicles, NEW p \in Places, Point(w, v, p)
      PROVE  FencesOK'
  BY <1>1, PointDoes, FencesKept DEF Point
<1>2. ASSUME NEW w \in Watchers, ReadRoute(w) \/ ReadThreshold(w) \/ ReadPoints(w) \/ Fill(w)
      PROVE  FencesOK'
  <2>1. UNCHANGED <<fences, tangled>>
    BY <1>2 DEF ReadRoute, ReadThreshold, ReadPoints, Fill
  <2>2. /\ Moves(w) /\ watch[w].pc \notin {"save fence", "cross", "violate"}
        /\ watch'[w].pc \notin {"save fence", "cross", "violate"}
    BY <1>2, ReadRouteDoes, ReadThresholdDoes, ReadPointsDoes, FillDoes
  <2> QED BY <2>1, <2>2, FencesKept
<1>3. ASSUME NEW w \in Watchers,
             \/ ReadStations(w) \/ ReadState(w) \/ InitState(w) \/ SaveState(w) \/ Note(w)
      PROVE  FencesOK'
  <2>1. UNCHANGED fences /\ tangled \subseteq tangled'
    BY <1>3 DEF ReadStations, ReadState, InitState, SaveState, Note
  <2>2. /\ Moves(w) /\ watch[w].pc \notin {"save fence", "cross", "violate"}
        /\ watch'[w].pc \notin {"save fence", "cross", "violate"}
    BY <1>3, ReadStationsDoes, ReadStateDoes, InitStateDoes, SaveStateDoes, NoteDoes
       DEF SameBut
  <2> QED BY <2>1, <2>2, FencesKept
<1>4. ASSUME NEW w \in Watchers, Handle(w)
      PROVE  FencesOK'
  BY <1>2, <1>3, <1>4, ReadFenceFences, FirstFenceFences, SaveFenceFences, CrossFences,
     ViolateFences DEF Handle
<1>5. ASSUME NEW e \in Editors, Request(e) \/ Continue(e)
      PROVE  FencesOK'
  <2>1. UNCHANGED <<fences, watch, tangled>>
    <3>1. CASE Request(e)
      BY <3>1 DEF Request, BeginAssign, BeginThreshold, BeginReplace, BeginUpdate, BeginDelete,
                  Begin
    <3>2. CASE Continue(e)
      BY <3>2 DEF Continue, Assign, SetThreshold, DeletePoints, InvalidateAfterDelete,
                  SavePoints, Update, Drop, KeepWatch
    <3> QED BY <1>5, <3>1, <3>2
  <2> QED BY <2>1, PlainFences
<1>6. ASSUME NEW v \in Vehicles, NEW r \in Routes, NEW s \in Shapes, NEW t \in Thresholds,
             Create(v, r, s, t)
      PROVE  FencesOK'
  BY <1>6, PlainFences DEF Create
<1>7. ASSUME NEW v \in Vehicles, Unassign(v) \/ \E s \in Stations : DeleteStation(v, s)
      PROVE  FencesOK'
  BY <1>7, PlainFences DEF Unassign, DeleteStation
<1>8. CASE Tick
  BY <1>8, PlainFences DEF Tick
<1>9. CASE Crash
  BY <1>9, CrashFences
<1>10. CASE UNCHANGED vars
  BY <1>10, PlainFences DEF vars
<1> QED BY <1>1, <1>4, <1>5, <1>6, <1>7, <1>8, <1>9, <1>10 DEF Next

\* On a fence that one handler at a time has had and no crash has cut, entries and exits
\* alternate, the row is the last of them, and there is a violation for every exit.
THEOREM FencesAlternate == Spec => []CrossingsAlternate
<1>1. Init => Typed /\ FencesOK
  BY TypedInit, FencesInit
<1>2. Typed /\ FencesOK /\ [Next]_vars => (Typed /\ FencesOK)'
  BY TypedStep, FencesStep
<1>3. Typed /\ FencesOK => CrossingsAlternate
  <2> SUFFICES ASSUME Typed, FencesOK PROVE CrossingsAlternate
    OBVIOUS
  <2>1. ASSUME NEW f \in Fences, f \notin tangled
        PROVE  /\ Alternate(crossings[f], first[f])
               /\ \/ \E w \in Crossing : Fence(w) = f
                  \/ fence[f] = Prev(f) /\ offRoute[f] = Cardinality(Outs(crossings[f]))
    <3>1. FenceTrue(f) /\ offRoute[f] \in Nat
      BY <2>1 DEF FencesOK, Typed, TypeOK
    <3>2. CASE \A w \in Crossing : Fence(w) # f
      <4>1. Violating(f) = {} /\ \A w \in At(f) : watch[w].pc # "cross"
        BY <3>2 DEF Violating, At, Crossing
      <4>2. Cardinality(Violating(f)) = 0
        BY <4>1, FS_EmptySet
      <4>3. offRoute[f] + 0 = Cardinality(Outs(crossings[f]))
        BY <3>1, <4>2 DEF FenceTrue
      <4>4. offRoute[f] = Cardinality(Outs(crossings[f]))
        BY <3>1, <4>3
      <4>5. fence[f] = Prev(f) /\ Alternate(crossings[f], first[f])
        BY <3>1, <4>1 DEF FenceTrue
      <4> QED BY <4>4, <4>5
    <3>3. Alternate(crossings[f], first[f])
      BY <3>1 DEF FenceTrue
    <3> QED BY <3>2, <3>3
  <2> QED BY <2>1 DEF CrossingsAlternate, Alternate, Prev, Outs
<1> QED BY <1>1, <1>2, <1>3, PTL DEF Spec

------------------------------------------------------------------------------
(* The stations.                                                           *)

SameStop(v) == progress'[v] = progress[v] /\ visits'[v] = visits[v]

\* A handler that has no state of the vehicle, before or after, does not matter to it.
LEMMA StopKept ==
    ASSUME NEW v \in Vehicles, StopTrue(v), NEW w \in Watchers, Moves(w), SameStop(v),
           w \notin Having(v), w \notin Having(v)'
    PROVE  StopTrue(v)'
<1>1. \A u \in Watchers : u # w => watch'[u] = watch[u]
  BY DEF Moves, OnlyWatch
<1>2. Having(v)' = Having(v)
  BY <1>1 DEF Having, AtState
<1>3. \A u \in Having(v) : watch'[u] = watch[u]
  BY <1>1 DEF Having
<1> QED BY <1>2, <1>3 DEF StopTrue, SameStop

\* What is known of the stations is kept by a step away from their state.
LEMMA StopsKept ==
    ASSUME StopsOK, NEW w \in Watchers, Moves(w), UNCHANGED <<progress, visits>>,
           tangled \subseteq tangled', ~ AtState(w), ~ AtState(w)'
    PROVE  StopsOK'
BY StopKept DEF StopsOK, SameStop, Having

\* A handler that has the state of its vehicle for itself.
LEMMA HavesOnly ==
    ASSUME NEW v \in Vehicles, StopTrue(v), NEW w \in Having(v), Moves(w)
    PROVE  /\ Having(v) = {w}
           /\ watch'[w].pc \in {"save state", "note"} /\ watch'[w].vehicle = v =>
                  Having(v)' = {w}
           /\ ~ AtState(w)' => Having(v)' = {}
<1>1. Having(v) = {w} /\ w \in Watchers
  BY DEF StopTrue, Having
<1>2. \A u \in Watchers : u # w => (u \in Having(v)' <=> u \in Having(v))
  BY <1>1 DEF Having, AtState, Moves, OnlyWatch
<1>3. Having(v)' \subseteq Watchers
  BY DEF Having
<1>4. watch'[w].pc \in {"save state", "note"} /\ watch'[w].vehicle = v => w \in Having(v)'
  BY <1>1 DEF Having, AtState
<1>5. ~ AtState(w)' => w \notin Having(v)'
  BY DEF Having
<1> QED BY <1>1, <1>2, <1>3, <1>4, <1>5

\* The rows of a vehicle that is not w's.
LEMMA OtherStops ==
    ASSUME StopsOK, NEW w \in Watchers, Moves(w), tangled \subseteq tangled',
           NEW q \in Vehicles, q = watch[w].vehicle,
           watch'[w].vehicle = q \/ ~ AtState(w)',
           \A v \in Vehicles : v # q => SameStop(v),
           q \in tangled' \/ StopTrue(q)'
    PROVE  StopsOK'
<1> SUFFICES ASSUME NEW v \in Vehicles, v \notin tangled' PROVE StopTrue(v)'
  BY DEF StopsOK
<1>1. CASE v # q
  <2>1. StopTrue(v) /\ SameStop(v)
    BY <1>1 DEF StopsOK
  <2>2. w \notin Having(v) /\ w \notin Having(v)'
    BY <1>1 DEF Having
  <2> QED BY <2>1, <2>2, StopKept
<1>2. CASE v = q
  BY <1>2
<1> QED BY <1>1, <1>2

\* A state is read: a second handler that has it entangles the vehicle.
LEMMA ReadStateStops ==
    ASSUME Typed, StopsOK, NEW w \in Watchers, ReadState(w)
    PROVE  StopsOK'
<1>1. PICK v : v = watch[w].vehicle
  OBVIOUS
<1>2. /\ Moves(w) /\ watch[w].pc = "state" /\ v \in Vehicles
      /\ \/ watch'[w].pc = "idle"
         \/ /\ watch'[w].pc = "init" /\ watch'[w].vehicle = v
         \/ /\ watch'[w].pc = "save state" /\ watch'[w].vehicle = v
            /\ progress[v] # None /\ Saves(watch'[w], progress[v])
  BY <1>1, ReadStateDoes DEF SamePlace
<1>3. /\ UNCHANGED <<progress, visits>>
      /\ tangled' = IF \E u \in Watchers : AtState(u) /\ watch[u].vehicle = v
                    THEN tangled \cup {v} ELSE tangled
  BY <1>1 DEF ReadState, stops
<1>4. ASSUME v \notin tangled' PROVE StopTrue(v)'
  <2>1. Having(v) = {}
    BY <1>3, <1>4 DEF Having
  <2>2. StopTrue(v)
    BY <1>2, <1>3, <1>4 DEF StopsOK
  <2>3. \A u \in Watchers : u # w => u \notin Having(v)'
    BY <1>2, <2>1 DEF Having, AtState, Moves, OnlyWatch
  <2>4. \A u \in Having(v)' : u = w
    BY <2>3 DEF Having
  <2>5. \/ progress[v] = None /\ watch'[w].pc # "save state"
        \/ Agrees(progress[v], visits[v])
    BY <1>2, <2>1, <2>2 DEF StopTrue
  <2>6. progress[v] = None \/ Agrees(progress[v], visits[v])
    BY <2>5
  <2>7. watch'[w].pc # "note"
    BY <1>2
  <2> QED BY <1>2, <1>3, <2>2, <2>4, <2>6, <2>7 DEF StopTrue
<1> QED BY <1>1, <1>2, <1>3, <1>4, OtherStops DEF SameStop, AtState

\* The row of a vehicle without one.
LEMMA FreshAgrees == Agrees(Fresh, <<>>)
BY DEF Agrees, Fresh, Below

\* The first row of a vehicle's progress keeps what is known of the stations.
LEMMA InitStateStops ==
    ASSUME Typed, StopsOK, NEW w \in Watchers, InitState(w)
    PROVE  StopsOK'
<1>1. PICK v : v = watch[w].vehicle
  OBVIOUS
<1>2. /\ Moves(w) /\ watch[w].pc = "init" /\ v \in Vehicles
      /\ \/ progress[v] # None /\ progress' = progress /\ watch'[w].pc = "idle"
         \/ /\ progress[v] = None /\ progress' = [progress EXCEPT ![v] = Fresh]
            /\ \/ watch'[w].pc = "idle"
               \/ /\ watch'[w].pc = "save state" /\ watch'[w].vehicle = v
                  /\ Saves(watch'[w], Fresh)
      /\ UNCHANGED <<visits, tangled>>
  BY <1>1, InitStateDoes DEF SamePlace, InitState
<1>3. \A u \in Vehicles : u # v => SameStop(u)
  BY <1>2 DEF SameStop, Typed, TypeOK
<1>4. ASSUME v \notin tangled PROVE StopTrue(v)'
  <2>1. StopTrue(v) /\ w \in Having(v)
    BY <1>1, <1>2, <1>4 DEF StopsOK, Having, AtState
  <2>2. Having(v) = {w} /\ Having(v)' \subseteq {w}
    BY <1>2, <2>1, HavesOnly DEF AtState
  <2>3. CASE progress[v] # None
    <3>1. Having(v)' = {} /\ progress'[v] = progress[v] /\ visits'[v] = visits[v]
      BY <1>2, <2>1, <2>3, HavesOnly DEF AtState
    <3>2. Agrees(progress[v], visits[v])
      BY <1>2, <2>1, <2>2, <2>3 DEF StopTrue
    <3> QED BY <2>1, <3>1, <3>2 DEF StopTrue
  <2>4. CASE progress[v] = None
    <3>1. progress'[v] = Fresh /\ visits[v] = <<>> /\ visits'[v] = <<>>
      BY <1>2, <2>1, <2>4 DEF StopTrue, Typed, TypeOK
    <3>2. Fresh # None
      <4>1. Fresh \in Progress
        BY DEF Fresh, Progress
      <4> QED BY <4>1, NullAssumption
    <3>3. \A u \in Having(v)' : watch'[u].pc # "note"
      BY <1>2, <2>2
    <3>4. \A u \in Having(v)' : watch'[u].pc = "save state" => Saves(watch'[u], Fresh)
      BY <1>2, <2>2, <2>4
    <3>5. InOrder(visits[v])'
      BY <3>1 DEF InOrder
    <3>6. Agrees(progress[v], visits[v])'
      BY <3>1, FreshAgrees
    <3>7. \A a, b \in Having(v)' : a = b
      BY <2>2
    <3> QED BY <3>1, <3>2, <3>3, <3>4, <3>5, <3>6, <3>7 DEF StopTrue
  <2> QED BY <2>3, <2>4
<1> QED BY <1>1, <1>2, <1>3, <1>4, OtherStops DEF AtState

\* What a handler saves agrees with the log, or the event that is missing is what it notes.
LEMMA SavesOrNotes ==
    ASSUME NEW st \in Progress, NEW x \in Watch, NEW log \in Seq(Event),
           x.place \in Places, Agrees(st, log), Saves(x, st)
    PROVE  /\ x.type = None => Agrees(x.state, log)
           /\ x.type # None => Notes(x, log)
<1> DEFINE s == StationAt(x.place)
<1>1. /\ st.next \in Nat \ {0} /\ st.inside \in Nat /\ s \in Nat /\ x.at \in Times
      /\ x.station = st.next
  <2>1. st.next \in x.known /\ x.station = st.next
    BY DEF Saves, Step
  <2>2. x.known \subseteq Stations /\ x.at \in Times /\ st.inside \in Nat
    BY DEF Watch, Progress
  <2>3. s \in Stations \cup {0} /\ Stations \subseteq Nat
    BY StationsAssumption
  <2>4. st.next \in Nat \ {0}
    BY <2>1, <2>2, StationsAssumption
  <2> HIDE DEF s
  <2>5. s \in Nat
    BY <2>3
  <2> QED BY <2>1, <2>2, <2>4, <2>5
<1>2. \/ x.state = [st EXCEPT !.had = TRUE] /\ x.type = None
      \/ /\ x.state = [next |-> st.next, had |-> TRUE, inside |-> 0, since |-> None]
         /\ x.type = "exit"
      \/ /\ x.state = [next |-> st.next, had |-> TRUE, inside |-> s, since |-> x.at]
         /\ x.type = "enter" /\ s = st.next
      \/ /\ x.state = [next |-> st.next + 1, had |-> TRUE, inside |-> 0, since |-> None]
         /\ x.type = "visit" /\ st.inside = st.next /\ Stayed(st, x.at)
  BY DEF Saves, Step
<1>3. Below(log, st.next) /\ (st.inside # 0 => Entered(log, st.next, st.since))
  BY DEF Agrees
<1>4. CASE x.state = [st EXCEPT !.had = TRUE] /\ x.type = None
  <2>1. x.state.next = st.next /\ x.state.inside = st.inside /\ x.state.since = st.since
    BY <1>4 DEF Progress
  <2> QED BY <1>4, <2>1 DEF Agrees
<1>5. CASE /\ x.state = [next |-> st.next, had |-> TRUE, inside |-> 0, since |-> None]
           /\ x.type = "exit"
  BY <1>3, <1>5, NoneAssumption DEF Notes
<1>6. CASE /\ x.state = [next |-> st.next, had |-> TRUE, inside |-> s, since |-> x.at]
           /\ x.type = "enter" /\ s = st.next
  BY <1>1, <1>3, <1>6, NoneAssumption DEF Notes
<1>7. CASE /\ x.state = [next |-> st.next + 1, had |-> TRUE, inside |-> 0, since |-> None]
           /\ x.type = "visit" /\ st.inside = st.next /\ Stayed(st, x.at)
  <2>1. Entered(log, st.next, st.since)
    BY <1>1, <1>3, <1>7
  <2>2. st.since \in Times
    <3>1. log # <<>> /\ st.since = log[Len(log)].at
      BY <2>1 DEF Entered
    <3>2. log[Len(log)] \in Event
      BY <3>1
    <3> QED BY <3>1, <3>2 DEF Event
  <2> QED BY <1>1, <1>3, <1>7, <2>1, <2>2, NoneAssumption DEF Notes, Stayed
<1> QED BY <1>2, <1>4, <1>5, <1>6, <1>7

\* The log after the event that was missing.
LEMMA NotedAgrees ==
    ASSUME NEW x \in Watch, x.state \in Progress, x.station \in Stations,
           NEW log \in Seq(Event), EventOf(x) \in Event, Notes(x, log), InOrder(log)
    PROVE  /\ Agrees(x.state, Append(log, EventOf(x)))
           /\ InOrder(Append(log, EventOf(x)))
<1>1. PICK e : e = EventOf(x)
  OBVIOUS
<1>2. PICK new : new = Append(log, e)
  OBVIOUS
<1>3. /\ e \in Event /\ e.type = x.type /\ e.station = x.station /\ e.at = x.at
      /\ x.station \in Nat /\ x.state.next \in Nat
  BY <1>1, StationsAssumption DEF EventOf, Progress
<1>4. /\ new \in Seq(Event) /\ Len(new) = Len(log) + 1 /\ new[Len(log) + 1] = e
      /\ \A i \in DOMAIN log : new[i] = log[i]
      /\ DOMAIN new = DOMAIN log \cup {Len(log) + 1} /\ new # <<>>
      /\ DOMAIN log = 1..Len(log) /\ Len(log) \in Nat
  BY <1>2, <1>3
<1>5. \A i \in DOMAIN log : log[i] \in Event /\ log[i].station \in Nat
  <2> SUFFICES ASSUME NEW i \in DOMAIN log PROVE log[i] \in Event /\ log[i].station \in Nat
    OBVIOUS
  <2>1. log[i] \in Event
    OBVIOUS
  <2>2. log[i].station \in Stations
    BY <2>1 DEF Event
  <2> QED BY <2>1, <2>2, StationsAssumption
<1>6. Agrees(x.state, new)
  <2>1. CASE /\ x.type = "enter" /\ x.station = x.state.next
             /\ x.state.inside = x.state.next /\ x.state.since = x.at /\ Below(log, x.state.next)
    <3>1. Below(new, x.state.next)
      BY <1>3, <1>4, <2>1 DEF Below
    <3>2. Entered(new, x.state.next, x.state.since)
      BY <1>3, <1>4, <2>1 DEF Entered
    <3> QED BY <2>1, <3>1, <3>2 DEF Agrees
  <2>2. CASE x.type = "exit" /\ x.state.inside = 0 /\ Below(log, x.state.next)
    <3>1. Below(new, x.state.next)
      BY <1>3, <1>4, <2>2 DEF Below
    <3> QED BY <2>2, <3>1 DEF Agrees
  <2>3. CASE /\ x.type = "visit" /\ x.state.inside = 0 /\ x.state.next = x.station + 1
             /\ Below(log, x.station)
    <3>1. Below(new, x.state.next)
      BY <1>3, <1>4, <1>5, <2>3 DEF Below
    <3> QED BY <2>3, <3>1 DEF Agrees
  <2> QED BY <2>1, <2>2, <2>3 DEF Notes
<1>7. InOrder(new)
  <2> SUFFICES ASSUME NEW j \in DOMAIN new, new[j].type = "visit"
               PROVE  /\ j > 1
                      /\ new[j - 1].type = "enter"
                      /\ new[j - 1].station = new[j].station
                      /\ new[j].at - new[j - 1].at >= Dwell
                      /\ \A i \in 1..j - 1 :
                             new[i].type = "visit" => new[i].station < new[j].station
    BY DEF InOrder
  <2>1. CASE j \in DOMAIN log
    <3>1. log[j].type = "visit" /\ j \in Nat
      BY <1>4, <2>1
    <3>2. /\ j > 1
          /\ log[j - 1].type = "enter"
          /\ log[j - 1].station = log[j].station
          /\ log[j].at - log[j - 1].at >= Dwell
          /\ \A i \in 1..j - 1 : log[i].type = "visit" => log[i].station < log[j].station
      BY <2>1, <3>1 DEF InOrder
    <3>3. j - 1 \in DOMAIN log /\ \A i \in 1..j - 1 : i \in DOMAIN log
      BY <1>4, <2>1, <3>1, <3>2
    <3> QED BY <1>4, <2>1, <3>2, <3>3
  <2>2. CASE j = Len(log) + 1
    <3>1. e.type = "visit" /\ new[j] = e
      BY <1>4, <2>2
    <3>2. PICK t \in Times : Entered(log, x.station, t) /\ x.at - t >= Dwell
      BY <1>3, <3>1 DEF Notes
    <3>3. Below(log, x.station)
      BY <1>3, <3>1 DEF Notes
    <3>4. /\ j - 1 = Len(log) /\ Len(log) \in DOMAIN log /\ log[Len(log)].type = "enter"
          /\ log[Len(log)].station = x.station /\ log[Len(log)].at = t
      BY <1>4, <2>2, <3>2 DEF Entered
    <3>5. \A i \in 1..j - 1 : i \in DOMAIN log
      BY <1>4, <2>2
    <3> QED BY <1>3, <1>4, <2>2, <3>1, <3>2, <3>3, <3>4, <3>5 DEF Below
  <2> QED BY <1>4, <2>1, <2>2
<1> QED BY <1>1, <1>2, <1>6, <1>7

\* The copy is saved: the event follows, if there is one.
LEMMA SaveStateStops ==
    ASSUME Typed, StopsOK, NEW w \in Watchers, SaveState(w)
    PROVE  StopsOK'
<1>1. PICK x : x = watch[w]
  OBVIOUS
<1>2. PICK v : v = x.vehicle
  OBVIOUS
<1>3. /\ Moves(w) /\ x.pc = "save state" /\ v \in Vehicles /\ x.state \in Progress
      /\ progress' = [progress EXCEPT ![v] = x.state] /\ UNCHANGED <<visits, tangled>>
      /\ \/ x.type = None /\ watch'[w].pc = "idle"
         \/ x.type # None /\ SameBut(watch'[w], x, "note")
  BY <1>1, <1>2, SaveStateDoes DEF SaveState
<1>4. x \in Watch /\ x.place \in Places
  BY <1>1, <1>3, WatchKnows
<1>5. \A u \in Vehicles : u # v => SameStop(u)
  BY <1>3 DEF SameStop, Typed, TypeOK
<1>6. ASSUME v \notin tangled PROVE StopTrue(v)'
  <2>1. StopTrue(v) /\ w \in Having(v)
    BY <1>1, <1>2, <1>3, <1>6 DEF StopsOK, Having, AtState
  <2>2. Having(v) = {w} /\ progress[v] # None /\ Saves(x, progress[v])
    BY <1>1, <1>3, <2>1 DEF StopTrue
  <2>3. PICK log : log = visits[v]
    OBVIOUS
  <2>4. /\ Agrees(progress[v], log) /\ InOrder(log) /\ log \in Seq(Event)
        /\ progress[v] \in Progress
    BY <1>1, <1>3, <2>1, <2>2, <2>3 DEF StopTrue, Typed, TypeOK
  <2>5. /\ x.type = None => Agrees(x.state, log)
        /\ x.type # None => Notes(x, log)
    BY <1>4, <2>2, <2>4, SavesOrNotes
  <2>6. progress'[v] = x.state /\ x.state # None /\ visits'[v] = log
    <3>1. x.state # None
      BY <1>3, NullAssumption
    <3> QED BY <1>3, <2>3, <3>1 DEF Typed, TypeOK
  <2>7. CASE x.type = None /\ watch'[w].pc = "idle"
    <3>1. Having(v)' = {}
      BY <1>3, <2>1, <2>7, HavesOnly DEF AtState
    <3> QED BY <2>4, <2>5, <2>6, <2>7, <3>1 DEF StopTrue
  <2>8. CASE x.type # None /\ SameBut(watch'[w], x, "note")
    <3>1. watch'[w].pc = "note" /\ watch'[w].vehicle = v /\ watch'[w].state = x.state
      BY <1>2, <2>8 DEF SameBut
    <3>2. Having(v)' = {w}
      BY <1>3, <2>1, <3>1, HavesOnly
    <3>3. Notes(watch'[w], log)
      BY <2>5, <2>8 DEF Notes, SameBut
    <3> QED BY <2>4, <2>6, <3>1, <3>2, <3>3 DEF StopTrue
  <2> QED BY <1>3, <2>7, <2>8
<1>7. watch'[w].vehicle = v \/ ~ AtState(w)'
  BY <1>2, <1>3 DEF AtState, SameBut
<1> QED BY <1>1, <1>2, <1>3, <1>5, <1>6, <1>7, OtherStops

\* The event is written: the log ends in what the state says.
LEMMA NoteStops ==
    ASSUME Typed, StopsOK, NEW w \in Watchers, Note(w)
    PROVE  StopsOK'
<1>1. PICK x : x = watch[w]
  OBVIOUS
<1>2. PICK v : v = x.vehicle
  OBVIOUS
<1>3. /\ Moves(w) /\ x.pc = "note" /\ v \in Vehicles /\ watch'[w].pc = "idle"
      /\ EventOf(x) \in Event /\ visits' = [visits EXCEPT ![v] = Append(@, EventOf(x))]
      /\ UNCHANGED <<progress, tangled>>
  BY <1>1, <1>2, NoteDoes DEF Note
<1>4. x \in Watch /\ x.state \in Progress /\ x.station \in Stations
  BY <1>1, <1>3, WatchKnows DEF WatchOK
<1>5. \A u \in Vehicles : u # v => SameStop(u)
  BY <1>3 DEF SameStop, Typed, TypeOK
<1>6. ASSUME v \notin tangled PROVE StopTrue(v)'
  <2>1. StopTrue(v) /\ w \in Having(v)
    BY <1>1, <1>2, <1>3, <1>6 DEF StopsOK, Having, AtState
  <2>2. PICK log : log = visits[v]
    OBVIOUS
  <2>3. /\ progress[v] = x.state /\ Notes(x, log) /\ InOrder(log) /\ log \in Seq(Event)
        /\ visits'[v] = Append(log, EventOf(x))
    BY <1>1, <1>3, <2>1, <2>2 DEF StopTrue, Typed, TypeOK
  <2>4. Agrees(x.state, visits'[v]) /\ InOrder(visits'[v])
    BY <1>3, <1>4, <2>3, NotedAgrees
  <2>5. x.state # None
    BY <1>4, NullAssumption
  <2>6. Having(v)' = {}
    BY <1>3, <2>1, HavesOnly DEF AtState
  <2> QED BY <1>3, <2>3, <2>4, <2>5, <2>6 DEF StopTrue
<1> QED BY <1>1, <1>2, <1>3, <1>5, <1>6, OtherStops DEF AtState

\* A crash cuts what a handler was about to note, and that is remembered.
LEMMA CrashStops ==
    ASSUME StopsOK, Crash
    PROVE  StopsOK'
<1>1. /\ watch' = [w \in Watchers |-> Idle] /\ UNCHANGED <<progress, visits>>
      /\ tangled \subseteq tangled'
      /\ \A w \in Watchers : watch[w].pc = "note" => watch[w].vehicle \in tangled'
  BY DEF Crash, stops
<1> SUFFICES ASSUME NEW v \in Vehicles, v \notin tangled' PROVE StopTrue(v)'
  BY DEF StopsOK
<1>2. StopTrue(v)
  BY <1>1 DEF StopsOK
<1>3. \A w \in Having(v) : watch[w].pc # "note"
  BY <1>1 DEF Having
<1>4. Having(v)' = {}
  BY <1>1, IdleWatch DEF Having, AtState
<1> QED BY <1>1, <1>2, <1>3, <1>4 DEF StopTrue

\* It is kept when no state and no handler changes.
LEMMA PlainStops ==
    ASSUME StopsOK, UNCHANGED <<progress, visits, watch, tangled>>
    PROVE  StopsOK'
<1> SUFFICES ASSUME NEW v \in Vehicles, v \notin tangled' PROVE StopTrue(v)'
  BY DEF StopsOK
<1>1. StopTrue(v)
  BY DEF StopsOK
<1>2. Having(v)' = Having(v)
  BY DEF Having, AtState
<1> QED BY <1>1, <1>2 DEF StopTrue

\* It is true at first, when no vehicle has been at a station,
LEMMA StopsInit == Init => StopsOK
<1> SUFFICES ASSUME Init, NEW v \in Vehicles PROVE StopTrue(v)
  BY DEF StopsOK
<1>1. progress[v] = None /\ visits[v] = <<>>
  BY DEF Init
<1>2. Having(v) = {}
  BY IdleWatch DEF Init, Having, AtState
<1>3. InOrder(visits[v])
  BY <1>1 DEF InOrder
<1> QED BY <1>1, <1>2, <1>3 DEF StopTrue

\* and every step keeps it.
LEMMA StopsStep ==
    ASSUME Typed, StopsOK, [Next]_vars
    PROVE  StopsOK'
<1>1. ASSUME NEW w \in Watchers, NEW v \in Vehicles, NEW p \in Places, Point(w, v, p)
      PROVE  StopsOK'
  BY <1>1, PointDoes, StopsKept DEF Point, stops, AtState
<1>2. ASSUME NEW w \in Watchers,
             \/ ReadRoute(w) \/ ReadThreshold(w) \/ ReadPoints(w) \/ Fill(w)
             \/ ReadFence(w) \/ FirstFence(w) \/ SaveFence(w) \/ Cross(w) \/ Violate(w)
             \/ ReadStations(w)
      PROVE  StopsOK'
  <2>1. UNCHANGED <<progress, visits>> /\ tangled \subseteq tangled'
    BY <1>2 DEF ReadRoute, ReadThreshold, ReadPoints, Fill, ReadFence, FirstFence, SaveFence,
                Cross, Violate, ReadStations, stops
  <2>2. Moves(w) /\ ~ AtState(w) /\ ~ AtState(w)'
    <3>1. CASE ReadRoute(w) \/ ReadThreshold(w) \/ ReadPoints(w) \/ Fill(w)
      BY <3>1, ReadRouteDoes, ReadThresholdDoes, ReadPointsDoes, FillDoes DEF AtState
    <3>2. CASE \/ ReadFence(w) \/ FirstFence(w) \/ SaveFence(w) \/ Cross(w) \/ Violate(w)
               \/ ReadStations(w)
      BY <3>2, ReadFenceDoes, FirstFenceDoes, SaveFenceDoes, CrossDoes, ViolateDoes,
         ReadStationsDoes DEF AtState
    <3> QED BY <1>2, <3>1, <3>2
  <2> QED BY <2>1, <2>2, StopsKept
<1>3. ASSUME NEW w \in Watchers, Handle(w)
      PROVE  StopsOK'
  BY <1>2, <1>3, ReadStateStops, InitStateStops, SaveStateStops, NoteStops DEF Handle
<1>4. ASSUME NEW e \in Editors, Request(e) \/ Continue(e)
      PROVE  StopsOK'
  <2>1. UNCHANGED <<stops, watch, tangled>>
    <3>1. CASE Request(e)
      BY <3>1 DEF Request, BeginAssign, BeginThreshold, BeginReplace, BeginUpdate, BeginDelete,
                  Begin
    <3>2. CASE Continue(e)
      BY <3>2 DEF Continue, Assign, SetThreshold, DeletePoints, InvalidateAfterDelete,
                  SavePoints, Update, Drop, KeepWatch
    <3> QED BY <1>4, <3>1, <3>2
  <2> QED BY <2>1, PlainStops DEF stops
<1>5. ASSUME NEW v \in Vehicles, NEW r \in Routes, NEW s \in Shapes, NEW t \in Thresholds,
             Create(v, r, s, t)
      PROVE  StopsOK'
  BY <1>5, PlainStops DEF Create, stops
<1>6. ASSUME NEW v \in Vehicles, Unassign(v) \/ \E s \in Stations : DeleteStation(v, s)
      PROVE  StopsOK'
  BY <1>6, PlainStops DEF Unassign, DeleteStation, stops
<1>7. CASE Tick
  BY <1>7, PlainStops DEF Tick, stops
<1>8. CASE Crash
  BY <1>8, CrashStops
<1>9. CASE UNCHANGED vars
  BY <1>9, PlainStops DEF vars, stops
<1> QED BY <1>1, <1>3, <1>4, <1>5, <1>6, <1>7, <1>8, <1>9 DEF Next

\* A vehicle whose state one handler at a time has had, with no crash before its event,
\* visits stations in order, each once, and each after it has entered it and stayed.
THEOREM StationsAreInOrder == Spec => []StationsInOrder
<1>1. Init => Typed /\ StopsOK
  BY TypedInit, StopsInit
<1>2. Typed /\ StopsOK /\ [Next]_vars => (Typed /\ StopsOK)'
  BY TypedStep, StopsStep
<1>3. StopsOK => StationsInOrder
  BY DEF StopsOK, StopTrue, InOrder, StationsInOrder
<1> QED BY <1>1, <1>2, <1>3, PTL DEF Spec
==============================================================================
