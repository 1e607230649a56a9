------------------------ MODULE DriverRoutes_proofs ------------------------
(***************************************************************************)
(* What holds of driver_routes for every number of drivers, vehicles, rows *)
(* and overlapping calls: type correctness, one active trip per driver,    *)
(* ends after starts, and no point from before its trip.                   *)
(*                                                                         *)
(* The last three are about rows, but a save() writes columns of a copy    *)
(* the call loaded earlier, so the invariant that is inductive also says   *)
(* what a copy is: an earlier version of the row it will be written to,    *)
(* with the row's driver and start and with good points of its own.        *)
(***************************************************************************)
EXTENDS DriverRoutes, TLAPS

GoodPoints(r) ==
    /\ r.last # Null => r.last >= r.start
    /\ \A k \in DOMAIN r.points : r.points[k] >= r.start

GoodRow(r) ==
    /\ r.end # Null => r.end > r.start
    /\ GoodPoints(r)

\* c is a version of the row r.
VersionOf(c, r) == c \in Route /\ c.driver = r.driver /\ c.start = r.start

RowsOK(t) ==
    /\ t \in [RouteIds -> Route \cup {None}]
    /\ \A i \in Stored(t) : GoodRow(t[i])
    /\ \A d \in Drivers : \A i, j \in ActiveOf(t, d) : i = j

\* The steps of a call that work on the route it has found, and those that hold a
\* copy of it.
OnRoute == {"findOne", "readMeta", "updateMeta", "reload", "write", "append",
            "broadcast"}
WithCopy == {"updateMeta", "reload", "write"}
Finding  == {"findActive", "findCovering", "insert"}

CallOK(c, t) ==
    /\ c \in Call
    /\ c.pc \in Finding => c.op \in {"start", "mirror"}
    /\ c.op \in {"start", "mirror"} => c.driver \in Drivers
    /\ c.pc \in OnRoute => c.id \in Stored(t)
    /\ c.pc \in WithCopy => VersionOf(c.copy, t[c.id]) /\ GoodPoints(c.copy)
    /\ c.pc = "write" => c.base \in Route

IInv ==
    /\ RowsOK(routes)
    /\ call \in [Calls -> Call]
    /\ \A q \in Calls : CallOK(call[q], routes)

\* Only the local variables of q may differ.
OnlyCall(q) == call' = [call EXCEPT ![q] = call'[q]]

\* Every row of t is still there, under its driver and start.
KeepsRows(t, u) ==
    \A i \in Stored(t) : i \in Stored(u) /\ VersionOf(u[i], t[i])

------------------------------------------------------------------------------
(* The frame of a step: one row at most, one call.                         *)

\* A call that was well loaded stays so when rows keep their driver and start.
LEMMA CallsStayLoaded ==
    ASSUME NEW c, NEW t, NEW u, CallOK(c, t), KeepsRows(t, u)
    PROVE  CallOK(c, u)
  <1>1. c.pc \in OnRoute => c.id \in Stored(u) /\ VersionOf(u[c.id], t[c.id])
    BY DEF CallOK, KeepsRows
  <1>2. c.pc \in WithCopy => c.pc \in OnRoute
    BY DEF WithCopy, OnRoute
  <1>3. c.pc \in WithCopy => VersionOf(c.copy, u[c.id]) /\ GoodPoints(c.copy)
    BY <1>1, <1>2 DEF CallOK, VersionOf
  <1> QED BY <1>1, <1>3 DEF CallOK

\* A step that leaves the table alone.
LEMMA CallStep ==
    ASSUME IInv, NEW q \in Calls, OnlyCall(q), UNCHANGED routes,
           CallOK(call'[q], routes)
    PROVE  IInv'
  <1>1. call' \in [Calls -> Call]
    BY DEF IInv, OnlyCall, CallOK
  <1>2. \A p \in Calls : CallOK(call'[p], routes)
    BY DEF IInv, OnlyCall
  <1>3. IInv' <=> /\ RowsOK(routes')
                  /\ call' \in [Calls -> Call]
                  /\ \A p \in Calls : CallOK(call'[p], routes')
    BY DEF IInv
  <1>4. RowsOK(routes') /\ \A p \in Calls : CallOK(call'[p], routes')
    BY <1>2 DEF IInv
  <1> QED BY <1>1, <1>3, <1>4

\* A step that writes the row i.
LEMMA RowStep ==
    ASSUME IInv, NEW q \in Calls, OnlyCall(q),
           NEW i \in RouteIds, NEW r \in Route,
           routes' = [routes EXCEPT ![i] = r],
           routes[i] # None => r.driver = routes[i].driver /\ r.start = routes[i].start,
           GoodRow(r),
           r.active => ActiveOf(routes', r.driver) \subseteq {i},
           CallOK(call'[q], routes')
    PROVE  IInv'
  <1>1. routes \in [RouteIds -> Route \cup {None}]
    BY DEF IInv, RowsOK
  <1>2. routes' \in [RouteIds -> Route \cup {None}]
    BY <1>1
  <1>3. /\ routes'[i] = r
        /\ \A j \in RouteIds : j # i => routes'[j] = routes[j]
    BY <1>1
  <1>4. r # None
    BY NoneAssumption
  <1>5. \A j \in Stored(routes') : GoodRow(routes'[j])
    <2> SUFFICES ASSUME NEW j \in Stored(routes') PROVE GoodRow(routes'[j])
      OBVIOUS
    <2>1. CASE j = i BY <2>1, <1>3
    <2>2. CASE j # i BY <2>2, <1>3 DEF IInv, RowsOK, Stored
    <2> QED BY <2>1, <2>2
  <1>6. \A d \in Drivers : \A j, k \in ActiveOf(routes', d) : j = k
    <2> SUFFICES ASSUME NEW d \in Drivers,
                        NEW j \in ActiveOf(routes', d), NEW k \in ActiveOf(routes', d)
                 PROVE  j = k
      OBVIOUS
    <2>1. CASE i \in {j, k}
      <3>1. r.active /\ r.driver = d
        BY <2>1, <1>3 DEF ActiveOf
      <3> QED BY <3>1
    <2>2. CASE i \notin {j, k}
      <3>1. j \in ActiveOf(routes, d) /\ k \in ActiveOf(routes, d)
        BY <2>2, <1>3 DEF ActiveOf, Stored
      <3> QED BY <3>1 DEF IInv, RowsOK
    <2> QED BY <2>1, <2>2
  <1>7. KeepsRows(routes, routes')
    BY <1>1, <1>3, <1>4 DEF KeepsRows, Stored, VersionOf
  <1>8. call' \in [Calls -> Call]
    BY DEF IInv, OnlyCall, CallOK
  <1>9. \A p \in Calls : p # q => CallOK(call'[p], routes')
    BY <1>7, CallsStayLoaded DEF IInv, OnlyCall
  <1>10. IInv' <=> /\ RowsOK(routes')
                   /\ call' \in [Calls -> Call]
                   /\ \A p \in Calls : CallOK(call'[p], routes')
    BY DEF IInv
  <1>11. RowsOK(routes')
    BY <1>2, <1>5, <1>6 DEF RowsOK
  <1>12. \A p \in Calls : CallOK(call'[p], routes')
    BY <1>9
  <1> QED BY <1>8, <1>10, <1>11, <1>12

\* Writing one row keeps them all.
LEMMA OneRowKept ==
    ASSUME IInv, NEW i \in RouteIds, NEW r \in Route,
           routes' = [routes EXCEPT ![i] = r],
           routes[i] # None => r.driver = routes[i].driver /\ r.start = routes[i].start
    PROVE  KeepsRows(routes, routes')
  BY NoneAssumption DEF IInv, RowsOK, KeepsRows, Stored, VersionOf

\* Rows that do not change are versions of themselves.
LEMMA RowsKeptByNothing ==
    ASSUME IInv
    PROVE  KeepsRows(routes, routes)
  BY DEF IInv, RowsOK, KeepsRows, Stored, VersionOf

\* A stored row is a version of itself.
LEMMA StoredRow ==
    ASSUME IInv, NEW i \in Stored(routes)
    PROVE  /\ i \in RouteIds /\ routes[i] \in Route
           /\ VersionOf(routes[i], routes[i]) /\ GoodRow(routes[i])
  BY DEF IInv, RowsOK, Stored, VersionOf

\* A call that moves on without its copy.
LEMMA GotoLoads ==
    ASSUME IInv, NEW q \in Calls, NEW u, KeepsRows(routes, u),
           NEW pc \in {"idle", "failed", "insert", "append", "broadcast"},
           Goto(q, pc),
           pc = "insert" => call[q].op \in {"start", "mirror"},
           pc \in {"append", "broadcast"} => call[q].pc \in OnRoute
    PROVE  OnlyCall(q) /\ CallOK(call'[q], u)
  <1>1. call \in [Calls -> Call] /\ CallOK(call[q], routes)
    BY DEF IInv
  <1>2. CallOK(call[q], u)
    BY <1>1, CallsStayLoaded
  <1>3. CASE pc = "idle"
    <2>1. call' = [call EXCEPT ![q] = NoCall]
      BY <1>3 DEF Goto
    <2>2. call'[q] = NoCall
      BY <1>1, <2>1
    <2>3. CallOK(NoCall, u)
      BY DEF CallOK, NoCall, Call, PCs, Ops, Finding, OnRoute, WithCopy
    <2> QED BY <2>1, <2>2, <2>3 DEF OnlyCall
  <1>4. CASE pc # "idle"
    <2> DEFINE c == [call[q] EXCEPT !.pc = pc, !.copy = None, !.base = None]
    <2>1. call' = [call EXCEPT ![q] = c]
      BY <1>4 DEF Goto
    <2>2. call'[q] = c
      BY <1>1, <2>1
    <2>3. /\ c \in Call /\ c.pc = pc
          /\ c.op = call[q].op /\ c.driver = call[q].driver /\ c.id = call[q].id
      BY ZenonT(60), <1>1 DEF Call, PCs
    <2> HIDE DEF c
    <2>4. CallOK(c, u)
      BY <1>2, <2>3, <1>4 DEF CallOK, Finding, OnRoute, WithCopy
    <2> QED BY <2>1, <2>2, <2>4 DEF OnlyCall
  <1> QED BY <1>3, <1>4

\* A call that moves on keeps its loaded copy.
LEMMA GotoStep ==
    ASSUME IInv, NEW q \in Calls, UNCHANGED routes,
           NEW pc \in {"idle", "failed", "insert", "append", "broadcast"},
           Goto(q, pc),
           pc = "insert" => call[q].op \in {"start", "mirror"},
           pc \in {"append", "broadcast"} => call[q].pc \in OnRoute
    PROVE  IInv'
  <1>1. OnlyCall(q) /\ CallOK(call'[q], routes)
    BY GotoLoads, RowsKeptByNothing
  <1> QED BY <1>1, CallStep

\* A call that goes to save() a changed copy of a row.
LEMMA ToSaveStep ==
    ASSUME IInv, NEW q \in Calls, UNCHANGED routes, NEW i \in Stored(routes), NEW copy,
           VersionOf(copy, routes[i]), GoodPoints(copy), ToSave(q, i, copy)
    PROVE  IInv'
  <1> DEFINE c == [call[q] EXCEPT !.pc = "reload", !.id = i, !.copy = copy]
  <1>1. call \in [Calls -> Call] /\ CallOK(call[q], routes)
    BY DEF IInv
  <1>2. call' = [call EXCEPT ![q] = c]
    BY <1>1 DEF ToSave
  <1>3. call'[q] = c
    BY <1>1, <1>2
  <1>4. /\ c \in Call /\ c.pc = "reload" /\ c.id = i /\ c.copy = copy
        /\ c.op = call[q].op /\ c.driver = call[q].driver
    BY ZenonT(60), <1>1 DEF Call, PCs, VersionOf, Stored
  <1> HIDE DEF c
  <1>5. CallOK(c, routes)
    BY <1>1, <1>4 DEF CallOK, Finding, OnRoute, WithCopy
  <1> QED BY <1>2, <1>3, <1>5, CallStep DEF OnlyCall

\* A call that arrives.
LEMMA AcceptStep ==
    ASSUME IInv, NEW q \in Calls, NEW c, Accept(q, c), CallOK(c, routes)
    PROVE  IInv'
  <1>1. OnlyCall(q) /\ call'[q] = c /\ UNCHANGED routes
    BY DEF Accept, OnlyCall, IInv
  <1> QED BY <1>1, CallStep

------------------------------------------------------------------------------
(* The actions.                                                            *)

\* A new call has loaded nothing.
LEMMA ArrivePreserves ==
    ASSUME IInv, NEW q \in Calls, Arrive(q)
    PROVE  IInv'
  <1> USE DEF CallOK, Call, NoCall, PCs, Ops, Finding, OnRoute, WithCopy
  <1>0. Times \subseteq Nat
    BY BoundsAssumption DEF Times
  <1>1. ASSUME NEW d \in Drivers, NEW at \in Times, NEW v \in Vehicles \cup {None},
               StartRoute(q, d, v, at)
        PROVE  IInv'
    <2> DEFINE c == [NoCall EXCEPT !.pc = "findActive", !.op = "start",
                                   !.driver = d, !.vehicle = v, !.at = at]
    <2>1. Accept(q, c)
      BY <1>1 DEF StartRoute
    <2>2. CallOK(c, routes)
      BY <1>0
    <2> HIDE DEF c
    <2> QED BY ONLY IInv, q \in Calls, <2>1, <2>2, AcceptStep
  <1>2. ASSUME NEW d \in Drivers, NEW at \in Times, NEW v \in Vehicles,
               IngestTelemetryForVehicle(q, d, v, at)
        PROVE  IInv'
    <2> DEFINE c == [NoCall EXCEPT !.pc = "findCovering", !.op = "mirror",
                                   !.driver = d, !.vehicle = v, !.at = at]
    <2>1. Accept(q, c)
      BY <1>2 DEF IngestTelemetryForVehicle
    <2>2. CallOK(c, routes)
      BY <1>0
    <2> HIDE DEF c
    <2> QED BY ONLY IInv, q \in Calls, <2>1, <2>2, AcceptStep
  <1>3. ASSUME NEW i \in Stored(routes), NEW at \in Times, FinishRoute(q, i, at)
        PROVE  IInv'
    <2> DEFINE c == [NoCall EXCEPT !.pc = "findOne", !.op = "finish",
                                   !.id = i, !.at = at]
    <2>1. Accept(q, c)
      BY <1>3 DEF FinishRoute
    <2>2. CallOK(c, routes)
      BY <1>0 DEF Stored
    <2> HIDE DEF c
    <2> QED BY ONLY IInv, q \in Calls, <2>1, <2>2, AcceptStep
  <1>4. ASSUME NEW i \in Stored(routes), NEW at \in Times, AddPoint(q, i, at)
        PROVE  IInv'
    <2> DEFINE c == [NoCall EXCEPT !.pc = "append", !.op = "point",
                                   !.id = i, !.at = at]
    <2>1. Accept(q, c)
      BY <1>4 DEF AddPoint
    <2>2. CallOK(c, routes)
      BY <1>0 DEF Stored
    <2> HIDE DEF c
    <2> QED BY ONLY IInv, q \in Calls, <2>1, <2>2, AcceptStep
  <1>5. ASSUME NEW i \in Stored(routes), AddRouteMeta(q, i)
        PROVE  IInv'
    <2> DEFINE c == [NoCall EXCEPT !.pc = "readMeta", !.op = "meta", !.id = i]
    <2>1. Accept(q, c)
      BY <1>5 DEF AddRouteMeta
    <2>2. CallOK(c, routes)
      BY DEF Stored
    <2> HIDE DEF c
    <2> QED BY ONLY IInv, q \in Calls, <2>1, <2>2, AcceptStep
  <1> QED BY <1>1, <1>2, <1>3, <1>4, <1>5 DEF Arrive

\* startRoute() reads a version of the row the database holds.
LEMMA FindActivePreserves ==
    ASSUME IInv, NEW q \in Calls, FindActive(q)
    PROVE  IInv'
  <1>1. CallOK(call[q], routes) /\ UNCHANGED routes
        /\ call[q].op \in {"start", "mirror"} /\ call[q].at \in Nat
    BY DEF IInv, FindActive, CallOK, Finding, Call
  <1>2. CASE Goto(q, "idle") \/ Goto(q, "insert")
    BY <1>1, <1>2, GotoStep
  <1>3. ASSUME NEW i \in ActiveOf(routes, call[q].driver),
               ToSave(q, i, Superseded(routes[i], call[q].at))
        PROVE  IInv'
    <2>1. i \in Stored(routes)
      BY DEF ActiveOf
    <2>2. routes[i] \in Route /\ GoodRow(routes[i])
      BY <2>1, StoredRow
    <2> DEFINE copy == Superseded(routes[i], call[q].at)
    <2>3. VersionOf(copy, routes[i]) /\ GoodPoints(copy)
      BY <1>1, <2>2 DEF Superseded, VersionOf, Route, GoodRow, GoodPoints
    <2> QED BY <1>1, <1>3, <2>1, <2>3, ToSaveStep
  <1> QED BY <1>2, <1>3 DEF FindActive

\* finishRoute() reads a version of the row the database holds.
LEMMA FindOnePreserves ==
    ASSUME IInv, NEW q \in Calls, FindOne(q)
    PROVE  IInv'
  <1> DEFINE i == call[q].id
  <1>1. UNCHANGED routes /\ i \in Stored(routes) /\ call[q].at \in Nat
    BY DEF IInv, FindOne, CallOK, OnRoute, Call
  <1>2. CASE Goto(q, "idle")
    BY <1>1, <1>2, GotoStep
  <1>3. CASE ToSave(q, i, Finished(routes[i], call[q].at))
    <2>1. routes[i] \in Route /\ GoodRow(routes[i])
      BY <1>1, StoredRow
    <2> DEFINE copy == Finished(routes[i], call[q].at)
    <2>2. Len(routes[i].points) \in Nat
      BY <2>1 DEF Route
    <2>3. VersionOf(copy, routes[i]) /\ GoodPoints(copy)
      BY <1>1, <2>1, <2>2 DEF Finished, VersionOf, Route, GoodRow, GoodPoints
    <2> QED BY <1>1, <1>3, <2>3, ToSaveStep
  <1> QED BY <1>2, <1>3 DEF FindOne

\* A call that changes no more than its step and the route it works on.
LEMMA FoundRoute ==
    ASSUME IInv, NEW q \in Calls, UNCHANGED routes, NEW i \in Stored(routes),
           call' = [call EXCEPT ![q].pc = "readMeta", ![q].id = i]
    PROVE  IInv'
  <1> DEFINE c == [call[q] EXCEPT !.pc = "readMeta", !.id = i]
  <1>1. call \in [Calls -> Call] /\ CallOK(call[q], routes)
    BY DEF IInv
  <1>2. call' = [call EXCEPT ![q] = c]
    BY <1>1
  <1>3. call'[q] = c
    BY <1>1, <1>2
  <1>4. /\ c \in Call /\ c.pc = "readMeta" /\ c.id = i
        /\ c.op = call[q].op /\ c.driver = call[q].driver
    BY ZenonT(60), <1>1 DEF Call, PCs, Stored
  <1> HIDE DEF c
  <1>5. CallOK(c, routes)
    BY <1>1, <1>4 DEF CallOK, Finding, OnRoute, WithCopy
  <1> QED BY <1>2, <1>3, <1>5, CallStep DEF OnlyCall

\* ingestTelemetryForVehicle() reads a version of the row the database holds.
LEMMA FindCoveringPreserves ==
    ASSUME IInv, NEW q \in Calls, FindCovering(q)
    PROVE  IInv'
  <1>1. UNCHANGED routes /\ call[q].op \in {"start", "mirror"}
    BY DEF IInv, FindCovering, CallOK, Finding
  <1>2. CASE Goto(q, "insert")
    BY <1>1, <1>2, GotoStep
  <1>3. ASSUME NEW i \in Latest(StartedBy(call[q].driver, call[q].at)),
               call' = [call EXCEPT ![q].pc = "readMeta", ![q].id = i]
        PROVE  IInv'
    <2>1. i \in Stored(routes)
      BY DEF Latest, StartedBy
    <2> QED BY <1>1, <1>3, <2>1, FoundRoute
  <1> QED BY <1>2, <1>3 DEF FindCovering

\* save() compares its copy with a fresh version of the same row.
LEMMA ReloadPreserves ==
    ASSUME IInv, NEW q \in Calls, Reload(q)
    PROVE  IInv'
  <1> DEFINE c == [call[q] EXCEPT !.pc = "write", !.base = routes[call[q].id]]
  <1>1. call \in [Calls -> Call] /\ CallOK(call[q], routes) /\ call[q].pc = "reload"
    BY DEF IInv, Reload
  <1>2. call[q].id \in Stored(routes)
    BY <1>1 DEF CallOK, OnRoute
  <1>3. routes[call[q].id] \in Route
    BY <1>2, StoredRow
  <1>4. call' = [call EXCEPT ![q] = c]
    BY <1>1 DEF Reload
  <1>5. call'[q] = c
    BY <1>1, <1>4
  <1>6. /\ c \in Call /\ c.pc = "write" /\ c.base = routes[call[q].id]
        /\ c.op = call[q].op /\ c.driver = call[q].driver
        /\ c.id = call[q].id /\ c.copy = call[q].copy
    BY <1>1, <1>3 DEF Call, PCs
  <1> HIDE DEF c
  <1>7. CallOK(c, routes)
    BY <1>1, <1>3, <1>6 DEF CallOK, Finding, OnRoute, WithCopy
  <1> QED BY <1>4, <1>5, <1>7, CallStep DEF OnlyCall, Reload

\* What save() writes is a row.
LEMMA MergeIsRow ==
    ASSUME NEW copy \in Route, NEW base \in Route, NEW row \in Route
    PROVE  Merge(copy, base, row) \in Route
  <1> DEFINE w(c, b, r) == IF c # b THEN c ELSE r
             a == w(copy.active, base.active, row.active)
             e == w(copy.end, base.end, row.end)
             p == w(copy.points, base.points, row.points)
             l == w(copy.last, base.last, row.last)
             n == w(copy.count, base.count, row.count)
             v == w(copy.events, base.events, row.events)
  <1>1. /\ a \in BOOLEAN /\ e \in Nat /\ p \in Seq(Nat)
        /\ l \in Nat /\ n \in Nat /\ v \in Nat
    BY DEF Route
  <1>2. Merge(copy, base, row) =
          [row EXCEPT !.active = a, !.end = e, !.points = p,
                      !.last = l, !.count = n, !.events = v]
    BY DEF Merge
  <1> HIDE DEF a, e, p, l, n, v
  <1> QED BY <1>1, <1>2 DEF Route

\* It is a version of the row with good points: each of the two columns comes
\* whole from the copy or from the row.
LEMMA MergeIsVersion ==
    ASSUME NEW copy, NEW base \in Route, NEW row \in Route,
           VersionOf(copy, row), GoodPoints(copy), GoodPoints(row)
    PROVE  /\ VersionOf(Merge(copy, base, row), row)
           /\ GoodPoints(Merge(copy, base, row))
  <1> DEFINE m == Merge(copy, base, row)
  <1>1. copy \in Route /\ copy.start = row.start
    BY DEF VersionOf
  <1>2. m.driver = row.driver /\ m.start = row.start
    BY <1>1 DEF Merge, Route
  <1>3. m.points \in {copy.points, row.points}
    BY <1>1 DEF Merge, Route
  <1>4. m.last = copy.last \/ m.last = row.last
    BY <1>1 DEF Merge, Route
  <1>5. m \in Route
    BY <1>1, MergeIsRow
  <1> HIDE DEF m
  <1>6. GoodPoints(m)
    BY <1>1, <1>2, <1>3, <1>4 DEF GoodPoints
  <1> QED BY <1>2, <1>5, <1>6 DEF VersionOf, m

\* Merging two versions of a row gives a version of that row.
LEMMA WritePreserves ==
    ASSUME IInv, NEW q \in Calls, Write(q)
    PROVE  IInv'
  <1> DEFINE i == call[q].id
             r == Merge(call[q].copy, call[q].base, routes[i])
             t == [routes EXCEPT ![i] = r]
  <1>1. /\ CallOK(call[q], routes) /\ call[q].pc = "write"
        /\ routes \in [RouteIds -> Route \cup {None}]
    BY DEF IInv, RowsOK, Write
  <1>2. /\ i \in Stored(routes) /\ i \in RouteIds
        /\ VersionOf(call[q].copy, routes[i]) /\ GoodPoints(call[q].copy)
        /\ call[q].base \in Route
    BY <1>1 DEF CallOK, OnRoute, WithCopy, Stored
  <1>3. routes[i] \in Route /\ GoodRow(routes[i])
    BY <1>2, StoredRow
  <1>4. VersionOf(r, routes[i]) /\ GoodPoints(r)
    BY <1>2, <1>3, MergeIsVersion DEF GoodRow
  <1>5. /\ Allowed(t, i) => routes' = t /\ \E pc \in AfterSave(q) : Goto(q, pc)
        /\ ~Allowed(t, i) => Goto(q, "failed") /\ UNCHANGED routes
    BY <1>1 DEF Write
  <1>6. t[i] = r
    BY <1>1, <1>2
  <1> HIDE DEF r
  <1>7. CASE Allowed(t, i)
    <2>1. routes' = [routes EXCEPT ![i] = r]
      BY <1>5, <1>7
    <2>2. GoodRow(r) /\ (r.active => ActiveOf(routes', r.driver) \subseteq {i})
      BY <1>4, <1>5, <1>6, <1>7 DEF Allowed, GoodRow
    <2>3. r \in Route /\ r.driver = routes[i].driver /\ r.start = routes[i].start
      BY <1>4 DEF VersionOf
    <2>4. KeepsRows(routes, routes')
      BY <1>2, <2>1, <2>3, OneRowKept
    <2>5. PICK pc \in AfterSave(q) : Goto(q, pc)
      BY <1>5, <1>7
    <2>6. OnlyCall(q) /\ CallOK(call'[q], routes')
      <3>1. pc \in {"insert", "append", "idle"}
        BY DEF AfterSave, AfterMeta
      <3>2. pc = "insert" => call[q].op = "start"
        BY DEF AfterSave, AfterMeta
      <3> QED BY <1>1, <2>4, <2>5, <3>1, <3>2, GotoLoads DEF OnRoute
    <2> QED BY <1>2, <2>1, <2>2, <2>3, <2>6, RowStep
  <1>8. CASE ~Allowed(t, i)
    BY <1>5, <1>8, GotoStep
  <1> QED BY <1>7, <1>8

\* The insert is checked against the unique index and the CHECK.
LEMMA InsertPreserves ==
    ASSUME IInv, NEW q \in Calls, Insert(q)
    PROVE  IInv'
  <1> DEFINE c == call[q]
             row(v) == NewRoute(c.driver, v, c.at)
  <1>1. /\ call \in [Calls -> Call] /\ CallOK(c, routes) /\ c.pc = "insert"
        /\ routes \in [RouteIds -> Route \cup {None}]
    BY DEF IInv, RowsOK, Insert
  <1>2. /\ c.op \in {"start", "mirror"} /\ c.driver \in Drivers /\ c.at \in Nat
    BY <1>1 DEF CallOK, Finding, Call
  <1>3. PICK i \in RouteIds \ Stored(routes), v \in Vehicles \cup {None} :
          LET t == [routes EXCEPT ![i] = row(v)] IN
          IF Allowed(t, i)
          THEN /\ routes' = t
               /\ IF c.op = "start" THEN Goto(q, "idle")
                  ELSE call' = [call EXCEPT ![q].pc = "readMeta", ![q].id = i]
          ELSE Goto(q, "failed") /\ UNCHANGED routes
    BY DEF Insert
  <1> DEFINE r == row(v)
             t == [routes EXCEPT ![i] = r]
  <1>4. /\ r \in Route /\ GoodRow(r) /\ r.active
    BY <1>2 DEF NewRoute, Route, GoodRow, GoodPoints, Null
  <1>5. t[i] = r /\ routes[i] = None
    BY <1>1 DEF Stored
  <1> HIDE DEF r, row
  <1>6. CASE Allowed(t, i)
    <2>1. routes' = [routes EXCEPT ![i] = r]
      BY <1>3, <1>6 DEF r
    <2>2. ActiveOf(routes', r.driver) \subseteq {i}
      BY <1>4, <1>5, <1>6, <2>1 DEF Allowed
    <2>3. KeepsRows(routes, routes') /\ i \in Stored(routes')
      BY <1>1, <1>4, <1>5, <2>1, OneRowKept, NoneAssumption DEF Stored
    <2>4. OnlyCall(q) /\ CallOK(call'[q], routes')
      <3>1. CASE c.op = "start"
        <4>1. Goto(q, "idle")
          BY <1>3, <1>6, <3>1 DEF r
        <4> QED BY <2>3, <4>1, GotoLoads
      <3>2. CASE c.op # "start"
        <4> DEFINE d == [c EXCEPT !.pc = "readMeta", !.id = i]
        <4>1. call' = [call EXCEPT ![q] = d]
          BY <1>1, <1>3, <1>6, <3>2 DEF r
        <4>2. call'[q] = d
          BY <1>1, <4>1
        <4>3. /\ d \in Call /\ d.pc = "readMeta" /\ d.id = i
              /\ d.op = c.op /\ d.driver = c.driver
          BY <1>1 DEF Call, PCs
        <4> HIDE DEF d
        <4>4. CallOK(d, routes')
          BY <1>1, <2>3, <4>3 DEF CallOK, Finding, OnRoute, WithCopy
        <4> QED BY <4>1, <4>2, <4>4 DEF OnlyCall
      <3> QED BY <3>1, <3>2
    <2> QED BY <1>4, <1>5, <2>1, <2>2, <2>4, RowStep
  <1>7. CASE ~Allowed(t, i)
    <2>1. Goto(q, "failed") /\ UNCHANGED routes
      BY <1>3, <1>7 DEF r
    <2> QED BY <2>1, GotoStep
  <1> QED BY <1>6, <1>7

\* An event changes neither the identity nor the points of a row.
LEMMA WithEventIsVersion ==
    ASSUME NEW r \in Route
    PROVE  /\ VersionOf(WithEvent(r), r) /\ WithEvent(r).active = r.active
           /\ GoodPoints(r) => GoodPoints(WithEvent(r))
           /\ GoodRow(r) => GoodRow(WithEvent(r))
  <1> DEFINE e == r.events + 1  w == [r EXCEPT !.events = e]
  <1>1. WithEvent(r) = w
    BY DEF WithEvent
  <1>2. e \in Nat
    BY DEF Route
  <1> HIDE DEF e
  <1>3. w \in Route
    BY <1>2 DEF Route
  <1>4. /\ w.driver = r.driver /\ w.start = r.start /\ w.end = r.end
        /\ w.points = r.points /\ w.last = r.last
    BY DEF Route
  <1>5. w.active = r.active
    BY DEF Route
  <1> HIDE DEF w
  <1> QED BY <1>1, <1>3, <1>4, <1>5 DEF VersionOf, GoodPoints, GoodRow

\* A point from the start on keeps the row good.
LEMMA WithPointIsVersion ==
    ASSUME NEW r \in Route, NEW ts \in Nat
    PROVE  /\ VersionOf(WithPoint(r, ts), r) /\ WithPoint(r, ts).active = r.active
           /\ ts >= r.start /\ GoodRow(r) => GoodRow(WithPoint(r, ts))
  <1> DEFINE p == Append(r.points, ts)  n == r.count + 1
             w == [r EXCEPT !.points = p, !.last = ts, !.count = n]
  <1>1. WithPoint(r, ts) = w
    BY DEF WithPoint
  <1>2. p \in Seq(Nat) /\ n \in Nat
    BY DEF Route
  <1>3. \A k \in DOMAIN p : p[k] = ts \/ (k \in DOMAIN r.points /\ p[k] = r.points[k])
    BY DEF Route
  <1> HIDE DEF p, n
  <1>4. w \in Route
    BY <1>2 DEF Route
  <1>5. /\ w.driver = r.driver /\ w.start = r.start /\ w.end = r.end
        /\ w.points = p /\ w.last = ts
    BY DEF Route
  <1>6. w.active = r.active
    BY DEF Route
  <1> HIDE DEF w
  <1>7. ASSUME ts >= r.start, GoodRow(r)
        PROVE  GoodRow(w)
    BY <1>3, <1>5, <1>7 DEF GoodPoints, GoodRow
  <1> QED BY <1>1, <1>4, <1>5, <1>6, <1>7 DEF VersionOf

\* addRouteMeta() reads a version of the row the database holds.
LEMMA ReadMetaPreserves ==
    ASSUME IInv, NEW q \in Calls, ReadMeta(q)
    PROVE  IInv'
  <1> DEFINE r == routes[call[q].id]
  <1>1. /\ call \in [Calls -> Call] /\ CallOK(call[q], routes)
        /\ call[q].pc = "readMeta" /\ UNCHANGED routes
    BY DEF IInv, ReadMeta
  <1>2. call[q].id \in Stored(routes)
    BY <1>1 DEF CallOK, OnRoute
  <1>3. r \in Route /\ VersionOf(r, r) /\ GoodPoints(r)
    BY <1>2, StoredRow DEF GoodRow
  <1>4. CASE call' = [call EXCEPT ![q].pc = "updateMeta", ![q].copy = r]
    <2> DEFINE c == [call[q] EXCEPT !.pc = "updateMeta", !.copy = r]
    <2>1. call' = [call EXCEPT ![q] = c]
      BY <1>1, <1>4
    <2>2. call'[q] = c
      BY <1>1, <2>1
    <2>3. /\ c \in Call /\ c.pc = "updateMeta" /\ c.copy = r /\ c.id = call[q].id
          /\ c.op = call[q].op /\ c.driver = call[q].driver
      BY <1>1, <1>3 DEF Call, PCs
    <2> HIDE DEF c
    <2>4. CallOK(c, routes)
      BY <1>1, <1>3, <2>3 DEF CallOK, Finding, OnRoute, WithCopy
    <2> QED BY <1>1, <2>1, <2>2, <2>4, CallStep DEF OnlyCall
  <1>5. ASSUME NEW pc \in AfterMeta(q), Goto(q, pc)
        PROVE  IInv'
    <2>1. pc \in {"append", "idle"}
      BY DEF AfterMeta
    <2>2. call[q].pc \in OnRoute
      BY <1>1 DEF OnRoute
    <2> QED BY <1>1, <1>5, <2>1, <2>2, GotoStep
  <1> QED BY <1>4, <1>5 DEF ReadMeta

\* The jsonb update adds an event and nothing else.
LEMMA UpdateMetaPreserves ==
    ASSUME IInv, NEW q \in Calls, UpdateMeta(q)
    PROVE  IInv'
  <1> DEFINE i == call[q].id
             r == WithEvent(routes[i])
  <1>1. CallOK(call[q], routes) /\ call[q].pc = "updateMeta"
        /\ routes \in [RouteIds -> Route \cup {None}]
    BY DEF IInv, RowsOK, UpdateMeta
  <1>2. i \in Stored(routes) /\ call[q].pc \in OnRoute
    BY <1>1 DEF CallOK, OnRoute
  <1>3. i \in RouteIds /\ routes[i] \in Route /\ GoodRow(routes[i])
    BY <1>2, StoredRow
  <1>4. PICK pc \in {"append", "idle"} : Goto(q, pc)
    BY DEF UpdateMeta, AfterMeta
  <1>5. CASE routes[i].active
    <2>1. routes' = [routes EXCEPT ![i] = r]
      BY <1>1, <1>3, <1>5 DEF UpdateMeta
    <2>2. /\ r \in Route /\ r.driver = routes[i].driver /\ r.start = routes[i].start
          /\ r.active = routes[i].active
      BY <1>3, WithEventIsVersion DEF VersionOf
    <2>3. GoodRow(r)
      BY <1>3, WithEventIsVersion
    <2> HIDE DEF r
    <2>4. ActiveOf(routes', r.driver) \subseteq {i}
      <3>1. i \in ActiveOf(routes, r.driver) /\ r.driver \in Drivers
        BY <1>2, <1>5, <2>2 DEF ActiveOf, Route
      <3>2. ActiveOf(routes', r.driver) \subseteq ActiveOf(routes, r.driver)
        BY <1>1, <1>3, <2>1, <3>1 DEF ActiveOf, Stored
      <3> QED BY <3>1, <3>2 DEF IInv, RowsOK
    <2>5. KeepsRows(routes, routes')
      BY <1>3, <2>1, <2>2, OneRowKept
    <2>6. OnlyCall(q) /\ CallOK(call'[q], routes')
      BY <1>2, <1>4, <2>5, GotoLoads
    <2> QED BY <1>3, <2>1, <2>2, <2>3, <2>4, <2>6, RowStep
  <1>6. CASE ~routes[i].active
    <2>1. UNCHANGED routes
      BY <1>6 DEF UpdateMeta
    <2> QED BY <1>2, <1>4, <2>1, GotoStep
  <1> QED BY <1>5, <1>6

\* The fallback saves the version it had read.
LEMMA UpdateMetaThrowsPreserves ==
    ASSUME IInv, NEW q \in Calls, UpdateMetaThrows(q)
    PROVE  IInv'
  <1> DEFINE copy == WithEvent(call[q].copy)
  <1>1. CallOK(call[q], routes) /\ call[q].pc = "updateMeta" /\ UNCHANGED routes
    BY DEF IInv, UpdateMetaThrows
  <1>2. /\ call[q].id \in Stored(routes)
        /\ VersionOf(call[q].copy, routes[call[q].id]) /\ GoodPoints(call[q].copy)
    BY <1>1 DEF CallOK, OnRoute, WithCopy
  <1>3. VersionOf(copy, routes[call[q].id]) /\ GoodPoints(copy)
    BY <1>2, WithEventIsVersion DEF VersionOf
  <1>4. ToSave(q, call[q].id, copy)
    BY DEF UpdateMetaThrows
  <1> QED BY <1>1, <1>2, <1>3, <1>4, ToSaveStep

\* addPoint() appends only a point that is not before the route.
LEMMA AppendPointPreserves ==
    ASSUME IInv, NEW q \in Calls, AppendPoint(q)
    PROVE  IInv'
  <1> DEFINE i == call[q].id
             ts == call[q].at
             r == WithPoint(routes[i], ts)
  <1>1. CallOK(call[q], routes) /\ call[q].pc = "append"
        /\ routes \in [RouteIds -> Route \cup {None}]
    BY DEF IInv, RowsOK, AppendPoint
  <1>2. i \in Stored(routes) /\ call[q].pc \in OnRoute /\ ts \in Nat
    BY <1>1 DEF CallOK, OnRoute, Call
  <1>3. i \in RouteIds /\ routes[i] \in Route /\ GoodRow(routes[i])
    BY <1>2, StoredRow
  <1>4. CASE (Goto(q, "failed") \/ Goto(q, "idle")) /\ UNCHANGED routes
    BY <1>4, GotoStep
  <1>5. CASE /\ routes[i].active /\ ~Ignored(routes[i], ts)
             /\ routes' = [routes EXCEPT ![i] = r]
             /\ Goto(q, "broadcast")
    <2>1. routes' = [routes EXCEPT ![i] = r]
      BY <1>5
    <2>2. /\ r \in Route /\ r.driver = routes[i].driver /\ r.start = routes[i].start
          /\ r.active = routes[i].active
      BY <1>2, <1>3, WithPointIsVersion DEF VersionOf
    <2>4. ts >= routes[i].start
      BY <1>2, <1>3, <1>5 DEF Ignored, Route
    <2>5. GoodRow(r)
      BY <1>2, <1>3, <2>4, WithPointIsVersion
    <2> HIDE DEF r
    <2>6. ActiveOf(routes', r.driver) \subseteq {i}
      <3>1. i \in ActiveOf(routes, r.driver) /\ r.driver \in Drivers
        BY <1>2, <1>5, <2>2 DEF ActiveOf, Route
      <3>2. ActiveOf(routes', r.driver) \subseteq ActiveOf(routes, r.driver)
        BY <1>1, <1>3, <2>1, <3>1 DEF ActiveOf, Stored
      <3> QED BY <3>1, <3>2 DEF IInv, RowsOK
    <2>7. KeepsRows(routes, routes')
      BY <1>3, <2>1, <2>2, OneRowKept
    <2>8. OnlyCall(q) /\ CallOK(call'[q], routes')
      BY <1>2, <1>5, <2>7, GotoLoads
    <2> QED BY <1>3, <2>1, <2>2, <2>5, <2>6, <2>8, RowStep
  <1> QED BY <1>1, <1>4, <1>5 DEF AppendPoint

\* The broadcast reads and writes no row.
LEMMA BroadcastPreserves ==
    ASSUME IInv, NEW q \in Calls, Broadcast(q)
    PROVE  IInv'
  <1>1. call \in [Calls -> Call] /\ CallOK(call[q], routes) /\ UNCHANGED routes
    BY DEF IInv, Broadcast
  <1>2. PICK i \in Stored(routes) :
          call' = [call EXCEPT ![q].pc = "reply", ![q].sent = i]
    BY DEF Broadcast
  <1> DEFINE c == [call[q] EXCEPT !.pc = "reply", !.sent = i]
  <1>3. call' = [call EXCEPT ![q] = c]
    BY <1>1, <1>2
  <1>4. call'[q] = c
    BY <1>1, <1>3
  <1>5. /\ c \in Call /\ c.pc = "reply"
        /\ c.op = call[q].op /\ c.driver = call[q].driver
    BY ZenonT(60), <1>1 DEF Call, PCs, Stored
  <1> HIDE DEF c
  <1>6. CallOK(c, routes)
    BY <1>1, <1>5 DEF CallOK, Finding, OnRoute, WithCopy
  <1> QED BY <1>1, <1>3, <1>4, <1>6, CallStep DEF OnlyCall

\* A call that returns forgets its copy.
LEMMA ReplyPreserves ==
    ASSUME IInv, NEW q \in Calls, Reply(q)
    PROVE  IInv'
  <1>1. Goto(q, "idle") /\ UNCHANGED routes
    BY DEF Reply, Goto
  <1> QED BY <1>1, GotoStep

------------------------------------------------------------------------------
(* The theorems.                                                           *)

\* No row and no call satisfies the inductive invariant.
LEMMA InitIsGood ==
    ASSUME Init
    PROVE  IInv
  <1>1. RowsOK(routes)
    BY DEF Init, RowsOK, Stored, ActiveOf
  <1>2. CallOK(NoCall, routes)
    BY DEF CallOK, NoCall, Call, PCs, Ops, Finding, OnRoute, WithCopy
  <1> QED BY <1>1, <1>2 DEF Init, IInv, CallOK

\* Every step of the specification keeps the inductive invariant.
LEMMA StepsAreGood ==
    ASSUME IInv, [Next]_vars
    PROVE  IInv'
  <1>1. ASSUME NEW q \in Calls, Arrive(q) \/ Step(q)
        PROVE  IInv'
    BY <1>1, ArrivePreserves, FindActivePreserves, FindOnePreserves,
       FindCoveringPreserves, ReloadPreserves, WritePreserves, InsertPreserves,
       ReadMetaPreserves, UpdateMetaPreserves, UpdateMetaThrowsPreserves,
       AppendPointPreserves, BroadcastPreserves, ReplyPreserves
       DEF Step
  <1>2. CASE UNCHANGED vars
    BY <1>2 DEF vars, IInv, RowsOK, CallOK, Stored, ActiveOf
  <1> QED BY <1>1, <1>2 DEF Next

\* In every reachable state the table and every copy of a row are as above.
THEOREM Invariance == Spec => []IInv
  <1>1. Init => IInv
    BY InitIsGood
  <1>2. IInv /\ [Next]_vars => IInv'
    BY StepsAreGood
  <1> QED BY <1>1, <1>2, PTL DEF Spec

\* The table holds rows and every call holds locals of its type.
THEOREM TypeCorrect == Spec => []TypeOK
  <1>1. IInv => TypeOK
    BY DEF IInv, RowsOK, TypeOK
  <1> QED BY <1>1, Invariance, PTL

\* A driver never has two active trips, however many calls overlap.
THEOREM OneActive == Spec => []OneActiveRoutePerDriver
  <1>1. IInv => OneActiveRoutePerDriver
    BY DEF IInv, RowsOK, OneActiveRoutePerDriver
  <1> QED BY <1>1, Invariance, PTL

\* No trip ends before it has started, whatever times the callers pass.
THEOREM EndsAreLater == Spec => []EndsAfterStart
  <1>1. IInv => EndsAfterStart
    BY DEF IInv, RowsOK, GoodRow, EndsAfterStart
  <1> QED BY <1>1, Invariance, PTL

\* No trip holds a point from before its start, though stale copies are saved.
THEOREM PointsAreFromStart == Spec => []PointsFromStart
  <1>1. IInv => PointsFromStart
    BY DEF IInv, RowsOK, GoodRow, GoodPoints, PointsFromStart
  <1> QED BY <1>1, Invariance, PTL
=============================================================================
