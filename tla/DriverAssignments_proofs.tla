---------------------- MODULE DriverAssignments_proofs ----------------------
(***************************************************************************)
(* The safety of the assignment table for any fleet, any number of         *)
(* handlers and any clock: the invariants the runs of DriverAssignments    *)
(* check on a small fleet, and the refinement of ExclusivePairing.         *)
(***************************************************************************)
EXTENDS DriverAssignments, TLAPS

\* What a running update has selected touches its pair.  It may have been closed
\* since, which is why the update looks again before it closes.
WantedTouch ==
    \A q \in Requests : \A i \in req[q].want :
        /\ i \in Stored(rows)
        /\ rows[i].driver = req[q].driver \/ rows[i].vehicle = req[q].vehicle

\* The invariants hold one another up: a commit is type-correct because the rows
\* it closes exist, and what it closes is still open because nobody else may
\* write a row being closed.
IInv ==
    /\ TypeOK
    /\ OneOpenPerDriver
    /\ OneOpenPerVehicle
    /\ EndsAfterStart
    /\ ClosingIsExclusive
    /\ WantedTouch

------------------------------------------------------------------------------
(* The invariant, said of the table and of each handler.                   *)

TableOK(t) ==
    /\ t \in [RowIds -> Row \cup {None}]
    /\ \A i, j \in OpenRows(t) : t[i].driver = t[j].driver => i = j
    /\ \A i, j \in OpenRows(t) : t[i].vehicle = t[j].vehicle => i = j
    /\ \A i \in Stored(t) : t[i].end # Null => t[i].end > t[i].start

Touches(row, r) == row.driver = r.driver \/ row.vehicle = r.vehicle

Holds(r, t) ==
    /\ \A i \in r.want : i \in Stored(t) /\ Touches(t[i], r)
    /\ \A i \in r.closing : i \in OpenRows(t) /\ Touches(t[i], r)

ClosingDisjoint ==
    \A p, q \in Requests : \A i :
        i \in req[p].closing /\ i \in req[q].closing => p = q

\* A row is locked by others when some other transaction is closing it.
LEMMA LockedMember ==
    ASSUME NEW q \in Requests, NEW i
    PROVE  i \in LockedByOthers(q)
               <=> \E p \in Requests \ {q} : i \in req[p].closing
  BY DEF LockedByOthers

Parts ==
    /\ now \in Nat /\ TableOK(rows)
    /\ req \in [Requests -> Request]
    /\ \A q \in Requests : RequestOK(req[q]) /\ Holds(req[q], rows)
    /\ ClosingDisjoint

\* The inductive invariant, part by part.
LEMMA IInvParts == IInv <=> Parts
  <1>1. ClosingDisjoint <=>
            \A q \in Requests : req[q].closing \cap LockedByOthers(q) = {}
    BY LockedMember DEF ClosingDisjoint
  <1>2. WantedTouch /\ ClosingIsExclusive <=>
            ClosingDisjoint /\ \A q \in Requests : Holds(req[q], rows)
    BY <1>1 DEF WantedTouch, ClosingIsExclusive, Holds, Touches, OpenTouching
  <1> QED
    BY <1>2
    DEF IInv, Parts, TypeOK, TableOK, OneOpenPerDriver, OneOpenPerVehicle, EndsAfterStart

\* What the steps below need to know of the handler that moves.
LEMMA HandlerFacts ==
    ASSUME IInv, NEW q \in Requests
    PROVE  /\ req[q] \in Request /\ RequestOK(req[q]) /\ Holds(req[q], rows)
           /\ req \in [Requests -> Request] /\ TableOK(rows) /\ now \in Nat
  BY IInvParts DEF Parts

------------------------------------------------------------------------------
(* Steps that write the table, as facts about tables.                      *)

\* Closing a row writes an end after its start and nothing else.
LEMMA ClosedRow ==
    ASSUME NEW row \in Row, NEW at \in Nat
    PROVE  LET c == Closed(row, at) IN
           /\ c \in Row /\ c # None /\ c.end # Null /\ c.end > row.start
           /\ OnlyTheEnd(row, c)
           /\ c.driver = row.driver /\ c.vehicle = row.vehicle
           /\ c.start = row.start
  <1>1. EndAt(row.start, at) \in Nat /\ EndAt(row.start, at) > row.start
    BY DEF EndAt, Row
  <1>2. Closed(row, at) \in Row
    BY <1>1 DEF Closed, Row
  <1> QED
    BY <1>1, <1>2, NoneAssumption DEF Closed, Row, Null, OnlyTheEnd

\* Closing rows opens none and changes no pair.
LEMMA CloseKeepsTable ==
    ASSUME NEW t, TableOK(t), NEW C \in SUBSET Stored(t), NEW at \in Nat
    PROVE  LET u == CloseAll(t, C, at) IN
           /\ TableOK(u)
           /\ Stored(u) = Stored(t) /\ OpenRows(u) = OpenRows(t) \ C
           /\ \A i \in Stored(t) :
                 /\ u[i].driver = t[i].driver /\ u[i].vehicle = t[i].vehicle
                 /\ OnlyTheEnd(t[i], u[i])
  <1> DEFINE u == CloseAll(t, C, at)
  <1>0. u = [i \in RowIds |-> IF i \in C THEN Closed(t[i], at) ELSE t[i]]
    BY DEF CloseAll
  <1> HIDE DEF u
  <1>1. \A i \in Stored(t) : i \in RowIds /\ t[i] \in Row /\ t[i] # None
    BY DEF Stored, TableOK
  <1>2. \A i \in C : /\ u[i] \in Row /\ u[i] # None
                     /\ u[i].end # Null /\ u[i].end > u[i].start
                     /\ u[i].driver = t[i].driver /\ u[i].vehicle = t[i].vehicle
                     /\ OnlyTheEnd(t[i], u[i])
    <2> TAKE i \in C
    <2>1. u[i] = Closed(t[i], at)
      BY <1>0, <1>1
    <2> QED
      BY <1>1, <2>1, ClosedRow
  <1>3. \A i \in RowIds \ C : u[i] = t[i]
    BY <1>0
  <1>4. \A i \in Stored(t) \ C : OnlyTheEnd(t[i], u[i])
    BY <1>1, <1>3 DEF Row, OnlyTheEnd
  <1>5. Stored(u) = Stored(t)
    BY <1>1, <1>2, <1>3 DEF Stored
  <1>6. OpenRows(u) = OpenRows(t) \ C
    BY <1>1, <1>2, <1>3, <1>5 DEF OpenRows
  <1>7. u \in [RowIds -> Row \cup {None}]
    <2>1. \A i \in RowIds : u[i] \in Row \cup {None}
      BY <1>2, <1>3 DEF TableOK
    <2> QED
      BY <1>0, <2>1
  <1>8. TableOK(u)
    <2>1. \A i \in OpenRows(u) : i \in OpenRows(t) /\ u[i] = t[i]
      BY <1>3, <1>6 DEF OpenRows, Stored
    <2>2. \A i \in Stored(u) : u[i].end # Null => u[i].end > u[i].start
      BY <1>1, <1>2, <1>3, <1>5 DEF TableOK
    <2> QED
      BY <1>7, <2>1, <2>2 DEF TableOK
  <1> QED
    BY <1>1, <1>2, <1>3, <1>4, <1>5, <1>6, <1>8 DEF u

\* A row that conflicts with none keeps the unique indexes.
Insert(t, i, row) == [t EXCEPT ![i] = row]

\* A row the unique indexes accept keeps the table one-open-per-driver and -vehicle.
LEMMA InsertKeepsTable ==
    ASSUME NEW t, TableOK(t), NEW row \in Row, row.end = Null,
           OpenTouching(t, row.driver, row.vehicle) = {},
           NEW i \in RowIds \ Stored(t)
    PROVE  LET u == Insert(t, i, row) IN
           /\ TableOK(u)
           /\ Stored(u) = Stored(t) \cup {i}
           /\ OpenRows(u) = OpenRows(t) \cup {i}
           /\ \A j \in RowIds \ {i} : u[j] = t[j]
  <1> DEFINE u == Insert(t, i, row)
  <1>1. u \in [RowIds -> Row \cup {None}] /\ u[i] = row /\ i \notin OpenRows(t)
    BY DEF TableOK, OpenRows, Insert
  <1>2. \A j \in RowIds \ {i} : u[j] = t[j]
    BY DEF TableOK, Insert
  <1> HIDE DEF u
  <1>3. Stored(u) = Stored(t) \cup {i}
    BY <1>1, <1>2, NoneAssumption DEF Stored
  <1>4. OpenRows(u) = OpenRows(t) \cup {i}
    BY <1>1, <1>2, <1>3 DEF OpenRows, Stored
  <1>5. \A j \in OpenRows(t) : t[j].driver # row.driver /\ t[j].vehicle # row.vehicle
    BY DEF OpenTouching
  <1>6. \A j \in OpenRows(t) : j \in RowIds \ {i}
    BY DEF OpenRows, Stored
  <1>7. TableOK(u)
    BY <1>1, <1>2, <1>3, <1>4, <1>5, <1>6 DEF TableOK, Stored
  <1> QED
    BY <1>2, <1>3, <1>4, <1>7 DEF u

------------------------------------------------------------------------------
(* The invariant is inductive: one lemma per action.                       *)

\* The empty table satisfies the inductive invariant.
LEMMA InitIInv == Init => IInv
  BY NoneAssumption
  DEF Init, IInv, TypeOK, RequestOK, Request, NoRequest, PCs, Closing, Scanning,
      Stored, OneOpenPerDriver, OneOpenPerVehicle, EndsAfterStart, OpenRows,
      ClosingIsExclusive, OpenTouching, WantedTouch

\* A step that changes one handler, which holds only rows nobody else holds.
LEMMA HandlerStep ==
    ASSUME IInv, NEW q \in Requests, NEW r \in Request,
           req' = [req EXCEPT ![q] = r], rows' = rows, now' \in Nat,
           RequestOK(r), Holds(r, rows),
           \A p \in Requests \ {q} : \A i \in r.closing : i \notin req[p].closing
    PROVE  IInv'
  <1>1. Parts
    BY IInvParts
  <1>2. \A p \in Requests : req'[p] = IF p = q THEN r ELSE req[p]
    BY <1>1 DEF Parts
  <1>3. \A p \in Requests : (RequestOK(req[p]) /\ Holds(req[p], rows))'
    BY <1>1, <1>2 DEF Parts, RequestOK, Stored, Holds, OpenRows, Touches
  <1>4. ClosingDisjoint'
    BY <1>1, <1>2 DEF Parts, ClosingDisjoint
  <1>5. TableOK(rows)'
    BY <1>1 DEF Parts, TableOK, OpenRows, Stored
  <1>6. Parts'
    BY <1>1, <1>3, <1>4, <1>5 DEF Parts
  <1>7. (IInv <=> Parts)'
    BY IInvParts, PTL
  <1> QED
    BY <1>6, <1>7

\* A request arrives: the handler that takes it holds nothing yet.
LEMMA AcceptIInv ==
    ASSUME IInv, NEW q \in Requests, NEW op \in {"toggle", "start", "end"},
           NEW d \in Drivers, NEW v \in Vehicles \cup {None}, NEW at \in Nat,
           op # "end" => v \in Vehicles, Accept(q, op, d, v, at)
    PROVE  IInv'
  <1> DEFINE r == [NoRequest EXCEPT
                     !.pc = "read", !.op = op, !.driver = d, !.vehicle = v, !.at = at]
  <1>1. r \in Request /\ r.closing = {} /\ r.want = {} /\ RequestOK(r)
    BY DEF Request, NoRequest, PCs, Closing, Scanning, RequestOK
  <1>2. req' = [req EXCEPT ![q] = r] /\ rows' = rows /\ now' \in Nat
    BY DEF Accept, IInv, TypeOK
  <1> HIDE DEF r
  <1> QED
    BY <1>1, <1>2, HandlerStep DEF Holds

\* Reading the open row moves one transaction and no row.
LEMMA TxReadIInv ==
    ASSUME IInv, NEW q \in Requests, TxRead(q)
    PROVE  IInv'
  <1> DEFINE hits == {i \in OpenRows(rows) : Matches(q, i)}
             To(r) == /\ r \in Request /\ r.closing = {} /\ r.want = req[q].want
                      /\ r.driver = req[q].driver /\ r.vehicle = req[q].vehicle
                      /\ RequestOK(r) /\ req' = [req EXCEPT ![q] = r]
  <1>1. rows' = rows /\ now' \in Nat /\ req[q].pc = "read"
    BY HandlerFacts DEF TxRead
  <1>2. ASSUME NEW r, To(r)
        PROVE  IInv'
    BY <1>1, <1>2, HandlerFacts, HandlerStep DEF Holds, Touches
  <1>3. CASE \E i \in hits :
                req' = [req EXCEPT ![q].found = i,
                           ![q].pc = IF req[q].op = "start" THEN "reply" ELSE "end"]
    <2>1. PICK i \in hits :
             req' = [req EXCEPT ![q].found = i,
                        ![q].pc = IF req[q].op = "start" THEN "reply" ELSE "end"]
      BY <1>3
    <2>2. i \in Stored(rows) /\ i \in RowIds
      BY DEF OpenRows, Stored
    <2>3. To([req[q] EXCEPT !.found = i,
                 !.pc = IF req[q].op = "start" THEN "reply" ELSE "end"])
      BY <1>1, <2>1, <2>2, HandlerFacts
      DEF Request, RequestOK, PCs, Closing, Scanning
    <2> QED
      BY <1>2, <2>3
  <1>4. CASE GoTo(q, IF req[q].op = "end" THEN "reply" ELSE "scanDriver")
    <2>1. To([req[q] EXCEPT !.pc = IF req[q].op = "end" THEN "reply" ELSE "scanDriver"])
      BY <1>1, <1>4, HandlerFacts
      DEF GoTo, Request, RequestOK, PCs, Closing, Scanning
    <2> QED
      BY <1>2, <2>1
  <1> QED
    BY <1>3, <1>4 DEF TxRead

\* The scan of the open rows picks only open rows that touch the request.
LEMMA TxScanIInv ==
    ASSUME IInv, NEW q \in Requests, TxScan(q)
    PROVE  IInv'
  <1> DEFINE r(pc, W) == [req[q] EXCEPT !.pc = pc, !.want = W]
             Selects(pc, W) ==
                 /\ r(pc, W) \in Request /\ RequestOK(r(pc, W))
                 /\ Holds(r(pc, W), rows)
                 /\ r(pc, W).closing = req[q].closing
                 /\ req' = [req EXCEPT ![q] = r(pc, W)]
  <1>1. rows' = rows /\ now' \in Nat
    BY HandlerFacts DEF TxScan
  <1>2. ASSUME NEW pc, NEW W, Selects(pc, W)
        PROVE  IInv'
    <2>1. \A p \in Requests \ {q} : \A i \in req[q].closing : i \notin req[p].closing
      BY IInvParts DEF Parts, ClosingDisjoint
    <2> HIDE DEF r
    <2> QED
      BY <1>1, <1>2, <2>1, HandlerStep
  <1>3. CASE req[q].pc = "scanDriver"
    <2> DEFINE W == {i \in OpenRows(rows) : rows[i].driver = req[q].driver}
    <2>1. W \in SUBSET RowIds
      BY DEF OpenRows, Stored
    <2>2. req' = [req EXCEPT ![q] = r("closeDriver", W)]
      BY <1>3, HandlerFacts DEF TxScan
    <2>3. \A i \in W : i \in Stored(rows) /\ rows[i].driver = req[q].driver
      BY DEF OpenRows
    <2>4. Selects("closeDriver", W)
      <3> HIDE DEF W
      <3> QED
        BY ZenonT(60), <1>3, <2>1, <2>2, <2>3, HandlerFacts
        DEF Request, RequestOK, PCs, Closing, Scanning, Holds, Touches
    <2> QED
      BY <1>2, <2>4
  <1>4. CASE req[q].pc = "scanVehicle"
    <2> DEFINE W == {i \in OpenRows(rows) \ req[q].closing :
                        rows[i].vehicle = req[q].vehicle}
    <2>1. W \in SUBSET RowIds
      BY DEF OpenRows, Stored
    <2>2. req' = [req EXCEPT ![q] = r("closeVehicle", W)]
      BY <1>4, HandlerFacts DEF TxScan
    <2>3. \A i \in W : i \in Stored(rows) /\ rows[i].vehicle = req[q].vehicle
      BY DEF OpenRows
    <2>4. Selects("closeVehicle", W)
      <3> HIDE DEF W
      <3> QED
        BY ZenonT(60), <1>4, <2>1, <2>2, <2>3, HandlerFacts
        DEF Request, RequestOK, PCs, Closing, Scanning, Holds, Touches
    <2> QED
      BY <1>2, <2>4
  <1> QED
    BY <1>3, <1>4 DEF TxScan

\* Closing the scanned rows keeps what the transaction has not locked.
LEMMA TxCloseIInv ==
    ASSUME IInv, NEW q \in Requests, TxClose(q)
    PROVE  IInv'
  <1> DEFINE C == req[q].closing \cup (req[q].want \cap OpenRows(rows))
             r == [req[q] EXCEPT
                     !.pc = IF @ = "closeDriver" THEN "scanVehicle" ELSE "insert",
                     !.want = {}, !.closing = C]
  <1>1. req' = [req EXCEPT ![q] = r] /\ rows' = rows /\ now' \in Nat
    BY HandlerFacts DEF TxClose
  <1>2. C \in SUBSET RowIds /\ \A i \in C : i \in OpenRows(rows) /\ Touches(rows[i], req[q])
    BY HandlerFacts DEF Holds, Request
  <1>3. \A p \in Requests \ {q} : \A i \in C : i \notin req[p].closing
    BY LockedMember, IInvParts DEF TxClose, Parts, ClosingDisjoint
  <1>4. r \in Request /\ RequestOK(r) /\ Holds(r, rows) /\ r.closing = C
    <2> HIDE DEF C
    <2> QED
      BY ZenonT(60), <1>2, HandlerFacts
      DEF TxClose, Request, RequestOK, PCs, Closing, Scanning, Holds, Touches
  <1> HIDE DEF C, r
  <1> QED
    BY <1>1, <1>3, <1>4, HandlerStep

\* A rollback, and the answer, let go of every row.
LEMMA RollBackIInv ==
    ASSUME IInv, NEW q \in Requests, NEW pc \in {"rejected", "failed"},
           req[q].pc # "idle", RollBack(q, pc)
    PROVE  IInv'
  <1> DEFINE r == [req[q] EXCEPT !.want = {}, !.closing = {}, !.pc = pc]
  <1>1. r \in Request /\ r.closing = {} /\ r.want = {} /\ RequestOK(r)
    BY ZenonT(60), HandlerFacts DEF Request, RequestOK, PCs, Closing, Scanning
  <1>2. req' = [req EXCEPT ![q] = r] /\ rows' = rows /\ now' \in Nat
    BY HandlerFacts DEF RollBack
  <1> HIDE DEF r
  <1> QED
    BY <1>1, <1>2, HandlerStep DEF Holds

\* A request that returns forgets what its transaction saw.
LEMMA ReplyIInv ==
    ASSUME IInv, NEW q \in Requests, Reply(q)
    PROVE  IInv'
  <1>1. /\ NoRequest \in Request /\ NoRequest.closing = {} /\ NoRequest.want = {}
        /\ RequestOK(NoRequest)
    BY DEF NoRequest, Request, RequestOK, PCs, Closing, Scanning
  <1>2. req' = [req EXCEPT ![q] = NoRequest] /\ rows' = rows /\ now' \in Nat
    BY HandlerFacts DEF Reply
  <1> QED
    BY <1>1, <1>2, HandlerStep DEF Holds

\* The commit of an end: the row it writes is nobody's to close at that moment.
LEMMA TxEndIInv ==
    ASSUME IInv, NEW q \in Requests, TxEnd(q)
    PROVE  IInv'
  <1> DEFINE i == req[q].found
  <1>1. /\ i \in Stored(rows) /\ i \in RowIds /\ req[q].at \in Nat
        /\ req[q].closing = {}
    BY HandlerFacts DEF TxEnd, RequestOK, Request, Stored
  <1>2. rows' = CloseAll(rows, {i}, req[q].at)
    BY <1>1, HandlerFacts DEF TxEnd, TableOK, CloseAll
  <1>3. /\ TableOK(rows') /\ Stored(rows') = Stored(rows)
        /\ OpenRows(rows') = OpenRows(rows) \ {i}
        /\ \A j \in Stored(rows) :
              rows'[j].driver = rows[j].driver /\ rows'[j].vehicle = rows[j].vehicle
    <2> HIDE DEF i
    <2> DEFINE C == {i}
    <2>1. TableOK(rows) /\ C \in SUBSET Stored(rows) /\ req[q].at \in Nat
      BY <1>1, HandlerFacts
    <2> HIDE DEF C
    <2>2. LET u == CloseAll(rows, C, req[q].at) IN
          /\ TableOK(u)
          /\ Stored(u) = Stored(rows) /\ OpenRows(u) = OpenRows(rows) \ C
          /\ \A j \in Stored(rows) :
                /\ u[j].driver = rows[j].driver /\ u[j].vehicle = rows[j].vehicle
                /\ OnlyTheEnd(rows[j], u[j])
      BY ONLY <2>1, CloseKeepsTable
    <2> QED
      BY <1>2, <2>2 DEF C
  <1>4. /\ req' \in [Requests -> Request] /\ now' \in Nat
        /\ \A p \in Requests \ {q} : req'[p] = req[p]
        /\ req'[q] = [req[q] EXCEPT !.pc = "reply"]
    BY HandlerFacts DEF TxEnd, GoTo, Request, PCs
  <1>5. \A p \in Requests : i \notin req[p].closing
    BY <1>1, LockedMember DEF TxEnd
  <1>6. \A p \in Requests : (RequestOK(req[p]) /\ Holds(req[p], rows))'
    <2>1. ASSUME NEW p \in Requests
          PROVE  /\ req'[p].want = req[p].want /\ req'[p].closing = req[p].closing
                 /\ req'[p].driver = req[p].driver /\ req'[p].vehicle = req[p].vehicle
      BY <1>4, HandlerFacts DEF Request
    <2>2. \A p \in Requests : Holds(req[p], rows)'
      BY <1>3, <1>5, <2>1, HandlerFacts DEF Holds, Touches, OpenRows
    <2>3. \A p \in Requests : RequestOK(req[p])'
      BY <1>1, <1>3, <1>4, HandlerFacts
      DEF TxEnd, RequestOK, Request, Closing, Scanning
    <2> QED
      BY <2>2, <2>3
  <1>7. ClosingDisjoint'
    BY <1>1, <1>4, IInvParts DEF Parts, ClosingDisjoint, Request
  <1>8. Parts'
    BY <1>3, <1>4, <1>6, <1>7 DEF Parts
  <1>9. (IInv <=> Parts)'
    BY IInvParts, PTL
  <1> QED
    BY <1>8, <1>9

\* The table after a commit: what the transaction closed, then its new row.
LEMMA TxInsertTable ==
    ASSUME IInv, NEW q \in Requests, TxInsert(q)
    PROVE  \E i \in RowIds \ Stored(rows) :
             /\ TableOK(rows') /\ Stored(rows') = Stored(rows) \cup {i}
             /\ OpenRows(rows') = (OpenRows(rows) \ req[q].closing) \cup {i}
             /\ rows'[i] = [driver |-> req[q].driver, vehicle |-> req[q].vehicle,
                            start |-> req[q].at, end |-> Null]
             /\ \A j \in Stored(rows) :
                   /\ rows'[j].driver = rows[j].driver
                   /\ rows'[j].vehicle = rows[j].vehicle
                   /\ OnlyTheEnd(rows[j], rows'[j])
             /\ \A j \in Stored(rows) \ req[q].closing : rows'[j] = rows[j]
             /\ \A j \in OpenRows(rows) \ req[q].closing :
                   rows[j].driver # req[q].driver /\ rows[j].vehicle # req[q].vehicle
  <1> DEFINE t == AfterClosing(q)
             row == [driver |-> req[q].driver, vehicle |-> req[q].vehicle,
                     start |-> req[q].at, end |-> Null]
  <1>1. /\ row \in Row /\ row.end = Null /\ req[q].at \in Nat
        /\ row.driver = req[q].driver /\ row.vehicle = req[q].vehicle
    BY HandlerFacts DEF TxInsert, RequestOK, Request, Row, Null
  <1>2. req[q].closing \in SUBSET Stored(rows)
    BY HandlerFacts DEF Holds, OpenRows
  <1>3. /\ TableOK(t) /\ Stored(t) = Stored(rows)
        /\ OpenRows(t) = OpenRows(rows) \ req[q].closing
        /\ \A j \in Stored(rows) :
              /\ t[j].driver = rows[j].driver /\ t[j].vehicle = rows[j].vehicle
              /\ OnlyTheEnd(rows[j], t[j])
    <2> DEFINE C == req[q].closing
    <2>1. t = CloseAll(rows, C, req[q].at)
      BY DEF AfterClosing
    <2>2. TableOK(rows) /\ C \in SUBSET Stored(rows) /\ req[q].at \in Nat
      BY <1>1, <1>2, HandlerFacts
    <2> HIDE DEF t, C
    <2>3. LET u == CloseAll(rows, C, req[q].at) IN
          /\ TableOK(u)
          /\ Stored(u) = Stored(rows) /\ OpenRows(u) = OpenRows(rows) \ C
          /\ \A j \in Stored(rows) :
                /\ u[j].driver = rows[j].driver /\ u[j].vehicle = rows[j].vehicle
                /\ OnlyTheEnd(rows[j], u[j])
      BY ONLY <2>2, CloseKeepsTable
    <2> QED
      BY ONLY <2>1, <2>3 DEF C
  <1>4. \A j \in Stored(rows) \ req[q].closing : j \in RowIds /\ t[j] = rows[j]
    BY DEF AfterClosing, CloseAll, Stored
  <1>5. OpenTouching(t, row.driver, row.vehicle) = {}
    BY <1>1 DEF TxInsert, Conflicts
  <1>6. PICK i \in RowIds \ Stored(rows) : rows' = Insert(t, i, row)
    BY DEF TxInsert, Insert
  <1> HIDE DEF t, row
  <1>7. /\ TableOK(rows') /\ Stored(rows') = Stored(t) \cup {i}
        /\ OpenRows(rows') = OpenRows(t) \cup {i}
        /\ \A j \in RowIds \ {i} : rows'[j] = t[j]
    BY <1>1, <1>3, <1>5, <1>6, InsertKeepsTable
  <1>8. rows'[i] = row
    BY <1>3, <1>6 DEF TableOK, Insert
  <1>9. \A j \in Stored(rows) : j \in RowIds \ {i}
    BY DEF Stored
  <1>10. \A j \in OpenRows(t) : t[j].driver # row.driver /\ t[j].vehicle # row.vehicle
    BY <1>5 DEF OpenTouching
  <1>11. \A j \in OpenRows(rows) : j \in Stored(rows)
    BY DEF OpenRows
  <1>12. \A j \in Stored(rows) : /\ rows'[j].driver = rows[j].driver
                                 /\ rows'[j].vehicle = rows[j].vehicle
                                 /\ OnlyTheEnd(rows[j], rows'[j])
    BY <1>3, <1>7, <1>9
  <1>13. \A j \in Stored(rows) \ req[q].closing : rows'[j] = rows[j]
    BY <1>4, <1>7, <1>9
  <1>14. \A j \in OpenRows(rows) \ req[q].closing :
            rows[j].driver # req[q].driver /\ rows[j].vehicle # req[q].vehicle
    BY <1>1, <1>3, <1>10, <1>11
  <1> QED
    BY <1>3, <1>7, <1>8, <1>12, <1>13, <1>14 DEF row

\* The insert is checked against every stored row before it is kept.
LEMMA TxInsertIInv ==
    ASSUME IInv, NEW q \in Requests, TxInsert(q)
    PROVE  IInv'
  <1>1. PICK i \in RowIds \ Stored(rows) :
          /\ TableOK(rows') /\ Stored(rows') = Stored(rows) \cup {i}
          /\ OpenRows(rows') = (OpenRows(rows) \ req[q].closing) \cup {i}
          /\ \A j \in Stored(rows) : rows'[j].driver = rows[j].driver
                                     /\ rows'[j].vehicle = rows[j].vehicle
    BY TxInsertTable
  <1>2. /\ req' \in [Requests -> Request] /\ now' \in Nat
        /\ \A p \in Requests \ {q} : req'[p] = req[p]
        /\ req'[q] = [req[q] EXCEPT !.closing = {}, !.pc = "reply"]
    BY HandlerFacts DEF TxInsert, Request, PCs
  <1>3. ASSUME NEW p \in Requests
        PROVE  /\ req'[p].want = req[p].want
               /\ req'[p].closing = IF p = q THEN {} ELSE req[p].closing
               /\ req'[p].driver = req[p].driver /\ req'[p].vehicle = req[p].vehicle
    BY <1>2, HandlerFacts DEF Request
  <1>4. \A p \in Requests : Holds(req[p], rows)'
    <2>1. ASSUME NEW p \in Requests, NEW j \in req'[p].closing
          PROVE  j \in OpenRows(rows) \ req[q].closing /\ j \in Stored(rows)
      BY <1>3, <2>1, HandlerFacts, IInvParts DEF Parts, ClosingDisjoint, Holds, OpenRows
    <2>2. ASSUME NEW p \in Requests, NEW j \in req'[p].closing
          PROVE  j \in OpenRows(rows') /\ Touches(rows'[j], req'[p])
      <3>1. j \in req[p].closing
        BY <1>3
      <3> QED
        BY <1>1, <1>3, <2>1, <3>1, HandlerFacts DEF Holds, Touches
    <2>3. ASSUME NEW p \in Requests, NEW j \in req'[p].want
          PROVE  j \in Stored(rows') /\ Touches(rows'[j], req'[p])
      BY <1>1, <1>3, HandlerFacts DEF Holds, Touches
    <2> QED
      BY <2>2, <2>3 DEF Holds
  <1>5. \A p \in Requests : RequestOK(req[p])'
    BY <1>1, <1>2, HandlerFacts DEF TxInsert, RequestOK, Request, Closing, Scanning
  <1>6. ClosingDisjoint'
    BY <1>3, IInvParts DEF Parts, ClosingDisjoint
  <1>7. Parts'
    BY <1>1, <1>2, <1>4, <1>5, <1>6 DEF Parts
  <1>8. (IInv <=> Parts)'
    BY IInvParts, PTL
  <1> QED
    BY <1>7, <1>8

\* Every step of the specification keeps the inductive invariant.
LEMMA NextIInv == IInv /\ [Next]_vars => IInv'
  <1> SUFFICES ASSUME IInv, [Next]_vars
               PROVE  IInv'
    OBVIOUS
  <1>1. CASE Tick
    <2>1. now' \in Nat /\ rows' = rows /\ req' = req
      BY <1>1 DEF Tick, IInv, TypeOK
    <2> QED
      BY <2>1 DEF IInv, TypeOK, RequestOK, Stored, OneOpenPerDriver, OneOpenPerVehicle,
                  EndsAfterStart, OpenRows, ClosingIsExclusive, OpenTouching,
                  LockedByOthers, WantedTouch
  <1>2. ASSUME NEW q \in Requests, NEW d \in Drivers, NEW v \in Vehicles,
               NEW at \in Times, Toggle(q, d, v, at)
        PROVE  IInv'
    BY <1>2, MaxTimeAssumption, AcceptIInv DEF Toggle, Times
  <1>3. ASSUME NEW q \in Requests, NEW d \in Drivers, NEW v \in Vehicles,
               StartAssignment(q, d, v)
        PROVE  IInv'
    BY <1>3, AcceptIInv DEF StartAssignment, IInv, TypeOK
  <1>4. ASSUME NEW q \in Requests, NEW d \in Drivers, EndAssignment(q, d)
        PROVE  IInv'
    BY <1>4, AcceptIInv DEF EndAssignment, IInv, TypeOK
  <1>5. ASSUME NEW q \in Requests, Serve(q)
        PROVE  IInv'
    <2>1. CASE TxReject(q) \/ TxDeadlock(q)
      <3>1. req[q].pc # "idle" /\ RollBack(q, "rejected")
        BY <2>1 DEF TxReject, TxDeadlock, Needs, Closing
      <3> QED
        BY <3>1, RollBackIInv
    <2>2. CASE TxAbort(q)
      BY <2>2, RollBackIInv DEF TxAbort, Closing, Scanning
    <2> QED
      BY <1>5, <2>1, <2>2, TxReadIInv, TxEndIInv, TxScanIInv, TxCloseIInv,
         TxInsertIInv, ReplyIInv DEF Serve
  <1>6. CASE UNCHANGED vars
    BY <1>6 DEF vars, IInv, TypeOK, RequestOK, Stored, OneOpenPerDriver,
                OneOpenPerVehicle, EndsAfterStart, OpenRows, ClosingIsExclusive,
                OpenTouching, LockedByOthers, WantedTouch
  <1> QED
    BY <1>1, <1>2, <1>3, <1>4, <1>5, <1>6 DEF Next

------------------------------------------------------------------------------
(* The theorems.                                                           *)

\* The inductive invariant holds in every reachable state.
LEMMA Invariance == Spec => []IInv
  <1>1. IInv /\ [Next]_vars => IInv'
    BY NextIInv
  <1> QED
    BY InitIInv, <1>1, PTL DEF Spec

\* Type correctness, for any fleet, table and number of handlers.
THEOREM TypeCorrect == Spec => []TypeOK
  <1>1. IInv => TypeOK
    BY DEF IInv
  <1> QED
    BY Invariance, <1>1, PTL

\* However the statements of toggles, starts and ends interleave, wait, deadlock
\* or fail, no driver has two open assignments and no vehicle has two.
THEOREM OneOpenEach == Spec => [](OneOpenPerDriver /\ OneOpenPerVehicle)
  <1>1. IInv => OneOpenPerDriver /\ OneOpenPerVehicle
    BY DEF IInv
  <1> QED
    BY Invariance, <1>1, PTL

\* The check constraint of the table never refuses an end.
THEOREM EndsAreLater == Spec => []EndsAfterStart
  <1>1. IInv => EndsAfterStart
    BY DEF IInv
  <1> QED
    BY Invariance, <1>1, PTL

\* No two transactions close the same row, and none closes a closed one.
THEOREM ClosesAlone == Spec => []ClosingIsExclusive
  <1>1. IInv => ClosingIsExclusive
    BY DEF IInv
  <1> QED
    BY Invariance, <1>1, PTL

\* Which step writes the table, and how.
LEMMA TableStep ==
    ASSUME IInv, [Next]_vars
    PROVE  \/ rows' = rows
           \/ \E q \in Requests : TxEnd(q) \/ TxInsert(q)
  BY DEF Next, vars, Tick, Toggle, StartAssignment, EndAssignment, Accept, Serve,
         TxRead, TxScan, TxClose, TxReject, TxDeadlock, TxAbort, RollBack, Reply

\* The row an end writes, and what it leaves of the table.
LEMMA TxEndTable ==
    ASSUME IInv, NEW q \in Requests, TxEnd(q)
    PROVE  LET i == req[q].found IN
           /\ i \in Stored(rows) /\ Stored(rows') = Stored(rows)
           /\ OpenRows(rows') = OpenRows(rows) \ {i}
           /\ rows'[i].end # Null
           /\ \A j \in Stored(rows) :
                 /\ rows'[j].driver = rows[j].driver
                 /\ rows'[j].vehicle = rows[j].vehicle
                 /\ OnlyTheEnd(rows[j], rows'[j])
           /\ \A j \in Stored(rows) \ {i} : rows'[j] = rows[j]
  <1> DEFINE i == req[q].found
             C == {i}
  <1>1. /\ i \in Stored(rows) /\ i \in RowIds /\ req[q].at \in Nat
        /\ TableOK(rows) /\ C \in SUBSET Stored(rows)
    BY HandlerFacts DEF TxEnd, RequestOK, Request, Stored
  <1>2. rows' = CloseAll(rows, C, req[q].at)
    BY <1>1 DEF TxEnd, TableOK, CloseAll
  <1>3. \A j \in Stored(rows) \ C : rows'[j] = rows[j]
    BY <1>2 DEF CloseAll, Stored
  <1> HIDE DEF C
  <1>4. LET u == CloseAll(rows, C, req[q].at) IN
        /\ Stored(u) = Stored(rows) /\ OpenRows(u) = OpenRows(rows) \ C
        /\ \A j \in Stored(rows) :
              /\ u[j].driver = rows[j].driver /\ u[j].vehicle = rows[j].vehicle
              /\ OnlyTheEnd(rows[j], u[j])
    BY ONLY <1>1, CloseKeepsTable
  <1>5. rows'[i].end # Null
    BY <1>1, <1>2, <1>4 DEF OpenRows, C
  <1> QED
    BY <1>1, <1>2, <1>3, <1>4, <1>5 DEF C

\* History is append-only: no interleaving loses a row, changes its pair or its
\* start, or reopens it.
THEOREM HistoryIsKept == Spec => HistoryKept
  <1> DEFINE Kept == \A i \in Stored(rows) :
                        /\ i \in Stored(rows')
                        /\ OnlyTheEnd(rows[i], rows'[i])
                        /\ rows[i].end # Null => rows'[i].end # Null
  <1>1. IInv /\ [Next]_vars => [Kept]_vars
    <2> SUFFICES ASSUME IInv, [Next]_vars
                 PROVE  Kept
      OBVIOUS
    <2>1. CASE rows' = rows
      <3>1. \A i \in Stored(rows) : rows[i] \in Row
        BY DEF IInv, TypeOK, Stored
      <3>2. \A i \in Stored(rows) : OnlyTheEnd(rows[i], rows[i])
        BY <3>1 DEF OnlyTheEnd, Row
      <3> QED
        BY <2>1, <3>2
    <2>2. ASSUME NEW q \in Requests, TxEnd(q)
          PROVE  Kept
      BY <2>2, TxEndTable
    <2>3. ASSUME NEW q \in Requests, TxInsert(q)
          PROVE  Kept
      <3>1. \A i \in Stored(rows) : rows[i].end # Null => i \notin req[q].closing
        BY HandlerFacts DEF Holds, OpenRows
      <3> QED
        BY <2>3, <3>1, TxInsertTable
    <2> QED
      BY <2>1, <2>2, <2>3, TableStep
  <1> QED
    BY Invariance, <1>1, PTL DEF Spec, HistoryKept

------------------------------------------------------------------------------
(* The table implements the indivisible hand-over.                         *)

paired == {<<rows[i].driver, rows[i].vehicle>> : i \in OpenRows(rows)}

\* A step keeps the open pairs, detaches one, or hands a seat over.
LEMMA PairingStep ==
    ASSUME IInv, [Next]_vars
    PROVE  [Pairing!Next]_paired
  <1>1. CASE rows' = rows
    BY <1>1 DEF paired, OpenRows, Stored
  <1>2. ASSUME NEW q \in Requests, TxEnd(q)
        PROVE  [Pairing!Next]_paired
    <2> DEFINE i == req[q].found
               d == rows[i].driver
               v == rows[i].vehicle
    <2>1. /\ i \in Stored(rows) /\ OpenRows(rows') = OpenRows(rows) \ {i}
          /\ \A j \in OpenRows(rows) : /\ j \in Stored(rows)
                                       /\ rows'[j].driver = rows[j].driver
                                       /\ rows'[j].vehicle = rows[j].vehicle
      BY <1>2, TxEndTable DEF OpenRows
    <2>2. CASE i \notin OpenRows(rows)
      <3>1. OpenRows(rows') = OpenRows(rows)
        BY <2>1, <2>2
      <3> QED
        BY <2>1, <3>1 DEF paired
    <2>3. CASE i \in OpenRows(rows)
      <3>1. d \in Drivers /\ v \in Vehicles
        BY <2>1 DEF IInv, TypeOK, Stored, Row
      <3>2. \A j \in OpenRows(rows) \ {i} : rows[j].driver # d
        BY <2>3 DEF IInv, OneOpenPerDriver
      <3>3. paired' = {<<rows[j].driver, rows[j].vehicle>> : j \in OpenRows(rows) \ {i}}
        BY <2>1 DEF paired
      <3>4. <<d, v>> \in paired /\ paired' = paired \ {<<d, v>>}
        BY <2>3, <3>2, <3>3 DEF paired
      <3>5. \E e \in Drivers, w \in Vehicles :
               <<e, w>> \in paired /\ paired' = paired \ {<<e, w>>}
        BY <3>1, <3>4
      <3> QED
        BY <3>5 DEF Pairing!Next, Pairing!Detach, Pairing!Attach, paired
    <2> QED
      BY <2>2, <2>3
  <1>3. ASSUME NEW q \in Requests, TxInsert(q)
        PROVE  [Pairing!Next]_paired
    <2> DEFINE d == req[q].driver
               v == req[q].vehicle
               rest == OpenRows(rows) \ req[q].closing
    <2>1. d \in Drivers /\ v \in Vehicles
      BY <1>3, HandlerFacts DEF TxInsert, RequestOK
    <2>2. PICK i \in RowIds \ Stored(rows) :
             /\ OpenRows(rows') = rest \cup {i}
             /\ rows'[i] = [driver |-> d, vehicle |-> v, start |-> req[q].at, end |-> Null]
             /\ \A j \in Stored(rows) : /\ rows'[j].driver = rows[j].driver
                                        /\ rows'[j].vehicle = rows[j].vehicle
             /\ \A j \in rest : rows[j].driver # d /\ rows[j].vehicle # v
      BY <1>3, TxInsertTable
    <2>3. \A j \in OpenRows(rows) : j \in Stored(rows)
      BY DEF OpenRows
    <2>4. \A j \in OpenRows(rows) \ rest : rows[j].driver = d \/ rows[j].vehicle = v
      BY HandlerFacts DEF Holds, Touches
    <2>5. paired' = {<<rows[j].driver, rows[j].vehicle>> : j \in rest} \cup {<<d, v>>}
      BY <2>2, <2>3 DEF paired
    <2>6. {p \in paired : p[1] # d /\ p[2] # v}
            = {<<rows[j].driver, rows[j].vehicle>> : j \in rest}
      BY <2>2, <2>4 DEF paired
    <2>7. \E e \in Drivers, w \in Vehicles :
             paired' = {p \in paired : p[1] # e /\ p[2] # w} \cup {<<e, w>>}
      BY <2>1, <2>5, <2>6
    <2> QED
      BY <2>7 DEF Pairing!Next, Pairing!Attach, Pairing!Detach, paired
  <1> QED
    BY <1>1, <1>2, <1>3, TableStep

\* Whatever the interleaving, the open rows change as ExclusivePairing says.
THEOREM Refinement == Spec => ImplementsPairing
  <1>1. Init => Pairing!Init
    BY NoneAssumption DEF Init, Pairing!Init, OpenRows, Stored
  <1>2. IInv /\ [Next]_vars => [Pairing!Next]_paired
    BY PairingStep
  <1> QED
    BY Invariance, <1>1, <1>2, PTL DEF Spec, ImplementsPairing, Pairing!Spec, paired
=============================================================================
