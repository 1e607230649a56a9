-------------------------- MODULE DriverAssignments --------------------------
(***************************************************************************)
(* driver_vehicle_assignments and the three operations that write it:      *)
(* toggleAssignment, startAssignment and endAssignment.  Each operation is *)
(* one READ COMMITTED transaction of several statements, so requests       *)
(* interleave between statements.  A statement that updates a row waits    *)
(* while another transaction holds that row, and what a transaction has    *)
(* updated stays invisible to the others until it commits.                 *)
(*                                                                         *)
(* Time is counted in seconds.  An end of 0 stands for ended_at IS NULL.   *)
(***************************************************************************)
EXTENDS Integers, FiniteSets

CONSTANTS
    Drivers,
    Vehicles,
    RowIds,       \* primary keys the table can hand out; bounds the table
    Requests,     \* request handlers that may be in flight together
    MaxTime,      \* bounds the clock and the times clients send
    None          \* no row, no driver, no vehicle

Row == [driver : Drivers, vehicle : Vehicles, start : Nat, end : Nat]

ASSUME NoneAssumption ==
    /\ None \notin RowIds \cup Drivers \cup Vehicles
    /\ None \notin Row
ASSUME MaxTimeAssumption == MaxTime \in Nat \ {0}

VARIABLES
    now,          \* the server's clock
    rows,         \* driver_vehicle_assignments, by primary key
    req           \* per handler: the operation it runs and its local variables

vars == <<now, rows, req>>

Times == 1..MaxTime
Null  == 0

\* pc: idle -> read -> (scanDriver -> closeDriver -> scanVehicle -> closeVehicle
\* -> insert | end) -> reply -> idle; a transaction that the database rolls back
\* ends in rejected (unique violation or deadlock) or failed (anything else).
Closing  == {"closeDriver", "closeVehicle"}
Scanning == {"scanDriver", "scanVehicle"}
PCs == {"idle", "read", "insert", "end", "reply", "rejected", "failed"}
           \cup Closing \cup Scanning

Request ==
    [pc : PCs, op : {"none", "toggle", "start", "end"},
     driver : Drivers \cup {None}, vehicle : Vehicles \cup {None}, at : Nat,
     found : RowIds \cup {None},       \* the row findOne returned
     want : SUBSET RowIds,             \* rows the running update has selected
     closing : SUBSET RowIds]          \* rows this transaction has updated

NoRequest ==
    [pc |-> "idle", op |-> "none", driver |-> None, vehicle |-> None, at |-> 0,
     found |-> None, want |-> {}, closing |-> {}]

------------------------------------------------------------------------------
(* The table.                                                              *)

Stored(t)   == {i \in RowIds : t[i] # None}
OpenRows(t) == {i \in Stored(t) : t[i].end = Null}
OpenTouching(t, d, v) ==
    {i \in OpenRows(t) : t[i].driver = d \/ t[i].vehicle = v}

\* The end an operation writes: `at`, but always after the row's start.
EndAt(start, at) == IF at > start THEN at ELSE start + 1

Closed(row, at) == [row EXCEPT !.end = EndAt(row.start, at)]
CloseAll(t, C, at) ==
    [i \in RowIds |-> IF i \in C THEN Closed(t[i], at) ELSE t[i]]

\* Rows another transaction has updated and not committed: they are locked.
LockedByOthers(q) ==
    UNION {req[p].closing : p \in Requests \ {q}}

------------------------------------------------------------------------------
(* Requests arrive.  Start and end take the server's time; a toggle may    *)
(* carry any `at` the client chose.                                        *)

Idle(q) == req[q].pc = "idle"

\* Bound: a request that may insert is accepted only while a key is left for it.
RoomToInsert ==
    Cardinality({q \in Requests : req[q].op \in {"toggle", "start"}})
        < Cardinality(RowIds \ Stored(rows))

Accept(q, op, d, v, at) ==
    /\ Idle(q)
    /\ req' = [req EXCEPT ![q] = [NoRequest EXCEPT
                  !.pc = "read", !.op = op, !.driver = d, !.vehicle = v, !.at = at]]
    /\ UNCHANGED <<now, rows>>

Toggle(q, d, v, at)   == RoomToInsert /\ Accept(q, "toggle", d, v, at)
StartAssignment(q, d, v) == RoomToInsert /\ Accept(q, "start", d, v, now)
EndAssignment(q, d)   == Accept(q, "end", d, None, now)

------------------------------------------------------------------------------
(* The statements of the transactions.                                     *)

GoTo(q, pc) == req' = [req EXCEPT ![q].pc = pc]

\* What findOne looks for: the pair's open row, or the driver's for an end.
Matches(q, i) ==
    /\ rows[i].driver = req[q].driver
    /\ req[q].op = "end" \/ rows[i].vehicle = req[q].vehicle

\* findOne: the first statement of each operation decides the branch it takes.
TxRead(q) ==
    LET hits == {i \in OpenRows(rows) : Matches(q, i)} IN
    /\ req[q].pc = "read"
    /\ \/ \E i \in hits :
             req' = [req EXCEPT ![q].found = i,
                        ![q].pc = IF req[q].op = "start" THEN "reply" ELSE "end"]
       \/ /\ hits = {}
          /\ GoTo(q, IF req[q].op = "end" THEN "reply" ELSE "scanDriver")
    /\ UNCHANGED <<now, rows>>

\* Mutant of TxEnd: toggles the row it finds instead of ending it.
TxEndFlips(q) ==
    LET i == req[q].found IN
    /\ req[q].pc = "end"
    /\ i \notin LockedByOthers(q)
    /\ rows' = [rows EXCEPT ![i].end =
                   IF @ = Null THEN EndAt(rows[i].start, req[q].at) ELSE Null]
    /\ GoTo(q, "reply")
    /\ UNCHANGED now

\* save(found): writes ended_at into that primary key, whatever became of the
\* row since it was read; the transaction then commits.
TxEnd(q) ==
    LET i == req[q].found IN
    /\ req[q].pc = "end"
    /\ i \notin LockedByOthers(q)
    /\ rows' = [rows EXCEPT ![i] = Closed(@, req[q].at)]
    /\ GoTo(q, "reply")
    /\ UNCHANGED now

\* The two bulk updates close what the driver has open, then what the vehicle
\* has.  Each selects its rows when it starts: a row committed later escapes it.
TxScan(q) ==
    /\ \/ /\ req[q].pc = "scanDriver"
          /\ req' = [req EXCEPT ![q].pc = "closeDriver", ![q].want =
                       {i \in OpenRows(rows) : rows[i].driver = req[q].driver}]
       \/ /\ req[q].pc = "scanVehicle"
          /\ req' = [req EXCEPT ![q].pc = "closeVehicle", ![q].want =
                       {i \in OpenRows(rows) \ req[q].closing :
                           rows[i].vehicle = req[q].vehicle}]
    /\ UNCHANGED <<now, rows>>

\* ... waits for those another transaction holds, and closes the ones that are
\* still open by then.
TxClose(q) ==
    /\ req[q].pc \in Closing
    /\ req[q].want \cap LockedByOthers(q) = {}
    /\ req' = [req EXCEPT
                  ![q].pc = IF @ = "closeDriver" THEN "scanVehicle" ELSE "insert",
                  ![q].want = {},
                  ![q].closing = @ \cup (req[q].want \cap OpenRows(rows))]
    /\ UNCHANGED <<now, rows>>

\* The table as this transaction sees it after its own updates.
AfterClosing(q) == CloseAll(rows, req[q].closing, req[q].at)

\* Mutant of Conflicts: there is no unique index on the open row of a driver.
ConflictsByVehicle(q) ==
    {i \in OpenRows(AfterClosing(q)) : rows[i].vehicle = req[q].vehicle}

\* The open rows, committed meanwhile, that the unique indexes hold against q.
Conflicts(q) ==
    OpenTouching(AfterClosing(q), req[q].driver, req[q].vehicle)

\* The insert, accepted by the indexes; the transaction commits all it wrote.
TxInsert(q) ==
    /\ req[q].pc = "insert"
    /\ Conflicts(q) = {}
    /\ \E i \in RowIds \ Stored(rows) :
          rows' = [AfterClosing(q) EXCEPT ![i] =
                     [driver |-> req[q].driver, vehicle |-> req[q].vehicle,
                      start |-> req[q].at, end |-> Null]]
    /\ req' = [req EXCEPT ![q].closing = {}, ![q].pc = "reply"]
    /\ UNCHANGED now

\* Mutant of RollBack: the rows stay locked.
RollBackKeepingRows(q, pc) ==
    /\ req' = [req EXCEPT ![q].want = {}, ![q].pc = pc]
    /\ UNCHANGED <<now, rows>>

RollBack(q, pc) ==
    /\ req' = [req EXCEPT ![q].want = {}, ![q].closing = {}, ![q].pc = pc]
    /\ UNCHANGED <<now, rows>>

\* The indexes refuse the insert.  (While another transaction is closing the row
\* in the way the insert waits for its outcome.)
TxReject(q) ==
    /\ req[q].pc = "insert"
    /\ \E i \in Conflicts(q) : i \notin LockedByOthers(q)
    /\ RollBack(q, "rejected")

\* The rows a transaction cannot go on without.
Needs(q) ==
    CASE req[q].pc \in Closing -> req[q].want
      [] req[q].pc = "insert"  -> Conflicts(q)
      [] req[q].pc = "end"     -> {req[q].found}
      [] OTHER                 -> {}

\* Transactions that wait for one another: the database picks one and rolls it
\* back.
TxDeadlock(q) ==
    /\ \E cycle \in SUBSET Requests :
          /\ q \in cycle
          /\ \A p \in cycle : \E o \in cycle \ {p} :
                Needs(p) \cap req[o].closing # {}
    /\ RollBack(q, "rejected")

\* The connection or the process's patience fails: the transaction rolls back.
TxAbort(q) ==
    /\ req[q].pc \in {"read", "insert", "end"} \cup Closing \cup Scanning
    /\ RollBack(q, "failed")

\* Mutant of Reply: an error is thrown where nothing turns it into an answer.
ReplyToSuccessOnly(q) ==
    /\ req[q].pc = "reply"
    /\ req' = [req EXCEPT ![q] = NoRequest]
    /\ UNCHANGED <<now, rows>>

Reply(q) ==
    /\ req[q].pc \in {"reply", "rejected", "failed"}
    /\ req' = [req EXCEPT ![q] = NoRequest]
    /\ UNCHANGED <<now, rows>>

Tick ==
    /\ now < MaxTime
    /\ now' = now + 1
    /\ UNCHANGED <<rows, req>>

------------------------------------------------------------------------------
Init ==
    /\ now = 1
    /\ rows = [i \in RowIds |-> None]
    /\ req = [q \in Requests |-> NoRequest]

Serve(q) ==
    \/ TxRead(q) \/ TxEnd(q) \/ TxScan(q) \/ TxClose(q) \/ TxInsert(q)
    \/ TxReject(q) \/ TxDeadlock(q) \/ TxAbort(q) \/ Reply(q)

Next ==
    \/ Tick
    \/ \E q \in Requests, d \in Drivers :
          \/ \E v \in Vehicles :
                \/ \E at \in Times : Toggle(q, d, v, at)
                \/ StartAssignment(q, d, v)
          \/ EndAssignment(q, d)
    \/ \E q \in Requests : Serve(q)

Spec == Init /\ [][Next]_vars

\* The event loop keeps running a handler whose statement can run, the database
\* queues the transactions that wait for a row (so one that can run again and
\* again is let through) and breaks every deadlock.  Nothing forces a client, a
\* clock tick or a failure.
Fairness ==
    /\ \A q \in Requests :
          /\ WF_vars(TxRead(q) \/ TxScan(q) \/ Reply(q))
          /\ SF_vars(TxEnd(q) \/ TxClose(q) \/ TxInsert(q) \/ TxReject(q))
    /\ WF_vars(\E q \in Requests : TxDeadlock(q))

------------------------------------------------------------------------------
(* Properties.                                                             *)

\* Every variable has the shape the code gives it; a request names the pair its
\* operation needs, the row an end will write exists, and only a transaction
\* between its first update and its insert holds rows.
RequestOK(r) ==
    /\ r.pc # "idle" =>
          /\ r.driver \in Drivers
          /\ r.op # "end" => r.vehicle \in Vehicles
    /\ r.pc \in {"insert"} \cup Closing \cup Scanning => r.op # "end"
    /\ r.pc = "end" => r.found \in Stored(rows)
    /\ r.pc \notin {"insert", "scanVehicle", "closeVehicle"} => r.closing = {}

TypeOK ==
    /\ now \in Nat
    /\ rows \in [RowIds -> Row \cup {None}]
    /\ req \in [Requests -> Request]
    /\ \A q \in Requests : RequestOK(req[q])

\* No interleaving of toggles, starts and ends leaves a driver with two open
\* assignments, or a vehicle with two (driver-vehicle-assignment.entity.ts).
OneOpenPerDriver ==
    \A i, j \in OpenRows(rows) : rows[i].driver = rows[j].driver => i = j
OneOpenPerVehicle ==
    \A i, j \in OpenRows(rows) : rows[i].vehicle = rows[j].vehicle => i = j

\* A closed row always spans at least a second: the check constraint can never
\* refuse an end, even one a client dated before the start.
EndsAfterStart ==
    \A i \in Stored(rows) : rows[i].end # Null => rows[i].end > rows[i].start

\* A transaction closes only rows that are still open and touch its pair, and
\* no two transactions are closing the same row.
ClosingIsExclusive ==
    \A q \in Requests :
        /\ req[q].closing \subseteq
               OpenTouching(rows, req[q].driver, req[q].vehicle)
        /\ req[q].closing \cap LockedByOthers(q) = {}

\* History is append-only: a row never disappears, never changes its pair or its
\* start, and once closed is never open again.
OnlyTheEnd(old, new) == new = [old EXCEPT !.end = new.end]

HistoryKept ==
    [][\A i \in Stored(rows) :
          /\ i \in Stored(rows')
          /\ OnlyTheEnd(rows[i], rows'[i])
          /\ rows[i].end # Null => rows'[i].end # Null]_vars

\* Whatever the interleaving, the open rows behave as the indivisible hand-overs
\* of ExclusivePairing.
Pairing == INSTANCE ExclusivePairing WITH
    paired <- {<<rows[i].driver, rows[i].vehicle>> : i \in OpenRows(rows)}
ImplementsPairing == Pairing!Spec

\* Every request is answered: no wait for a row lasts for ever.
EveryRequestAnswered ==
    \A q \in Requests : (~Idle(q)) ~> Idle(q)
=============================================================================
