------------------------ MODULE TemporaryAssignments ------------------------
(***************************************************************************)
(* A vehicle lent out under other settings for a while                     *)
(* (TemporaryAssignmentsService).  createAndApply() saves a snapshot of    *)
(* the settings and applies a profile; cancelAndRestore(), or the sweep    *)
(* that runs every minute once the time is over, applies the snapshot.     *)
(*                                                                         *)
(* The settings are read and written through the program's own HTTP API,   *)
(* one call per step.  The calls carry no token: those to /vehicles and    *)
(* /routes are answered 401, change nothing and are read as nothing, so    *)
(* the geofence, whose controller has no guard, is all there is to model.  *)
(* An answer with an error status is not an exception: only a call that is *)
(* lost (no connection, no answer in 10 s) is one.                         *)
(***************************************************************************)
EXTENDS Integers, FiniteSets

CONSTANTS
    Vehicles,
    Fences,        \* geofence configurations
    RecIds,        \* rows there is room for: a bound
    Calls,         \* requests that may be in flight together
    Sweeps,        \* sweeps that may overlap: @Interval does not wait
    MaxTime,       \* bounds the clock
    MaxFaults,     \* bounds the failures of calls
    MaxCrashes,    \* bounds the restarts of the process
    CreateAlone,   \* TRUE: no create overlaps another request or a sweep
    None,          \* no geofence, no row, no date
    Keep           \* a profile that does not mention the geofence

ASSUME VehiclesAssumption == IsFiniteSet(Vehicles)
ASSUME BoundsAssumption ==
    /\ MaxTime \in Nat /\ MaxFaults \in Nat /\ MaxCrashes \in Nat
    /\ CreateAlone \in BOOLEAN
ASSUME TasksAssumption == Calls \cap Sweeps = {}

VARIABLES
    now,
    geofence,   \* per vehicle: the geofence in force
    own,        \* per vehicle: the geofence its owner had set (history)
    recs,       \* the table temporary_vehicle_assignment
    task,       \* per request or sweep: where it is
    faults,     \* failures so far: calls lost or refused
    crashes,
    torn        \* a crash has cut off the second restore of a row (history)

restarts == <<crashes, torn>>
vars == <<now, geofence, own, recs, task, faults, restarts>>

Times == 0..MaxTime
Fence == Fences \cup {None}
Tasks == Calls \cup Sweeps
Rec == [vehicle : Vehicles, saved : Fence, ends : Times,
        status : {"active", "restored", "cancelled"}]

ASSUME ValuesAssumption ==
    /\ None \notin Fences \cup RecIds \cup Rec
    /\ Keep \notin Fences \cup {None}

\* The vehicles of one request, in order, each named once.
Lists ==
    {l \in UNION {[1..n -> Vehicles] : n \in 1..Cardinality(Vehicles)} :
        \A i, j \in DOMAIN l : i # j => l[i] # l[j]}
NoVehicles == [k \in {} |-> None]

Task == [pc : {"idle", "actives", "pick", "clear", "put", "post", "save", "read",
               "insert"},
         op : {"create", "cancel", "sweep"},
         vids : Lists \cup {NoVehicles},    \* dto.vehicle_ids
         done : Nat,                       \* how many the current loop has done
         queue : SUBSET RecIds,            \* rows still to restore
         rec : RecIds \cup {None},         \* the row at hand
         mode : {"close", "apply", "undo"},
         fence : Fence,                    \* what is being applied
         profile : Fence \cup {Keep},
         ends : Times \cup {None}]
Idle(op) ==
    [pc |-> "idle", op |-> op, vids |-> NoVehicles, done |-> 0, queue |-> {}, rec |-> None,
     mode |-> "close", fence |-> None, profile |-> None, ends |-> None]

\* The vehicle the current loop of a create is at, if it has not run out.
More(t) == task[t].done + 1 \in DOMAIN task[t].vids
This(t) == task[t].vids[task[t].done + 1]

Stored == {i \in RecIds : recs[i] # None}
Active == {i \in Stored : recs[i].status = "active"}
Quiet == \A t \in Tasks : task[t].pc = "idle"
Creating == \E t \in Tasks : task[t].pc # "idle" /\ task[t].op = "create"

\* A restriction of the model, not of the code: see CreateAlone.
MayStart(op) == CreateAlone => IF op = "create" THEN Quiet ELSE ~Creating

Goto(t, pc) == task' = [task EXCEPT ![t].pc = pc]
Return(t) == task' = [task EXCEPT ![t] = Idle(task[t].op)]

------------------------------------------------------------------------------
(* Requests arrive, the interval fires.                                    *)

Create(q, vids, profile, ends) ==
    /\ task[q].pc = "idle" /\ MayStart("create")
    /\ Cardinality(DOMAIN vids) <= Cardinality(RecIds \ Stored)       \* bound
    /\ task' = [task EXCEPT ![q] = [Idle("create") EXCEPT
          !.pc = "actives", !.vids = vids, !.profile = profile, !.ends = ends]]
    /\ UNCHANGED <<now, geofence, own, recs, faults, restarts>>

\* cancelAndRestore() as a request: it looks at its row in Pick.
Cancel(q, i) ==
    /\ task[q].pc = "idle" /\ MayStart("cancel")
    /\ task' = [task EXCEPT ![q] = [Idle("cancel") EXCEPT !.pc = "pick", !.queue = {i}]]
    /\ UNCHANGED <<now, geofence, own, recs, faults, restarts>>

\* Mutant of Expired: a row that ends now is not over.
ExpiredBefore == {i \in Active : recs[i].ends < now}

Expired == {i \in Active : recs[i].ends <= now}

\* tick(): the rows that are over, as they are now.
Sweep(s) ==
    /\ task[s].pc = "idle" /\ MayStart("sweep")
    /\ Expired # {}
    /\ task' = [task EXCEPT ![s] = [Idle("sweep") EXCEPT !.pc = "pick", !.queue = Expired]]
    /\ UNCHANGED <<now, geofence, own, recs, faults, restarts>>

------------------------------------------------------------------------------
(* Rows that are restored: those a create cancels first, the one a cancel  *)
(* names, those a sweep has found.                                         *)

\* Mutant of FindActives: the vehicle's active rows are left as they are.
FindNoActives(q) ==
    /\ task[q].pc = "actives" /\ More(q)
    /\ task' = [task EXCEPT ![q].done = @ + 1]
    /\ UNCHANGED <<now, geofence, own, recs, faults, restarts>>

\* createAndApply() begins by cancelling what is active, vehicle by vehicle.
FindActives(q) ==
    /\ task[q].pc = "actives" /\ More(q)
    /\ task' = [task EXCEPT
          ![q].pc = "pick", ![q].done = @ + 1,
          ![q].queue = {i \in Active : recs[i].vehicle = This(q)}]
    /\ UNCHANGED <<now, geofence, own, recs, faults, restarts>>

\* The dates are looked at after that: a bad one ends the request.
Dates(q) ==
    /\ task[q].pc = "actives" /\ ~More(q)
    /\ IF task[q].ends = None
       THEN Return(q)
       ELSE task' = [task EXCEPT ![q].pc = "read", ![q].done = 0]
    /\ UNCHANGED <<now, geofence, own, recs, faults, restarts>>

\* Mutant of Pick: the row is marked as restored without restoring.
PickAndMark(t, i) ==
    /\ task[t].pc = "pick" /\ i \in task[t].queue
    /\ task' = [task EXCEPT ![t].queue = @ \ {i}, ![t].rec = i,
                            ![t].pc = IF i \in Active THEN "save" ELSE "pick"]
    /\ UNCHANGED <<now, geofence, own, recs, faults, restarts>>

\* cancelAndRestore() reads the row and leaves a closed one alone; a sweep goes
\* by the list it has.
Pick(t, i) ==
    /\ task[t].pc = "pick" /\ i \in task[t].queue
    /\ IF task[t].op = "sweep" \/ i \in Active
       THEN task' = [task EXCEPT
               ![t].queue = @ \ {i}, ![t].rec = i, ![t].pc = "clear",
               ![t].mode = "close", ![t].fence = recs[i].saved]
       ELSE task' = [task EXCEPT ![t].queue = @ \ {i}]
    /\ UNCHANGED <<now, geofence, own, recs, faults, restarts>>

Picked(t) ==
    /\ task[t].pc = "pick" /\ task[t].queue = {}
    /\ IF task[t].op = "create" THEN Goto(t, "actives") ELSE Return(t)
    /\ UNCHANGED <<now, geofence, own, recs, faults, restarts>>

------------------------------------------------------------------------------
(* Settings of the row at hand: clearVehicleSettings(), then               *)
(* applySnapshotExactly(), with an end for each of their callers.          *)

\* What was asked for has been sent, and no call has thrown.
Sent(t) ==
    IF task[t].mode # "apply"
    THEN Goto(t, "save")
    ELSE IF task[t].done + 2 \in DOMAIN task[t].vids
         THEN task' = [task EXCEPT ![t].pc = "read", ![t].done = @ + 1]
         ELSE Return(t)

\* A call has thrown.  A failed profile is undone; a failed undo is swallowed; a
\* sweep turns to its next row; any other request fails.
Thrown(t) ==
    /\ \/ /\ task[t].mode = "apply"
          /\ task' = [task EXCEPT ![t].pc = "clear", ![t].mode = "undo",
                                  ![t].fence = recs[task[t].rec].saved]
       \/ task[t].mode = "undo" /\ Goto(t, "save")
       \/ task[t].mode = "close" /\ IF task[t].op = "sweep" THEN Goto(t, "pick")
                                                         ELSE Return(t)
    /\ UNCHANGED recs

Of(t) == recs[task[t].rec].vehicle
Deliver(t, f) == geofence' = [geofence EXCEPT ![Of(t)] = f]
Fault == faults < MaxFaults /\ faults' = faults + 1
NoFault == UNCHANGED faults

\* DELETE: a failure of any kind is swallowed.
Clear(t) ==
    /\ task[t].pc = "clear"
    /\ \/ Deliver(t, None) /\ NoFault
       \/ UNCHANGED geofence /\ Fault
    /\ IF task[t].fence = None THEN Sent(t) ELSE Goto(t, "put")
    /\ UNCHANGED <<now, own, recs, restarts>>

\* PUT: an error status goes unnoticed; a call that is lost, having arrived or
\* not, is followed by a POST.
Put(t) ==
    /\ task[t].pc = "put"
    /\ \/ Deliver(t, task[t].fence) /\ NoFault /\ Sent(t)
       \/ UNCHANGED geofence /\ Fault /\ Sent(t)
       \/ Deliver(t, task[t].fence) /\ Fault /\ Goto(t, "post")
       \/ UNCHANGED geofence /\ Fault /\ Goto(t, "post")
    /\ UNCHANGED <<now, own, recs, restarts>>

\* POST is validated: a snapshot, which has the row's id and dates, is answered
\* 400, and that goes unnoticed too.  What lost the PUT may lose the POST as well.
Valid(t) == task[t].mode = "apply" /\ task[t].profile # Keep

Post(t) ==
    /\ task[t].pc = "post"
    /\ \/ Valid(t) /\ Deliver(t, task[t].fence) /\ NoFault /\ Sent(t) /\ UNCHANGED recs
       \/ ~Valid(t) /\ UNCHANGED geofence /\ NoFault /\ Sent(t) /\ UNCHANGED recs
       \/ UNCHANGED geofence /\ NoFault /\ Thrown(t)
    /\ UNCHANGED <<now, own, restarts>>

\* save(): the row is closed whatever it has become; a create that had to undo
\* its profile then throws.
Save(t) ==
    /\ task[t].pc = "save"
    /\ recs' = [recs EXCEPT ![task[t].rec].status =
                   IF task[t].mode = "undo" THEN "cancelled" ELSE "restored"]
    /\ IF task[t].mode = "undo" THEN Return(t) ELSE Goto(t, "pick")
    /\ UNCHANGED <<now, geofence, own, faults, restarts>>

------------------------------------------------------------------------------
(* A profile is applied.                                                   *)

\* GET: a call that fails is read as no geofence.
Read(q) ==
    /\ task[q].pc = "read"
    /\ \/ task' = [task EXCEPT ![q].pc = "insert",
                               ![q].fence = geofence[This(q)]] /\ NoFault
       \/ task' = [task EXCEPT ![q].pc = "insert", ![q].fence = None] /\ Fault
    /\ UNCHANGED <<now, geofence, own, recs, restarts>>

\* Mutant of Insert: the row is not given back to the request.
InsertUnread(q, i) ==
    /\ task[q].pc = "insert" /\ i \notin Stored
    /\ recs' = [recs EXCEPT ![i] =
          [vehicle |-> This(q), saved |-> task[q].fence,
           ends |-> task[q].ends, status |-> "active"]]
    /\ task' = [task EXCEPT ![q].pc = "clear", ![q].mode = "apply",
          ![q].fence = IF task[q].profile = Keep THEN @ ELSE task[q].profile]
    /\ UNCHANGED <<now, geofence, own, faults, restarts>>

\* The row, with the snapshot; then the profile, or the snapshot where it is silent.
Insert(q, i) ==
    /\ task[q].pc = "insert" /\ i \notin Stored
    /\ recs' = [recs EXCEPT ![i] =
          [vehicle |-> This(q), saved |-> task[q].fence,
           ends |-> task[q].ends, status |-> "active"]]
    /\ task' = [task EXCEPT ![q].pc = "clear", ![q].rec = i, ![q].mode = "apply",
          ![q].fence = IF task[q].profile = Keep THEN @ ELSE task[q].profile]
    /\ UNCHANGED <<now, geofence, own, faults, restarts>>

------------------------------------------------------------------------------
\* The process dies and starts again: the rows and the geofences stay.
Crash ==
    /\ crashes < MaxCrashes /\ ~Quiet
    /\ crashes' = crashes + 1
    /\ torn' = (torn \/ \E t \in Tasks :
                           task[t].pc \in {"put", "post"} /\ task[t].rec \notin Active)
    /\ task' = [t \in Tasks |-> Idle(task[t].op)]
    /\ UNCHANGED <<now, geofence, own, recs, faults>>

Tick ==
    /\ now < MaxTime
    /\ now' = now + 1
    /\ UNCHANGED <<geofence, own, recs, task, faults, restarts>>

Init ==
    /\ now = 0
    /\ own \in [Vehicles -> Fence]
    /\ geofence = own
    /\ recs = [i \in RecIds |-> None]
    /\ task = [t \in Tasks |-> Idle(IF t \in Sweeps THEN "sweep" ELSE "cancel")]
    /\ faults = 0
    /\ crashes = 0
    /\ torn = FALSE

\* The steps of a task that is under way.
Step(t) ==
    \/ FindActives(t) \/ Dates(t) \/ Picked(t) \/ Clear(t) \/ Put(t) \/ Post(t)
    \/ Save(t) \/ Read(t)
    \/ \E i \in RecIds : Pick(t, i) \/ Insert(t, i)

Next ==
    \/ Tick
    \/ Crash
    \/ \E s \in Sweeps : Sweep(s)
    \/ \E q \in Calls :
          \/ \E vids \in Lists, p \in Fence \cup {Keep}, e \in Times \cup {None} :
                Create(q, vids, p, e)
          \/ \E i \in Stored : Cancel(q, i)
    \/ \E t \in Tasks : Step(t)

Spec == Init /\ [][Next]_vars

\* The event loop runs every task on (a call answers or times out in 10 s), time
\* passes, and the interval fires whatever requests come and go.
Fairness ==
    /\ WF_vars(Tick)
    /\ \A t \in Tasks : WF_vars(Step(t))
    /\ \A s \in Sweeps : SF_vars(Sweep(s))
FairSpec == Spec /\ Fairness

------------------------------------------------------------------------------
(* Properties.                                                             *)

TypeOK ==
    /\ now \in Times /\ faults \in 0..MaxFaults /\ crashes \in 0..MaxCrashes
    /\ torn \in BOOLEAN
    /\ geofence \in [Vehicles -> Fence] /\ own \in [Vehicles -> Fence]
    /\ recs \in [RecIds -> Rec \cup {None}]
    /\ task \in [Tasks -> Task]
    /\ \A t \in Tasks :
          /\ task[t].pc \in {"clear", "put", "post", "save"} => task[t].rec \in Stored
          /\ task[t].pc \in {"read", "insert"} => More(t)
          /\ task[t].pc \in {"read", "insert"} \/ task[t].mode = "apply"
             => task[t].ends # None
          /\ task[t].queue \subseteq Stored
          /\ \/ task[t].pc \in {"actives", "read", "insert"}
             \/ task[t].mode # "close"
             => task[t].op = "create"
          /\ task[t].op = "create" /\ task[t].pc # "idle" => task[t].vids \in Lists

\* temporary-assignments.service.ts:499, "no parallel active": a vehicle is lent
\* out once at a time.  It holds as long as no create overlaps anything else.
OneActivePerVehicle ==
    \A i, j \in Active : recs[i].vehicle = recs[j].vehicle => i = j

\* When nothing is lent out and nothing is under way, every vehicle has its
\* owner's geofence back, however sweeps and cancels overlapped and wherever the
\* process died; unless a call had failed, or the process died when a task had
\* deleted the geofence to restore a row that another had restored and closed.
OriginalComesBack ==
    Quiet /\ Active = {} /\ faults = 0 /\ ~torn => geofence = own

\* A row that is closed stays closed and keeps its snapshot.
ClosedStaysClosed ==
    [][\A i \in Stored :
          /\ recs[i].status # "active" => recs'[i].status # "active"
          /\ recs'[i] = [recs[i] EXCEPT !.status = recs'[i].status]]_vars

\* Every lending ends: neither a lost call nor a crash leaves a row active for ever.
EveryAssignmentEnds ==
    \A i \in RecIds : (i \in Active) ~> (i \notin Active)
=============================================================================
