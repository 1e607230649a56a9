-------------------- MODULE TemporaryAssignments_proofs --------------------
(***************************************************************************)
(* The safety properties of TemporaryAssignments for any number of         *)
(* vehicles, rows, requests and sweeps: types and the life of a row hold   *)
(* whatever overlaps, the last two theorems where creates do not.          *)
(***************************************************************************)
EXTENDS TemporaryAssignments, FiniteSetTheorems, TLAPS

Working == {"clear", "put", "post", "save"}
PCs == {"idle", "actives", "pick", "read", "insert"} \cup Working
Ops == {"create", "cancel", "sweep"}
Modes == {"close", "apply", "undo"}

\* What TypeOK says of one task.
TaskOK(t) ==
    /\ task[t].pc \in Working => task[t].rec \in Stored
    /\ task[t].pc \in {"read", "insert"} => More(t)
    /\ task[t].pc \in {"read", "insert"} \/ task[t].mode = "apply"
       => task[t].ends # None
    /\ task[t].queue \subseteq Stored
    /\ \/ task[t].pc \in {"actives", "read", "insert"}
       \/ task[t].mode # "close"
       => task[t].op = "create"
    /\ task[t].op = "create" /\ task[t].pc # "idle" => task[t].vids \in Lists

Tables ==
    /\ now \in Times /\ faults \in 0..MaxFaults /\ crashes \in 0..MaxCrashes
    /\ torn \in BOOLEAN
    /\ geofence \in [Vehicles -> Fence] /\ own \in [Vehicles -> Fence]
    /\ recs \in [RecIds -> Rec \cup {None}]
TasksOK == task \in [Tasks -> Task] /\ \A t \in Tasks : TaskOK(t)

\* TypeOK in three parts.
LEMMA Split == TypeOK <=> Tables /\ TasksOK
BY DEF TypeOK, Tables, TasksOK, TaskOK, Working

\* The same of the next state.
LEMMA SplitNext == TypeOK' <=> Tables' /\ TasksOK'
BY DEF TypeOK, Tables, TasksOK, TaskOK, Working

\* The fields of a task, one by one.
LEMMA Fields ==
    ASSUME NEW x
    PROVE  x \in Task <=>
             /\ x = [pc |-> x.pc, op |-> x.op, vids |-> x.vids, done |-> x.done,
                     queue |-> x.queue, rec |-> x.rec, mode |-> x.mode,
                     fence |-> x.fence, profile |-> x.profile, ends |-> x.ends]
             /\ x.pc \in PCs /\ x.op \in Ops /\ x.vids \in Lists \cup {NoVehicles} /\ x.done \in Nat
             /\ x.queue \in SUBSET RecIds /\ x.rec \in RecIds \cup {None}
             /\ x.mode \in Modes /\ x.fence \in Fence
             /\ x.profile \in Fence \cup {Keep} /\ x.ends \in Times \cup {None}
BY DEF Task, PCs, Ops, Modes, Working

\* A task that changes nothing but where it is.
LEMMA Goes ==
    ASSUME TasksOK, NEW t \in Tasks, NEW pc \in PCs, Goto(t, pc)
    PROVE  /\ task' \in [Tasks -> Task]
           /\ \A u \in Tasks : u # t => task'[u] = task[u]
           /\ task'[t].pc = pc /\ task'[t].op = task[t].op
           /\ task'[t].vids = task[t].vids /\ task'[t].done = task[t].done
           /\ task'[t].queue = task[t].queue /\ task'[t].rec = task[t].rec
           /\ task'[t].mode = task[t].mode /\ task'[t].fence = task[t].fence
           /\ task'[t].profile = task[t].profile /\ task'[t].ends = task[t].ends
BY SMTT(20) DEF TasksOK, Goto, Task, PCs, Working

\* A task that is not under way is well formed.
LEMMA Idles == ASSUME NEW op \in Ops PROVE Idle(op) \in Task
BY DEF Idle, Task, Ops, Fence

\* A request that returns.
LEMMA Returns ==
    ASSUME TasksOK, NEW t \in Tasks, Return(t)
    PROVE  /\ task' \in [Tasks -> Task]
           /\ \A u \in Tasks : u # t => task'[u] = task[u]
           /\ task'[t].pc = "idle" /\ task'[t].op = task[t].op
           /\ task'[t].mode = "close" /\ task'[t].queue = {}
<1>1. task[t].op \in Ops
  BY DEF TasksOK, Task, Ops
<1>2. Idle(task[t].op) \in Task
  BY <1>1, Idles
<1> QED BY <1>2 DEF TasksOK, Return, Idle

------------------------------------------------------------------------------
(* Types.                                                                  *)

\* It is enough to look at the task that moves, if no row disappears.
LEMMA OneMoves ==
    ASSUME TasksOK, NEW t \in Tasks, task' \in [Tasks -> Task],
           \A u \in Tasks : u # t => task'[u] = task[u],
           Stored \subseteq Stored', TaskOK(t)'
    PROVE  TasksOK'
<1>1. ASSUME NEW u \in Tasks, u # t PROVE TaskOK(u)'
  <2>1. TaskOK(u) /\ task'[u] = task[u]
    BY <1>1 DEF TasksOK
  <2> QED BY <2>1 DEF TaskOK, More
<1> QED BY <1>1 DEF TasksOK

\* A task that goes on to somewhere its fields allow, or returns.
LEMMA GoesOK ==
    ASSUME TasksOK, NEW t \in Tasks, NEW pc \in PCs, Goto(t, pc), Stored \subseteq Stored',
           pc \in Working => task[t].pc \in Working,
           pc \notin {"read", "insert"}, pc = "actives" => task[t].op = "create",
           task[t].pc # "idle"
    PROVE  TasksOK'
<1>1. /\ task'[t].pc = pc /\ task'[t].op = task[t].op /\ task'[t].vids = task[t].vids
      /\ task'[t].rec = task[t].rec /\ task'[t].mode = task[t].mode
      /\ task'[t].ends = task[t].ends /\ task'[t].queue = task[t].queue
  BY Goes
<1>2. TaskOK(t)
  BY DEF TasksOK
<1>3. pc \in Working => task'[t].rec \in Stored'
  BY <1>1, <1>2 DEF TaskOK
<1>4. pc = "actives" \/ task'[t].mode # "close" => task[t].op = "create"
  BY <1>1, <1>2 DEF TaskOK
<1>5. TaskOK(t)'
  BY <1>1, <1>2, <1>3, <1>4 DEF TaskOK
<1> QED BY <1>5, Goes, OneMoves

\* A task that returns is well formed.
LEMMA ReturnsOK ==
    ASSUME TasksOK, NEW t \in Tasks, Return(t), Stored \subseteq Stored' PROVE TasksOK'
<1>1. TaskOK(t)'
  BY Returns DEF TaskOK, Working
<1> QED BY <1>1, Returns, OneMoves

\* The task's new record, when only some of its fields change.
LEMMA Becomes ==
    ASSUME TasksOK, NEW t \in Tasks, NEW x \in Task, task' = [task EXCEPT ![t] = x],
           Stored \subseteq Stored',
           x.pc \in Working => x.rec \in Stored',
           x.pc \in {"read", "insert"} => x.done + 1 \in DOMAIN x.vids,
           x.pc \in {"read", "insert"} \/ x.mode = "apply" => x.ends # None,
           x.queue \subseteq Stored',
           x.pc \in {"actives", "read", "insert"} \/ x.mode # "close" => x.op = "create",
           x.op = "create" /\ x.pc # "idle" => x.vids \in Lists
    PROVE  TasksOK'
<1>1. /\ task' \in [Tasks -> Task] /\ task'[t] = x
      /\ \A u \in Tasks : u # t => task'[u] = task[u]
  BY DEF TasksOK
<1>2. TaskOK(t)'
  BY <1>1 DEF TaskOK, More
<1> QED BY <1>1, <1>2, OneMoves

\* A call that is sent, or whose answer has come, leaves its task well formed.
LEMMA SentOK ==
    ASSUME TasksOK, NEW t \in Tasks, task[t].pc \in Working, Sent(t), recs' = recs
    PROVE  TasksOK'
<1>0. Stored \subseteq Stored'
  BY DEF Stored
<1>1. CASE task[t].mode # "apply"
  <2>1. Goto(t, "save") /\ task[t].pc # "idle"
    BY <1>1 DEF Sent, Working
  <2> QED BY <1>0, <2>1, GoesOK DEF PCs, Working
<1>2. CASE task[t].mode = "apply" /\ ~ (task[t].done + 2 \in DOMAIN task[t].vids)
  <2>1. Return(t)
    BY <1>2 DEF Sent
  <2> QED BY <1>0, <2>1, ReturnsOK
<1>3. CASE task[t].mode = "apply" /\ task[t].done + 2 \in DOMAIN task[t].vids
  <2> DEFINE x == [task[t] EXCEPT !.pc = "read", !.done = task[t].done + 1]
  <2>1. task[t] \in Task /\ task[t].done \in Nat
    BY DEF TasksOK, Task
  <2>2. task' = [task EXCEPT ![t] = x]
    BY <1>3, <2>1 DEF Sent, TasksOK
  <2>3. /\ x \in Task /\ x.pc = "read" /\ x.done = task[t].done + 1
        /\ x.vids = task[t].vids /\ x.op = task[t].op /\ x.mode = task[t].mode
        /\ x.ends = task[t].ends /\ x.queue = task[t].queue
    <3>1. DOMAIN task[t] = {"pc", "op", "vids", "done", "queue", "rec", "mode", "fence",
                            "profile", "ends"}
      BY <2>1 DEF Task
    <3>2. /\ x.pc = "read" /\ x.done = task[t].done + 1
          /\ x.vids = task[t].vids /\ x.op = task[t].op /\ x.mode = task[t].mode
          /\ x.ends = task[t].ends /\ x.queue = task[t].queue
      BY <3>1
    <3>3. task[t].done + 1 \in Nat /\ x = [task[t] EXCEPT !.pc = "read", !.done = x.done]
      BY <2>1, <3>2
    <3>4. x \in Task
      <4> HIDE DEF x
      <4> QED BY <2>1, <3>2, <3>3 DEF Task
    <3> QED BY <3>2, <3>4
  <2>4. /\ task[t].op = "create" /\ task[t].pc # "idle" /\ task[t].vids \in Lists
        /\ task[t].ends # None /\ task[t].queue \subseteq Stored
    BY <1>3 DEF TasksOK, TaskOK, Working
  <2>5. x.done + 1 \in DOMAIN x.vids
    BY <1>3, <2>1, <2>3
  <2> HIDE DEF x
  <2> QED BY <1>0, <2>2, <2>3, <2>4, <2>5, Becomes DEF Working
<1> QED BY <1>1, <1>2, <1>3

\* So does a call that throws.
LEMMA ThrownOK ==
    ASSUME Tables, TasksOK, NEW t \in Tasks, task[t].pc \in Working, Thrown(t)
    PROVE  TasksOK'
<1>0. Stored \subseteq Stored' /\ task[t].pc # "idle"
  BY DEF Stored, Thrown, Working
<1>1. CASE /\ task[t].mode = "apply"
           /\ task' = [task EXCEPT ![t].pc = "clear", ![t].mode = "undo",
                                   ![t].fence = recs[task[t].rec].saved]
  <2> DEFINE x == [task[t] EXCEPT !.pc = "clear", !.mode = "undo",
                                  !.fence = recs[task[t].rec].saved]
  <2>1. recs[task[t].rec].saved \in Fence /\ task[t].rec \in Stored
    BY DEF TasksOK, TaskOK, Stored, Tables, Rec
  <2>2. task[t] \in Task
    BY DEF TasksOK
  <2>3. task' = [task EXCEPT ![t] = x]
    BY <1>1, <2>2 DEF TasksOK, Task
  <2>4. /\ x \in Task /\ x.pc = "clear" /\ x.rec = task[t].rec /\ x.op = task[t].op
        /\ x.vids = task[t].vids /\ x.mode = "undo" /\ x.queue = task[t].queue
    BY <2>1, <2>2 DEF Task
  <2>5. task[t].op = "create" /\ task[t].vids \in Lists /\ task[t].queue \subseteq Stored
    BY <1>0, <1>1 DEF TasksOK, TaskOK
  <2> HIDE DEF x
  <2> QED BY <1>0, <2>1, <2>3, <2>4, <2>5, Becomes
<1>2. CASE Goto(t, "save") \/ Goto(t, "pick") \/ Return(t)
  BY <1>0, <1>2, GoesOK, ReturnsOK DEF PCs, Working
<1> QED BY <1>1, <1>2 DEF Thrown

\* Delivering a geofence, or not, keeps the tables.
LEMMA Delivered ==
    ASSUME Tables, TasksOK, NEW t \in Tasks, task[t].pc \in Working,
           NEW f \in Fence, Deliver(t, f)
    PROVE  geofence' \in [Vehicles -> Fence] /\ Of(t) \in Vehicles
<1>1. Of(t) \in Vehicles
  BY DEF TasksOK, TaskOK, Tables, Stored, Of, Rec
<1> QED BY <1>1 DEF Deliver, Tables

\* A failure is counted up to its bound.
LEMMA FaultTypes ==
    ASSUME Tables, Fault \/ NoFault PROVE faults' \in 0..MaxFaults
BY BoundsAssumption DEF Tables, Fault, NoFault

\* A list of vehicles is not empty.
LEMMA ListsStart == ASSUME NEW l \in Lists PROVE 1 \in DOMAIN l
<1>1. Cardinality(Vehicles) \in Nat
  BY VehiclesAssumption, FS_CardinalityType
<1>2. PICK n \in 1..Cardinality(Vehicles) : l \in [1..n -> Vehicles]
  BY DEF Lists
<1> QED BY <1>1, <1>2

\* A row whose status changes is still a row.
LEMMA Closes ==
    ASSUME Tables, NEW i \in Stored, NEW st \in {"active", "restored", "cancelled"},
           recs' = [recs EXCEPT ![i].status = st]
    PROVE  /\ recs' \in [RecIds -> Rec \cup {None}]
           /\ recs'[i] = [recs[i] EXCEPT !.status = st]
           /\ recs'[i] \in Rec /\ recs'[i].status = st
           /\ recs'[i].vehicle = recs[i].vehicle /\ recs'[i].saved = recs[i].saved
           /\ \A j \in RecIds : j # i => recs'[j] = recs[j]
           /\ Stored' = Stored
<1>1. i \in RecIds /\ recs[i] \in Rec
  BY DEF Stored, Tables
<1>2. /\ recs'[i] = [recs[i] EXCEPT !.status = st]
      /\ \A j \in RecIds : j # i => recs'[j] = recs[j]
  BY <1>1 DEF Tables
<1>3. /\ recs'[i] \in Rec /\ recs'[i].status = st
      /\ recs'[i].vehicle = recs[i].vehicle /\ recs'[i].saved = recs[i].saved
  BY <1>1, <1>2 DEF Rec
<1>4. recs' \in [RecIds -> Rec \cup {None}]
  BY <1>1, <1>3 DEF Tables
<1>5. recs'[i] # None /\ recs[i] # None
  BY <1>1, <1>3, ValuesAssumption
<1> QED BY <1>1, <1>2, <1>3, <1>4, <1>5 DEF Stored

\* A step of a task keeps the types.
LEMMA StepTypes == ASSUME Tables, TasksOK, NEW t \in Tasks, Step(t) PROVE Tables' /\ TasksOK'
<1>a. /\ task[t] \in Task /\ None \in Fence /\ task[t].fence \in Fence
      /\ task[t].done \in Nat /\ TaskOK(t) /\ task \in [Tasks -> Task]
  BY DEF TasksOK, Task, Fence
<1>b. recs' = recs => Stored \subseteq Stored'
  BY DEF Stored
<1>1. CASE FindActives(t)
  <2> DEFINE Q == {i \in Active : recs[i].vehicle = This(t)}
             x == [task[t] EXCEPT !.pc = "pick", !.done = task[t].done + 1, !.queue = Q]
  <2>1. Q \in SUBSET RecIds /\ task[t].done + 1 \in Nat
    BY <1>a DEF Active, Stored
  <2> HIDE DEF Q
  <2>2. /\ x \in Task /\ x.pc = "pick" /\ x.op = task[t].op /\ x.vids = task[t].vids
        /\ x.mode = task[t].mode /\ x.ends = task[t].ends /\ x.queue = Q
    BY <1>a, <2>1 DEF Task
  <2>3. task' = [task EXCEPT ![t] = x]
    BY <1>1, <1>a DEF FindActives, Q
  <2>4. /\ task[t].op = "create" /\ task[t].vids \in Lists /\ Q \subseteq Stored
        /\ task[t].mode = "apply" => task[t].ends # None
    BY <1>1, <1>a DEF FindActives, TaskOK, Q, Active
  <2>5. Tables' /\ recs' = recs
    BY <1>1 DEF FindActives, Tables, restarts
  <2> HIDE DEF x
  <2> QED BY <1>b, <2>2, <2>3, <2>4, <2>5, Becomes DEF Working
<1>2. CASE Dates(t)
  <2>1. Tables' /\ recs' = recs
    BY <1>2 DEF Dates, Tables, restarts
  <2>2. CASE task[t].ends = None
    BY <1>2, <1>b, <2>1, <2>2, ReturnsOK DEF Dates
  <2>3. CASE task[t].ends # None
    <3> DEFINE x == [task[t] EXCEPT !.pc = "read", !.done = 0]
    <3>1. /\ x \in Task /\ x.pc = "read" /\ x.done = 0 /\ x.vids = task[t].vids
          /\ x.op = task[t].op /\ x.mode = task[t].mode /\ x.ends = task[t].ends
          /\ x.queue = task[t].queue
      BY <1>a DEF Task
    <3>2. task' = [task EXCEPT ![t] = x]
      BY <1>2, <1>a, <2>3 DEF Dates
    <3>3. /\ task[t].op = "create" /\ task[t].vids \in Lists
          /\ task[t].queue \subseteq Stored
      BY <1>2, <1>a DEF Dates, TaskOK
    <3>4. 1 \in DOMAIN x.vids
      BY <3>1, <3>3, ListsStart
    <3> HIDE DEF x
    <3>5. x.done + 1 \in DOMAIN x.vids
      BY <3>1, <3>4
    <3> QED BY <1>b, <2>1, <2>3, <3>1, <3>2, <3>3, <3>5, Becomes DEF Working
  <2> QED BY <2>2, <2>3
<1>3. CASE Picked(t)
  <2>1. Tables' /\ recs' = recs
    BY <1>3 DEF Picked, Tables, restarts
  <2>2. CASE task[t].op = "create" /\ Goto(t, "actives")
    <3>1. task[t].pc # "idle"
      BY <1>3 DEF Picked
    <3> QED BY <1>b, <2>1, <2>2, <3>1, GoesOK DEF PCs, Working
  <2>3. CASE Return(t)
    BY <1>b, <2>1, <2>3, ReturnsOK
  <2> QED BY <1>3, <2>2, <2>3 DEF Picked
<1>4. CASE Clear(t)
  <2>1. geofence' \in [Vehicles -> Fence] /\ faults' \in 0..MaxFaults
    BY <1>4, <1>a, Delivered, FaultTypes DEF Clear, Tables, Working
  <2>2. recs' = recs /\ task[t].pc = "clear"
    BY <1>4 DEF Clear
  <2>3. TasksOK'
    BY <1>4, <1>b, <2>2, SentOK, GoesOK DEF Clear, PCs, Working
  <2> QED BY <1>4, <2>1, <2>3 DEF Clear, Tables, restarts
<1>5. CASE Put(t)
  <2>1. geofence' \in [Vehicles -> Fence] /\ faults' \in 0..MaxFaults
    BY <1>5, <1>a, Delivered, FaultTypes DEF Put, Tables, Working
  <2>2. recs' = recs /\ task[t].pc = "put"
    BY <1>5 DEF Put
  <2>3. TasksOK'
    BY <1>5, <1>b, <2>2, SentOK, GoesOK DEF Put, PCs, Working
  <2> QED BY <1>5, <2>1, <2>3 DEF Put, Tables, restarts
<1>6. CASE Post(t)
  <2>1. geofence' \in [Vehicles -> Fence] /\ faults' \in 0..MaxFaults
    BY <1>6, <1>a, Delivered, FaultTypes DEF Post, Tables, Working
  <2>2. recs' = recs /\ task[t].pc \in Working
    BY <1>6 DEF Post, Thrown, Working
  <2>3. TasksOK'
    BY <1>6, <2>2, SentOK, ThrownOK DEF Post
  <2> QED BY <1>6, <2>1, <2>2, <2>3 DEF Post, Tables, restarts
<1>7. CASE Save(t)
  <2>1. task[t].rec \in Stored /\ task[t].pc # "idle"
    BY <1>7, <1>a DEF Save, TaskOK, Working
  <2>2. PICK st \in {"active", "cancelled", "restored"} :
            recs' = [recs EXCEPT ![task[t].rec].status = st]
    BY <1>7 DEF Save
  <2>3. recs' \in [RecIds -> Rec \cup {None}] /\ Stored \subseteq Stored'
    BY <2>1, <2>2, Closes
  <2>4. Return(t) \/ Goto(t, "pick")
    BY <1>7 DEF Save
  <2>5. TasksOK'
    BY <2>1, <2>3, <2>4, GoesOK, ReturnsOK DEF PCs, Working
  <2> QED BY <1>7, <2>3, <2>5 DEF Save, Tables, restarts
<1>8. CASE Read(t)
  <2>1. PICK f \in Fence : task' = [task EXCEPT ![t].pc = "insert", ![t].fence = f]
    <3>1. More(t) /\ task[t].vids \in Lists
      BY <1>8, <1>a DEF Read, TaskOK
    <3>2. geofence[This(t)] \in Fence
      BY <3>1 DEF More, This, Lists, Tables
    <3> QED BY <1>8, <1>a, <3>2 DEF Read
  <2> DEFINE x == [task[t] EXCEPT !.pc = "insert", !.fence = f]
  <2>2. task' = [task EXCEPT ![t] = x]
    BY <1>a, <2>1
  <2>3. /\ x \in Task /\ x.pc = "insert" /\ x.done = task[t].done /\ x.op = task[t].op
        /\ x.vids = task[t].vids /\ x.mode = task[t].mode /\ x.ends = task[t].ends
        /\ x.queue = task[t].queue
    BY <1>a DEF Task
  <2>4. /\ task[t].op = "create" /\ task[t].vids \in Lists /\ task[t].ends # None
        /\ task[t].done + 1 \in DOMAIN task[t].vids /\ task[t].queue \subseteq Stored
    BY <1>8, <1>a DEF Read, TaskOK, More
  <2>5. faults' \in 0..MaxFaults /\ recs' = recs
    BY <1>8, FaultTypes DEF Read
  <2> HIDE DEF x
  <2>6. TasksOK'
    BY <1>b, <2>2, <2>3, <2>4, <2>5, Becomes DEF Working
  <2> QED BY <1>8, <2>5, <2>6 DEF Read, Tables, restarts
<1>9. ASSUME NEW i \in RecIds, Pick(t, i) PROVE Tables' /\ TasksOK'
  <2>1. Tables' /\ recs' = recs
    BY <1>9 DEF Pick, Tables, restarts
  <2>2. task[t].queue \ {i} \in SUBSET RecIds
    BY <1>a DEF Task
  <2>3. CASE ~(task[t].op = "sweep" \/ i \in Active)
    <3> DEFINE x == [task[t] EXCEPT !.queue = task[t].queue \ {i}]
    <3>1. task' = [task EXCEPT ![t] = x]
      BY <1>9, <1>a, <2>3 DEF Pick
    <3>2. /\ x \in Task /\ x.pc = "pick" /\ x.op = task[t].op
          /\ x.vids = task[t].vids /\ x.mode = task[t].mode /\ x.ends = task[t].ends
          /\ x.queue = task[t].queue \ {i}
      BY <1>9, <1>a, <2>2 DEF Task, Pick
    <3>3. /\ task[t].mode # "close" => task[t].op = "create"
          /\ task[t].op = "create" => task[t].vids \in Lists
          /\ task[t].mode = "apply" => task[t].ends # None
          /\ task[t].queue \subseteq Stored
      BY <1>9, <1>a DEF Pick, TaskOK
    <3> HIDE DEF x
    <3> QED BY <1>b, <2>1, <3>1, <3>2, <3>3, Becomes DEF Working
  <2>4. CASE task[t].op = "sweep" \/ i \in Active
    <3> DEFINE x == [task[t] EXCEPT !.queue = task[t].queue \ {i}, !.rec = i,
                         !.pc = "clear", !.mode = "close", !.fence = recs[i].saved]
    <3>1. task' = [task EXCEPT ![t] = x]
      BY <1>9, <1>a, <2>4 DEF Pick
    <3>2. i \in Stored /\ task[t].queue \subseteq Stored
      BY <1>9, <1>a DEF Pick, TaskOK
    <3>3. recs[i].saved \in Fence
      BY <3>2 DEF Stored, Tables, Rec
    <3>4. /\ x \in Task /\ x.pc = "clear" /\ x.rec = i /\ x.op = task[t].op
          /\ x.vids = task[t].vids /\ x.mode = "close" /\ x.queue = task[t].queue \ {i}
      BY <1>a, <2>2, <3>3 DEF Task
    <3>5. task[t].op = "create" => task[t].vids \in Lists
      BY <1>9, <1>a DEF Pick, TaskOK
    <3> HIDE DEF x
    <3> QED BY <1>b, <2>1, <3>1, <3>2, <3>4, <3>5, Becomes
  <2> QED BY <2>3, <2>4
<1>10. ASSUME NEW i \in RecIds, Insert(t, i) PROVE Tables' /\ TasksOK'
  <2> DEFINE row == [vehicle |-> This(t), saved |-> task[t].fence,
                     ends |-> task[t].ends, status |-> "active"]
  <2>1. /\ task[t].op = "create" /\ task[t].vids \in Lists /\ task[t].ends # None
        /\ task[t].queue \subseteq Stored /\ i \notin Stored
        /\ task[t].done + 1 \in DOMAIN task[t].vids
    BY <1>10, <1>a DEF Insert, TaskOK, More
  <2>2. This(t) \in Vehicles /\ task[t].ends \in Times
    BY <1>a, <2>1 DEF This, Lists, Task
  <2>3. row \in Rec
    BY <1>a, <2>2 DEF Rec
  <2>4. recs' = [recs EXCEPT ![i] = row]
    BY <1>10 DEF Insert
  <2> HIDE DEF row
  <2>5. row # None
    BY <2>3, ValuesAssumption
  <2>6. recs' \in [RecIds -> Rec \cup {None}] /\ Stored' = Stored \cup {i}
    BY <2>3, <2>4, <2>5 DEF Tables, Stored
  <2>7. PICK f \in Fence : task' = [task EXCEPT ![t].pc = "clear", ![t].rec = i,
                                        ![t].mode = "apply", ![t].fence = f]
    <3>1. CASE task[t].profile = Keep
      BY <1>10, <1>a, <3>1 DEF Insert
    <3>2. CASE task[t].profile # Keep
      <4>1. task[t].profile \in Fence
        BY <1>a, <3>2 DEF Task
      <4> QED BY <1>10, <1>a, <3>2, <4>1 DEF Insert
    <3> QED BY <3>1, <3>2
  <2> DEFINE x == [task[t] EXCEPT !.pc = "clear", !.rec = i, !.mode = "apply", !.fence = f]
  <2>8. task' = [task EXCEPT ![t] = x]
    BY <1>a, <2>7
  <2>9. /\ x \in Task /\ x.pc = "clear" /\ x.rec = i /\ x.mode = "apply"
        /\ x.op = task[t].op /\ x.vids = task[t].vids /\ x.ends = task[t].ends
        /\ x.queue = task[t].queue
    BY <1>a DEF Task
  <2> HIDE DEF x
  <2>10. TasksOK'
    BY <2>1, <2>6, <2>8, <2>9, Becomes
  <2> QED BY <1>10, <2>6, <2>10 DEF Insert, Tables, restarts
<1> QED BY <1>1, <1>2, <1>3, <1>4, <1>5, <1>6, <1>7, <1>8, <1>9, <1>10 DEF Step

\* A task that begins: what the three kinds of task start from.
LEMMA Begins ==
    ASSUME TasksOK, NEW t \in Tasks, NEW op \in Ops, NEW x,
           task' = [task EXCEPT ![t] = x], recs' = recs,
           x \in Task, x.pc \in {"actives", "pick"}, x.op = op, x.mode = "close",
           x.queue \subseteq Stored,
           op = "create" => x.vids \in Lists,
           x.pc = "actives" => op = "create"
    PROVE  TasksOK'
<1>1. Stored' = Stored
  BY DEF Stored
<1> QED BY <1>1, Becomes DEF Working

\* A request to lend keeps the types,
LEMMA CreateTypes ==
    ASSUME Tables, TasksOK, NEW q \in Calls, NEW vids \in Lists,
           NEW p \in Fence \cup {Keep}, NEW e \in Times \cup {None}, Create(q, vids, p, e)
    PROVE  Tables' /\ TasksOK'
<1> DEFINE x == [Idle("create") EXCEPT !.pc = "actives", !.vids = vids, !.profile = p,
                                       !.ends = e]
<1>1. task' = [task EXCEPT ![q] = x] /\ recs' = recs /\ Tables'
  BY DEF Create, Tables, restarts
<1>2. /\ x \in Task /\ x.pc = "actives" /\ x.op = "create" /\ x.mode = "close"
      /\ x.queue = {} /\ x.vids = vids
  BY DEF Idle, Task, Fence
<1> HIDE DEF x
<1> QED BY <1>1, <1>2, Begins DEF Tasks, Ops

\* one to cancel,
LEMMA CancelTypes ==
    ASSUME Tables, TasksOK, NEW q \in Calls, NEW i \in Stored, Cancel(q, i)
    PROVE  Tables' /\ TasksOK'
<1> DEFINE x == [Idle("cancel") EXCEPT !.pc = "pick", !.queue = {i}]
<1>1. task' = [task EXCEPT ![q] = x] /\ recs' = recs /\ Tables'
  BY DEF Cancel, Tables, restarts
<1>2. /\ x \in Task /\ x.pc = "pick" /\ x.op = "cancel" /\ x.mode = "close"
      /\ x.queue = {i}
  BY DEF Idle, Task, Fence, Stored
<1> HIDE DEF x
<1> QED BY <1>1, <1>2, Begins DEF Tasks, Ops

\* the sweep
LEMMA SweepTypes ==
    ASSUME Tables, TasksOK, NEW s \in Sweeps, Sweep(s)
    PROVE  Tables' /\ TasksOK'
<1> DEFINE x == [Idle("sweep") EXCEPT !.pc = "pick", !.queue = Expired]
<1>1. task' = [task EXCEPT ![s] = x] /\ recs' = recs /\ Tables'
  BY DEF Sweep, Tables, restarts
<1>2. /\ x \in Task /\ x.pc = "pick" /\ x.op = "sweep" /\ x.mode = "close"
      /\ x.queue \subseteq Stored
  BY DEF Idle, Task, Fence, Expired, Active, Stored
<1> HIDE DEF x
<1> QED BY <1>1, <1>2, Begins DEF Tasks, Ops

\* and a crash.
LEMMA CrashTypes == ASSUME Tables, TasksOK, Crash PROVE Tables' /\ TasksOK'
<1>1. \A t \in Tasks : task[t].op \in Ops /\ Idle(task[t].op) \in Task
  BY Idles DEF TasksOK, Task, Ops
<1>2. task' \in [Tasks -> Task]
  BY <1>1 DEF Crash
<1>3. \A t \in Tasks : /\ task'[t].pc = "idle" /\ task'[t].mode = "close"
                       /\ task'[t].queue = {}
  BY DEF Crash, Idle
<1>4. TasksOK'
  BY <1>2, <1>3 DEF TasksOK, TaskOK, Working
<1>5. Tables'
  BY BoundsAssumption DEF Crash, Tables
<1> QED BY <1>4, <1>5

\* Every step, when all of it is put together.
LEMMA NextTypes == TypeOK /\ [Next]_vars => TypeOK'
<1> SUFFICES ASSUME Tables, TasksOK, [Next]_vars PROVE Tables' /\ TasksOK'
  BY Split, SplitNext
<1>1. CASE Tick
  <2>1. Tables'
    BY <1>1, BoundsAssumption DEF Tick, Tables, Times, restarts
  <2>2. TasksOK'
    BY <1>1 DEF Tick, TasksOK, TaskOK, Stored, More
  <2> QED BY <2>1, <2>2
<1>2. CASE Crash
  BY <1>2, CrashTypes
<1>3. CASE \E s \in Sweeps : Sweep(s)
  BY <1>3, SweepTypes
<1>4. CASE \E q \in Calls, vids \in Lists, p \in Fence \cup {Keep}, e \in Times \cup {None} :
              Create(q, vids, p, e)
  BY <1>4, CreateTypes
<1>5. CASE \E q \in Calls, i \in Stored : Cancel(q, i)
  BY <1>5, CancelTypes
<1>6. CASE \E t \in Tasks : Step(t)
  BY <1>6, StepTypes
<1>7. CASE UNCHANGED vars
  BY <1>7 DEF vars, restarts, Tables, TasksOK, TaskOK, Stored, More
<1> QED BY <1>1, <1>2, <1>3, <1>4, <1>5, <1>6, <1>7 DEF Next

\* Initially nothing is stored and no task is under way.
LEMMA InitTypes == Init => TypeOK
<1> SUFFICES ASSUME Init PROVE Tables /\ TasksOK
  BY Split
<1>1. Tables
  <2>1. now \in Times /\ faults \in 0..MaxFaults /\ crashes \in 0..MaxCrashes
    BY BoundsAssumption DEF Init, Times
  <2>2. geofence \in [Vehicles -> Fence] /\ own \in [Vehicles -> Fence] /\ torn \in BOOLEAN
    BY DEF Init
  <2>3. recs \in [RecIds -> Rec \cup {None}]
    BY DEF Init
  <2> QED BY <2>1, <2>2, <2>3 DEF Tables
<1>2. \A t \in Tasks : task[t] = Idle("sweep") \/ task[t] = Idle("cancel")
  BY DEF Init
<1>3. task \in [Tasks -> Task]
  BY <1>2, Idles DEF Init, Ops
<1>4. \A t \in Tasks : TaskOK(t)
  BY <1>2 DEF TaskOK, Idle, Working
<1> QED BY <1>1, <1>3, <1>4 DEF TasksOK

\* The tables and the tasks hold what the code puts into them: the row at hand and
\* the rows to restore exist, and only a create that has its dates inserts rows.
THEOREM TypeCorrect == Spec => []TypeOK
BY InitTypes, NextTypes, PTL DEF Spec

------------------------------------------------------------------------------
(* The life of a row.                                                      *)

\* A step of a task leaves the rows alone, inserts one or closes one.
LEMMA StepRows ==
    ASSUME Tables, TasksOK, NEW t \in Tasks, Step(t), NEW i \in Stored
    PROVE  /\ recs[i].status # "active" => recs'[i].status # "active"
           /\ recs'[i] = [recs[i] EXCEPT !.status = recs'[i].status]
<1>0. i \in RecIds /\ recs[i] \in Rec
  BY DEF Stored, Tables
<1>1. recs[i] = [recs[i] EXCEPT !.status = recs[i].status]
  BY <1>0 DEF Rec
<1>2. CASE recs' = recs
  BY <1>1, <1>2
<1>3. CASE Save(t)
  <2>1. task[t].rec \in Stored
    BY <1>3 DEF Save, TasksOK, TaskOK, Working
  <2>2. PICK st \in {"cancelled", "restored"} :
            recs' = [recs EXCEPT ![task[t].rec].status = st]
    BY <1>3 DEF Save
  <2>3. CASE task[t].rec = i
    BY <2>1, <2>2, <2>3, Closes
  <2>4. CASE task[t].rec # i
    BY <1>0, <1>1, <2>1, <2>2, <2>4, Closes
  <2> QED BY <2>3, <2>4
<1>4. CASE \E j \in RecIds : Insert(t, j)
  BY <1>0, <1>1, <1>4 DEF Insert, Tables
<1> QED
  BY <1>2, <1>3, <1>4
     DEF Step, FindActives, Dates, Picked, Clear, Put, Post, Thrown, Read, Pick

\* Whatever overlaps, and whatever is lost, a row that is closed stays closed, and a
\* row keeps its vehicle, its end and its snapshot.
THEOREM ClosedForGood == Spec => ClosedStaysClosed
<1>1. ASSUME TypeOK, [Next]_vars, NEW i \in Stored
      PROVE  /\ recs[i].status # "active" => recs'[i].status # "active"
             /\ recs'[i] = [recs[i] EXCEPT !.status = recs'[i].status]
  <2>0. Tables /\ TasksOK
    BY <1>1, Split
  <2>1. recs[i] = [recs[i] EXCEPT !.status = recs[i].status]
    BY <2>0 DEF Stored, Tables, Rec
  <2>2. CASE recs' = recs
    BY <2>1, <2>2
  <2>3. CASE \E t \in Tasks : Step(t)
    BY <2>0, <2>3, StepRows
  <2> QED
    BY <1>1, <2>2, <2>3 DEF Next, Tick, Crash, Sweep, Create, Cancel, vars
<1>2. TypeOK /\ [Next]_vars =>
         [\A i \in Stored :
             /\ recs[i].status # "active" => recs'[i].status # "active"
             /\ recs'[i] = [recs[i] EXCEPT !.status = recs'[i].status]]_vars
  BY <1>1
<1> QED BY <1>2, TypeCorrect, PTL DEF Spec, ClosedStaysClosed

------------------------------------------------------------------------------
(* Lent out once at a time, where creates do not overlap.                  *)

ActiveOf(v) == {i \in Active : recs[i].vehicle = v}
Busy(q) == task[q].op = "create" /\ task[q].pc # "idle"

\* A create that is under way is the only task under way.
Alone == \A q, t \in Tasks : Busy(q) /\ t # q => task[t].pc = "idle"

\* How far a create has got: while it cancels, the rows still active of vehicles it
\* has been at are those it will restore yet; afterwards, the vehicles it has not
\* been at have none.
ProgressOf(q) ==
    /\ task[q].pc = "actives" =>
          \A k \in DOMAIN task[q].vids :
              k <= task[q].done => ActiveOf(task[q].vids[k]) = {}
    /\ task[q].pc = "pick" =>
          \A k \in DOMAIN task[q].vids :
              k <= task[q].done => ActiveOf(task[q].vids[k]) \subseteq task[q].queue
    /\ task[q].pc \in Working /\ task[q].mode = "close" =>
          \A k \in DOMAIN task[q].vids :
              k <= task[q].done =>
                  ActiveOf(task[q].vids[k]) \subseteq task[q].queue \cup {task[q].rec}
    /\ task[q].pc \in {"read", "insert"} =>
          \A k \in DOMAIN task[q].vids :
              k > task[q].done => ActiveOf(task[q].vids[k]) = {}
    /\ task[q].pc \in Working /\ task[q].mode = "apply" =>
          \A k \in DOMAIN task[q].vids :
              k > task[q].done + 1 => ActiveOf(task[q].vids[k]) = {}
    /\ task[q].pc = "save" => task[q].mode # "apply"
Progress == \A q \in Tasks : Busy(q) => ProgressOf(q)

LentInv == Tables /\ TasksOK /\ Alone /\ Progress /\ OneActivePerVehicle

\* A step of a task is a step of one that is under way and keeps its operation.
LEMMA StepMoves ==
    ASSUME Tables, TasksOK, NEW t \in Tasks, Step(t)
    PROVE  /\ task[t].pc # "idle" /\ task'[t].op = task[t].op
           /\ \A u \in Tasks : u # t => task'[u] = task[u]
<1>a. task \in [Tasks -> Task] /\ task[t] \in Task
  BY DEF TasksOK
<1>b. ASSUME NEW pc, Goto(t, pc)
      PROVE  task'[t].op = task[t].op /\ \A u \in Tasks : u # t => task'[u] = task[u]
  BY <1>a, <1>b DEF Goto, Task
<1>c. ASSUME Return(t)
      PROVE  task'[t].op = task[t].op /\ \A u \in Tasks : u # t => task'[u] = task[u]
  BY <1>a, <1>c DEF Return, Idle
<1>d. ASSUME Sent(t)
      PROVE  task'[t].op = task[t].op /\ \A u \in Tasks : u # t => task'[u] = task[u]
  BY <1>a, <1>b, <1>c, <1>d DEF Sent, Task
<1>e. ASSUME Thrown(t)
      PROVE  task'[t].op = task[t].op /\ \A u \in Tasks : u # t => task'[u] = task[u]
  BY <1>a, <1>b, <1>c, <1>e DEF Thrown, Task
<1>1. CASE FindActives(t) \/ Dates(t) \/ Picked(t)
  BY <1>a, <1>b, <1>c, <1>1 DEF FindActives, Dates, Picked, Task
<1>2. CASE Clear(t) \/ Put(t)
  BY <1>b, <1>d, <1>2 DEF Clear, Put
<1>3. CASE Post(t)
  BY <1>d, <1>e, <1>3 DEF Post
<1>4. CASE Save(t)
  BY <1>b, <1>c, <1>4 DEF Save
<1>5. CASE Read(t)
  BY <1>a, <1>5 DEF Read, Task
<1>6. ASSUME NEW i \in RecIds, Pick(t, i)
      PROVE  /\ task[t].pc # "idle" /\ task'[t].op = task[t].op
             /\ \A u \in Tasks : u # t => task'[u] = task[u]
  <2>1. CASE task[t].op = "sweep" \/ i \in Active
    BY <1>a, <1>6, <2>1 DEF Pick, Task
  <2>2. CASE ~(task[t].op = "sweep" \/ i \in Active)
    BY <1>a, <1>6, <2>2 DEF Pick, Task
  <2> QED BY <2>1, <2>2
<1>7. ASSUME NEW i \in RecIds, Insert(t, i)
      PROVE  /\ task[t].pc # "idle" /\ task'[t].op = task[t].op
             /\ \A u \in Tasks : u # t => task'[u] = task[u]
  BY <1>a, <1>7 DEF Insert, Task
<1> QED BY <1>1, <1>2, <1>3, <1>4, <1>5, <1>6, <1>7 DEF Step

\* So a step leaves a create alone.
LEMMA StepAlone ==
    ASSUME Tables, TasksOK, Alone, NEW t \in Tasks, Step(t)
    PROVE  Alone' /\ \A u \in Tasks : u # t => task'[u] = task[u] /\ ~Busy(u)
<1>1. /\ task[t].pc # "idle" /\ task'[t].op = task[t].op
      /\ \A u \in Tasks : u # t => task'[u] = task[u]
  BY StepMoves
<1>2. \A u \in Tasks : u # t => ~Busy(u)
  BY <1>1 DEF Alone
<1>3. Alone'
  BY <1>1, <1>2 DEF Alone, Busy
<1> QED BY <1>1, <1>2, <1>3

\* No step but an insert makes a row active, and no row changes its vehicle.
LEMMA NoNewRows ==
    ASSUME Tables, TasksOK, NEW t \in Tasks, Step(t), \A i \in RecIds : ~Insert(t, i)
    PROVE  /\ Stored' = Stored /\ Active' \subseteq Active
           /\ \A i \in Stored : recs'[i].vehicle = recs[i].vehicle
                                /\ recs'[i].saved = recs[i].saved
           /\ \A v : ActiveOf(v)' \subseteq ActiveOf(v)
<1>1. CASE recs' = recs
  BY <1>1 DEF Stored, Active, ActiveOf
<1>2. CASE Save(t)
  <2>1. task[t].rec \in Stored
    BY <1>2 DEF Save, TasksOK, TaskOK, Working
  <2>2. PICK st \in {"cancelled", "restored"} :
            recs' = [recs EXCEPT ![task[t].rec].status = st]
    BY <1>2 DEF Save
  <2>3. /\ Stored' = Stored
        /\ recs'[task[t].rec].status = st
        /\ recs'[task[t].rec].vehicle = recs[task[t].rec].vehicle
        /\ recs'[task[t].rec].saved = recs[task[t].rec].saved
        /\ \A i \in RecIds : i # task[t].rec => recs'[i] = recs[i]
    BY <2>1, <2>2, Closes
  <2>4. Active' \subseteq Active
    BY <2>3 DEF Active, Stored
  <2>5. \A i \in Stored : recs'[i].vehicle = recs[i].vehicle
                          /\ recs'[i].saved = recs[i].saved
    BY <2>3 DEF Stored
  <2>6. \A v : ActiveOf(v)' \subseteq ActiveOf(v)
    BY <2>4, <2>5 DEF ActiveOf, Active
  <2> QED BY <2>3, <2>4, <2>5, <2>6
<1> QED
  BY <1>1, <1>2 DEF Step, FindActives, Dates, Picked, Clear, Put, Post, Thrown, Read, Pick

\* Between two calls for one row nothing is lost of what the create knows.
LEMMA SameProgress ==
    ASSUME TasksOK, NEW t \in Tasks, ProgressOf(t), recs' = recs,
           task[t].pc \in Working, NEW pc \in Working, Goto(t, pc),
           pc = "save" => task[t].mode # "apply"
    PROVE  ProgressOf(t)'
<1>1. \A v : ActiveOf(v)' = ActiveOf(v)
  BY DEF ActiveOf, Active, Stored
<1>2. /\ task'[t].pc = pc /\ task'[t].vids = task[t].vids /\ task'[t].done = task[t].done
      /\ task'[t].queue = task[t].queue /\ task'[t].rec = task[t].rec
      /\ task'[t].mode = task[t].mode
  BY Goes DEF PCs
<1> QED BY <1>1, <1>2 DEF ProgressOf, Working

\* A create whose row is done goes on to its next vehicle.
LEMMA SentProgress ==
    ASSUME TasksOK, NEW t \in Tasks, ProgressOf(t), recs' = recs,
           task[t].pc \in Working, Sent(t), Busy(t)'
    PROVE  ProgressOf(t)'
<1>1. CASE task[t].mode # "apply" /\ Goto(t, "save")
  BY <1>1, SameProgress DEF Working
<1>2. CASE Return(t)
  BY <1>2, Returns DEF Busy
<1>3. CASE task[t].mode = "apply" /\ task' = [task EXCEPT ![t].pc = "read", ![t].done = @ + 1]
  <2>1. task[t] \in Task /\ task[t].done \in Nat
    BY DEF TasksOK, Task
  <2>2. /\ task'[t].pc = "read" /\ task'[t].vids = task[t].vids
        /\ task'[t].done = task[t].done + 1
    BY <1>3, <2>1 DEF TasksOK, Task
  <2>3. \A v : ActiveOf(v)' = ActiveOf(v)
    BY DEF ActiveOf, Active, Stored
  <2> QED BY <1>3, <2>2, <2>3 DEF ProgressOf, Working
<1> QED BY <1>1, <1>2, <1>3 DEF Sent

\* A vehicle is lent out once as long as rows are only closed.
LEMMA LentOnceKept ==
    ASSUME OneActivePerVehicle, Active' \subseteq Active,
           \A i \in Stored : recs'[i].vehicle = recs[i].vehicle
    PROVE  OneActivePerVehicle'
BY DEF OneActivePerVehicle, Active

\* The list of a create names a vehicle once.
LEMMA ListsDiffer ==
    ASSUME NEW l \in Lists, NEW j \in DOMAIN l, NEW k \in DOMAIN l, j # k
    PROVE  l[j] # l[k] /\ l[j] \in Vehicles /\ j \in Nat /\ k \in Nat
BY DEF Lists

\* What the create knows after each of its steps.
LEMMA StepProgress ==
    ASSUME LentInv, NEW t \in Tasks, Step(t), Busy(t), Busy(t)',
           \A i \in RecIds : ~Insert(t, i)
    PROVE  ProgressOf(t)'
<1>a. /\ Tables /\ TasksOK /\ ProgressOf(t) /\ task[t] \in Task /\ TaskOK(t)
      /\ task \in [Tasks -> Task] /\ task[t].op = "create" /\ task[t].vids \in Lists
      /\ task[t].done \in Nat
  BY DEF LentInv, Progress, TasksOK, TaskOK, Busy, Task
<1>b. \A v : ActiveOf(v)' \subseteq ActiveOf(v)
  BY <1>a, NoNewRows
<1>c. \A k \in DOMAIN task[t].vids : k \in Nat
  BY <1>a DEF Lists
<1>1. CASE FindActives(t)
  <2>1. /\ task'[t].pc = "pick" /\ task'[t].done = task[t].done + 1
        /\ task'[t].vids = task[t].vids /\ task'[t].queue = ActiveOf(This(t))
        /\ recs' = recs
    BY <1>1, <1>a DEF FindActives, Task, ActiveOf
  <2>2. \A k \in DOMAIN task[t].vids :
            k <= task[t].done + 1 => ActiveOf(task[t].vids[k]) \subseteq ActiveOf(This(t))
    BY <1>1, <1>a, <1>c DEF FindActives, ProgressOf, This
  <2>3. \A v : ActiveOf(v)' = ActiveOf(v)
    BY <2>1 DEF ActiveOf, Active, Stored
  <2> QED BY <2>1, <2>2, <2>3 DEF ProgressOf, Working
<1>2. CASE Dates(t)
  <2>1. CASE task[t].ends = None
    BY <1>2, <1>a, <2>1, Returns DEF Dates, Busy
  <2>2. CASE task[t].ends # None
    <3>1. task'[t].pc = "read" /\ task'[t].done = 0 /\ task'[t].vids = task[t].vids
      BY <1>2, <1>a, <2>2 DEF Dates, Task
    <3>2. \A k \in DOMAIN task[t].vids : k <= task[t].done
      BY <1>2, <1>a DEF Dates, More, Lists
    <3>3. \A k \in DOMAIN task[t].vids : ActiveOf(task[t].vids[k]) = {}
      BY <1>2, <1>a, <3>2 DEF Dates, ProgressOf
    <3> QED BY <1>b, <3>1, <3>3 DEF ProgressOf, Working
  <2> QED BY <2>1, <2>2
<1>3. CASE Picked(t)
  <2>1. task'[t].pc = "actives" /\ task'[t].done = task[t].done /\ task'[t].vids = task[t].vids
    BY <1>3, <1>a, Goes DEF Picked, PCs
  <2>2. \A k \in DOMAIN task[t].vids :
            k <= task[t].done => ActiveOf(task[t].vids[k]) = {}
    BY <1>3, <1>a DEF Picked, ProgressOf
  <2> QED BY <1>b, <2>1, <2>2 DEF ProgressOf, Working
<1>4. CASE Clear(t)
  <2>1. recs' = recs /\ task[t].pc \in Working
    BY <1>4 DEF Clear, Working
  <2> QED BY <1>4, <1>a, <2>1, SentProgress, SameProgress DEF Clear, Working
<1>5. CASE Put(t)
  <2>1. recs' = recs /\ task[t].pc \in Working
    BY <1>5 DEF Put, Working
  <2> QED BY <1>5, <1>a, <2>1, SentProgress, SameProgress DEF Put, Working
<1>6. CASE Post(t)
  <2>1. recs' = recs /\ task[t].pc \in Working
    BY <1>6 DEF Post, Thrown, Working
  <2>2. CASE Sent(t)
    BY <1>a, <2>1, <2>2, SentProgress
  <2>3. CASE Return(t)
    BY <1>a, <2>3, Returns DEF Busy
  <2>4. CASE task[t].mode = "undo" /\ Goto(t, "save")
    BY <1>a, <2>1, <2>4, SameProgress DEF Working
  <2>5. CASE task' = [task EXCEPT ![t].pc = "clear", ![t].mode = "undo",
                                  ![t].fence = recs[task[t].rec].saved]
    <3>1. task'[t].pc = "clear" /\ task'[t].mode = "undo"
      BY <1>a, <2>5 DEF Task
    <3> QED BY <3>1 DEF ProgressOf
  <2> QED BY <1>6, <1>a, <2>2, <2>3, <2>4, <2>5 DEF Post, Thrown
<1>7. CASE Save(t)
  <2>1. CASE task[t].mode = "undo"
    BY <1>7, <1>a, <2>1, Returns DEF Save, Busy
  <2>2. CASE task[t].mode # "undo"
    <3>1. /\ task'[t].pc = "pick" /\ task'[t].done = task[t].done
          /\ task'[t].vids = task[t].vids /\ task'[t].queue = task[t].queue
      BY <1>7, <1>a, <2>2, Goes DEF Save, PCs
    <3>2. task[t].mode = "close" /\ task[t].rec \in Stored
      BY <1>7, <1>a, <2>2 DEF Save, ProgressOf, Task, TaskOK, Working
    <3>3. recs' = [recs EXCEPT ![task[t].rec].status = "restored"]
      BY <1>7, <2>2 DEF Save
    <3>4. recs'[task[t].rec].status = "restored"
      BY <1>a, <3>2, <3>3, Closes
    <3>5. \A v : ActiveOf(v)' \subseteq ActiveOf(v) \ {task[t].rec}
      BY <1>b, <3>4 DEF ActiveOf, Active
    <3>6. \A k \in DOMAIN task[t].vids :
             k <= task[t].done =>
                 ActiveOf(task[t].vids[k]) \subseteq task[t].queue \cup {task[t].rec}
      BY <1>7, <1>a, <3>2 DEF Save, ProgressOf, Working
    <3>7. (\A k \in DOMAIN task[t].vids :
              k <= task[t].done => ActiveOf(task[t].vids[k]) \subseteq task[t].queue)'
      BY <3>1, <3>5, <3>6
    <3> QED BY <3>1, <3>7 DEF ProgressOf, Working
  <2> QED BY <2>1, <2>2
<1>8. CASE Read(t)
  <2>1. task'[t].pc = "insert" /\ task'[t].done = task[t].done /\ task'[t].vids = task[t].vids
    BY <1>8, <1>a DEF Read, Task
  <2>2. \A k \in DOMAIN task[t].vids : k > task[t].done => ActiveOf(task[t].vids[k]) = {}
    BY <1>8, <1>a DEF Read, ProgressOf
  <2>3. (\A k \in DOMAIN task[t].vids :
            k > task[t].done => ActiveOf(task[t].vids[k]) = {})'
    BY <1>b, <2>1, <2>2
  <2> QED BY <2>1, <2>3 DEF ProgressOf, Working
<1>9. ASSUME NEW i \in RecIds, Pick(t, i) PROVE ProgressOf(t)'
  <2>1. recs' = recs /\ \A v : ActiveOf(v)' = ActiveOf(v)
    BY <1>9 DEF Pick, ActiveOf, Active, Stored
  <2>2. CASE i \in Active
    <3>1. /\ task'[t].pc = "clear" /\ task'[t].done = task[t].done /\ task'[t].mode = "close"
          /\ task'[t].vids = task[t].vids /\ task'[t].queue = task[t].queue \ {i}
          /\ task'[t].rec = i
      BY <1>9, <1>a, <2>2 DEF Pick, Task
    <3> QED BY <1>9, <1>a, <2>1, <3>1 DEF Pick, ProgressOf, Working
  <2>3. CASE i \notin Active
    <3>1. /\ task'[t].pc = "pick" /\ task'[t].done = task[t].done
          /\ task'[t].vids = task[t].vids /\ task'[t].queue = task[t].queue \ {i}
      BY <1>9, <1>a, <2>3 DEF Pick, Task
    <3>2. \A v : i \notin ActiveOf(v)
      BY <2>3 DEF ActiveOf
    <3> QED BY <1>9, <1>a, <2>1, <3>1, <3>2 DEF Pick, ProgressOf, Working
  <2> QED BY <2>2, <2>3
<1> QED BY <1>1, <1>2, <1>3, <1>4, <1>5, <1>6, <1>7, <1>8, <1>9 DEF Step

\* An insert: the vehicle had no active row, and the rest of the list has none yet.
LEMMA InsertLent ==
    ASSUME LentInv, NEW t \in Tasks, NEW i \in RecIds, Insert(t, i)
    PROVE  ProgressOf(t)' /\ OneActivePerVehicle'
<1> DEFINE row == [vehicle |-> This(t), saved |-> task[t].fence,
                   ends |-> task[t].ends, status |-> "active"]
<1>1. /\ Tables /\ TasksOK /\ task[t] \in Task /\ TaskOK(t) /\ task[t].pc = "insert"
      /\ task \in [Tasks -> Task] /\ i \notin Stored /\ recs' = [recs EXCEPT ![i] = row]
  BY DEF LentInv, TasksOK, Insert
<1>2. /\ Busy(t) /\ ProgressOf(t) /\ task[t].vids \in Lists /\ More(t)
      /\ task[t].done \in Nat
  BY <1>1 DEF TaskOK, Busy, LentInv, Progress, Task
<1>3. /\ recs'[i].vehicle = This(t) /\ recs'[i].status = "active"
      /\ \A j \in RecIds : j # i => recs'[j] = recs[j]
  BY <1>1 DEF Tables
<1> HIDE DEF row
<1>4. Active' \subseteq Active \cup {i}
  BY <1>3 DEF Active, Stored
<1>5. \A v : ActiveOf(v)' \subseteq ActiveOf(v) \cup (IF v = This(t) THEN {i} ELSE {})
  BY <1>3, <1>4 DEF ActiveOf, Active, Stored
<1>6. \A k \in DOMAIN task[t].vids : k > task[t].done => ActiveOf(task[t].vids[k]) = {}
  BY <1>1, <1>2 DEF ProgressOf
<1>7. ActiveOf(This(t)) = {}
  <2>1. task[t].done + 1 \in DOMAIN task[t].vids /\ task[t].done + 1 > task[t].done
    BY <1>2 DEF More
  <2>2. ActiveOf(task[t].vids[task[t].done + 1]) = {}
    BY <1>6, <2>1
  <2> QED BY <2>2 DEF This
<1>8. /\ task'[t].pc = "clear" /\ task'[t].mode = "apply" /\ task'[t].done = task[t].done
      /\ task'[t].vids = task[t].vids
  BY <1>1 DEF Insert, Task
<1>9. \A k \in DOMAIN task[t].vids : k > task[t].done + 1 => task[t].vids[k] # This(t)
  BY <1>2, ListsDiffer DEF This, More
<1>10. ProgressOf(t)'
  <2>1. \A k \in DOMAIN task[t].vids : k > task[t].done + 1 => k > task[t].done
    BY <1>2 DEF Lists
  <2>2. \A k \in DOMAIN task[t].vids :
            k > task[t].done + 1 => ActiveOf(task[t].vids[k])' = {}
    BY <1>5, <1>6, <1>8, <1>9, <2>1
  <2> QED BY <1>8, <2>2 DEF ProgressOf, Working
<1>11. \A j \in Active : recs[j].vehicle # This(t)
  BY <1>7 DEF ActiveOf
<1>12. OneActivePerVehicle'
  BY <1>1, <1>3, <1>4, <1>11 DEF OneActivePerVehicle, LentInv, Active, Stored
<1> QED BY <1>10, <1>12

\* A step of a task keeps vehicles lent out once at a time.
LEMMA StepLent ==
    ASSUME LentInv, NEW t \in Tasks, Step(t) PROVE LentInv'
<1>1. Tables' /\ TasksOK'
  BY StepTypes DEF LentInv
<1>2. Alone' /\ \A u \in Tasks : u # t => task'[u] = task[u] /\ ~Busy(u)
  BY StepAlone DEF LentInv
<1>3. \A u \in Tasks : u # t => ~Busy(u)'
  BY <1>2 DEF Busy
<1>4. Busy(t)' => Busy(t)
  BY StepMoves DEF LentInv, Busy
<1>5. CASE \E i \in RecIds : Insert(t, i)
  BY <1>1, <1>2, <1>3, <1>5, InsertLent DEF LentInv, Progress
<1>6. CASE \A i \in RecIds : ~Insert(t, i)
  <2>1. OneActivePerVehicle'
    BY <1>6, NoNewRows, LentOnceKept DEF LentInv
  <2>2. Busy(t)' => ProgressOf(t)'
    BY <1>4, <1>6, StepProgress
  <2> QED BY <1>1, <1>2, <1>3, <2>1, <2>2 DEF LentInv, Progress
<1> QED BY <1>5, <1>6

\* Nothing else touches the rows or a create that is under way.
LEMMA NextLent ==
    ASSUME CreateAlone, LentInv, [Next]_vars PROVE LentInv'
<1>0. Tables' /\ TasksOK'
  BY NextTypes, Split, SplitNext DEF LentInv
<1>a. ASSUME recs' = recs PROVE OneActivePerVehicle' /\ \A v : ActiveOf(v)' = ActiveOf(v)
  BY <1>a DEF LentInv, OneActivePerVehicle, ActiveOf, Active, Stored
<1>b. task \in [Tasks -> Task]
  BY DEF LentInv, TasksOK
<1>1. CASE Tick \/ UNCHANGED vars
  <2>1. recs' = recs /\ task' = task
    BY <1>1 DEF Tick, vars
  <2> QED BY SMTT(20), <1>0, <1>a, <2>1 DEF LentInv, Alone, Progress, ProgressOf, Busy
<1>2. CASE Crash
  <2>1. recs' = recs /\ \A t \in Tasks : task'[t].pc = "idle"
    BY <1>2 DEF Crash, Idle
  <2> QED BY <1>0, <1>a, <2>1 DEF LentInv, Alone, Progress, Busy
<1>3. ASSUME NEW s \in Tasks, NEW op \in {"cancel", "sweep"}, MayStart(op), recs' = recs,
             \A u \in Tasks : u # s => task'[u] = task[u], task'[s].op = op
      PROVE  LentInv'
  <2>1. \A u \in Tasks : ~Busy(u)
    BY <1>3 DEF MayStart, Creating, Busy
  <2>2. \A u \in Tasks : ~Busy(u)'
    BY <1>3, <2>1 DEF Busy
  <2> QED BY <1>0, <1>a, <1>3, <2>2 DEF LentInv, Alone, Progress
<1>4. CASE \E s \in Sweeps : Sweep(s)
  <2>1. PICK s \in Sweeps : Sweep(s)
    BY <1>4
  <2>2. s \in Tasks /\ task'[s].op = "sweep" /\ \A u \in Tasks : u # s => task'[u] = task[u]
    BY <1>b, <2>1 DEF Sweep, Tasks, Idle
  <2> QED BY <1>3, <2>1, <2>2 DEF Sweep
<1>5. CASE \E q \in Calls, i \in Stored : Cancel(q, i)
  <2>1. PICK q \in Calls, i \in Stored : Cancel(q, i)
    BY <1>5
  <2>2. q \in Tasks /\ task'[q].op = "cancel" /\ \A u \in Tasks : u # q => task'[u] = task[u]
    BY <1>b, <2>1 DEF Cancel, Tasks, Idle
  <2> QED BY <1>3, <2>1, <2>2 DEF Cancel
<1>6. CASE \E q \in Calls, vids \in Lists, p \in Fence \cup {Keep}, e \in Times \cup {None} :
              Create(q, vids, p, e)
  <2>1. PICK q \in Calls, vids \in Lists, p \in Fence \cup {Keep}, e \in Times \cup {None} :
            Create(q, vids, p, e)
    BY <1>6
  <2>2. /\ q \in Tasks /\ task'[q].pc = "actives" /\ task'[q].done = 0
        /\ task'[q].vids = vids /\ recs' = recs
        /\ \A u \in Tasks : u # q => task'[u] = task[u]
    BY <1>b, <2>1 DEF Create, Tasks, Idle
  <2>3. \A u \in Tasks : u # q => task'[u].pc = "idle"
    BY <2>1, <2>2 DEF Create, MayStart, Quiet
  <2>4. ProgressOf(q)'
    BY <2>2 DEF ProgressOf, Working, Lists
  <2> QED BY <1>0, <1>a, <2>2, <2>3, <2>4 DEF LentInv, Alone, Progress, Busy
<1>7. CASE \E t \in Tasks : Step(t)
  BY <1>7, StepLent
<1> QED BY <1>1, <1>2, <1>4, <1>5, <1>6, <1>7 DEF Next

\* With no task under way nothing is known and nothing lent.
LEMMA InitLent == Init => LentInv
<1> SUFFICES ASSUME Init PROVE LentInv
  OBVIOUS
<1>1. Tables /\ TasksOK
  BY InitTypes, Split
<1>2. \A t \in Tasks : task[t].pc = "idle"
  BY DEF Init, Idle
<1>3. Active = {}
  BY DEF Init, Active, Stored
<1> QED BY <1>1, <1>2, <1>3 DEF LentInv, Alone, Progress, Busy, OneActivePerVehicle

\* If no create overlaps another task, a vehicle is lent out once at a time, whatever
\* sweeps and cancels do meanwhile, whatever is lost and wherever the process dies.
THEOREM LentOnce == ASSUME CreateAlone PROVE Spec => []OneActivePerVehicle
<1>1. LentInv /\ [Next]_vars => LentInv'
  BY NextLent
<1>2. LentInv => OneActivePerVehicle
  BY DEF LentInv
<1> QED BY <1>1, <1>2, InitLent, PTL DEF Spec

------------------------------------------------------------------------------
(* The owner's geofence comes back.                                        *)

\* No call has failed, and no crash has cut off a second restore.
Calm == faults = 0 /\ ~torn

Putting(v) == \E t \in Tasks : task[t].pc = "put" /\ Of(t) = v

\* What a task has in hand: the owner's geofence when it restores, a row of its own
\* when it applies a profile.
TaskBack(t) ==
    /\ task[t].pc # "post" /\ task[t].mode # "undo"
    /\ task[t].pc \in {"clear", "put"} /\ task[t].mode = "close"
       => task[t].fence = own[Of(t)]
    /\ task[t].pc \in Working /\ task[t].mode = "apply" => task[t].rec \in Active
    /\ task[t].pc = "insert" => task[t].fence = own[This(t)]

\* A row remembers the owner's geofence.
RowsBack == \A i \in Stored : recs[i].saved = own[recs[i].vehicle]

\* A vehicle that is not lent out, and one whose row is about to be closed, has its
\* owner's geofence, unless a task that restores it has just deleted it.
FencesBack ==
    /\ \A v \in Vehicles : ActiveOf(v) = {} /\ ~Putting(v) => geofence[v] = own[v]
    /\ \A t \in Tasks : task[t].pc = "save" /\ ~Putting(Of(t))
                            => geofence[Of(t)] = own[Of(t)]

AllBack == (\A t \in Tasks : TaskBack(t)) /\ RowsBack /\ FencesBack
BackInv == LentInv /\ (Calm => AllBack)

\* A task that moves between calls, with tables and the others as they were.
LEMMA QuietBack ==
    ASSUME AllBack, recs' = recs, geofence' = geofence, own' = own, NEW t \in Tasks,
           \A u \in Tasks : u # t => task'[u] = task[u],
           task[t].pc # "put", task'[t].pc \notin {"put", "save"}, TaskBack(t)'
    PROVE  AllBack'
<1>1. Stored' = Stored /\ Active' = Active /\ \A v : ActiveOf(v)' = ActiveOf(v)
  BY DEF ActiveOf, Active, Stored
<1>2. \A u \in Tasks : u # t => Of(u)' = Of(u) /\ This(u)' = This(u)
  BY DEF Of, This
<1>3. \A u \in Tasks : TaskBack(u)'
  BY <1>1, <1>2 DEF AllBack, TaskBack
<1>4. \A v : Putting(v)' <=> Putting(v)
  BY <1>2 DEF Putting
<1>5. \A u \in Tasks : task'[u].pc = "save" => u # t
  OBVIOUS
<1>6. FencesBack'
  BY <1>1, <1>2, <1>4, <1>5 DEF AllBack, FencesBack
<1>7. RowsBack'
  BY <1>1 DEF AllBack, RowsBack
<1> QED BY <1>3, <1>6, <1>7 DEF AllBack

\* The row at hand, and what Deliver does.
LEMMA DeliverBack ==
    ASSUME Tables, TasksOK, NEW t \in Tasks, task[t].pc \in Working, NEW f, Deliver(t, f)
    PROVE  /\ Of(t) \in Vehicles /\ geofence'[Of(t)] = f
           /\ \A v \in Vehicles : v # Of(t) => geofence'[v] = geofence[v]
<1>1. Of(t) \in Vehicles
  BY DEF TasksOK, TaskOK, Tables, Stored, Of, Rec
<1> QED BY <1>1 DEF Deliver, Tables

\* Everything asked for has been delivered.
LEMMA SettleBack ==
    ASSUME LentInv, AllBack, NEW t \in Tasks, task[t].pc \in {"clear", "put"},
           Deliver(t, task[t].fence), Sent(t), recs' = recs, own' = own
    PROVE  AllBack'
<1>0. /\ Tables /\ TasksOK /\ TaskBack(t) /\ task[t] \in Task /\ TaskOK(t)
      /\ task \in [Tasks -> Task] /\ task[t].rec \in Stored
  BY DEF LentInv, AllBack, TasksOK, TaskOK, Working
<1>1. Stored' = Stored /\ Active' = Active /\ \A v : ActiveOf(v)' = ActiveOf(v)
  BY DEF ActiveOf, Active, Stored
<1>2. /\ Of(t) \in Vehicles /\ geofence'[Of(t)] = task[t].fence
      /\ \A v \in Vehicles : v # Of(t) => geofence'[v] = geofence[v]
  BY <1>0, DeliverBack DEF Working
<1>3. /\ \A u \in Tasks : u # t => task'[u] = task[u]
      /\ task'[t].pc \in {"save", "read", "idle"} /\ task'[t].mode # "undo"
      /\ task'[t].pc = "save" => task[t].mode # "apply" /\ Of(t)' = Of(t)
      /\ task[t].mode # "apply" => task'[t].pc = "save"
      /\ task'[t].pc = "save" => task'[t].mode # "apply"
  <2>1. CASE task[t].mode # "apply"
    <3>1. Goto(t, "save") /\ task[t].mode # "undo"
      BY <1>0, <2>1 DEF Sent, TaskBack
    <3>2. /\ \A u \in Tasks : u # t => task'[u] = task[u]
          /\ task'[t].pc = "save" /\ task'[t].mode = task[t].mode
          /\ task'[t].rec = task[t].rec
      BY <1>0, <3>1, Goes DEF PCs, Working
    <3>3. Of(t)' = Of(t)
      BY <3>2 DEF Of
    <3> QED BY <2>1, <3>1, <3>2, <3>3
  <2>2. CASE task[t].mode = "apply" /\ task[t].done + 2 \in DOMAIN task[t].vids
    <3>1. task' = [task EXCEPT ![t].pc = "read", ![t].done = @ + 1]
      BY <2>2 DEF Sent
    <3> QED BY <1>0, <2>2, <3>1 DEF Task
  <2>3. CASE task[t].mode = "apply" /\ ~(task[t].done + 2 \in DOMAIN task[t].vids)
    <3>1. Return(t)
      BY <2>3 DEF Sent
    <3> QED BY <1>0, <2>3, <3>1, Returns
  <2> QED BY <2>1, <2>2, <2>3
<1>4. \A u \in Tasks : u # t => Of(u)' = Of(u) /\ This(u)' = This(u)
  BY <1>3 DEF Of, This
<1>5. \A u \in Tasks : TaskBack(u)'
  <2>1. TaskBack(t)'
    BY <1>3, <1>0 DEF TaskBack, Working
  <2>2. \A u \in Tasks : u # t => TaskBack(u)'
    BY <1>1, <1>3, <1>4 DEF AllBack, TaskBack
  <2> QED BY <2>1, <2>2
<1>6. \A v : v # Of(t) => (Putting(v)' <=> Putting(v))
  BY <1>3, <1>4 DEF Putting
<1>7. CASE task[t].mode # "apply"
  <2>1. task[t].mode = "close" /\ task[t].fence = own[Of(t)]
    BY <1>0, <1>7 DEF Task, TaskBack
  <2>2. FencesBack'
    <3>1. \A v \in Vehicles : (ActiveOf(v) = {} /\ ~Putting(v))' => geofence'[v] = own[v]
      BY <1>1, <1>2, <1>6, <2>1 DEF AllBack, FencesBack
    <3>2. \A u \in Tasks : task'[u].pc = "save" => Of(u)' \in Vehicles
      <4>1. \A u \in Tasks : u # t /\ task[u].pc = "save" => Of(u) \in Vehicles
        BY <1>0 DEF TasksOK, TaskOK, Tables, Stored, Of, Rec, Working
      <4> QED BY <1>2, <1>3, <1>4, <4>1
    <3>3. \A u \in Tasks : (task[u].pc = "save" /\ ~Putting(Of(u)))'
                               => geofence'[Of(u)'] = own[Of(u)']
      BY <1>2, <1>3, <1>4, <1>6, <2>1, <3>2 DEF AllBack, FencesBack
    <3> QED BY <3>1, <3>3 DEF FencesBack
  <2> QED BY <1>1, <1>5, <2>2 DEF AllBack, RowsBack
<1>8. CASE task[t].mode = "apply"
  <2>1. /\ Busy(t) /\ task[t].rec \in Active
    BY <1>0, <1>8 DEF TaskOK, Busy, TaskBack, Working
  <2>2. \A u \in Tasks : u # t => task[u].pc = "idle"
    BY <2>1 DEF LentInv, Alone
  <2>3. ActiveOf(Of(t)) # {}
    BY <2>1 DEF ActiveOf, Of
  <2>4. FencesBack'
    BY <1>1, <1>2, <1>3, <1>6, <1>8, <2>2, <2>3 DEF AllBack, FencesBack
  <2> QED BY <1>1, <1>5, <2>4 DEF AllBack, RowsBack
<1> QED BY <1>7, <1>8

\* The rows while the table stays as it is.
LEMMA SameRows ==
    ASSUME recs' = recs
    PROVE  Stored' = Stored /\ Active' = Active /\ \A v : ActiveOf(v)' = ActiveOf(v)
BY DEF ActiveOf, Active, Stored

\* A geofence has been deleted, to be put.
LEMMA ClearBack ==
    ASSUME LentInv, AllBack, NEW t \in Tasks, task[t].pc = "clear",
           Deliver(t, None), Goto(t, "put"), recs' = recs, own' = own
    PROVE  AllBack'
<1>0. /\ Tables /\ TasksOK /\ TaskBack(t)
  BY DEF LentInv, AllBack
<1>1. Stored' = Stored /\ Active' = Active /\ \A v : ActiveOf(v)' = ActiveOf(v)
  BY SameRows
<1>2. \A v \in Vehicles : v # Of(t) => geofence'[v] = geofence[v]
  BY <1>0, DeliverBack DEF Working
<1>3. /\ \A u \in Tasks : u # t => task'[u] = task[u]
      /\ task'[t].pc = "put" /\ task'[t].mode = task[t].mode
      /\ task'[t].rec = task[t].rec /\ task'[t].fence = task[t].fence
  BY <1>0, Goes DEF PCs, Working
<1>4. /\ \A u \in Tasks : Of(u)' = Of(u)
      /\ \A u \in Tasks : u # t => This(u)' = This(u)
  BY <1>3 DEF Of, This
<1>5. \A u \in Tasks : TaskBack(u)'
  <2>1. TaskBack(t)'
    BY <1>0, <1>1, <1>3, <1>4 DEF TaskBack, Working
  <2>2. \A u \in Tasks : u # t => TaskBack(u)'
    BY <1>1, <1>3, <1>4 DEF AllBack, TaskBack
  <2> QED BY <2>1, <2>2
<1>6. \A v : v = Of(t) \/ Putting(v) => Putting(v)'
  BY <1>3, <1>4 DEF Putting
<1>7. \A u \in Tasks : task'[u].pc = "save" =>
           task[u].pc = "save" /\ Of(u) \in Vehicles
  BY <1>0, <1>3 DEF TasksOK, TaskOK, Tables, Stored, Of, Rec, Working
<1>8. FencesBack'
  <2>1. \A v \in Vehicles : (ActiveOf(v) = {} /\ ~Putting(v))' => geofence'[v] = own[v]
    <3>1. ASSUME NEW v \in Vehicles, ActiveOf(v)' = {}, ~Putting(v)'
          PROVE  geofence'[v] = own[v]
      <4>1. v # Of(t) /\ ActiveOf(v) = {} /\ ~Putting(v)
        BY <1>1, <1>6, <3>1
      <4> QED BY <1>2, <4>1 DEF AllBack, FencesBack
    <3> QED BY <3>1
  <2>2. \A u \in Tasks : (task[u].pc = "save" /\ ~Putting(Of(u)))'
                             => geofence'[Of(u)'] = own[Of(u)']
    BY <1>2, <1>4, <1>6, <1>7 DEF AllBack, FencesBack
  <2> QED BY <2>1, <2>2 DEF FencesBack
<1> QED BY <1>1, <1>5, <1>8 DEF AllBack, RowsBack

\* A row is closed: its vehicle has its owner's geofence by then.
LEMMA SaveBack ==
    ASSUME LentInv, AllBack, NEW t \in Tasks, Save(t)
    PROVE  AllBack'
<1>0. /\ Tables /\ TasksOK /\ TaskBack(t) /\ TaskOK(t) /\ task[t] \in Task
      /\ task[t].pc = "save" /\ task[t].rec \in Stored /\ task[t].mode # "undo"
  BY DEF LentInv, AllBack, TasksOK, TaskOK, Save, Working, TaskBack
<1>1. /\ recs' = [recs EXCEPT ![task[t].rec].status = "restored"]
      /\ Goto(t, "pick") /\ geofence' = geofence /\ own' = own
  BY <1>0 DEF Save
<1>2. /\ Stored' = Stored
      /\ recs'[task[t].rec].status = "restored"
      /\ recs'[task[t].rec].vehicle = recs[task[t].rec].vehicle
      /\ recs'[task[t].rec].saved = recs[task[t].rec].saved
      /\ \A i \in RecIds : i # task[t].rec => recs'[i] = recs[i]
  BY <1>0, <1>1, Closes
<1>3. \A i \in Stored : recs'[i].vehicle = recs[i].vehicle /\ recs'[i].saved = recs[i].saved
  BY <1>2 DEF Stored
<1>4. \A v : v # Of(t) => ActiveOf(v)' = ActiveOf(v)
  <2>1. \A i \in Stored : i # task[t].rec => (i \in Active' <=> i \in Active)
    BY <1>2 DEF Active, Stored
  <2>2. \A v, i : v # Of(t) => (i \in ActiveOf(v)' <=> i \in ActiveOf(v))
    BY <1>2, <1>3, <2>1 DEF ActiveOf, Active, Of
  <2> QED BY <2>2 DEF ActiveOf
<1>5. /\ \A u \in Tasks : u # t => task'[u] = task[u]
      /\ task'[t].pc = "pick" /\ task'[t].mode = task[t].mode
  BY <1>0, <1>1, Goes DEF PCs
<1>6. \A u \in Tasks : u # t /\ task[u].pc \in Working => task[u].rec \in Stored
  BY <1>0 DEF TasksOK, TaskOK
<1>7. \A u \in Tasks : u # t => This(u)' = This(u)
  BY <1>5 DEF This
<1>8. \A u \in Tasks : u # t /\ task[u].pc \in Working => Of(u)' = Of(u)
  BY <1>3, <1>5, <1>6 DEF Of
<1>9. \A u \in Tasks : u # t /\ task[u].pc # "idle" => task[u].op # "create"
  BY <1>0 DEF LentInv, Alone, Busy
<1>10. \A u \in Tasks : TaskBack(u)'
  <2>1. TaskBack(t)'
    BY <1>0, <1>5 DEF TaskBack, Working
  <2>2. ASSUME NEW u \in Tasks, u # t PROVE TaskBack(u)'
    <3>1. task[u].pc \in Working => task[u].mode # "apply"
      BY <1>0, <1>9, <2>2 DEF TasksOK, TaskOK, Working
    <3> QED BY <1>1, <1>5, <1>7, <1>8, <2>2, <3>1 DEF AllBack, TaskBack, Working
  <2> QED BY <2>1, <2>2
<1>11. \A v : Putting(v)' <=> Putting(v)
  BY <1>0, <1>5, <1>8 DEF Putting, Working
<1>12. \A v \in Vehicles : (ActiveOf(v) = {} /\ ~Putting(v))' => geofence'[v] = own[v]
  BY <1>0, <1>1, <1>4, <1>11 DEF AllBack, FencesBack
<1>13. \A u \in Tasks : (task[u].pc = "save" /\ ~Putting(Of(u)))'
                            => geofence'[Of(u)'] = own[Of(u)']
  BY <1>0, <1>1, <1>5, <1>8, <1>11 DEF AllBack, FencesBack, Working
<1>14. FencesBack'
  BY <1>1, <1>12, <1>13 DEF FencesBack
<1>15. RowsBack'
  BY <1>1, <1>2, <1>3 DEF AllBack, RowsBack
<1> QED BY <1>10, <1>14, <1>15 DEF AllBack

\* A call that arrives, the first or the second of a row.
LEMMA CallBack ==
    ASSUME LentInv, AllBack, NEW t \in Tasks, Clear(t) \/ Put(t), NoFault, faults = 0
    PROVE  AllBack'
<1>0. Tables /\ faults' = faults /\ faults # faults + 1
  BY DEF LentInv, Tables, NoFault
<1>1. CASE Clear(t)
  <2>1. Deliver(t, None) /\ task[t].pc = "clear" /\ recs' = recs /\ own' = own
    BY <1>0, <1>1 DEF Clear, Fault
  <2>2. CASE task[t].fence = None
    <3>1. Deliver(t, task[t].fence) /\ Sent(t)
      BY <1>1, <2>1, <2>2 DEF Clear
    <3> QED BY <2>1, <3>1, SettleBack
  <2>3. CASE task[t].fence # None
    <3>1. Goto(t, "put")
      BY <1>1, <2>3 DEF Clear
    <3> QED BY <2>1, <3>1, ClearBack
  <2> QED BY <2>2, <2>3
<1>2. CASE Put(t)
  <2>1. /\ Deliver(t, task[t].fence) /\ Sent(t)
        /\ task[t].pc = "put" /\ recs' = recs /\ own' = own
    BY <1>0, <1>2 DEF Put, Fault
  <2> QED BY <2>1, SettleBack
<1> QED BY <1>1, <1>2

\* A row is inserted: its snapshot is the owner's geofence.
LEMMA InsertBack ==
    ASSUME LentInv, AllBack, NEW t \in Tasks, NEW i \in RecIds, Insert(t, i)
    PROVE  AllBack'
<1> DEFINE row == [vehicle |-> This(t), saved |-> task[t].fence,
                   ends |-> task[t].ends, status |-> "active"]
<1>0. /\ Tables /\ TasksOK /\ task[t] \in Task /\ TaskOK(t) /\ TaskBack(t)
      /\ task[t].pc = "insert" /\ Busy(t) /\ task \in [Tasks -> Task]
      /\ i \notin Stored /\ recs' = [recs EXCEPT ![i] = row]
      /\ geofence' = geofence /\ own' = own
  BY DEF LentInv, AllBack, TasksOK, TaskOK, Insert, Busy
<1>1. /\ recs'[i].vehicle = This(t) /\ recs'[i].status = "active"
      /\ recs'[i].saved = task[t].fence
      /\ \A j \in RecIds : j # i => recs'[j] = recs[j]
  BY <1>0 DEF Tables
<1> HIDE DEF row
<1>2. \A u \in Tasks : u # t => task[u].pc = "idle" /\ task'[u] = task[u]
  BY <1>0 DEF LentInv, Alone, Insert
<1>3. /\ task'[t].pc = "clear" /\ task'[t].mode = "apply" /\ task'[t].rec = i
  BY <1>0 DEF Insert, Task
<1>4. (TasksOK /\ Tables)'
  BY StepTypes DEF LentInv, Step
<1>5. i \in Stored' /\ i \in Active'
  <2>1. task'[t].rec \in Stored'
    BY <1>3, <1>4 DEF TasksOK, TaskOK, Working
  <2> QED BY <1>1, <1>3, <2>1 DEF Active
<1>6. \A u \in Tasks : TaskBack(u)'
  <2>1. TaskBack(t)'
    BY <1>3, <1>5 DEF TaskBack, Working
  <2>2. \A u \in Tasks : u # t => TaskBack(u)'
    BY <1>0, <1>2 DEF AllBack, TaskBack, Working
  <2> QED BY <2>1, <2>2
<1>7. \A v : ~Putting(v)
  BY <1>0, <1>2 DEF Putting
<1>8. \A v : ActiveOf(v) \subseteq ActiveOf(v)'
  BY <1>0, <1>1 DEF ActiveOf, Active, Stored
<1>9. \A v \in Vehicles : (ActiveOf(v) = {} /\ ~Putting(v))' => geofence'[v] = own[v]
  BY <1>0, <1>7, <1>8 DEF AllBack, FencesBack
<1>10. \A u \in Tasks : task'[u].pc # "save"
  BY <1>2, <1>3
<1>11. FencesBack'
  BY <1>0, <1>9, <1>10 DEF FencesBack
<1>12. RowsBack'
  <2>1. task[t].fence = own[This(t)]
    BY <1>0 DEF TaskBack
  <2> QED BY <1>0, <1>1, <2>1 DEF AllBack, RowsBack, Stored
<1> QED BY <1>6, <1>11, <1>12 DEF AllBack

\* The geofence a create reads is the owner's.
LEMMA ReadBack ==
    ASSUME LentInv, AllBack, NEW t \in Tasks, Read(t), faults' = 0
    PROVE  AllBack'
<1>0. /\ Tables /\ TasksOK /\ task[t] \in Task /\ TaskOK(t) /\ TaskBack(t)
      /\ task[t].pc = "read" /\ Busy(t) /\ ProgressOf(t) /\ More(t)
      /\ task \in [Tasks -> Task] /\ task[t].vids \in Lists
      /\ geofence' = geofence /\ own' = own /\ recs' = recs
  BY DEF LentInv, AllBack, TasksOK, TaskOK, Read, Busy, Progress
<1>1. task' = [task EXCEPT ![t].pc = "insert", ![t].fence = geofence[This(t)]]
  BY <1>0 DEF Read, Fault, Tables
<1>2. /\ task'[t].pc = "insert" /\ task'[t].fence = geofence[This(t)]
      /\ task'[t].vids = task[t].vids /\ task'[t].done = task[t].done
      /\ task'[t].mode = task[t].mode
      /\ \A u \in Tasks : u # t => task[u].pc = "idle" /\ task'[u] = task[u]
  BY <1>0, <1>1 DEF Task, LentInv, Alone
<1>3. This(t)' = This(t)
  BY <1>2 DEF This
<1>4. /\ task[t].done + 1 \in DOMAIN task[t].vids /\ task[t].done + 1 > task[t].done
      /\ This(t) = task[t].vids[task[t].done + 1] /\ This(t) \in Vehicles
  BY <1>0 DEF More, This, Lists, Task
<1>5. ActiveOf(This(t)) = {}
  BY <1>0, <1>4 DEF ProgressOf
<1>6. ~Putting(This(t))
  BY <1>0, <1>2 DEF Putting
<1>7. geofence[This(t)] = own[This(t)]
  BY <1>4, <1>5, <1>6 DEF AllBack, FencesBack
<1>8. TaskBack(t)'
  BY <1>0, <1>2, <1>3, <1>7 DEF TaskBack, Working
<1> QED BY <1>0, <1>2, <1>8, QuietBack

\* A step of a task, if no call fails in it.
LEMMA StepBack ==
    ASSUME LentInv, AllBack, faults = 0, faults' = 0, NEW t \in Tasks, Step(t)
    PROVE  AllBack'
<1>0. /\ Tables /\ TasksOK /\ task[t] \in Task /\ TaskOK(t) /\ TaskBack(t)
      /\ task \in [Tasks -> Task]
  BY DEF LentInv, AllBack, TasksOK
<1>a. \A u \in Tasks : u # t => task'[u] = task[u]
  BY <1>0, StepMoves
<1>b. ASSUME task[t].pc # "put", task'[t].pc \notin {"clear", "put", "save", "post", "insert"},
             task'[t].mode # "undo", UNCHANGED <<recs, geofence, own>>
      PROVE  AllBack'
  <2>1. TaskBack(t)'
    BY <1>b DEF TaskBack, Working
  <2> QED BY <1>a, <1>b, <2>1, QuietBack
<1>1. CASE FindActives(t)
  <2>1. /\ task[t].pc = "actives" /\ task'[t].pc = "pick" /\ task'[t].mode = task[t].mode
        /\ UNCHANGED <<recs, geofence, own>>
    BY <1>0, <1>1 DEF FindActives, Task
  <2> QED BY <1>0, <1>b, <2>1 DEF TaskBack
<1>2. CASE Dates(t)
  <2>1. task[t].pc = "actives" /\ UNCHANGED <<recs, geofence, own>>
    BY <1>2 DEF Dates
  <2>2. CASE Return(t)
    BY <1>0, <1>b, <2>1, <2>2, Returns
  <2>3. CASE task' = [task EXCEPT ![t].pc = "read", ![t].done = 0]
    <3>1. task'[t].pc = "read" /\ task'[t].mode = task[t].mode
      BY <1>0, <2>3 DEF Task
    <3> QED BY <1>0, <1>b, <2>1, <3>1 DEF TaskBack
  <2> QED BY <1>2, <2>2, <2>3 DEF Dates
<1>3. CASE Picked(t)
  <2>1. task[t].pc = "pick" /\ UNCHANGED <<recs, geofence, own>>
    BY <1>3 DEF Picked
  <2>2. CASE Return(t)
    BY <1>0, <1>b, <2>1, <2>2, Returns
  <2>3. CASE Goto(t, "actives")
    <3>1. task'[t].pc = "actives" /\ task'[t].mode = task[t].mode
      BY <1>0, <2>3, Goes DEF PCs
    <3> QED BY <1>0, <1>b, <2>1, <3>1 DEF TaskBack
  <2> QED BY <1>3, <2>2, <2>3 DEF Picked
<1>4. CASE Clear(t) \/ Put(t)
  BY <1>4, CallBack DEF NoFault
<1>5. CASE Post(t)
  BY <1>0, <1>5 DEF Post, TaskBack
<1>6. CASE Save(t)
  BY <1>6, SaveBack
<1>7. CASE Read(t)
  BY <1>7, ReadBack
<1>8. ASSUME NEW i \in RecIds, Insert(t, i) PROVE AllBack'
  BY <1>8, InsertBack
<1>9. ASSUME NEW i \in RecIds, Pick(t, i) PROVE AllBack'
  <2>1. /\ task[t].pc = "pick" /\ UNCHANGED <<recs, geofence, own>>
        /\ i \in Stored
    BY <1>0, <1>9 DEF Pick, TaskOK
  <2>2. CASE task' = [task EXCEPT ![t].queue = @ \ {i}]
    <3>1. task'[t].pc = "pick" /\ task'[t].mode = task[t].mode
      BY <1>0, <2>1, <2>2 DEF Task
    <3> QED BY <1>0, <1>b, <2>1, <3>1 DEF TaskBack
  <2>3. CASE task' = [task EXCEPT
               ![t].queue = @ \ {i}, ![t].rec = i, ![t].pc = "clear",
               ![t].mode = "close", ![t].fence = recs[i].saved]
    <3>1. /\ task'[t].pc = "clear" /\ task'[t].mode = "close" /\ task'[t].rec = i
          /\ task'[t].fence = recs[i].saved
      BY <1>0, <2>3 DEF Task
    <3>2. Of(t)' = recs[i].vehicle
      BY <2>1, <3>1 DEF Of
    <3>3. recs[i].saved = own[recs[i].vehicle]
      BY <2>1 DEF AllBack, RowsBack
    <3>4. task'[t].fence = own'[Of(t)']
      BY <2>1, <3>1, <3>2, <3>3
    <3>5. TaskBack(t)'
      BY <3>1, <3>4 DEF TaskBack
    <3> QED BY <1>a, <2>1, <3>1, <3>5, QuietBack
  <2> QED BY <1>9, <2>2, <2>3 DEF Pick
<1> QED BY <1>1, <1>2, <1>3, <1>4, <1>5, <1>6, <1>7, <1>8, <1>9 DEF Step

\* The process dies: what it was doing is left to the rows that are active.
LEMMA CrashBack ==
    ASSUME LentInv, AllBack, Crash, ~torn'
    PROVE  AllBack'
<1>1. /\ recs' = recs /\ geofence' = geofence /\ own' = own
      /\ \A t \in Tasks : task'[t].pc = "idle" /\ task'[t].mode = "close"
      /\ \A t \in Tasks : task[t].pc = "put" => task[t].rec \in Active
  BY DEF Crash, Idle
<1>2. Stored' = Stored /\ Active' = Active /\ \A v : ActiveOf(v)' = ActiveOf(v)
  BY <1>1, SameRows
<1>3. \A v : Putting(v) => ActiveOf(v) # {}
  BY <1>1 DEF Putting, ActiveOf, Of
<1>4. FencesBack'
  BY <1>1, <1>2, <1>3 DEF AllBack, FencesBack
<1>5. \A t \in Tasks : TaskBack(t)'
  BY <1>1 DEF TaskBack, Working
<1> QED BY <1>1, <1>2, <1>4, <1>5 DEF AllBack, RowsBack

\* A request or a sweep that begins.
LEMMA BeginBack ==
    ASSUME AllBack, NEW t \in Tasks, UNCHANGED <<recs, geofence, own>>,
           \A u \in Tasks : u # t => task'[u] = task[u],
           task[t].pc = "idle", task'[t].pc \in {"actives", "pick"}, task'[t].mode = "close"
    PROVE  AllBack'
<1>1. TaskBack(t)'
  BY DEF TaskBack, Working
<1> QED BY <1>1, QuietBack

\* Failures are counted, and a restore that has been cut off stays so.
LEMMA OnlyMore ==
    ASSUME [Next]_vars PROVE (faults' = faults \/ faults' = faults + 1) /\ (torn => torn')
<1>1. ASSUME NEW t \in Tasks, Step(t)
      PROVE  (faults' = faults \/ faults' = faults + 1) /\ UNCHANGED torn
  <2>1. CASE FindActives(t) \/ Dates(t) \/ Picked(t) \/ Save(t)
    BY <2>1 DEF FindActives, Dates, Picked, Save, restarts
  <2>2. CASE Clear(t) \/ Put(t) \/ Post(t) \/ Read(t)
    BY <2>2 DEF Clear, Put, Post, Read, Fault, NoFault, restarts
  <2>3. CASE \E i \in RecIds : Pick(t, i) \/ Insert(t, i)
    BY <2>3 DEF Pick, Insert, restarts
  <2> QED BY <1>1, <2>1, <2>2, <2>3 DEF Step
<1>2. CASE Crash
  <2>1. faults' = faults
    BY <1>2 DEF Crash
  <2>2. torn' = (torn \/ \E t \in Tasks :
                            task[t].pc \in {"put", "post"} /\ task[t].rec \notin Active)
    BY <1>2 DEF Crash
  <2>3. torn => torn'
    BY ONLY <2>2, Zenon
  <2> QED BY <2>1, <2>3
<1>3. CASE ~Crash /\ ~(\E t \in Tasks : Step(t))
  <2>1. faults' = faults /\ torn' = torn
    BY <1>3 DEF Next, Tick, Sweep, Create, Cancel, restarts, vars
  <2> QED BY <2>1
<1> QED BY <1>1, <1>2, <1>3

\* Every step keeps what stands between a vehicle and its owner's geofence.
LEMMA NextBack ==
    ASSUME CreateAlone, BackInv, [Next]_vars PROVE BackInv'
<1>0. LentInv /\ LentInv' /\ Tables /\ TasksOK
  BY NextLent DEF BackInv, LentInv
<1>1. Calm' => Calm /\ faults' = 0
  <2>1. faults \in Nat
    BY <1>0, BoundsAssumption DEF Tables
  <2>2. (faults' = faults \/ faults' = faults + 1) /\ (torn => torn')
    BY OnlyMore
  <2> QED BY <2>1, <2>2 DEF Calm
<1> SUFFICES ASSUME Calm' PROVE AllBack'
  BY <1>0 DEF BackInv
<1>2. AllBack /\ faults = 0 /\ faults' = 0 /\ ~torn'
  BY <1>1 DEF BackInv, Calm
<1>3. CASE Tick \/ UNCHANGED vars
  <2>1. UNCHANGED <<recs, geofence, own, task>>
    BY <1>3 DEF Tick, vars
  <2> QED BY <1>2, <2>1 DEF AllBack, TaskBack, RowsBack, FencesBack, Putting, ActiveOf,
                            Active, Stored, Of, This
<1>4. CASE Crash
  BY <1>0, <1>2, <1>4, CrashBack
<1>5. CASE \E s \in Sweeps : Sweep(s)
  <2>1. PICK s \in Sweeps : Sweep(s)
    BY <1>5
  <2>2. /\ s \in Tasks /\ task[s].pc = "idle" /\ task'[s].pc = "pick"
        /\ task'[s].mode = "close" /\ UNCHANGED <<recs, geofence, own>>
        /\ \A u \in Tasks : u # s => task'[u] = task[u]
    BY <1>0, <2>1 DEF Sweep, TasksOK, Tasks, Idle
  <2> QED BY <1>2, <2>2, BeginBack
<1>6. CASE \E q \in Calls, i \in Stored : Cancel(q, i)
  <2>1. PICK q \in Calls, i \in Stored : Cancel(q, i)
    BY <1>6
  <2>2. /\ q \in Tasks /\ task[q].pc = "idle" /\ task'[q].pc = "pick"
        /\ task'[q].mode = "close" /\ UNCHANGED <<recs, geofence, own>>
        /\ \A u \in Tasks : u # q => task'[u] = task[u]
    BY <1>0, <2>1 DEF Cancel, TasksOK, Tasks, Idle
  <2> QED BY <1>2, <2>2, BeginBack
<1>7. CASE \E q \in Calls, vids \in Lists, p \in Fence \cup {Keep}, e \in Times \cup {None} :
              Create(q, vids, p, e)
  <2>1. PICK q \in Calls, vids \in Lists, p \in Fence \cup {Keep}, e \in Times \cup {None} :
            Create(q, vids, p, e)
    BY <1>7
  <2>2. /\ q \in Tasks /\ task[q].pc = "idle" /\ task'[q].pc = "actives"
        /\ task'[q].mode = "close" /\ UNCHANGED <<recs, geofence, own>>
        /\ \A u \in Tasks : u # q => task'[u] = task[u]
    BY <1>0, <2>1 DEF Create, TasksOK, Tasks, Idle
  <2> QED BY <1>2, <2>2, BeginBack
<1>8. CASE \E t \in Tasks : Step(t)
  BY <1>0, <1>2, <1>8, StepBack
<1> QED BY <1>3, <1>4, <1>5, <1>6, <1>7, <1>8 DEF Next

\* At first every vehicle has its owner's geofence.
LEMMA InitBack == Init => BackInv
<1> SUFFICES ASSUME Init PROVE BackInv
  OBVIOUS
<1>1. \A t \in Tasks : task[t].pc = "idle" /\ task[t].mode = "close"
  BY DEF Init, Idle
<1>2. Stored = {} /\ geofence = own
  BY DEF Init, Stored
<1> QED BY <1>1, <1>2, InitLent
        DEF BackInv, AllBack, TaskBack, RowsBack, FencesBack, Working

\* If no create overlaps another task, no call fails and no crash cuts off a second
\* restore, every vehicle has its owner's geofence when nothing is lent out and
\* nothing is under way, however sweeps and cancels overlapped.
THEOREM OwnersComeBack == ASSUME CreateAlone PROVE Spec => []OriginalComesBack
<1>1. BackInv /\ [Next]_vars => BackInv'
  BY NextBack
<1>2. BackInv => OriginalComesBack
  <2>1. SUFFICES ASSUME BackInv, Quiet, Active = {}, faults = 0, ~torn
                 PROVE  geofence = own
    BY DEF OriginalComesBack
  <2>2. \A v \in Vehicles : ActiveOf(v) = {} /\ ~Putting(v)
    BY <2>1 DEF ActiveOf, Quiet, Putting
  <2>3. \A v \in Vehicles : geofence[v] = own[v]
    BY <2>1, <2>2 DEF BackInv, Calm, AllBack, FencesBack
  <2>4. geofence \in [Vehicles -> Fence] /\ own \in [Vehicles -> Fence]
    BY <2>1 DEF BackInv, LentInv, Tables
  <2> QED BY <2>3, <2>4
<1> QED BY <1>1, <1>2, InitBack, PTL DEF Spec

=============================================================================
