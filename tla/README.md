# Satab in TLA+

Satab is a fleet platform: trackers and drivers report positions, owners lend
vehicles, set geofences and shifts, users chat. This project specifies the core
logic of its backend (`src/satab-backend/src`, NestJS on Node with TypeORM and
PostgreSQL) and of the chat page of its front end (`src/front/satab/src`, React),
model-checks it with TLC and proves its main invariants with TLAPS. Paths below are
under `src/satab-backend/src` unless they start with `front/`.

## The system

One Node process serves HTTP, WebSockets and MQTT. It is single threaded: a
handler runs undisturbed from one `await` to the next, and anything may run in
between. Rows live in PostgreSQL (READ COMMITTED, `synchronize: true`), and a good
deal of state lives in `Map`s of the process and dies with it.

| Component | State | Operations | What must hold | Module |
|---|---|---|---|---|
| Driver-vehicle assignments (`driver-vehicle-assignment/`) | `driver_vehicle_assignments`, two partial unique indexes, a CHECK | toggle, start, end: transactions of several statements | one open row per driver and per vehicle, history only grows, every request answered | `DriverAssignments`, `ExclusivePairing` |
| Driver routes (`drivers/driver-route.*`) | `driver_routes` with its points | startRoute, finishRoute, addPoint (row lock), addRouteMeta, mirrored telemetry | one active trip per driver, accepted points stay, what is over stays over | `DriverRoutes` |
| Pairing codes (`pairing/pairing.service.ts` 85-339) | Maps `codes`, `used`, `waiters`, `results`, timers; vehicles | issue, redeem, wait, three kinds of timer | a code is used once, for its user; every page answered; every code ends | `PairingCodes` |
| Temporary assignments (`temporary-assignments/`) | `temporary_vehicle_assignment`, the settings of vehicles behind the program's own HTTP API | createAndApply, cancelAndRestore, sweep every minute | lent once at a time, settings come back, every lending ends | `TemporaryAssignments` |
| Geofences (`geofence/`) | geofence, counter of points outside | upsert, delete, checkAndRecord | one violation per run of points outside | upsert and delete as calls of `TemporaryAssignments` |
| Cards (`pairing/pairing.service.ts` 340-1174) | Maps `armedByHex`, `results`, `used`, `pendings`, streams; `users.driver_card_hex` | arm, consume, issuePending, submitUid, SSE, delete a user | a card is one driver's, moves only by its tap, a retry is answered, a session ends | `Cards` |
| Board ingest (`board/ingest.service.ts`) | a reorder buffer per vehicle | push, flush, processOne, shutdown | a message is overtaken only when it comes late, none is lost while the process runs | `VehicleTelemetry` |
| Vehicles and telemetry (`vehicles/`) | vehicles, ignition counter, daily tracks, the archive; fences, stations, `routeCache` | ingestVehicleTelemetry, ingestVehiclePos, deviation and stations, editing routes | the counter is the running time, points go to their trip, caches agree with rows, exits and returns alternate | `VehicleTelemetry`, `RouteWatch` |
| Chat and users (`chat/`, `users/`) | rooms, memberships, messages, a tree of users | myRooms, send, lock, settings, creating and moving a user | one group per super admin, one's own group, groups follow the tree, locks stay | `ChatRooms` |
| Chat page and gateway (`front/satab/src/pages/ChatPage.tsx`, `chat/chat.gateway.ts`) | the room open, the list, `lastWireRoomRef`; Maps `socketUser`, `roomMembers` | open a room, joinRoomWs, fetchMessages, loadUntilFound, message:new, reconnect; join, leave, disconnect | the socket is in the room shown, the list is the room's, nothing emitted to a tab at rest is lost | `ChatScreen` |
| Permissions, policies (`permissions/`, `vehicle-policies/`) | grants | bounded update | nobody grants more than it holds | planned |
| Shifts (`shifts/`) | shifts | create, update, publish, lock, apply profile | no overlap, locked shifts stay | planned |
| One-time passwords, auth (`sms/otp.service.ts`, `auth/`) | a Map of codes | send, verify, gc | attempts and cooldown bounded | planned |
| Consumables, licences, profiles, country policies, audit, assets, violations, analytics | rows | CRUD and queries | - | not modelled: no rule spans two rows or two calls |
| SMS modem, other pages of the front end | - | - | - | not modelled: input and output, forms over the API |

How they meet: the board's MQTT messages go through the reorder buffer to vehicles,
which check the geofence and mirror the telemetry to the trip of the vehicle's
driver; whose vehicle it is, the assignments say. A toggle of an assignment starts and
finishes trips after its commit. Pairing creates vehicles. Temporary assignments call
the program's own API over HTTP. Chat groups follow the users' tree; the gateway
carries messages from the chat service to the chat pages.

### What is hard

* Read, `await`, write: a copy of a row or of a Map entry is used after other
  handlers have run. TypeORM's `save()` of a loaded entity reads the row again and
  writes every column in which the copy differs, so a stale copy undoes what others
  wrote.
* Partial unique indexes are the only guard of several invariants; the refusal comes
  after other statements of the transaction have run.
* Timers that race with answers; an event loop that runs a timer late.
* Calls that are lost after they were carried out; a sweep that overlaps the next;
  a process that dies halfway and remembers only rows.

`PROJECT.json` lists each hazard at its line with the properties that cover it.

## The modules

Each `X.tla` is a component, `MCX.tla` adds the symmetry sets and instances for TLC,
`X_*.cfg` are its runs, `X_proofs.tla` its theorems (`PairingService_proofs.tla` those of
both its halves). In `X.tla` properties stand at
the end; an operator introduced by "Mutant of" is a plausible bug of the definition
after it, used to show that a property can fail.

**ExclusivePairing** is what the assignments promise: a set of pairs in which no driver
and no vehicle occurs twice, changed by indivisible `Attach` and `Detach`.

**DriverAssignments.** `rows` is the table. `req[q]` is one handler with its locals;
`pc` names the statement it is about to run. `TxRead` is `findOne`; each
`UPDATE ... WHERE ended_at IS NULL` is `TxScan` (choose the rows the statement's
snapshot sees) and `TxClose` (wait for their locks, re-check, close); `TxInsert` is
enabled when no other transaction holds a row whose key conflicts, and `TxReject` when
one conflicts for good. `closing` are the rows a transaction has changed and not
committed; others do not see them. `TxDeadlock` fires when transactions wait in a
circle. Time is in seconds, an end of 0 is NULL.

**DriverRoutes.** `routes` is the table, `call[q]` one service call with the copy of
the row it loaded. `FindActive`, `FindOne`, `FindCovering` load it; `Reload` and
`Write` are the two halves of `save()` (`Merge` computes what it writes);
`AppendPoint` is addPoint's transaction under its row lock; `UpdateMeta` one UPDATE.
A point is its timestamp.

**VehicleTelemetry.** `msg[m]` is a message: what it says, and `pc`, the await at which
its handler stands; `Receive` is `push()`, `FlushDue` the interval, and all that leave the
buffer together start together, in the order of `Orders`. From then on each handler runs by
itself: `Ignite`, `Count` (the ignition counter), `FindMeta`, `AddMeta` (the trip's
readings), `Archive`, `Load`, `Save` (the day's track), `Locate`, `FindTrip`,
`FinishForeign`, `StartTrip`, `AddPoint`. The calls to the trips are one step each;
their insides are `DriverRoutes`. `DriverAt` is a constant: who drove what is
history when a message is handled, and `DriverAssignments` says how it comes about. `out`,
`applied`, `mixed`, `raced` are history variables.

**RouteWatch.** The end of the same handler. `watch[w]` is a position at one of its
awaits: the route of the vehicle, the line from `routeCache` or from the tables (threshold
first, points after), the fence's row, its event and its violation, then the stations and
their state. `edit[e]` is a request that changes a route; `Invalidate` is where the code
has it, which is before the row is written in two of the requests. `Covers` and
`StationAt` stand for the geometry. `Crash` empties the cache.

**PairingService** holds what its halves `Cards` and `PairingCodes` share: the users and the
clock. The program's Maps `used` and `results` serve both, under keys that never meet; the
models call the codes' part `usedCodes` and `codeResults`.

**Cards.** `taps[t]` is a `consumeArmedUid()` at one of its statements with what it has
read; `ClearOld` and `SetTarget` wait for the rows other taps have locked, `Deadlock` breaks a
circle. `resultTimers` are the timers that forget an answer, one per tap and not per
card. A session is a `PendingSession`; `SubmitUid` gives up its timer only for a match,
after `Accept`, and awaits the user's creation. `Restart` forgets the Maps and the timers and keeps the
users. `driver_card_hex` is CHAR(16) and comes back padded, so the comparison before the
write never finds the card already there, and the model always writes.

**ChatRooms.** `calls[k]` is a request or a listener: it walks up the tree a row at a time
(`Walk`), finds or makes the group of the super admin it reached (`Find`, `Legacy`,
`Adopt`, `CreateRoom`), enters its user (`Enter`), and a listener goes on to the users below
(`Descend`). `SaveUser` is an update of the tree and starts the listener. Settings and
locks load the room, check the caller (`CheckRole`, `Decide`) and save the copy
(`Saved` computes what TypeORM writes). `Above` is the way up the tree, circles included, as
the least set that goes on to everybody's parent: it measures what the walks find and is
`getDescendantIds`, which reads the tree at one moment.

**ChatScreen.** `pages[p]` is a tab of one user: the packets between it and the gateway in
each direction, the room it shows, `last` (`lastWireRoomRef`), how often each message is in
its list. `joins[j]` is a `joinRoomWs` that waits for the acknowledgement of its leave or its
join (the answer of `presence.list` after them changes nothing here and is left out);
`loads[l]` is a `fetchMessages` or a `loadUntilFound` that waits for an answer. `Open` is
`setActiveRoomId` with both its effects. `sockets` and `present` are the gateway's: the rooms of
each socket, and the rooms that list the user. `JoinRoom` and `LeaveRoom` are `ensureJoin` and
`ensureLeave`, `Notice` is `removeOnline`, when the gateway notices that a socket is gone, which
may be long after the tab has connected again. Of socket.io-client 4.8 the model has what the
page relies on: packets in order; packets kept while not connected, and sent before
`connect` is announced; calls that wait rejected when the connection breaks; a packet that
times out before it was sent taken out of the buffer. Other people are `Post`: the page's own
`handleSend` is defined but no input calls it. `hidden`, `strange` and `gap` are history
variables. The listener of `chat.message.created` and `wsSend` emit one right after the
other, so their copies are one packet. The yield to the renderer in `loadUntilFound` is one
step with the answer before it.

**PairingCodes.** One variable per Map. `board[b]` is a `redeem()` with the record it
holds across its transaction (`Lookup`, `Insert`), then `FinalizeCode`, which goes by code
and not by record, as the program does. Timers are separate actions that fire at
their time or later.

**TemporaryAssignments.** `task[t]` is a request or a sweep; each HTTP call is an
action that may be carried out, refused, or lost with or without effect. The calls
carry no token, so those under `JwtAuthGuard` (vehicles, routes, stations) are answered
401 and change nothing; `GeofenceController` has no guard, so the geofence is what is
left of the settings. `validateStatus: () => true` means that only a lost call throws.
`Crash` forgets all tasks. `own` and `torn` are history variables. `CreateAlone`
restricts a model: with TRUE no create overlaps another task.

## Runs

| Run | Shows | Size |
|---|---|---|
| `DriverAssignments_safety` | types, append-only history, refinement of `ExclusivePairing` and with it exclusivity | 2 drivers, 2 vehicles, 3 rows, 2 handlers, 2 instants |
| `DriverAssignments_liveness` | every request is answered, deadlocks included | 2 drivers already in 2 vehicles, 2 more rows, 2 handlers |
| `DriverRoutes_concurrent` | what survives stale copies: one active trip, points from the start on | 1 driver, 2 trips, 2 calls, 2 instants |
| `PairingCodes_all` | whose vehicle a board is told of, every page answered | 1 code for 2 users, 2 boards, 2 devices, 1 page, a clock of 3 |
| `TemporaryAssignments_safety` | lent once, owner's geofence back | 2 vehicles, 2 rows, a request, 2 sweeps, 1 lost call, 1 crash |
| `TemporaryAssignments_liveness` | every lending ends | 1 vehicle, the same |
| `VehicleTelemetry_all` | order out of the buffer, the counter, the track, the trips, every message ends | 1 driver who changes from one vehicle to the other, 1 message handled and 2 to come, batches of 2, 1 stop, days of one instant |
| `RouteWatch_all` | the cache is stale only by a race, crossings alternate, stations in order | 1 vehicle, 2 routes, 2 places, 2 lines, 2 thresholds, 2 positions and 1 edit at once, 4 events |
| `Cards_all` | retries, cached answers, who loses a card, sessions end | 2 cards, 2 drivers, 2 taps, 1 session, 2 submits, a clock of 1 |
| `ChatRooms_all` | groups, own group, subtree, locks | 4 users in the trees of `SomeTrees`, 3 rooms, 2 calls, 2 events |
| `ChatScreen_all` | the socket is in the room shown, what a list misses, whose messages it holds, whom a room lists; every tab gets into its room | 1 tab, 2 rooms (one direct), 2 sockets, 2 joins and 2 loads at once, answers of 1 message, 2 old messages and 1 new, 3 events |
| `DriverRoutes_AcceptedPointsKept` | a counterexample | 2 overlapping calls |

Why the bounds are enough to be interesting. Two transactions over two drivers and two
vehicles can share a driver, a vehicle, both or neither, and wait in a circle; a third
row lets a hand-over succeed after a refused one. Two calls suffice for every lost update (a
reader, a writer). One code is enough
because codes meet only in the vehicles of a device, and the clock lets it expire, be
redeemed, be forgotten and be issued again. Two rows and two sweeps let a list go
stale while the vehicle is lent out again; one crash and one lost call can each fall
into every step. Three messages of two vehicles, the first already handled, give a late one, a batch, a
midnight between two and a hand-over between two. Two positions and an edit are
what each race of a fence, a row of stations or the cache needs; 4 events (an edit counts
two) let an edit overlap two positions, or two edits a load. Two taps meet in one card, in swapped
cards, or in one driver; `Small` searches taps and sessions apart, for they share only the table of
users, and two taps at once only over the full table. The TTL of an answer is the only
one that outlives an instant. Two updates of the tree, or an update and a request, or two
requests are every pair of causes for a wrong group; a search with 3 events (8.9
million states, 11 minutes) found nothing more. Two joins and two
loads are what a quick change of rooms leaves under way; a second socket is what a reconnect
needs while the gateway still has the first; three events (rooms opened, searches, broken
connections, timeouts while an answer may still come) let a break or a timeout fall between two
changes of rooms; answers of one message make an old one scroll out of the list and be
searched for. A second tab is left out: that another socket's leave or end takes the user off a
list happens with the tab's own old socket too. `LaterSpec`, `SmallSpec`, `SmallInit` and
`AfterOne` start at states the program reaches, to save the way there. For the invariants that are proved the bounds do not matter.

The counters `MaxTime`, `MaxEvents`, `MaxFaults`, `MaxCrashes` and the sets `RowIds`,
`RouteIds`, `RecIds`, `Messages`, `RoomIds` bound the models, not the program. `CHECK_DEADLOCK FALSE` is set where a bounded
table may fill up and all handlers be idle for good.

### Fairness

`DriverAssignments`: weak fairness of statements that can run, strong fairness of those
that wait for a row, since PostgreSQL queues waiters and lets one through, and
weak fairness of deadlock detection. Nothing makes a client send.
`VehicleTelemetry`: the clock runs, `setInterval` fires, and some call or other
returns (weak fairness of all handlers together: none is assumed to be faster than another).
`PairingCodes`: the clock runs and a timer that is due fires. `TemporaryAssignments`:
the clock runs, a task under way goes on (a call answers or times out after 10 s),
and the sweep, which `@Interval` starts whatever requests come and go, is strongly
fair. The sweep's fairness matters only under `CreateAlone`, which would otherwise let requests
keep it out.
`ChatScreen`: the socket delivers in both directions, and a call whose packet went with the
connection is rejected; nobody has to open a room, post or reconnect, and no answer has
to come over HTTP.

### What the counterexample shows

*AcceptedPointsKept*: finishRoute loads a trip, addPoint appends to it, finishRoute
saves its copy and with it the old points. With one element in `Calls` the property holds.

### Other behaviour the models have

None of it contradicts a property here; it is what a reader of the invariants should know
they do not exclude.

* Assignments: a hand-over dated at or before the start of the open row closes it a second
  after its start, later than the start of the row that replaces it: for a second the
  table names two drivers of a vehicle. A start that races another for the same pair is refused.
* Trips: after addPoint's raw UPDATE the code reads `rows[0].id` where the driver of
  PostgreSQL answers `[rows, count]`, gets `undefined`, and broadcasts whichever trip the
  database returns first. A stale `save()` moves the end of a trip that another call has
  finished. An ingest for a time no trip covers fails at the unique index
  when another trip is active. A trip that a position opens starts at the server's clock;
  the position is older by its time in the buffer, and addPoint passes over it.
* Pairing: `rec.used` is set after the transaction, so two boards that send one code
  together are both paired. A redeem that finishes after its code was issued again answers
  the other user's page.
* Temporary assignments: the active rows are looked for long before the new one is
  inserted; two overlapping requests lend a vehicle twice (`CreateAlone = FALSE`). Two
  overlapping restores with a crash in the second lose a geofence for good (`torn`),
  because the row is closed already.
* Telemetry: two positions of a day that are between `Load` and `Save` together lose one
  of them in the day's track (`raced`); the second of two that create the track meets
  the unique key and goes no further. Two changes of ignition at once count time twice
  (`mixed`). `flushAll` at shutdown gives the buffer to an empty callback.
* Routes: a position that loads a line during an edit can leave it in the cache until
  the next edit (`raced`); two positions at once can report one exit twice, or bring
  progress along the stations back (`tangled`). The next station, once deleted, is waited for
  for ever.
* Cards: `sse()` emits the state of a settled session into a Subject nobody listens to
  yet, so a page that comes late is told nothing. Sessions and streams are never freed. A
  driver who got another card while a tap had him as the old owner loses that one.
* Chat: two first calls make two groups for a super admin (`raced`). A walk during which the
  tree moves twice can end at a super admin who never was above its user. A setting saved
  from a copy read before a toggle undoes the toggle. Who moves away stays a
  member of the old group. A circle in the tree sends the listener of a move round for ever.
* Chat page: what is posted while the connection is broken is not fetched after the
  reconnect, which only joins the room again; an answer overwrites what came by socket
  since it was read (`gap`). The answer of the room before, when it comes late, replaces the
  list of the room that is shown (`strange`). The gateway's notice that an old socket is gone takes
  the user off every room's list though his new socket is in (`hidden`). Of two overlapping
  `joinRoomWs` both join, and the room of the first is never left. Two overlapping loads can put
  a message into the list twice.

## Proofs

All theorems are about `Spec` for any values of the constants that meet the ASSUMEs
of the module (sets of any size; `None` is none of the values it is used beside; bounds
are naturals; in `TemporaryAssignments` finitely many vehicles; in `VehicleTelemetry` the
last stamp's window ends by `MaxTime`, and a message says something of the ignition or the position).

* `DriverAssignments_proofs`. The inductive invariant `IInv` is the type invariant, the
  four safety invariants and `WantedTouch` (what an update has selected touches the
  transaction's pair). The invariants need one another: an insert keeps the open rows
  exclusive because the conflicting rows are closed by this very transaction, which is
  `ClosingIsExclusive`, which in turn needs `WantedTouch` at `TxClose`. One lemma per
  action. `Refinement` maps a commit of `TxInsert` to `Attach`, of `TxEnd` to `Detach`,
  everything else to a stutter.
* `DriverRoutes_proofs`. `IInv` says that rows are well formed and that every loaded copy
  is an older version of its row (same driver, vehicle and start), which is what makes
  `Merge` harmless to exclusivity, ends and starts.
* `TemporaryAssignments_proofs`. Types: that the row at hand and the rows queued exist,
  that only a create whose dates are good inserts, through crashes; and
  `ClosedStaysClosed`. They hold with overlapping creates too. Under `CreateAlone`,
  `OneActivePerVehicle` and `OriginalComesBack`. The first rests on `LentInv`: what a
  create knows of the active rows of its vehicles in each of its phases (those it has
  been at: no active row but those it will restore yet; those still to come: none).
  The second on `BackInv`: as long as nothing has failed, every row has its owner's
  geofence as its snapshot, and a vehicle without an active row, or whose row is about
  to be closed, has its owner's geofence in force unless a task that restores it has
  just deleted it.
* `PairingService_proofs`, the cards. Types with `CallsOK` (what a tap has read and a
  session holds at each of its statements). `RetryIsAnswered` needs `TimersOutlast`: a
  card that counts as used has its answer, and no timer that is running is due before
  the use ends. `CacheNamesHolder` and `CardTakenByItsTap` rest on what the locks
  give: a driver has one row, a tap that is past its `UPDATE` of the old holders is
  the only one that writes the card. The codes: each invariant is inductive with
  `CodesTypeOK`. `UsedCodesAreDead` rests on `FinalizeCode` deleting by code and
  `FreeCode` consulting `used`.
* `ChatRooms_proofs`. `Typed` is the type invariant with what each call holds at each
  await (`CallsOK`) and that the room of a copy is there and still its super admin's.
  Every action is reduced once to what it makes of the call that takes the step
  (`Does`) and of the others (`Stays`, `Moved`, `Begins`); the invariants are then
  proved call by call. Locks: a copy that is not late has the room's lock (`LatesOK`).
  One group: who is about to make one knows that there is none (`SingleOK`). Walks
  (`WaysOK`): what a walk has read is the way from its user to the next row in the
  tree of now, if nobody was saved since (`Fresh`); after one update it is the way in
  some tree that differs from it only in rows the walk has already read and whose
  nearest super admin counts as the user's (`Known`). That tree exists because the
  rows still to be read are read in one tree only. Subtrees (`FollowsOK`): behind a
  listener there is a set of users who are settled, and the children of each are in
  that set or still to come; when nothing is to come it is closed under children and
  so holds all who are below. Both need no induction along the tree, since `Above` is
  a least set: what holds of it is shown by giving a set.
* `ChatScreen_proofs`. `Sound` is the type invariant with what is true of packets (`WireOK`),
  sockets (`LinksOK`), answers under way (`LoadsOK`) and the list on the screen
  (`ShownOK`). A settled tab is joined because its join is to come, on the wire or
  carried out, and no leave is behind it (`ViewersJoin`). That nothing is missing
  (`NothingLost`) needs to know of a message that is not shown who still owes it: the
  socket's wire, an answer under way, a `joinRoomWs` that will ask, or a gap.
* `RouteWatch_proofs`. Three inductive invariants over the same types. Lines: a loader that
  was alone with the route knows the rows, and so does what it caches. Fences: the handler
  that has the fence to itself knows its row, and if the event or the violation of the
  last crossing is not there yet, it is this handler's to write. Stations: the same of
  the state row, with the events since the last entry.
* `VehicleTelemetry_proofs`. `Typed` is the type invariant with what a message has read at
  each await and `KeysOK`: a trip is left for every message that may still start one.
  Order: once a message has left the buffer, what is still in it and earlier came after
  that (`LeftOK`), because `flush` sorts before it takes a batch. Trips: a handler holds a
  trip of its vehicle and driver, and a trip never changes hands (`TripsOK`). Points: who
  appends alone puts back what it read, and that was all there was (`PointsOK`). Counter:
  who writes alone has read the row, and what it adds is the interval since the last
  message (`EnginesOK`).

Some proved invariants are in no run, because a run would only repeat the proof on a small
instance: `EndsAfterStart` (twice), `LiveCodesHaveTimers`, `DeviceKeepsOwner`,
`ClosingIsExclusive`, `UsedCodesAreDead`, `ClosedStaysClosed`, and `OneOpenPerDriver` with
`OneOpenPerVehicle`, which the refinement of `ExclusivePairing` implies besides.

Only model-checked: liveness, under fairness (`EveryRequestAnswered`, `EveryWaitAnswered`,
`EveryAssignmentEnds`, `EveryMessageEnds`, `ViewersAreJoined`), which is out of the prover's
reach. Every invariant and every action property of a passing run is a theorem.

## Not modelled

* Distances, speeds, the noise filter's metres, polylines: real numbers. They are
  constants (`Covers`, `StationAt`) or choices.
* `checkAndRecord` of the geofences: a counter under a row lock; only its first
  insert is a race.
* The upserts of `PairingService` that no controller calls; making direct rooms, read
  marks, typing and the sync scripts of the chat; a restart of the gateway's process and an
  HTTP request of the chat page that fails; deletion of users except as it meets a card.
* The side effects of a toggle on trips, which run after its commit.
* Consumables, licences, profiles, audit, analytics, dashboards: rows with no rule that
  spans two of them. The modem, the SMS provider: input and
  output. The other pages of the front end: forms, maps and tables that show the last answer.
* What a client sees of an answer: wording, and the malformed JSON body of
  `pending/uid`.

## Plan

In this order; each with an MC module, runs, mutants and, from the third column,
proofs.

| Module | Content | Worth proving |
|---|---|---|
| `TripTracking` | composes `DriverAssignments` and `DriverRoutes` with the toggle's side effects | - |
| `Delegation`, `Shifts`, `Otp` | bounded grants, overlaps, attempts | grants bounded by the granter's, attempts bounded |
| `VehicleRegistry`, `GeofenceChecks` | create under quota; the counter of points outside | - |

`ExclusivePairing` is the first abstract specification; the next are a queue in order of time for
the reorder buffer and a set of grants closed under "no more than the parent's".
