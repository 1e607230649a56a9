-------------------------------- MODULE Cards --------------------------------
(***************************************************************************)
(* The other half of PairingService: driver cards.  The panel arms a card  *)
(* for a driver (armUidForUser), the board reports the card it was shown   *)
(* (consumeArmedUid) and the card moves to that driver in a transaction    *)
(* over the users table; the answer is remembered for the board's retries. *)
(* The older pending sessions (issuePending, submitUid, sse) register a    *)
(* new driver when the expected card is shown.                             *)
(*                                                                         *)
(* A raw uid is what normalize4ByteCode makes of it, a card or BadUid; a   *)
(* user is the phone he registers with.                                    *)
(* Everything but users is kept in Maps and dies with the process; actions *)
(* run from one await to the next, timers fire at their time or later.     *)
(***************************************************************************)
EXTENDS PairingService

CONSTANTS
    CardIds,
    Taps,         \* consumeArmedUid() calls that may be in flight together
    Sessions,
    Submits,      \* submitUid() calls that may be in flight together
    ARM_TTL_MS,   \* how long a card stays armed (60 s)
    USED_TTL_MS,  \* how long an answer is remembered (10 min)
    PendingTtl,   \* expires_in of a session
    BadUid

ASSUME TimesAssumption ==
    /\ ARM_TTL_MS \in Nat /\ PendingTtl \in Nat
    /\ USED_TTL_MS \in Nat \ {0} /\ MaxTime \in Nat
ASSUME NoneAssumption ==
    /\ None \notin CardIds \cup Users \cup Sessions \cup {BadUid}
    /\ BadUid \notin CardIds

VARIABLES
    users,         \* the users table: who has a row
    cardOf,        \* users.driver_card_hex, UNIQUE
    armedByHex,    \* per card: for whom it is armed and since when
    results,       \* per card: the driver the last tap was answered with
    used,          \* per card: until when it counts as used
    resultTimers,  \* the timers that will forget results
    taps,          \* per consumeArmedUid(): where it is and what it has read
    pendings,      \* per session: its PendingSession
    submits,       \* per submitUid(): where it is
    streams,       \* per session: the page that listens to its events
    rearmed        \* cards armed for another driver during a tap (history)

moves == <<users, cardOf, taps>>
memory == <<armedByHex, results, used, resultTimers, rearmed>>
sittings == <<pendings, submits, streams>>
vars == <<now, moves, memory, sittings>>

Time == 0..(MaxTime + USED_TTL_MS)
Tap == [pc : {"target", "owner", "clear", "set", "finalize"},
        card : CardIds, user : Users,
        old : Users \cup {None},       \* the card's holder when it was read
        holds : Users \cup {None},     \* the row the transaction has emptied
        stale : BOOLEAN]               \* old got another card since (history)
Pending == [card : CardIds, phone : Users, at : 0..MaxTime, timer : BOOLEAN,
            status : {"waiting", "mismatch", "failed", "matched"}]
Submit == [pc : {"find", "insert", "match"}, id : Sessions]

------------------------------------------------------------------------------
(* Arming a card and showing it to a board.                                *)

Live == {t \in Taps : taps[t] # None}
HoldersOf(c) == {u \in Users : cardOf[u] = c}

\* The id of a user who has gone is not given again, so his phone stands for
\* nobody else while something still names him.
Named(u) ==
    \/ \E c \in CardIds : results[c] = u \/ (armedByHex[c] # None /\ armedByHex[c].user = u)
    \/ \E t \in Live : taps[t].user = u
Awaited(u) == \E s \in Sessions : pendings[s] # None /\ pendings[s].phone = u

Arm(c, u) ==
    /\ u \in users \/ ~ Awaited(u)
    /\ armedByHex' = [armedByHex EXCEPT ![c] = [user |-> u, at |-> now]]
    /\ rearmed' = IF \E t \in Live : taps[t].card = c /\ taps[t].user # u
                  THEN rearmed \cup {c} ELSE rearmed
    /\ UNCHANGED <<now, moves, results, used, resultTimers, sittings>>

\* An answer in results is returned as it is; a used card or one that is not
\* armed is refused.  None of that changes anything.
Show(t, c) ==
    /\ taps[t] = None /\ results[c] = None /\ used[c] <= now /\ armedByHex[c] # None
    /\ IF now > armedByHex[c].at + ARM_TTL_MS
       THEN /\ armedByHex' = [armedByHex EXCEPT ![c] = None]
            /\ UNCHANGED taps
       ELSE /\ taps' = [taps EXCEPT ![t] =
                  [pc |-> "target", card |-> c, user |-> armedByHex[c].user,
                   old |-> None, holds |-> None, stale |-> FALSE]]
            /\ UNCHANGED armedByHex
    /\ UNCHANGED <<now, users, cardOf, results, used, resultTimers, rearmed, sittings>>

\* The call ends with an error and its transaction is rolled back.
Fail(t) == taps' = [taps EXCEPT ![t] = None] /\ UNCHANGED <<users, cardOf>>

ReadTarget(t) ==
    /\ t \in Live /\ taps[t].pc = "target"
    /\ IF taps[t].user \in users
       THEN /\ taps' = [taps EXCEPT ![t].pc = "owner"]
            /\ UNCHANGED <<users, cardOf>>
       ELSE Fail(t)
    /\ UNCHANGED <<now, memory, sittings>>

\* Mutant of OwnerFound: a where with an undefined uid finds the first user.
AnyoneFound(c, u) == IF users = {} THEN u = None ELSE u \in users

OwnerFound(c, u) == IF HoldersOf(c) = {} THEN u = None ELSE u \in HoldersOf(c)

ReadOwner(t) ==
    /\ t \in Live /\ taps[t].pc = "owner"
    /\ \E u \in Users \cup {None} :
        /\ OwnerFound(taps[t].card, u)
        /\ taps' = IF u \in {None, taps[t].user}
                   THEN [taps EXCEPT ![t].pc = "set"]
                   ELSE [taps EXCEPT ![t].pc = "clear", ![t].old = u]
    /\ UNCHANGED <<now, users, cardOf, memory, sittings>>

------------------------------------------------------------------------------
(* The writes of the transaction.  PostgreSQL keeps an updated row locked  *)
(* until commit and makes an UPDATE that would duplicate a key wait for    *)
(* the transaction that is giving the key up.                              *)

Locks(t) == IF t \in Live THEN {taps[t].holds} \ {None} ELSE {}
Locked(u) == \E t \in Taps : u \in Locks(t)

\* Mutant of Rivals: the index on the column is not unique.
NoRivals(t) == {}

Rivals(t) == HoldersOf(taps[t].card) \ {taps[t].user, taps[t].holds}

WaitsFor(t) ==
    CASE t \notin Live -> {}
      [] taps[t].pc = "clear" -> {taps[t].old}
      [] taps[t].pc = "set" -> {taps[t].user} \cup Rivals(t)
      [] OTHER -> {}
Free(t) == \A x \in Taps \ {t} : WaitsFor(t) \cap Locks(x) = {}

ClearOld(t) ==
    /\ t \in Live /\ taps[t].pc = "clear" /\ Free(t)
    /\ taps' = [taps EXCEPT ![t].pc = "set", ![t].old = None,
          ![t].holds = IF taps[t].old \in users THEN taps[t].old ELSE None]
    /\ UNCHANGED <<now, users, cardOf, memory, sittings>>

Done(t) == [taps[t] EXCEPT !.pc = "finalize", !.holds = None, !.stale = FALSE]

\* What the transaction leaves when it commits.
Moved(t) ==
    [u \in Users |->
        IF u = taps[t].user /\ u \in users THEN taps[t].card
        ELSE IF u = taps[t].holds THEN None ELSE cardOf[u]]

\* The card is set and the transaction commits; 23505 if another holds it.  It is
\* set again on a driver who has it: the column is a CHAR(16), so what is read back
\* of an 8-digit uid is padded and never equal to it.
SetTarget(t) ==
    /\ t \in Live /\ taps[t].pc = "set" /\ Free(t)
    /\ IF taps[t].user \in users /\ Rivals(t) # {}
       THEN Fail(t)
       ELSE /\ cardOf' = Moved(t)
            /\ taps' = [x \in Taps |->
                  IF x = t THEN Done(t)
                  ELSE IF /\ x \in Live /\ taps[x].pc = "clear"
                          /\ Moved(t)[taps[x].old] # cardOf[taps[x].old]
                       THEN [taps[x] EXCEPT !.stale = TRUE] ELSE taps[x]]
            /\ UNCHANGED users
    /\ UNCHANGED <<now, memory, sittings>>

\* Mutant of Aborted: the error is swallowed and the call goes on.
AbortedUnseen(t) == taps' = [taps EXCEPT ![t] = Done(t)] /\ UNCHANGED <<users, cardOf>>

Aborted(t) == Fail(t)

\* The database breaks a circle of transactions that wait for one another.
Deadlock(t) ==
    /\ \E S \in SUBSET Taps :
        /\ t \in S
        /\ \A x \in S : \E y \in S \ {x} : WaitsFor(x) \cap Locks(y) # {}
    /\ Aborted(t)
    /\ UNCHANGED <<now, memory, sittings>>

\* Mutant of Renew: the timer of an earlier answer is left running.
RenewAlso(c) == resultTimers' = resultTimers \cup {[card |-> c, due |-> now + USED_TTL_MS]}

Renew(c) ==
    resultTimers' = {x \in resultTimers : x.card # c}
                        \cup {[card |-> c, due |-> now + USED_TTL_MS]}

\* The arm goes by its key, whoever it is for by now.
Finalize(t) ==
    /\ t \in Live /\ taps[t].pc = "finalize"
    /\ LET c == taps[t].card IN
        /\ armedByHex' = [armedByHex EXCEPT ![c] = None]
        /\ results' = [results EXCEPT ![c] = taps[t].user]
        /\ used' = [used EXCEPT ![c] = now + USED_TTL_MS]
        /\ Renew(c)
    /\ taps' = [taps EXCEPT ![t] = None]
    /\ UNCHANGED <<now, users, cardOf, rearmed, sittings>>

ForgetResult(x) ==
    /\ x \in resultTimers /\ x.due <= now
    /\ results' = [results EXCEPT ![x.card] = None]
    /\ resultTimers' = resultTimers \ {x}
    /\ UNCHANGED <<now, moves, armedByHex, used, rearmed, sittings>>

------------------------------------------------------------------------------
(* Pending sessions.                                                       *)

Known == {s \in Sessions : pendings[s] # None}
Busy == {k \in Submits : submits[k] # None}

\* emitPending: a Subject tells those that listen now and keeps nothing.
Emit(s) == streams' = [streams EXCEPT ![s] = IF @ = "open" THEN "told" ELSE @]

Settle(s, verdict) ==
    /\ pendings' = [pendings EXCEPT ![s].status = verdict, ![s].timer = FALSE]
    /\ Emit(s)

\* The bound: a session is opened while its timer can still come due.
IssuePending(s, c, p) ==
    /\ pendings[s] = None /\ now + PendingTtl <= MaxTime
    /\ p \in users \/ ~ Named(p)
    /\ pendings' = [pendings EXCEPT ![s] =
          [card |-> c, phone |-> p, at |-> now, timer |-> TRUE, status |-> "waiting"]]
    /\ UNCHANGED <<now, moves, memory, submits, streams>>

\* The timer has nothing to say of a session that is settled.
TimeOut(s) ==
    /\ s \in Known /\ pendings[s].timer /\ now >= pendings[s].at + PendingTtl
    /\ pendings[s].status = "waiting"
    /\ Settle(s, "failed")
    /\ UNCHANGED <<now, moves, memory, submits>>

\* Mutant of Accept: the timer is cleared before the driver is there.
AcceptEarly(k, s) ==
    /\ submits' = [submits EXCEPT ![k] = [pc |-> "find", id |-> s]]
    /\ pendings' = [pendings EXCEPT ![s].timer = FALSE]
    /\ UNCHANGED streams

Accept(k, s) ==
    /\ submits' = [submits EXCEPT ![k] = [pc |-> "find", id |-> s]]
    /\ UNCHANGED <<pendings, streams>>

Open(s) == s \in Known /\ pendings[s].status = "waiting"

\* A session that does not wait answers with what it is.
SubmitUid(k, s, uid) ==
    /\ submits[k] = None /\ Open(s)
    /\ IF now - pendings[s].at > PendingTtl \/ uid = BadUid
       THEN Settle(s, "failed") /\ UNCHANGED submits
       ELSE IF uid # pendings[s].card
       THEN Settle(s, "mismatch") /\ UNCHANGED submits
       ELSE Accept(k, s)
    /\ UNCHANGED <<now, moves, memory>>

\* createUserDriver: a user with that phone is taken as he is.
FindByPhone(k) ==
    /\ k \in Busy /\ submits[k].pc = "find"
    /\ submits' = [submits EXCEPT ![k].pc =
          IF pendings[submits[k].id].phone \in users THEN "match" ELSE "insert"]
    /\ UNCHANGED <<now, moves, memory, pendings, streams>>

\* The row is inserted, without a card; refused when the phone is taken by now
\* or the parent of the profile is gone, and the session waits on.
InsertDriver(k) ==
    /\ k \in Busy /\ submits[k].pc = "insert"
    /\ \/ /\ pendings[submits[k].id].phone \notin users
          /\ users' = users \cup {pendings[submits[k].id].phone}
          /\ submits' = [submits EXCEPT ![k].pc = "match"]
       \/ /\ submits' = [submits EXCEPT ![k] = None]
          /\ UNCHANGED users
    /\ UNCHANGED <<now, cardOf, taps, memory, pendings, streams>>

\* The verdict is set whatever the session has become meanwhile.
Match(k) ==
    /\ k \in Busy /\ submits[k].pc = "match"
    /\ Settle(submits[k].id, "matched")
    /\ submits' = [submits EXCEPT ![k] = None]
    /\ UNCHANGED <<now, moves, memory>>

\* sse() emits the verdict it finds and only then returns what to listen to.
Sse(s) ==
    /\ s \in Known /\ streams[s] = "none"
    /\ streams' = [streams EXCEPT ![s] = "open"]
    /\ UNCHANGED <<now, moves, memory, pendings, submits>>

------------------------------------------------------------------------------
(* What happens around the service.                                        *)

\* deleteUserById waits for a row that is being written.  A user some session is
\* about is not deleted.
DeleteUser(u) ==
    /\ u \in users /\ ~ Locked(u)
    /\ ~ Awaited(u)
    /\ users' = users \ {u}
    /\ cardOf' = [cardOf EXCEPT ![u] = None]
    /\ UNCHANGED <<now, taps, memory, sittings>>

Tick ==
    /\ now < MaxTime
    /\ now' = now + 1
    /\ UNCHANGED <<moves, memory, sittings>>

\* The process starts again: the Maps are empty, calls and timers are gone.
Restart ==
    /\ armedByHex' = [c \in CardIds |-> None]
    /\ results' = [c \in CardIds |-> None]
    /\ used' = [c \in CardIds |-> 0]
    /\ resultTimers' = {} /\ rearmed' = {}
    /\ taps' = [t \in Taps |-> None]
    /\ pendings' = [s \in Sessions |-> None]
    /\ submits' = [k \in Submits |-> None]
    /\ streams' = [s \in Sessions |-> "none"]
    /\ UNCHANGED <<now, users, cardOf>>

Init ==
    /\ now = 0
    /\ users \in SUBSET Users
    /\ cardOf \in [Users -> CardIds \cup {None}]
    /\ \A u \in Users \ users : cardOf[u] = None
    /\ \A u, v \in Users : cardOf[u] = cardOf[v] /\ cardOf[u] # None => u = v
    /\ armedByHex = [c \in CardIds |-> None]
    /\ results = [c \in CardIds |-> None]
    /\ used = [c \in CardIds |-> 0]
    /\ resultTimers = {} /\ rearmed = {}
    /\ taps = [t \in Taps |-> None]
    /\ pendings = [s \in Sessions |-> None]
    /\ submits = [k \in Submits |-> None]
    /\ streams = [s \in Sessions |-> "none"]

TapStep(t) ==
    ReadTarget(t) \/ ReadOwner(t) \/ ClearOld(t) \/ SetTarget(t) \/ Deadlock(t) \/ Finalize(t)
SubmitStep(k) == FindByPhone(k) \/ InsertDriver(k) \/ Match(k)
Forget == \E x \in resultTimers : ForgetResult(x)

Next ==
    \/ \E c \in CardIds, u \in Users : Arm(c, u)
    \/ \E t \in Taps, c \in CardIds : Show(t, c)
    \/ \E t \in Taps : TapStep(t)
    \/ Forget
    \/ \E s \in Sessions, c \in CardIds, p \in Users : IssuePending(s, c, p)
    \/ \E s \in Sessions : TimeOut(s) \/ Sse(s)
    \/ \E k \in Submits, s \in Sessions, uid \in CardIds \cup {BadUid} : SubmitUid(k, s, uid)
    \/ \E k \in Submits : SubmitStep(k)
    \/ \E u \in Users : DeleteUser(u)
    \/ Tick \/ Restart

Spec == Init /\ [][Next]_vars

------------------------------------------------------------------------------
(* Properties.                                                             *)

\* Every variable holds what its declaration says.
TypeOK ==
    /\ now \in 0..MaxTime
    /\ users \subseteq Users /\ cardOf \in [Users -> CardIds \cup {None}]
    /\ armedByHex \in [CardIds -> [user : Users, at : 0..MaxTime] \cup {None}]
    /\ results \in [CardIds -> Users \cup {None}]
    /\ used \in [CardIds -> Time]
    /\ resultTimers \subseteq [card : CardIds, due : Time]
    /\ taps \in [Taps -> Tap \cup {None}]
    /\ pendings \in [Sessions -> Pending \cup {None}]
    /\ submits \in [Submits -> Submit \cup {None}]
    /\ streams \in [Sessions -> {"none", "open", "told"}]
    /\ rearmed \subseteq CardIds
    /\ \A u, v \in Users : cardOf[u] = cardOf[v] /\ cardOf[u] # None => u = v

\* A board that repeats a tap is given its driver again: while a card counts as
\* used its answer is there, and no retry is refused with "uid used".
RetryIsAnswered == \A c \in CardIds : used[c] > now => results[c] # None

\* The driver a retry is answered with is not one whose card went to another,
\* unless the card was armed for another while a tap was on its way.
CacheNamesHolder ==
    \A c \in CardIds \ rearmed :
        results[c] # None => HoldersOf(c) \subseteq {results[c]}

\* A driver is left without his card only by a tap of that card, by his deletion,
\* or by a tap that saw him with the card he had before.
CardTakenByItsTap ==
    [][\A u \in users :
          cardOf[u] # None /\ cardOf'[u] = None /\ u \in users' =>
              \E t \in Live :
                  /\ taps[t].pc = "set" /\ taps[t].holds = u
                  /\ taps[t].card = cardOf[u] \/ taps[t].stale]_vars

\* No session waits for ever, whatever becomes of the calls that settle it: as
\* long as it waits, a timer will end it.
WaitingSessionsEnd ==
    \A s \in Known : pendings[s].status = "waiting" => pendings[s].timer
==============================================================================
