---------------------------- MODULE PairingCodes ----------------------------
(***************************************************************************)
(* Pairing a tracker with a user by a four digit code (PairingService):    *)
(* issue() hands a code to a user, redeem() lets a board exchange it for a *)
(* vehicle, wait() lets the user's page learn of it.  Everything but the   *)
(* vehicles is kept in Maps of the process and dies with its timers.       *)
(*                                                                         *)
(* The process is single threaded: each action runs from one await to the  *)
(* next.  A timer fires at its time or later.  The code space and the      *)
(* times are small, so that a code is handed out again.                    *)
(***************************************************************************)
EXTENDS PairingService

CONSTANTS
    Codes,
    Devices,
    Boards,       \* redeem() calls that may be in flight together
    Waiters,      \* wait() calls that may be pending together
    TTL,          \* how long a code lives (60 s)
    UsedTTL       \* how long a redeemed code is remembered (10 min)

ASSUME CodesNoneAssumption == None \notin Codes \cup Users \cup Devices
ASSUME CodesTimesAssumption ==
    /\ TTL \in Nat \ {0} /\ UsedTTL \in Nat \ {0}
    /\ MaxTime \in Nat

VARIABLES
    codes,        \* per code: its CodeRecord
    usedCodes,    \* per code: until when it counts as used
    timers,       \* the records' timers that have not fired or been cleared
    codeResults,  \* per code: the vehicle it was redeemed for
    resultTimer,  \* per code: when that result is forgotten
    vehicles,     \* per device: the owner of the vehicle that carries it
    board,        \* per redeem(): where it is and what it has read
    waiter        \* per wait(): what it waits for, or how it was answered

codesVars ==
    <<now, codes, usedCodes, timers, codeResults, resultTimer, vehicles, board, waiter>>

CodesTime == 0..(MaxTime + UsedTTL)
Record == [user : Users, expires : CodesTime]
Timer == [code : Codes, due : CodesTime]

Board == [pc : {"idle", "lookup", "insert", "finalize", "redeemed", "failed"},
          code : Codes \cup {None}, device : Devices \cup {None},
          user : Users \cup {None}, expires : CodesTime]
NoBoard ==
    [pc |-> "idle", code |-> None, device |-> None, user |-> None, expires |-> 0]

Waiter == [pc : {"idle", "waiting", "resolved", "rejected"},
           code : Codes \cup {None}, due : CodesTime, vehicle : Devices \cup {None}]
NoWaiter == [pc |-> "idle", code |-> None, due |-> 0, vehicle |-> None]

------------------------------------------------------------------------------
Used(c) == usedCodes[c] > now
WaitingFor(c) == {w \in Waiters : waiter[w].pc = "waiting" /\ waiter[w].code = c}

\* this.codes.delete(c), with the timer of the record it held cleared or not.
Delete(c) == codes' = [codes EXCEPT ![c] = None]
ClearTimer(c, due) == timers' = timers \ {[code |-> c, due |-> due]}

\* Every call that waits for the code is answered and forgotten.
ResolveAll(c, v) ==
    waiter' = [w \in Waiters |->
        IF w \in WaitingFor(c)
        THEN [waiter[w] EXCEPT !.pc = "resolved", !.vehicle = v] ELSE waiter[w]]

RejectAll(c) ==
    waiter' = [w \in Waiters |->
        IF w \in WaitingFor(c) THEN [waiter[w] EXCEPT !.pc = "rejected"] ELSE waiter[w]]

------------------------------------------------------------------------------
(* The user's side.                                                        *)

\* issue(): a code that is neither live nor remembered as used.
FreeCode(c) == codes[c] = None /\ ~Used(c)

Issue(u, c) ==
    /\ FreeCode(c)
    /\ now + TTL <= MaxTime                                           \* bound
    /\ codes' = [codes EXCEPT ![c] = [user |-> u, expires |-> now + TTL]]
    /\ timers' = timers \cup {[code |-> c, due |-> now + TTL]}
    /\ UNCHANGED <<now, usedCodes, codeResults, resultTimer, vehicles, board, waiter>>

\* Mutant of Ready: the result is not looked at before it is returned.
ReadyUnchecked(w, c) ==
    /\ waiter' = [waiter EXCEPT ![w] =
                     [NoWaiter EXCEPT !.pc = "resolved", !.vehicle = codeResults[c]]]
    /\ UNCHANGED <<codes, timers>>

Ready(w, c) ==
    /\ codeResults[c] # None
    /\ waiter' = [waiter EXCEPT ![w] =
                     [NoWaiter EXCEPT !.pc = "resolved", !.vehicle = codeResults[c]]]
    /\ UNCHANGED <<codes, timers>>

Unknown(w, c) ==
    /\ codeResults[c] = None /\ codes[c] = None
    /\ waiter' = [waiter EXCEPT ![w].pc = "rejected"]
    /\ UNCHANGED <<codes, timers>>

\* The deadline has passed but the record's timer has not fired yet.
TooLate(w, c) ==
    /\ codeResults[c] = None /\ codes[c] # None /\ codes[c].expires <= now
    /\ waiter' = [waiter EXCEPT ![w].pc = "rejected"]
    /\ Delete(c) /\ ClearTimer(c, codes[c].expires)

PendingWait(w, c) ==
    /\ codeResults[c] = None /\ codes[c] # None /\ codes[c].expires > now
    /\ waiter' = [waiter EXCEPT ![w] = [NoWaiter EXCEPT
          !.pc = "waiting", !.code = c, !.due = codes[c].expires]]
    /\ UNCHANGED <<codes, timers>>

Wait(w, c) ==
    /\ waiter[w].pc = "idle"
    /\ Ready(w, c) \/ Unknown(w, c) \/ TooLate(w, c) \/ PendingWait(w, c)
    /\ UNCHANGED <<now, usedCodes, codeResults, resultTimer, vehicles, board>>

\* The page has its answer.
WaitReturns(w) ==
    /\ waiter[w].pc \in {"resolved", "rejected"}
    /\ waiter' = [waiter EXCEPT ![w] = NoWaiter]
    /\ UNCHANGED <<now, codes, usedCodes, timers, codeResults, resultTimer, vehicles, board>>

------------------------------------------------------------------------------
(* The board's side: redeem() holds its record across the transaction.     *)

BoardAt(b, pc) == board' = [board EXCEPT ![b].pc = pc]

\* The guards, then the transaction begins; a record past its deadline whose
\* timer is late is dropped here.
Redeem(b, c, d) ==
    /\ board[b].pc = "idle"
    /\ codes[c] # None /\ ~Used(c)
    /\ IF now > codes[c].expires
       THEN /\ Delete(c) /\ ClearTimer(c, codes[c].expires)
            /\ BoardAt(b, "failed")
       ELSE /\ board' = [board EXCEPT ![b] =
                  [pc |-> "lookup", code |-> c, device |-> d,
                   user |-> codes[c].user, expires |-> codes[c].expires]]
            /\ UNCHANGED <<codes, timers>>
    /\ UNCHANGED <<now, usedCodes, codeResults, resultTimer, vehicles, waiter>>

\* Mutant of Lookup: a vehicle found by its device is reused whoever owns it.
LookupAnyOwner(b) ==
    LET owner == vehicles[board[b].device] IN
    /\ board[b].pc = "lookup"
    /\ BoardAt(b, IF owner = None THEN "insert" ELSE "finalize")
    /\ UNCHANGED <<now, codes, usedCodes, timers, codeResults, resultTimer, vehicles, waiter>>

\* The device's vehicle is reused if it is this user's, and refused if another's.
Lookup(b) ==
    LET owner == vehicles[board[b].device] IN
    /\ board[b].pc = "lookup"
    /\ BoardAt(b, CASE owner = None          -> "insert"
                    [] owner = board[b].user -> "finalize"
                    [] OTHER                 -> "failed")
    /\ UNCHANGED <<now, codes, usedCodes, timers, codeResults, resultTimer, vehicles, waiter>>

\* A duplicate device_uid fails the insert, and with it the transaction: the
\* retry under another plate runs in a transaction already aborted.
Insert(b) ==
    LET d == board[b].device IN
    /\ board[b].pc = "insert"
    /\ IF vehicles[d] = None
       THEN vehicles' = [vehicles EXCEPT ![d] = board[b].user] /\ BoardAt(b, "finalize")
       ELSE BoardAt(b, "failed") /\ UNCHANGED vehicles
    /\ UNCHANGED <<now, codes, usedCodes, timers, codeResults, resultTimer, waiter>>

\* No such owner, a plate or a name already taken, no connection.
TxFails(b) ==
    /\ board[b].pc \in {"lookup", "insert"}
    /\ BoardAt(b, "failed")
    /\ UNCHANGED <<now, codes, usedCodes, timers, codeResults, resultTimer, vehicles, waiter>>

\* After the transaction, by code: whatever record the code has by now goes.
FinalizeCode(b) ==
    LET c == board[b].code IN
    /\ board[b].pc = "finalize"
    /\ codeResults' = [codeResults EXCEPT ![c] = board[b].device]
    /\ usedCodes' = [usedCodes EXCEPT ![c] = now + UsedTTL]
    /\ resultTimer' = [resultTimer EXCEPT ![c] = now + UsedTTL]
    /\ ClearTimer(c, board[b].expires)
    /\ Delete(c)
    /\ ResolveAll(c, board[b].device)
    /\ BoardAt(b, "redeemed")
    /\ UNCHANGED <<now, vehicles>>

RedeemReturns(b) ==
    /\ board[b].pc \in {"redeemed", "failed"}
    /\ board' = [board EXCEPT ![b] = NoBoard]
    /\ UNCHANGED <<now, codes, usedCodes, timers, codeResults, resultTimer, vehicles, waiter>>

------------------------------------------------------------------------------
(* Time.                                                                   *)

\* A record's timer deletes whatever record the code has when it fires.
CodeTimer(t) ==
    /\ t.due <= now
    /\ timers' = timers \ {t}
    /\ Delete(t.code)
    /\ RejectAll(t.code)
    /\ UNCHANGED <<now, usedCodes, codeResults, resultTimer, vehicles, board>>

\* Mutant of WaitTimeout: the call leaves the list and is not rejected.
WaitTimeoutSilent(w) ==
    /\ waiter[w].pc = "waiting" /\ waiter[w].due <= now
    /\ waiter' = [waiter EXCEPT ![w].code = None]
    /\ UNCHANGED <<now, codes, usedCodes, timers, codeResults, resultTimer, vehicles, board>>

WaitTimeout(w) ==
    /\ waiter[w].pc = "waiting" /\ waiter[w].due <= now
    /\ waiter' = [waiter EXCEPT ![w].pc = "rejected"]
    /\ UNCHANGED <<now, codes, usedCodes, timers, codeResults, resultTimer, vehicles, board>>

ResultTimer(c) ==
    /\ codeResults[c] # None /\ resultTimer[c] <= now
    /\ codeResults' = [codeResults EXCEPT ![c] = None]
    /\ resultTimer' = [resultTimer EXCEPT ![c] = 0]
    /\ UNCHANGED <<now, codes, usedCodes, timers, vehicles, board, waiter>>

CodesTick ==
    /\ now < MaxTime
    /\ now' = now + 1
    /\ UNCHANGED <<codes, usedCodes, timers, codeResults, resultTimer, vehicles, board, waiter>>

------------------------------------------------------------------------------
CodesInit ==
    /\ now = 0
    /\ codes = [c \in Codes |-> None]
    /\ usedCodes = [c \in Codes |-> 0]
    /\ timers = {}
    /\ codeResults = [c \in Codes |-> None]
    /\ resultTimer = [c \in Codes |-> 0]
    /\ vehicles = [d \in Devices |-> None]
    /\ board = [b \in Boards |-> NoBoard]
    /\ waiter = [w \in Waiters |-> NoWaiter]

CodesNext ==
    \/ CodesTick
    \/ \E c \in Codes :
          \/ \E u \in Users : Issue(u, c)
          \/ \E w \in Waiters : Wait(w, c)
          \/ \E b \in Boards, d \in Devices : Redeem(b, c, d)
          \/ ResultTimer(c)
    \/ \E w \in Waiters : WaitReturns(w) \/ WaitTimeout(w)
    \/ \E b \in Boards :
          Lookup(b) \/ Insert(b) \/ TxFails(b) \/ FinalizeCode(b) \/ RedeemReturns(b)
    \/ \E t \in timers : CodeTimer(t)

CodesSpec == CodesInit /\ [][CodesNext]_codesVars

\* Time passes and a timer that is due fires.
CodesFairness ==
    WF_codesVars(CodesTick) /\ \A w \in Waiters : WF_codesVars(WaitTimeout(w))
CodesFairSpec == CodesSpec /\ CodesFairness

------------------------------------------------------------------------------
(* Properties.                                                             *)

\* The Maps and the calls hold what the code puts into them: a redeem() in
\* flight has its record's user, a page that is answered with a vehicle gets one.
CodesTypeOK ==
    /\ now \in 0..MaxTime
    /\ codes \in [Codes -> Record \cup {None}]
    /\ usedCodes \in [Codes -> CodesTime]
    /\ timers \subseteq Timer
    /\ codeResults \in [Codes -> Devices \cup {None}]
    /\ resultTimer \in [Codes -> CodesTime]
    /\ vehicles \in [Devices -> Users \cup {None}]
    /\ board \in [Boards -> Board]
    /\ waiter \in [Waiters -> Waiter]
    /\ \A b \in Boards :
          board[b].pc \notin {"idle", "failed"} =>
              /\ board[b].code \in Codes /\ board[b].user \in Users
              /\ board[b].device \in Devices
    /\ \A w \in Waiters : waiter[w].pc = "resolved" => waiter[w].vehicle # None

\* A live code has a timer that will end it: no path that clears a timer leaves
\* the record, and none leaves a record that lives for ever.
LiveCodesHaveTimers ==
    \A c \in Codes :
        codes[c] # None => [code |-> c, due |-> codes[c].expires] \in timers

\* A code that counts as used is not live: for ten minutes nobody can redeem it
\* again, whatever redeem()s were in flight when it was redeemed.
UsedCodesAreDead ==
    \A c \in Codes : codes[c] # None => ~Used(c)

\* A vehicle pairs its device with the user whose code was redeemed, and what a
\* board is told is that user's vehicle.
RedeemedForIssuer ==
    \A b \in Boards :
        board[b].pc \in {"finalize", "redeemed"} =>
            vehicles[board[b].device] = board[b].user

\* A device that has an owner keeps it: no overlap of redeem()s takes it over.
DeviceKeepsOwner ==
    [][\A d \in Devices : vehicles[d] # None => vehicles'[d] = vehicles[d]]_codesVars

\* Every wait() is answered: by the redeem(), by the record's timer or by its own.
EveryWaitAnswered ==
    \A w \in Waiters : waiter[w].pc = "waiting" ~> waiter[w].pc # "waiting"
=============================================================================
