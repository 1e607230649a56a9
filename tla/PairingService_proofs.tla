------------------------ MODULE PairingService_proofs ------------------------
(***************************************************************************)
(* The properties of the two halves of PairingService, for any number of   *)
(* cards, codes, users, devices and calls in flight.  The cards come       *)
(* first.  One lemma per action says that it keeps their types; their      *)
(* other invariants need only what an action does to the variables they    *)
(* are about.  Each invariant of the codes is inductive together with      *)
(* their type invariant.                                                   *)
(***************************************************************************)
EXTENDS Cards, PairingCodes, TLAPS

\* A call that is about to clear a driver's card has read one, and a session a
\* call is settling has not gone.
CallsOK ==
    /\ \A t \in Live : taps[t].pc = "clear" => taps[t].old \in Users
    /\ \A k \in Busy : pendings[submits[k].id] \in Pending

\* Who has no row has no card.
RowsOnly == \A u \in Users \ users : cardOf[u] = None

\* The timer that forgets an answer comes due no sooner than its card stops
\* counting as used.
TimersOutlast == \A x \in resultTimers : used[x.card] <= x.due

\* The taps of a card that are under way are all for the driver it is armed for,
\* and for the one it is answered with.
OneDriver(c) ==
    /\ \A t, x \in Live :
          taps[t].card = c /\ taps[x].card = c => taps[t].user = taps[x].user
    /\ \A t \in Live :
          taps[t].card = c =>
              /\ armedByHex[c] # None => taps[t].user = armedByHex[c].user
              /\ results[c] # None => taps[t].user = results[c]

\* Past its reads a tap knows all who may hold its card.
HoldersKnown(t) ==
    /\ taps[t].pc = "clear" => HoldersOf(taps[t].card) \subseteq {taps[t].user, taps[t].old}
    /\ taps[t].pc = "set" => HoldersOf(taps[t].card) \subseteq {taps[t].user, taps[t].holds}
    /\ taps[t].pc = "finalize" => HoldersOf(taps[t].card) \subseteq {taps[t].user}

CardsFollow ==
    /\ \A c \in CardIds \ rearmed : OneDriver(c)
    /\ \A t \in Live : taps[t].card \notin rearmed => HoldersKnown(t)

\* The driver a tap is about to take the card from holds that card or none,
\* unless he was given another since; before its reads a tap has emptied no row.
TakesOwn(t) ==
    /\ taps[t].pc \in {"target", "owner"} => taps[t].holds = None
    /\ taps[t].pc = "clear" =>
          cardOf[taps[t].old] \in {taps[t].card, None} \/ taps[t].stale
    /\ taps[t].pc = "set" /\ taps[t].holds # None =>
          cardOf[taps[t].holds] \in {taps[t].card, None} \/ taps[t].stale

TakesItsCard == \A t \in Live : TakesOwn(t)

------------------------------------------------------------------------------
(* Types.                                                                  *)

\* Deadlines stay within the bounded clock.
LEMMA SumsAreTimes ==
    /\ 0 \in Time /\ 0 \in 0..MaxTime
    /\ \A n \in 0..MaxTime : n + USED_TTL_MS \in Time
BY TimesAssumption DEF Time

\* A tap under way has the fields of a Tap, a call in flight those of a Submit and
\* a session those of a Pending.
LEMMA LiveAreTaps ==
    ASSUME TypeOK
    PROVE  /\ \A t \in Live : t \in Taps /\ taps[t] \in Tap
           /\ \A k \in Busy : k \in Submits /\ submits[k] \in Submit
           /\ \A s \in Known : s \in Sessions /\ pendings[s] \in Pending
BY DEF TypeOK, Live, Busy, Known

\* A step that changes only taps, to records with what their places need.
LEMMA TapsOnly ==
    ASSUME TypeOK, CallsOK, taps' \in [Taps -> Tap \cup {None}],
           \A t \in Live' : taps'[t].pc = "clear" => taps'[t].old \in Users,
           UNCHANGED <<now, users, cardOf, results, used, resultTimers, rearmed, sittings>>,
           armedByHex' \in [CardIds -> [user : Users, at : 0..MaxTime] \cup {None}]
    PROVE  TypeOK' /\ CallsOK'
BY DEF TypeOK, CallsOK, sittings, Busy

\* A step that changes only the sessions and keeps each one that is there.
LEMMA SessionsOnly ==
    ASSUME TypeOK, CallsOK, UNCHANGED <<now, cardOf, taps, memory>>,
           users' \subseteq Users,
           pendings' \in [Sessions -> Pending \cup {None}],
           submits' \in [Submits -> Submit \cup {None}],
           streams' \in [Sessions -> {"none", "open", "told"}],
           \A k \in Busy' : pendings'[submits'[k].id] \in Pending
    PROVE  TypeOK' /\ CallsOK'
BY DEF TypeOK, CallsOK, memory, Live

\* A verdict keeps the types and the sessions that are there.
LEMMA VerdictKeeps ==
    ASSUME TypeOK, NEW s \in Sessions, pendings[s] \in Pending,
           NEW verdict \in {"mismatch", "failed", "matched"}, Settle(s, verdict)
    PROVE  /\ pendings' \in [Sessions -> Pending \cup {None}]
           /\ streams' \in [Sessions -> {"none", "open", "told"}]
           /\ \A x \in Sessions : pendings[x] \in Pending => pendings'[x] \in Pending
           /\ pendings'[s].status = verdict
           /\ \A x \in Sessions \ {s} : pendings'[x] = pendings[x]
<1>1. pendings' = [pendings EXCEPT ![s] =
          [pendings[s] EXCEPT !.status = verdict, !.timer = FALSE]]
  BY DEF Settle, TypeOK
<1>2. pendings'[s] = [pendings[s] EXCEPT !.status = verdict, !.timer = FALSE]
  BY <1>1 DEF TypeOK
<1>3. pendings'[s] \in Pending /\ pendings'[s].status = verdict
  BY <1>2 DEF Pending
<1>4. streams' \in [Sessions -> {"none", "open", "told"}]
  BY DEF Settle, Emit, TypeOK
<1> QED BY <1>1, <1>3, <1>4 DEF TypeOK

\* The empty Maps and a table without duplicates have the types.
LEMMA InitTypes == Init => TypeOK /\ CallsOK
BY SumsAreTimes, TimesAssumption DEF Init, TypeOK, CallsOK, Live, Busy

\* A card set on a driver by a tap without rivals has one holder.
LEMMA MovedKeepsOneHolder ==
    ASSUME TypeOK, NEW t \in Live, taps[t].user \in users => Rivals(t) = {}
    PROVE  /\ Moved(t) \in [Users -> CardIds \cup {None}]
           /\ \A u, v \in Users : Moved(t)[u] = Moved(t)[v] /\ Moved(t)[u] # None => u = v
<1>1. /\ taps[t].user \in Users /\ taps[t].card \in CardIds
      /\ \A u \in Users :
            Moved(t)[u] = IF u = taps[t].user /\ u \in users THEN taps[t].card
                          ELSE IF u = taps[t].holds THEN None ELSE cardOf[u]
      /\ cardOf \in [Users -> CardIds \cup {None}]
  BY LiveAreTaps DEF Moved, Tap, TypeOK
<1>2. taps[t].user \in users =>
          \A u \in Users : cardOf[u] = taps[t].card => u \in {taps[t].user, taps[t].holds}
  BY DEF Rivals, HoldersOf
<1>3. \A u, v \in Users : cardOf[u] = cardOf[v] /\ cardOf[u] # None => u = v
  BY DEF TypeOK
<1>4. Moved(t) \in [Users -> CardIds \cup {None}]
  BY <1>1 DEF Moved
<1>5. \A u, v \in Users : Moved(t)[u] = Moved(t)[v] /\ Moved(t)[u] # None => u = v
  BY <1>1, <1>2, <1>3
<1> QED BY <1>4, <1>5

\* Every step of a tap keeps the types.
LEMMA TapStepTypes ==
    ASSUME TypeOK, CallsOK, NEW t \in Taps, TapStep(t) PROVE TypeOK' /\ CallsOK'
<1>1. CASE /\ taps' = [taps EXCEPT ![t] = None]
           /\ UNCHANGED <<now, users, cardOf, memory, sittings>>
  <2>1. taps' \in [Taps -> Tap \cup {None}] /\ Live' \subseteq Live
    BY <1>1 DEF TypeOK, Live
  <2>2. \A x \in Live' : taps'[x] = taps[x]
    BY <1>1, <2>1 DEF TypeOK, Live
  <2> QED BY <1>1, <2>1, <2>2, TapsOnly DEF CallsOK, memory, TypeOK
<1>2. CASE ReadTarget(t) /\ taps[t].user \in users
  <2>1. t \in Live /\ taps[t] \in Tap /\ taps' = [taps EXCEPT ![t].pc = "owner"]
    BY <1>2, LiveAreTaps DEF ReadTarget
  <2>2. taps'[t] \in Tap /\ taps'[t].pc = "owner"
    <3>1. taps'[t] = [taps[t] EXCEPT !.pc = "owner"]
      BY <2>1 DEF TypeOK
    <3> QED BY <2>1, <3>1 DEF Tap
  <2>3. taps' \in [Taps -> Tap \cup {None}] /\ Live' \subseteq Live
    BY <2>1, <2>2 DEF TypeOK, Live
  <2>4. \A x \in Live' : x # t => taps'[x] = taps[x]
    BY <2>1, <2>3 DEF TypeOK, Live
  <2> QED BY <1>2, <2>2, <2>3, <2>4, TapsOnly DEF CallsOK, memory, ReadTarget, TypeOK
<1>3. CASE ReadOwner(t)
  <2>1. t \in Live /\ taps[t] \in Tap
    BY <1>3, LiveAreTaps DEF ReadOwner
  <2>2. PICK u \in Users \cup {None} :
            taps' = IF u \in {None, taps[t].user}
                    THEN [taps EXCEPT ![t].pc = "set"]
                    ELSE [taps EXCEPT ![t].pc = "clear", ![t].old = u]
    BY <1>3 DEF ReadOwner
  <2>3. taps'[t] = IF u \in {None, taps[t].user} THEN [taps[t] EXCEPT !.pc = "set"]
                   ELSE [taps[t] EXCEPT !.pc = "clear", !.old = u]
    BY <2>1, <2>2 DEF TypeOK
  <2>4. taps'[t] \in Tap /\ (taps'[t].pc = "clear" => taps'[t].old \in Users)
    <3>1. CASE u \in {None, taps[t].user}
      <4>1. taps'[t] = [taps[t] EXCEPT !.pc = "set"]
        BY <2>3, <3>1
      <4> QED BY <2>1, <4>1 DEF Tap
    <3>2. CASE u \notin {None, taps[t].user}
      <4>1. taps'[t] = [taps[t] EXCEPT !.pc = "clear", !.old = u]
        BY <2>3, <3>2
      <4>2. u \in Users
        BY <3>2
      <4> QED BY <2>1, <4>1, <4>2 DEF Tap
    <3> QED BY <3>1, <3>2
  <2>5. taps' \in [Taps -> Tap \cup {None}] /\ Live' \subseteq Live
    BY <2>1, <2>2, <2>4 DEF TypeOK, Live
  <2>6. \A x \in Live' : x # t => taps'[x] = taps[x]
    BY <2>1, <2>2, <2>5 DEF TypeOK, Live
  <2> QED BY <1>3, <2>4, <2>5, <2>6, TapsOnly DEF CallsOK, memory, ReadOwner, TypeOK
<1>4. CASE ClearOld(t)
  <2>1. t \in Live /\ taps[t] \in Tap
    BY <1>4, LiveAreTaps DEF ClearOld
  <2>2. taps'[t] = [taps[t] EXCEPT !.pc = "set", !.old = None,
                        !.holds = IF taps[t].old \in users THEN taps[t].old ELSE None]
    BY <1>4, <2>1 DEF ClearOld, TypeOK
  <2>3. taps'[t] \in Tap /\ taps'[t].pc = "set"
    <3>1. taps[t].old \in users => taps[t].old \in Users
      BY DEF TypeOK
    <3> QED BY <2>1, <2>2, <3>1 DEF Tap
  <2>4. taps' \in [Taps -> Tap \cup {None}] /\ Live' \subseteq Live
    BY <1>4, <2>1, <2>3 DEF ClearOld, TypeOK, Live
  <2>5. \A x \in Live' : x # t => taps'[x] = taps[x]
    BY <1>4, <2>1, <2>4 DEF ClearOld, TypeOK, Live
  <2> QED BY <1>4, <2>3, <2>4, <2>5, TapsOnly DEF CallsOK, memory, ClearOld, TypeOK
<1>5. CASE SetTarget(t) /\ ~ (taps[t].user \in users /\ Rivals(t) # {})
  <2>1. t \in Live /\ taps[t] \in Tap /\ cardOf' = Moved(t)
    BY <1>5, LiveAreTaps DEF SetTarget
  <2>2. Done(t) \in Tap /\ Done(t).pc = "finalize"
    BY <2>1 DEF Done, Tap
  <2>3. \A x \in Taps : x # t => \/ taps'[x] = taps[x]
                                 \/ x \in Live /\ taps'[x] = [taps[x] EXCEPT !.stale = TRUE]
    BY <1>5 DEF SetTarget
  <2>4. taps'[t] = Done(t) /\ taps' = [x \in Taps |-> taps'[x]]
    BY <1>5, <2>1, LiveAreTaps DEF SetTarget
  <2>5. ASSUME NEW x \in Taps, x # t
        PROVE  /\ taps'[x] \in Tap \cup {None}
               /\ x \in Live' /\ taps'[x].pc = "clear" => taps'[x].old \in Users
    <3>1. CASE taps'[x] = taps[x]
      BY <3>1 DEF TypeOK, CallsOK, Live
    <3>2. CASE x \in Live /\ taps'[x] = [taps[x] EXCEPT !.stale = TRUE]
      BY <3>2, LiveAreTaps DEF CallsOK, Tap
    <3> QED BY <2>3, <2>5, <3>1, <3>2
  <2>6. /\ taps' \in [Taps -> Tap \cup {None}]
        /\ \A x \in Live' : taps'[x].pc = "clear" => taps'[x].old \in Users
    BY <2>2, <2>4, <2>5 DEF Live
  <2>7. /\ cardOf' \in [Users -> CardIds \cup {None}]
        /\ \A u, v \in Users : cardOf'[u] = cardOf'[v] /\ cardOf'[u] # None => u = v
    BY <1>5, <2>1, MovedKeepsOneHolder
  <2> QED BY <1>5, <2>6, <2>7 DEF SetTarget, TypeOK, CallsOK, memory, sittings, Busy
<1>6. CASE Finalize(t)
  <2>1. t \in Live /\ taps[t] \in Tap
    BY <1>6, LiveAreTaps DEF Finalize
  <2>2. taps[t].card \in CardIds /\ taps[t].user \in Users
    BY <2>1 DEF Tap
  <2>3. /\ armedByHex' \in [CardIds -> [user : Users, at : 0..MaxTime] \cup {None}]
        /\ results' \in [CardIds -> Users \cup {None}]
        /\ used' \in [CardIds -> Time]
        /\ resultTimers' \subseteq [card : CardIds, due : Time]
    BY <1>6, <2>2, SumsAreTimes DEF Finalize, Renew, TypeOK
  <2>4. taps' \in [Taps -> Tap \cup {None}] /\ Live' \subseteq Live
    BY <1>6 DEF Finalize, TypeOK, Live
  <2>5. \A x \in Live' : taps'[x] = taps[x]
    BY <1>6, <2>4 DEF Finalize, TypeOK, Live
  <2> QED BY <1>6, <2>3, <2>4, <2>5 DEF Finalize, TypeOK, CallsOK, sittings, Busy
<1> QED
  BY <1>1, <1>2, <1>3, <1>4, <1>5, <1>6
  DEF TapStep, ReadTarget, SetTarget, Deadlock, Aborted, Fail, memory, sittings

\* So does every step of a submitUid().
LEMMA SubmitStepTypes ==
    ASSUME TypeOK, CallsOK, NEW k \in Submits, SubmitStep(k) PROVE TypeOK' /\ CallsOK'
<1>1. /\ k \in Busy /\ submits[k] \in Submit /\ submits[k].id \in Sessions
      /\ pendings[submits[k].id] \in Pending
  <2>1. k \in Busy
    BY DEF SubmitStep, FindByPhone, InsertDriver, Match
  <2> QED BY <2>1, LiveAreTaps DEF CallsOK, Submit
<1>2. ASSUME NEW pc \in {"find", "insert", "match"}, submits' = [submits EXCEPT ![k].pc = pc]
      PROVE  /\ submits' \in [Submits -> Submit \cup {None}]
             /\ \A x \in Busy' : x \in Busy /\ submits'[x].id = submits[x].id
  <2>1. submits'[k] = [submits[k] EXCEPT !.pc = pc]
    BY <1>2 DEF TypeOK
  <2>2. submits'[k] \in Submit /\ submits'[k].id = submits[k].id
    BY <1>1, <2>1 DEF Submit
  <2> QED BY <1>1, <1>2, <2>2 DEF TypeOK, Busy
<1>3. ASSUME submits' = [submits EXCEPT ![k] = None]
      PROVE  /\ submits' \in [Submits -> Submit \cup {None}]
             /\ \A x \in Busy' : x \in Busy /\ submits'[x].id = submits[x].id
  BY <1>3 DEF TypeOK, Busy
<1>4. CASE FindByPhone(k)
  <2>1. PICK pc \in {"insert", "match"} : submits' = [submits EXCEPT ![k].pc = pc]
    BY <1>4 DEF FindByPhone
  <2> QED BY <1>2, <1>4, <2>1, SessionsOnly DEF FindByPhone, moves, CallsOK, TypeOK
<1>5. CASE InsertDriver(k)
  <2>1. users' \subseteq Users
    BY <1>1, <1>5 DEF InsertDriver, TypeOK, Pending
  <2>2. \/ submits' = [submits EXCEPT ![k].pc = "match"]
        \/ submits' = [submits EXCEPT ![k] = None]
    BY <1>5 DEF InsertDriver
  <2> QED BY <1>2, <1>3, <1>5, <2>1, <2>2, SessionsOnly DEF InsertDriver, CallsOK, TypeOK
<1>6. CASE Match(k)
  <2>1. /\ pendings' \in [Sessions -> Pending \cup {None}]
        /\ streams' \in [Sessions -> {"none", "open", "told"}]
        /\ \A x \in Sessions : pendings[x] \in Pending => pendings'[x] \in Pending
    BY <1>1, <1>6, VerdictKeeps DEF Match
  <2>2. \A x \in Busy : submits[x].id \in Sessions
    BY LiveAreTaps DEF Submit
  <2> QED BY <1>3, <1>6, <2>1, <2>2, SessionsOnly DEF Match, moves, CallsOK, TypeOK
<1> QED BY <1>4, <1>5, <1>6 DEF SubmitStep

\* Every action keeps the types.
LEMMA StepTypes == ASSUME TypeOK, CallsOK, Next PROVE TypeOK' /\ CallsOK'
<1>1. ASSUME NEW c \in CardIds, NEW u \in Users, Arm(c, u) PROVE TypeOK' /\ CallsOK'
  <2>1. armedByHex' \in [CardIds -> [user : Users, at : 0..MaxTime] \cup {None}]
    BY <1>1 DEF Arm, TypeOK
  <2>2. rearmed' \subseteq CardIds
    BY <1>1 DEF Arm, TypeOK
  <2> QED BY <1>1, <2>1, <2>2 DEF Arm, TypeOK, CallsOK, moves, sittings, Live, Busy
<1>2. ASSUME NEW t \in Taps, NEW c \in CardIds, Show(t, c) PROVE TypeOK' /\ CallsOK'
  <2>1. armedByHex[c] \in [user : Users, at : 0..MaxTime]
    BY <1>2 DEF Show, TypeOK
  <2>2. armedByHex' \in [CardIds -> [user : Users, at : 0..MaxTime] \cup {None}]
    BY <1>2 DEF Show, TypeOK
  <2>3. CASE UNCHANGED taps
    BY <1>2, <2>2, <2>3, TapsOnly DEF Show, CallsOK, Live, TypeOK
  <2>4. CASE taps' = [taps EXCEPT ![t] =
                  [pc |-> "target", card |-> c, user |-> armedByHex[c].user,
                   old |-> None, holds |-> None, stale |-> FALSE]]
    <3>1. taps'[t] \in Tap /\ taps'[t].pc = "target"
      BY <2>1, <2>4 DEF TypeOK, Tap
    <3>2. taps' \in [Taps -> Tap \cup {None}]
      BY <2>4, <3>1 DEF TypeOK
    <3>3. \A x \in Live' : x = t \/ (x \in Live /\ taps'[x] = taps[x])
      BY <2>4 DEF TypeOK, Live
    <3> QED BY <1>2, <2>2, <3>1, <3>2, <3>3, TapsOnly DEF Show, CallsOK, TypeOK
  <2> QED BY <1>2, <2>3, <2>4 DEF Show
<1>3. ASSUME NEW x \in resultTimers, ForgetResult(x) PROVE TypeOK' /\ CallsOK'
  BY <1>3 DEF ForgetResult, TypeOK, CallsOK, moves, sittings, Live, Busy
<1>4. ASSUME NEW s \in Sessions, NEW c \in CardIds, NEW p \in Users, IssuePending(s, c, p)
      PROVE  TypeOK' /\ CallsOK'
  <2>1. pendings' = [pendings EXCEPT ![s] =
          [card |-> c, phone |-> p, at |-> now, timer |-> TRUE, status |-> "waiting"]]
    BY <1>4 DEF IssuePending
  <2>2. pendings'[s] \in Pending
    BY <2>1 DEF TypeOK, Pending
  <2>3. /\ pendings' \in [Sessions -> Pending \cup {None}]
        /\ \A x \in Sessions : pendings[x] \in Pending => pendings'[x] \in Pending
    BY <2>1, <2>2 DEF TypeOK
  <2>4. \A x \in Busy : submits[x].id \in Sessions
    BY LiveAreTaps DEF Submit
  <2> QED BY <1>4, <2>3, <2>4, SessionsOnly DEF IssuePending, moves, TypeOK, CallsOK, Busy
<1>5. ASSUME NEW s \in Sessions, TimeOut(s) PROVE TypeOK' /\ CallsOK'
  <2>1. pendings[s] \in Pending
    BY <1>5, LiveAreTaps DEF TimeOut
  <2>2. /\ pendings' \in [Sessions -> Pending \cup {None}]
        /\ streams' \in [Sessions -> {"none", "open", "told"}]
        /\ \A x \in Sessions : pendings[x] \in Pending => pendings'[x] \in Pending
    BY <1>5, <2>1, VerdictKeeps DEF TimeOut
  <2>3. \A x \in Busy : submits[x].id \in Sessions
    BY LiveAreTaps DEF Submit
  <2> QED BY <1>5, <2>2, <2>3, SessionsOnly DEF TimeOut, moves, TypeOK, CallsOK, Busy
<1>6. ASSUME NEW s \in Sessions, Sse(s) PROVE TypeOK' /\ CallsOK'
  BY <1>6, SessionsOnly DEF Sse, moves, TypeOK, CallsOK, Busy
<1>7. ASSUME NEW k \in Submits, NEW s \in Sessions, NEW uid \in CardIds \cup {BadUid},
             SubmitUid(k, s, uid)
      PROVE  TypeOK' /\ CallsOK'
  <2>1. pendings[s] \in Pending
    BY <1>7, LiveAreTaps DEF SubmitUid, Open
  <2>2. \A x \in Busy : submits[x].id \in Sessions
    BY LiveAreTaps DEF Submit
  <2>3. CASE UNCHANGED submits /\ \E v \in {"failed", "mismatch"} : Settle(s, v)
    <3>1. /\ pendings' \in [Sessions -> Pending \cup {None}]
          /\ streams' \in [Sessions -> {"none", "open", "told"}]
          /\ \A x \in Sessions : pendings[x] \in Pending => pendings'[x] \in Pending
      BY <2>1, <2>3, VerdictKeeps
    <3> QED BY <1>7, <2>2, <2>3, <3>1, SessionsOnly DEF SubmitUid, moves, TypeOK, CallsOK, Busy
  <2>4. CASE Accept(k, s)
    <3>1. /\ submits' \in [Submits -> Submit \cup {None}]
          /\ \A x \in Busy' : submits'[x].id = s \/ (x \in Busy /\ submits'[x].id = submits[x].id)
      BY <2>4 DEF Accept, TypeOK, Submit, Busy
    <3> QED BY <1>7, <2>1, <2>4, <3>1, SessionsOnly DEF SubmitUid, Accept, moves, TypeOK,
        CallsOK
  <2> QED BY <1>7, <2>3, <2>4 DEF SubmitUid
<1>8. ASSUME NEW u \in Users, DeleteUser(u) PROVE TypeOK' /\ CallsOK'
  BY <1>8 DEF DeleteUser, TypeOK, CallsOK, memory, sittings, Live, Busy
<1>9. CASE Tick
  BY <1>9, TimesAssumption DEF Tick, TypeOK, CallsOK, moves, memory, sittings, Live, Busy
<1>10. CASE Restart
  BY <1>10, SumsAreTimes DEF Restart, TypeOK, CallsOK, Live, Busy
<1> QED
  BY <1>1, <1>2, <1>3, <1>4, <1>5, <1>6, <1>7, <1>8, <1>9, <1>10,
     TapStepTypes, SubmitStepTypes DEF Next, Forget

\* A step that only stutters keeps the types.
LEMMA StutterTypes ==
    ASSUME TypeOK, CallsOK, UNCHANGED vars PROVE TypeOK' /\ CallsOK'
BY DEF TypeOK, CallsOK, vars, moves, memory, sittings, Live, Busy

\* The types of the cards hold for ever.
LEMMA TypesHold == Spec => [](TypeOK /\ CallsOK)
<1>1. TypeOK /\ CallsOK /\ [Next]_vars => TypeOK' /\ CallsOK'
  BY StepTypes, StutterTypes
<1> QED BY InitTypes, <1>1, PTL DEF Spec

\* Whatever the calls, timers and restarts do, every variable keeps what its
\* declaration says and no card has two holders.
THEOREM TypeCorrect == Spec => []TypeOK
BY TypesHold, PTL

------------------------------------------------------------------------------
(* Answers and sessions.                                                   *)

\* A card that counts as used has its answer: the timer that forgets the answer
\* was set with the mark, and a later tap replaces both.
LEMMA AnswersStep ==
    ASSUME TypeOK, RetryIsAnswered, TimersOutlast, [Next]_vars
    PROVE  RetryIsAnswered' /\ TimersOutlast'
<1> USE DEF RetryIsAnswered, TimersOutlast
<1>1. CASE UNCHANGED <<results, used, resultTimers>> /\ now' \in {now, now + 1}
  BY <1>1, TimesAssumption DEF TypeOK, Time
<1>2. ASSUME NEW t \in Taps, Finalize(t) PROVE RetryIsAnswered' /\ TimersOutlast'
  <2>1. t \in Live /\ taps[t].card \in CardIds /\ taps[t].user \in Users
    BY <1>2, LiveAreTaps DEF Finalize, Tap
  <2>2. RetryIsAnswered'
    BY <1>2, <2>1, NoneAssumption DEF Finalize, TypeOK
  <2>3. TimersOutlast'
    BY <1>2, <2>1, TimesAssumption DEF Finalize, Renew, TypeOK, Time
  <2> QED BY <2>2, <2>3
<1>3. ASSUME NEW x \in resultTimers, ForgetResult(x) PROVE RetryIsAnswered' /\ TimersOutlast'
  <2>1. x.card \in CardIds /\ x.due \in Int /\ used[x.card] <= x.due /\ x.due <= now
    BY <1>3, TimesAssumption DEF ForgetResult, TypeOK, Time
  <2>2. used[x.card] <= now
    BY <2>1, TimesAssumption DEF TypeOK, Time
  <2>3. RetryIsAnswered'
    BY <1>3, <2>1, <2>2, TimesAssumption DEF ForgetResult, TypeOK, Time
  <2> QED BY <1>3, <2>3 DEF ForgetResult
<1>4. CASE Restart
  BY <1>4 DEF Restart, TypeOK
<1>5. CASE [Next]_vars /\ ~ Restart
            /\ (\A t \in Taps : ~ Finalize(t)) /\ \A x \in resultTimers : ~ ForgetResult(x)
  <2>1. UNCHANGED <<results, used, resultTimers>> /\ now' \in {now, now + 1}
    BY <1>5
    DEF Next, vars, TapStep, SubmitStep, Forget, Arm, Show, ReadTarget, ReadOwner, ClearOld,
        SetTarget, Deadlock, IssuePending, TimeOut, Sse, SubmitUid, FindByPhone,
        InsertDriver, Match, DeleteUser, Tick, memory
  <2> QED BY <1>1, <2>1
<1> QED BY <1>2, <1>3, <1>4, <1>5

\* While a card counts as used, a board that repeats the tap is given its driver.
THEOREM RetriesAreAnswered == Spec => []RetryIsAnswered
<1>1. Init => RetryIsAnswered /\ TimersOutlast
  BY DEF Init, RetryIsAnswered, TimersOutlast
<1> QED BY TypeCorrect, <1>1, AnswersStep, PTL DEF Spec

\* Only a step that settles a session stops its timer.
LEMMA WaitingStep ==
    ASSUME TypeOK, CallsOK, WaitingSessionsEnd, [Next]_vars PROVE WaitingSessionsEnd'
<1> USE DEF WaitingSessionsEnd
<1>1. CASE UNCHANGED pendings
  BY <1>1 DEF Known
<1>2. ASSUME NEW s \in Sessions, pendings[s] \in Pending,
             NEW verdict \in {"mismatch", "failed", "matched"}, Settle(s, verdict)
      PROVE  WaitingSessionsEnd'
  BY <1>2, VerdictKeeps DEF Known
<1>3. ASSUME NEW s \in Sessions, NEW c \in CardIds, NEW p \in Users, IssuePending(s, c, p)
      PROVE  WaitingSessionsEnd'
  BY <1>3 DEF IssuePending, TypeOK, Known
<1>4. ASSUME NEW s \in Sessions, TimeOut(s) PROVE WaitingSessionsEnd'
  BY <1>2, <1>4, LiveAreTaps DEF TimeOut
<1>5. ASSUME NEW k \in Submits, NEW s \in Sessions, NEW uid \in CardIds \cup {BadUid},
             SubmitUid(k, s, uid)
      PROVE  WaitingSessionsEnd'
  <2>1. pendings[s] \in Pending
    BY <1>5, LiveAreTaps DEF SubmitUid, Open
  <2> QED BY <1>1, <1>2, <1>5, <2>1 DEF SubmitUid, Accept
<1>6. ASSUME NEW k \in Submits, Match(k) PROVE WaitingSessionsEnd'
  <2>1. submits[k].id \in Sessions /\ pendings[submits[k].id] \in Pending
    BY <1>6, LiveAreTaps DEF Match, CallsOK, Submit
  <2> QED BY <1>2, <1>6, <2>1 DEF Match
<1>7. CASE Restart
  BY <1>7 DEF Restart, Known
<1>8. CASE UNCHANGED vars
  BY <1>1, <1>8 DEF vars, sittings
<1> QED
  BY <1>1, <1>3, <1>4, <1>5, <1>6, <1>7, <1>8
  DEF Next, TapStep, SubmitStep, Forget, ForgetResult, Arm, Show, ReadTarget, ReadOwner,
      ClearOld, SetTarget, Deadlock, Finalize, Sse, FindByPhone, InsertDriver, DeleteUser,
      Tick, sittings

\* As long as a session waits, a timer will end it, whatever becomes of its calls.
THEOREM SessionsEnd == Spec => []WaitingSessionsEnd
<1>1. Init => WaitingSessionsEnd
  BY DEF Init, WaitingSessionsEnd, Known
<1>2. TypeOK /\ CallsOK /\ WaitingSessionsEnd /\ [Next]_vars => WaitingSessionsEnd'
  BY WaitingStep
<1> QED BY TypesHold, <1>1, <1>2, PTL DEF Spec

------------------------------------------------------------------------------
(* Who holds a card, who is about to, and who it is answered with.         *)

\* Rows come and go with their cards: only a row that is there is given one.
LEMMA RowsStep ==
    ASSUME TypeOK, CallsOK, RowsOnly, [Next]_vars PROVE RowsOnly'
<1> USE DEF RowsOnly
<1>1. CASE UNCHANGED <<users, cardOf>>
  BY <1>1
<1>2. ASSUME NEW t \in Taps, SetTarget(t) PROVE RowsOnly'
  BY <1>2 DEF SetTarget, Fail, Moved
<1>3. ASSUME NEW k \in Submits, InsertDriver(k) PROVE RowsOnly'
  BY <1>3 DEF InsertDriver
<1>4. ASSUME NEW u \in Users, DeleteUser(u) PROVE RowsOnly'
  BY <1>4 DEF DeleteUser, TypeOK
<1> QED
  BY <1>1, <1>2, <1>3, <1>4
  DEF Next, vars, TapStep, SubmitStep, Forget, ForgetResult, Arm, Show, ReadTarget, ReadOwner,
      Fail, ClearOld, Deadlock, Aborted, Finalize, IssuePending, TimeOut, Sse, SubmitUid,
      FindByPhone, Match, Tick, Restart, moves

\* A step of one tap leaves the others as they are, or marks them stale.
LEMMA OthersKeep ==
    ASSUME TypeOK, NEW x \in Taps, TapStep(x), NEW t \in Live', t # x
    PROVE  /\ t \in Live
           /\ taps'[t] = taps[t] \/ taps'[t] = [taps[t] EXCEPT !.stale = TRUE]
BY ZenonT(60) DEF TapStep, ReadTarget, ReadOwner, ClearOld, SetTarget, Deadlock, Aborted, Fail,
    Finalize,
       TypeOK, Live

\* A tap is for the same card and the same driver from its first read to its end.
LEMMA TapKeepsItsDriver ==
    ASSUME TypeOK, NEW t \in Taps, TapStep(t)
    PROVE  \A x \in Live' : /\ x \in Live
                            /\ taps'[x].card = taps[x].card /\ taps'[x].user = taps[x].user
<1>1. CASE taps' = [taps EXCEPT ![t] = None]
  BY <1>1 DEF Live, TypeOK
<1>2. ASSUME t \in Live, taps[t] \in Tap,
             taps'[t].card = taps[t].card /\ taps'[t].user = taps[t].user,
             \A x \in Live' : x # t =>
                 \/ taps'[x] = taps[x]
                 \/ x \in Live /\ taps'[x] = [taps[x] EXCEPT !.stale = TRUE]
      PROVE  \A x \in Live' : /\ x \in Live
                              /\ taps'[x].card = taps[x].card /\ taps'[x].user = taps[x].user
  <2>1. ASSUME NEW x \in Live', x # t
        PROVE  x \in Live /\ taps'[x].card = taps[x].card /\ taps'[x].user = taps[x].user
    <3>1. CASE taps'[x] = taps[x]
      BY <3>1 DEF Live
    <3>2. CASE x \in Live /\ taps'[x] = [taps[x] EXCEPT !.stale = TRUE]
      BY <3>2, LiveAreTaps DEF Tap
    <3> QED BY <1>2, <2>1, <3>1, <3>2
  <2> QED BY <1>2, <2>1
<1>3. CASE ReadTarget(t) /\ taps[t].user \in users
  BY <1>2, <1>3, LiveAreTaps DEF ReadTarget, Live, TypeOK, Tap
<1>4. CASE ReadOwner(t)
  BY <1>2, <1>4, LiveAreTaps DEF ReadOwner, Live, TypeOK, Tap
<1>5. CASE ClearOld(t)
  BY <1>2, <1>5, LiveAreTaps DEF ClearOld, Live, TypeOK, Tap
<1>6. CASE SetTarget(t) /\ ~ (taps[t].user \in users /\ Rivals(t) # {})
  <2>1. /\ t \in Live /\ taps[t] \in Tap /\ taps'[t] = Done(t)
        /\ \A x \in Taps : x # t =>
               \/ taps'[x] = taps[x]
               \/ x \in Live /\ taps'[x] = [taps[x] EXCEPT !.stale = TRUE]
    BY <1>6, LiveAreTaps DEF SetTarget
  <2>2. taps'[t].card = taps[t].card /\ taps'[t].user = taps[t].user
    BY <2>1 DEF Done, Tap
  <2> QED BY <1>2, <2>1, <2>2 DEF Live
<1> QED BY <1>1, <1>3, <1>4, <1>5, <1>6
        DEF TapStep, ReadTarget, SetTarget, Deadlock, Aborted, Fail, Finalize

\* No other step touches a tap, unless it begins one or ends them all.
LEMMA TapsKeepTheirDriver ==
    ASSUME TypeOK, [Next]_vars, \A t \in Taps, c \in CardIds : ~ Show(t, c)
    PROVE  \A x \in Live' : /\ x \in Live
                            /\ taps'[x].card = taps[x].card /\ taps'[x].user = taps[x].user
<1>1. CASE UNCHANGED taps
  BY <1>1 DEF Live
<1>2. CASE taps' = [t \in Taps |-> None]
  BY <1>2 DEF Live
<1> QED
  BY <1>1, <1>2, TapKeepsItsDriver
  DEF Next, vars, SubmitStep, Forget, ForgetResult, Arm, IssuePending, TimeOut, Sse, SubmitUid,
      FindByPhone, InsertDriver, Match, DeleteUser, Tick, Restart, moves

\* Nobody comes to hold a card but the driver of a tap of that card, when it is set.
LEMMA HoldersMove ==
    ASSUME TypeOK, [Next]_vars, NEW c \in CardIds
    PROVE  \/ HoldersOf(c)' \subseteq HoldersOf(c)
           \/ \E x \in Live : /\ SetTarget(x) /\ taps[x].card = c
                              /\ HoldersOf(c)' \subseteq HoldersOf(c) \cup {taps[x].user}
<1>1. CASE UNCHANGED cardOf
  BY <1>1 DEF HoldersOf
<1>2. ASSUME NEW x \in Taps, SetTarget(x), cardOf' = Moved(x)
      PROVE  \/ HoldersOf(c)' \subseteq HoldersOf(c)
             \/ /\ taps[x].card = c
                /\ HoldersOf(c)' \subseteq HoldersOf(c) \cup {taps[x].user}
  BY <1>2, NoneAssumption DEF HoldersOf, Moved
<1>3. ASSUME NEW u \in Users, DeleteUser(u) PROVE HoldersOf(c)' \subseteq HoldersOf(c)
  BY <1>3, NoneAssumption DEF DeleteUser, HoldersOf, TypeOK
<1> QED
  BY <1>1, <1>2, <1>3
  DEF Next, vars, TapStep, SubmitStep, Forget, ForgetResult, Arm, Show, ReadTarget, ReadOwner,
      Fail, ClearOld, SetTarget, Deadlock, Aborted, Finalize, IssuePending, TimeOut, Sse,
      SubmitUid, FindByPhone, InsertDriver, Match, Tick, Restart, moves

\* A card armed for another driver while it is tapped is in rearmed till the process
\* ends; with it ends every tap.
LEMMA RearmedStays ==
    ASSUME TypeOK, [Next]_vars
    PROVE  \/ rearmed \subseteq rearmed'
           \/ Live' = {} /\ results' = [c \in CardIds |-> None]
BY DEF Next, vars, TapStep, SubmitStep, Forget, ForgetResult, Arm, Show, ReadTarget, ReadOwner,
       ClearOld, SetTarget, Deadlock, Finalize, IssuePending, TimeOut, Sse, SubmitUid,
       FindByPhone, InsertDriver, Match, DeleteUser, Tick, Restart, moves, memory, Live

\* All taps of a card stay for one driver, the armed one and the answered one.
LEMMA OneDriverStep ==
    ASSUME TypeOK, [Next]_vars, CardsFollow, NEW c \in CardIds, c \notin rearmed'
    PROVE  OneDriver(c)'
<1> USE DEF OneDriver
<1>1. CASE Live' = {}
  BY <1>1
<1>2. CASE Live' # {} /\ rearmed \subseteq rearmed'
  <2>1. OneDriver(c)
    BY <1>2 DEF CardsFollow
  <2>2. ASSUME NEW d \in CardIds, NEW u \in Users, Arm(d, u) PROVE OneDriver(c)'
    <3>1. UNCHANGED <<taps, results>> /\ Live' = Live
      BY <2>2 DEF Arm, moves, Live
    <3>2. CASE d # c
      BY <2>1, <2>2, <3>1, <3>2 DEF Arm, TypeOK
    <3>3. CASE d = c
      <4>1. armedByHex'[c].user = u
        BY <2>2, <3>3 DEF Arm, TypeOK
      <4>2. \A t \in Live : taps[t].card = c => taps[t].user = u
        BY <2>2, <3>3 DEF Arm, CardsFollow
      <4> QED BY <2>1, <3>1, <4>1, <4>2
    <3> QED BY <3>2, <3>3
  <2>3. ASSUME NEW t \in Taps, NEW d \in CardIds, Show(t, d) PROVE OneDriver(c)'
    <3>1. /\ armedByHex[d] # None /\ results[d] = None /\ taps[t] = None
          /\ UNCHANGED results
      BY <2>3 DEF Show
    <3>2. CASE UNCHANGED taps /\ armedByHex' = [armedByHex EXCEPT ![d] = None]
      BY <2>1, <3>1, <3>2 DEF TypeOK, Live
    <3>3. CASE /\ UNCHANGED armedByHex
               /\ taps' = [taps EXCEPT ![t] =
                      [pc |-> "target", card |-> d, user |-> armedByHex[d].user,
                       old |-> None, holds |-> None, stale |-> FALSE]]
      <4>1. taps'[t].card = d /\ taps'[t].user = armedByHex[d].user
        BY <3>3 DEF TypeOK
      <4>2. \A x \in Live' : x # t => x \in Live /\ taps'[x] = taps[x]
        BY <3>3 DEF TypeOK, Live
      <4> QED BY <2>1, <3>1, <3>3, <4>1, <4>2
    <3> QED BY <2>3, <3>2, <3>3 DEF Show
  <2>4. ASSUME NEW t \in Taps, Finalize(t) PROVE OneDriver(c)'
    <3>1. t \in Live /\ taps[t].card \in CardIds
      BY <2>4, LiveAreTaps DEF Finalize, Tap
    <3>2. \A x \in Live' : x \in Live /\ taps'[x] = taps[x]
      BY <2>4 DEF Finalize, TypeOK, Live
    <3>3. \/ /\ taps[t].card = c /\ armedByHex'[c] = None
             /\ results'[c] = taps[t].user
          \/ taps[t].card # c /\ armedByHex'[c] = armedByHex[c] /\ results'[c] = results[c]
      BY <2>4, <3>1 DEF Finalize, TypeOK
    <3> QED BY <2>1, <3>1, <3>2, <3>3
  <2>5. ASSUME NEW x \in resultTimers, ForgetResult(x) PROVE OneDriver(c)'
    BY <2>1, <2>5 DEF ForgetResult, TypeOK, moves, Live
  <2>6. CASE /\ UNCHANGED <<armedByHex, results>>
             /\ \A t \in Taps, d \in CardIds : ~ Show(t, d)
    BY <2>1, <2>6, TapsKeepTheirDriver
  <2>7. CASE Restart
    BY <1>2, <2>7 DEF Restart, Live
  <2> QED
    BY <2>2, <2>3, <2>4, <2>5, <2>6, <2>7
    DEF Next, vars, TapStep, SubmitStep, Forget, ReadTarget, ReadOwner, ClearOld, SetTarget,
        Deadlock, IssuePending, TimeOut, Sse, SubmitUid, FindByPhone, InsertDriver, Match,
        DeleteUser, Tick, memory
<1> QED BY <1>1, <1>2, RearmedStays

\* A tap whose record does not change still knows the holders of its card: whoever
\* is given that card meanwhile is its own driver.
LEMMA HoldersStayKnown ==
    ASSUME TypeOK, [Next]_vars, CardsFollow, NEW t \in Live, NEW c \in CardIds, NEW S,
           taps[t].card = c, c \notin rearmed, HoldersOf(c) \subseteq {taps[t].user} \cup S
    PROVE  HoldersOf(c)' \subseteq {taps[t].user} \cup S
<1>1. \A x \in Live : taps[x].card = c => taps[x].user = taps[t].user
  BY DEF CardsFollow, OneDriver
<1> QED BY <1>1, HoldersMove

\* What a tap knows of the holders of its card outlasts every step of the others, and
\* each of its own steps learns or uses it.
LEMMA HoldersKnownStep ==
    ASSUME TypeOK, RowsOnly, [Next]_vars, CardsFollow,
           NEW t \in Live', taps'[t].card \notin rearmed'
    PROVE  HoldersKnown(t)'
<1> USE DEF HoldersKnown
<1>0. t \in Taps
  BY DEF Live
<1>1. rearmed \subseteq rearmed'
  BY RearmedStays
<1>2. ASSUME t \in Live, taps'[t] = taps[t] \/ taps'[t] = [taps[t] EXCEPT !.stale = TRUE]
      PROVE  HoldersKnown(t)'
  <2>1. /\ taps'[t].card = taps[t].card /\ taps'[t].user = taps[t].user
        /\ taps'[t].pc = taps[t].pc
        /\ taps'[t].old = taps[t].old /\ taps'[t].holds = taps[t].holds
    BY <1>2, LiveAreTaps DEF Tap
  <2>2. HoldersKnown(t) /\ taps[t].card \in CardIds /\ taps[t].card \notin rearmed
    BY <1>1, <1>2, <2>1, LiveAreTaps DEF CardsFollow, Tap
  <2>3. CASE taps[t].pc = "clear"
    BY <1>2, <2>1, <2>2, <2>3, HoldersStayKnown DEF HoldersOf
  <2>4. CASE taps[t].pc = "set"
    BY <1>2, <2>1, <2>2, <2>4, HoldersStayKnown DEF HoldersOf
  <2>5. CASE taps[t].pc = "finalize"
    <3>1. HoldersOf(taps[t].card) \subseteq {taps[t].user} \cup {}
      BY <2>2, <2>5
    <3>2. \A u \in Users : cardOf'[u] = taps[t].card => u \in {taps[t].user} \cup {}
      BY <1>2, <2>2, <3>1, HoldersStayKnown DEF HoldersOf
    <3> QED BY <2>1, <2>5, <3>2 DEF HoldersOf
  <2> QED BY <2>1, <2>3, <2>4, <2>5
<1>3. ASSUME NEW d \in CardIds, Show(t, d) PROVE HoldersKnown(t)'
  <2>1. taps'[t].pc = "target"
    BY <1>3 DEF Show, TypeOK, Live
  <2> QED BY <2>1
<1>4. ASSUME NEW x \in Taps, NEW d \in CardIds, x # t, Show(x, d) PROVE HoldersKnown(t)'
  <2>1. t \in Live /\ taps'[t] = taps[t]
    BY <1>0, <1>4 DEF Show, TypeOK, Live
  <2> QED BY <1>2, <2>1
<1>5. ASSUME TapStep(t) PROVE HoldersKnown(t)'
  <2>1. /\ t \in Live /\ taps[t] \in Tap
        /\ taps'[t].card = taps[t].card /\ taps'[t].user = taps[t].user
    BY <1>5, TapKeepsItsDriver, LiveAreTaps DEF Live
  <2>2. taps[t].card \in CardIds /\ taps[t].card \notin rearmed /\ HoldersKnown(t)
    BY <1>1, <2>1 DEF Tap, CardsFollow
  <2>3. CASE ReadTarget(t) /\ taps[t].user \in users
    <3>1. taps'[t] = [taps[t] EXCEPT !.pc = "owner"]
      BY <1>0, <2>1, <2>3 DEF ReadTarget, TypeOK
    <3>2. taps'[t].pc = "owner"
      BY <2>1, <3>1 DEF Tap
    <3> QED BY <3>2
  <2>4. CASE ReadOwner(t)
    <3>1. PICK u \in Users \cup {None} :
              /\ OwnerFound(taps[t].card, u)
              /\ taps' = IF u \in {None, taps[t].user}
                         THEN [taps EXCEPT ![t].pc = "set"]
                         ELSE [taps EXCEPT ![t].pc = "clear", ![t].old = u]
      BY <2>4 DEF ReadOwner
    <3>2. HoldersOf(taps[t].card) \subseteq {u}
      BY <2>2, <3>1, NoneAssumption DEF OwnerFound, HoldersOf, TypeOK
    <3>3. u = None => HoldersOf(taps[t].card) = {}
      BY <3>1, NoneAssumption DEF OwnerFound, HoldersOf
    <3>4. \/ /\ u \in {None, taps[t].user} /\ taps'[t].pc = "set"
             /\ HoldersOf(taps[t].card) \subseteq {taps[t].user}
          \/ taps'[t].pc = "clear" /\ taps'[t].old = u
      <4>1. taps'[t] = IF u \in {None, taps[t].user} THEN [taps[t] EXCEPT !.pc = "set"]
                       ELSE [taps[t] EXCEPT !.pc = "clear", !.old = u]
        BY <1>0, <2>1, <3>1 DEF TypeOK
      <4> QED BY <2>1, <3>2, <3>3, <4>1 DEF Tap
    <3>5. UNCHANGED cardOf
      BY <2>4 DEF ReadOwner
    <3> QED BY <2>1, <3>2, <3>4, <3>5 DEF HoldersOf
  <2>5. CASE ClearOld(t)
    <3>1. /\ taps[t].pc = "clear" /\ taps'[t].pc = "set" /\ UNCHANGED cardOf
          /\ taps'[t].holds = IF taps[t].old \in users THEN taps[t].old ELSE None
      <4>1. /\ taps'[t] = [taps[t] EXCEPT !.pc = "set", !.old = None,
                   !.holds = IF taps[t].old \in users THEN taps[t].old ELSE None]
            /\ taps[t].pc = "clear" /\ UNCHANGED cardOf
        BY <1>0, <2>1, <2>5 DEF ClearOld, TypeOK
      <4> QED BY <2>1, <4>1 DEF Tap
    <3>2. taps[t].old \notin users => HoldersOf(taps[t].card) \subseteq {taps[t].user}
      BY <2>2, <3>1, NoneAssumption DEF RowsOnly, HoldersOf
    <3> QED BY <2>1, <2>2, <3>1, <3>2 DEF HoldersOf
  <2>6. CASE SetTarget(t) /\ ~ (taps[t].user \in users /\ Rivals(t) # {})
    <3>1. /\ taps[t].pc = "set" /\ taps'[t].pc = "finalize" /\ cardOf' = Moved(t)
      <4>1. taps'[t] = Done(t) /\ taps[t].pc = "set" /\ cardOf' = Moved(t)
        BY <1>0, <2>6 DEF SetTarget
      <4> QED BY <2>1, <4>1 DEF Done, Tap
    <3>2. HoldersOf(taps[t].card) \subseteq {taps[t].user, taps[t].holds}
      BY <2>2, <3>1
    <3>3. \A u \in Users : cardOf'[u] = taps[t].card => u = taps[t].user
      BY <2>2, <3>1, <3>2, NoneAssumption DEF Moved, HoldersOf
    <3> QED BY <2>1, <3>1, <3>3 DEF HoldersOf
  <2>7. CASE taps' = [taps EXCEPT ![t] = None]
    BY <2>7 DEF Live, TypeOK
  <2> QED BY <1>5, <2>3, <2>4, <2>5, <2>6, <2>7
          DEF TapStep, ReadTarget, SetTarget, Deadlock, Aborted, Fail, Finalize
<1>6. ASSUME NEW x \in Taps, x # t, TapStep(x) PROVE HoldersKnown(t)'
  BY <1>2, <1>6, OthersKeep DEF Live
<1>7. CASE UNCHANGED taps
  BY <1>2, <1>7 DEF Live
<1>8. CASE Restart
  BY <1>8 DEF Restart, Live
<1> QED
  BY <1>3, <1>4, <1>5, <1>6, <1>7, <1>8
  DEF Next, vars, SubmitStep, Forget, ForgetResult, Arm, IssuePending, TimeOut, Sse, SubmitUid,
      FindByPhone, InsertDriver, Match, DeleteUser, Tick, moves, Live

\* An answer is given by a tap that has set the card, and whoever is given the card
\* after it is the driver of the answer.
LEMMA CacheStep ==
    ASSUME TypeOK, [Next]_vars, CardsFollow, CacheNamesHolder PROVE CacheNamesHolder'
<1> USE DEF CacheNamesHolder
<1>1. CASE results' = [c \in CardIds |-> None]
  BY <1>1
<1>2. ASSUME rearmed \subseteq rearmed', NEW c \in CardIds, c \notin rearmed', results'[c] # None
      PROVE  HoldersOf(c)' \subseteq {results'[c]}
  <2>1. OneDriver(c) /\ c \notin rearmed
    BY <1>2 DEF CardsFollow
  <2>2. CASE results'[c] = results[c]
    <3>1. HoldersOf(c) \subseteq {results[c]}
      BY <1>2, <2>1, <2>2
    <3>2. \A x \in Live : taps[x].card = c => taps[x].user = results[c]
      BY <1>2, <2>1, <2>2 DEF OneDriver
    <3> QED BY <2>2, <3>1, <3>2, HoldersMove
  <2>3. ASSUME NEW t \in Taps, Finalize(t) PROVE HoldersOf(c)' \subseteq {results'[c]}
    <3>1. /\ t \in Live /\ taps[t].pc = "finalize" /\ UNCHANGED cardOf
          /\ results' = [results EXCEPT ![taps[t].card] = taps[t].user]
      BY <2>3 DEF Finalize
    <3>2. CASE taps[t].card = c
      <4>1. HoldersOf(c) \subseteq {taps[t].user}
        BY <2>1, <3>1, <3>2 DEF CardsFollow, HoldersKnown
      <4> QED BY <3>1, <3>2, <4>1 DEF HoldersOf, TypeOK
    <3> QED BY <2>2, <3>1, <3>2 DEF TypeOK
  <2>4. ASSUME NEW x \in resultTimers, ForgetResult(x) PROVE results'[c] = results[c]
    BY <1>2, <2>4 DEF ForgetResult, TypeOK
  <2>5. CASE Restart
    BY <1>2, <2>5 DEF Restart
  <2> QED
    BY <2>2, <2>3, <2>4, <2>5
    DEF Next, vars, TapStep, SubmitStep, Forget, Arm, Show, ReadTarget, ReadOwner, ClearOld,
        SetTarget, Deadlock, IssuePending, TimeOut, Sse, SubmitUid, FindByPhone, InsertDriver,
        Match, DeleteUser, Tick, moves, memory
<1> QED BY <1>1, <1>2, RearmedStays

\* The invariants on who holds a card, together.
LEMMA CardsStep ==
    ASSUME TypeOK, CallsOK, RowsOnly, CardsFollow, CacheNamesHolder, [Next]_vars
    PROVE  RowsOnly' /\ CardsFollow' /\ CacheNamesHolder'
<1>1. \A c \in CardIds \ rearmed' : OneDriver(c)'
  BY OneDriverStep
<1>2. \A t \in Live' : taps'[t].card \notin rearmed' => HoldersKnown(t)'
  BY HoldersKnownStep
<1> QED BY <1>1, <1>2, RowsStep, CacheStep DEF CardsFollow

\* So does what is known of the holders of cards and the answers.
LEMMA CardsHold == Spec => [](RowsOnly /\ CardsFollow /\ CacheNamesHolder)
<1>1. Init => RowsOnly /\ CardsFollow /\ CacheNamesHolder
  BY DEF Init, RowsOnly, CardsFollow, CacheNamesHolder, OneDriver, Live
<1>2. /\ TypeOK /\ CallsOK /\ RowsOnly /\ CardsFollow /\ CacheNamesHolder /\ [Next]_vars
      => RowsOnly' /\ CardsFollow' /\ CacheNamesHolder'
  BY CardsStep
<1> QED BY TypesHold, <1>1, <1>2, PTL DEF Spec

\* A retry is never answered with a driver whose card went to another, unless the card
\* was armed for another while a tap was on its way.
THEOREM CacheTrue == Spec => []CacheNamesHolder
BY CardsHold, PTL

------------------------------------------------------------------------------
(* Whose card a tap takes away.                                            *)

\* A tap that is not marked and whose rows keep their card, or lose it, still takes
\* what is its own.
LEMMA StillOwn ==
    ASSUME TypeOK, CallsOK, NEW t \in Live, TakesOwn(t),
           taps'[t] = taps[t] \/ taps'[t] = [taps[t] EXCEPT !.stale = TRUE],
           \/ taps'[t].stale
           \/ /\ taps[t].pc = "clear" => cardOf'[taps[t].old] \in {cardOf[taps[t].old], None}
              /\ taps[t].pc = "set" /\ taps[t].holds # None =>
                    cardOf'[taps[t].holds] \in {cardOf[taps[t].holds], None}
    PROVE  TakesOwn(t)'
<1>1. taps[t] \in Tap
  BY LiveAreTaps
<1>2. /\ taps'[t].pc = taps[t].pc /\ taps'[t].card = taps[t].card
      /\ taps'[t].old = taps[t].old /\ taps'[t].holds = taps[t].holds
      /\ taps[t].stale => taps'[t].stale
  BY <1>1 DEF Tap
<1> QED BY <1>2 DEF TakesOwn

\* Each step of a tap before its commit keeps or brings about what it will take.
LEMMA OwnStepTakes ==
    ASSUME TypeOK, CallsOK, NEW t \in Taps, t \in Live', TakesItsCard, TapStep(t)
    PROVE  TakesOwn(t)'
<1> USE DEF TakesOwn
<1>1. t \in Live /\ taps[t] \in Tap /\ TakesOwn(t)
  BY TapKeepsItsDriver, LiveAreTaps DEF TakesItsCard
<1>2. CASE ReadTarget(t) /\ taps[t].user \in users
  <2>1. taps'[t] = [taps[t] EXCEPT !.pc = "owner"] /\ taps[t].pc = "target"
    BY <1>1, <1>2 DEF ReadTarget, TypeOK
  <2> QED BY <1>1, <2>1 DEF Tap
<1>3. CASE ReadOwner(t)
  <2>1. PICK u \in Users \cup {None} :
            /\ OwnerFound(taps[t].card, u)
            /\ taps' = IF u \in {None, taps[t].user}
                       THEN [taps EXCEPT ![t].pc = "set"]
                       ELSE [taps EXCEPT ![t].pc = "clear", ![t].old = u]
    BY <1>3 DEF ReadOwner
  <2>2. taps'[t] = IF u \in {None, taps[t].user} THEN [taps[t] EXCEPT !.pc = "set"]
                   ELSE [taps[t] EXCEPT !.pc = "clear", !.old = u]
    BY <1>1, <2>1 DEF TypeOK
  <2>3. u # None => cardOf[u] = taps[t].card
    BY <2>1 DEF OwnerFound, HoldersOf
  <2>4. taps[t].holds = None /\ UNCHANGED cardOf
    BY <1>1, <1>3 DEF ReadOwner
  <2> QED BY <1>1, <2>2, <2>3, <2>4 DEF Tap
<1>4. CASE ClearOld(t)
  <2>1. taps'[t] = [taps[t] EXCEPT !.pc = "set", !.old = None,
                        !.holds = IF taps[t].old \in users THEN taps[t].old ELSE None]
    BY <1>1, <1>4 DEF ClearOld, TypeOK
  <2>2. /\ taps'[t].pc = "set" /\ taps'[t].card = taps[t].card
        /\ taps'[t].stale = taps[t].stale /\ taps'[t].holds \in {taps[t].old, None}
    BY <1>1, <2>1 DEF Tap
  <2>3. taps[t].pc = "clear" /\ UNCHANGED cardOf
    BY <1>4 DEF ClearOld
  <2> QED BY <1>1, <2>2, <2>3
<1>5. CASE SetTarget(t) /\ ~ (taps[t].user \in users /\ Rivals(t) # {})
  <2>1. taps'[t] = Done(t)
    BY <1>5 DEF SetTarget
  <2>2. taps'[t].pc = "finalize"
    BY <1>1, <2>1 DEF Done, Tap
  <2> QED BY <2>2
<1>6. CASE taps' = [taps EXCEPT ![t] = None]
  BY <1>6 DEF Live, TypeOK
<1> QED BY <1>2, <1>3, <1>4, <1>5, <1>6
        DEF TapStep, ReadTarget, SetTarget, Deadlock, Aborted, Fail, Finalize

\* The card of the driver a tap has emptied stays as it was till the tap commits: his
\* row is locked.  That of a driver a tap is about to empty may change, and the tap
\* is marked.
LEMMA CommitMarks ==
    ASSUME TypeOK, CallsOK, NEW t \in Taps, SetTarget(t), cardOf' = Moved(t),
           NEW x \in Live', x # t, TakesItsCard
    PROVE  TakesOwn(x)'
<1>1. x \in Live /\ x \in Taps /\ TakesOwn(x) /\ t \in Live /\ Free(t) /\ taps[t].pc = "set"
  BY OthersKeep DEF TapStep, TakesItsCard, SetTarget, Live
<1>2. /\ taps[x] \in Tap /\ taps[t] \in Tap
      /\ taps'[x] = taps[x] \/ taps'[x] = [taps[x] EXCEPT !.stale = TRUE]
  BY <1>1, LiveAreTaps, OthersKeep DEF TapStep
<1>3. CASE taps[x].pc = "clear"
  <2>1. taps[x].old \in Users
    BY <1>1, <1>3 DEF CallsOK
  <2>2. CASE Moved(t)[taps[x].old] = cardOf[taps[x].old]
    BY <1>1, <1>2, <1>3, <2>2, StillOwn
  <2>3. CASE Moved(t)[taps[x].old] # cardOf[taps[x].old]
    <3>1. taps'[x] = [taps[x] EXCEPT !.stale = TRUE]
      BY <1>1, <1>3, <2>3, LiveAreTaps DEF SetTarget, Fail
    <3>2. taps'[x].stale
      BY <1>2, <3>1 DEF Tap
    <3> QED BY <1>1, <1>2, <3>2, StillOwn
  <2> QED BY <2>2, <2>3
<1>4. CASE taps[x].pc = "set" /\ taps[x].holds # None
  <2>1. taps[x].holds \in Users
    BY <1>2, <1>4 DEF Tap
  <2>2. taps[t].user # taps[x].holds
    BY <1>1, <1>4 DEF Free, WaitsFor, Locks
  <2>3. cardOf'[taps[x].holds] \in {cardOf[taps[x].holds], None}
    BY <2>1, <2>2 DEF Moved
  <2> QED BY <1>1, <1>2, <1>4, <2>3, StillOwn
<1>5. CASE taps[x].pc # "clear" /\ (taps[x].pc = "set" => taps[x].holds = None)
  BY <1>1, <1>2, <1>5, StillOwn
<1> QED BY <1>3, <1>4, <1>5

\* Every step keeps what a tap knows of the driver it takes the card from.
LEMMA TakesStep ==
    ASSUME TypeOK, CallsOK, TakesItsCard, [Next]_vars PROVE TakesItsCard'
<1>1. ASSUME NEW x \in Live', x \in Live, taps'[x] = taps[x],
             \A u \in Users : cardOf'[u] \in {cardOf[u], None}
      PROVE  TakesOwn(x)'
  <2>1. taps[x] \in Tap /\ TakesOwn(x)
    BY <1>1, LiveAreTaps DEF TakesItsCard
  <2>2. /\ taps[x].pc = "clear" => taps[x].old \in Users
        /\ taps[x].holds # None => taps[x].holds \in Users
    BY <1>1, <2>1 DEF CallsOK, Tap
  <2> QED BY <1>1, <2>1, <2>2, StillOwn
<1>2. ASSUME NEW t \in Taps, NEW c \in CardIds, Show(t, c), NEW x \in Live'
      PROVE  TakesOwn(x)'
  <2>1. UNCHANGED cardOf
    BY <1>2 DEF Show
  <2>2. \/ x \in Live /\ taps'[x] = taps[x]
        \/ taps'[x] = [pc |-> "target", card |-> c, user |-> armedByHex[c].user,
                       old |-> None, holds |-> None, stale |-> FALSE]
    BY <1>2 DEF Show, TypeOK, Live
  <2>3. CASE taps'[x] = [pc |-> "target", card |-> c, user |-> armedByHex[c].user,
                         old |-> None, holds |-> None, stale |-> FALSE]
    BY <2>3 DEF TakesOwn
  <2> QED BY <1>1, <2>1, <2>2, <2>3
<1>3. ASSUME NEW t \in Taps, TapStep(t), NEW x \in Live' PROVE TakesOwn(x)'
  <2>1. CASE x = t
    BY <1>3, <2>1, OwnStepTakes
  <2>2. CASE x # t /\ SetTarget(t) /\ cardOf' = Moved(t)
    BY <1>3, <2>2, CommitMarks
  <2>3. CASE x # t /\ ~ (SetTarget(t) /\ cardOf' = Moved(t))
    <3>1. UNCHANGED cardOf
      BY <1>3, <2>3 DEF TapStep, ReadTarget, ReadOwner, ClearOld, SetTarget, Deadlock, Aborted,
                        Fail, Finalize
    <3>2. x \in Live /\ TakesOwn(x)
      BY <1>3, <2>3, OthersKeep DEF TakesItsCard
    <3> QED BY <1>3, <2>3, <3>1, <3>2, OthersKeep, StillOwn
  <2> QED BY <2>1, <2>2, <2>3
<1>4. CASE (\A t \in Taps, c \in CardIds : ~ Show(t, c)) /\ \A t \in Taps : ~ TapStep(t)
  <2>1. \/ Live' = {}
        \/ UNCHANGED taps /\ \A u \in Users : cardOf'[u] \in {cardOf[u], None}
    <3>1. ASSUME NEW u \in Users, DeleteUser(u)
          PROVE  UNCHANGED taps /\ \A v \in Users : cardOf'[v] \in {cardOf[v], None}
      BY <3>1 DEF DeleteUser, TypeOK
    <3>2. CASE Restart
      BY <3>2 DEF Restart, Live
    <3>3. CASE UNCHANGED <<taps, cardOf>>
      BY <3>3
    <3> QED
      BY <1>4, <3>1, <3>2, <3>3
      DEF Next, vars, SubmitStep, Forget, ForgetResult, Arm, IssuePending, TimeOut, Sse,
          SubmitUid, FindByPhone, InsertDriver, Match, Tick, moves
  <2> QED BY <1>1, <2>1 DEF TakesItsCard, Live
<1> QED BY <1>2, <1>3, <1>4 DEF TakesItsCard

\* A driver loses his card only to a tap of that card, to a tap that saw him with the
\* card he had before, or with his row.
LEMMA TakenStep ==
    ASSUME TypeOK, TakesItsCard, [Next]_vars, NEW u \in users,
           cardOf[u] # None, cardOf'[u] = None, u \in users'
    PROVE  \E t \in Live : /\ taps[t].pc = "set" /\ taps[t].holds = u
                           /\ taps[t].card = cardOf[u] \/ taps[t].stale
<1>1. u \in Users
  BY DEF TypeOK
<1>2. PICK t \in Taps : SetTarget(t) /\ cardOf' = Moved(t)
  BY <1>1
  DEF Next, vars, TapStep, SubmitStep, Forget, ForgetResult, Arm, Show, ReadTarget, ReadOwner,
      Fail, ClearOld, SetTarget, Deadlock, Aborted, Finalize, IssuePending, TimeOut, Sse,
      SubmitUid, FindByPhone, InsertDriver, Match, DeleteUser, Tick, Restart, moves, TypeOK
<1>3. t \in Live /\ taps[t].pc = "set" /\ taps[t].card \in CardIds /\ TakesOwn(t)
  BY <1>2, LiveAreTaps DEF SetTarget, Tap, TakesItsCard
<1>4. taps[t].holds = u
  BY <1>1, <1>2, <1>3, NoneAssumption DEF Moved
<1> QED BY <1>1, <1>3, <1>4, NoneAssumption DEF TakesOwn

\* The same of every behaviour.
THEOREM CardsTakenByTheirTaps == Spec => CardTakenByItsTap
<1>1. Init => TakesItsCard
  BY DEF Init, TakesItsCard, Live
<1>2. TypeOK /\ CallsOK /\ TakesItsCard /\ [Next]_vars => TakesItsCard'
  BY TakesStep
<1>3. TypeOK /\ TakesItsCard /\ [Next]_vars =>
         [\A u \in users :
             cardOf[u] # None /\ cardOf'[u] = None /\ u \in users' =>
                 \E t \in Live :
                     /\ taps[t].pc = "set" /\ taps[t].holds = u
                     /\ taps[t].card = cardOf[u] \/ taps[t].stale]_vars
  BY TakenStep
<1> QED BY TypesHold, <1>1, <1>2, <1>3, PTL DEF Spec, CardTakenByItsTap

------------------------------------------------------------------------------
(* The codes.                                                              *)

\* What each Map and each call holds, and what the calls under way hold besides.
MapsOK ==
    /\ now \in 0..MaxTime
    /\ codes \in [Codes -> Record \cup {None}]
    /\ usedCodes \in [Codes -> CodesTime]
    /\ timers \subseteq Timer
    /\ codeResults \in [Codes -> Devices \cup {None}]
    /\ resultTimer \in [Codes -> CodesTime]
    /\ vehicles \in [Devices -> Users \cup {None}]
    /\ board \in [Boards -> Board]
    /\ waiter \in [Waiters -> Waiter]

BoardsOK ==
    /\ \A b \in Boards :
          board[b].pc \notin {"idle", "failed"} =>
              /\ board[b].code \in Codes /\ board[b].user \in Users
              /\ board[b].device \in Devices
    /\ \A w \in Waiters : waiter[w].pc = "resolved" => waiter[w].vehicle # None

\* The two halves of TypeOK, used apart below.
LEMMA Split == CodesTypeOK <=> MapsOK /\ BoardsOK
BY DEF CodesTypeOK, MapsOK, BoardsOK

\* A record of a code is never the null record.
LEMMA RecordIsReal == ASSUME MapsOK, NEW c \in Codes, codes[c] # None
                      PROVE  codes[c] \in Record
BY DEF MapsOK

\* Deadlines stay within the bounded clock.
LEMMA CodesSumsAreTimes ==
    /\ 0..MaxTime \subseteq CodesTime /\ 0 \in CodesTime
    /\ \A t \in 0..MaxTime : t + UsedTTL \in CodesTime
    /\ \A t \in 0..MaxTime : t + TTL <= MaxTime => t + TTL \in CodesTime
BY CodesTimesAssumption DEF CodesTime

------------------------------------------------------------------------------
(* Types.                                                                  *)

\* A step of one call that moves its pc and nothing else.
LEMMA BoardMoves ==
    ASSUME MapsOK, NEW b \in Boards, NEW pc, BoardAt(b, pc),
           pc \in {"idle", "lookup", "insert", "finalize", "redeemed", "failed"}
    PROVE  /\ board' \in [Boards -> Board]
           /\ board'[b].pc = pc
           /\ board'[b].code = board[b].code
           /\ board'[b].device = board[b].device
           /\ board'[b].user = board[b].user
           /\ board'[b].expires = board[b].expires
           /\ \A o \in Boards : o # b => board'[o] = board[o]
BY DEF MapsOK, BoardAt, Board

\* Resolving a code's calls gives each the vehicle and leaves the others.
LEMMA Answered ==
    ASSUME MapsOK, NEW c \in Codes, NEW d \in Devices, ResolveAll(c, d)
    PROVE  /\ waiter' \in [Waiters -> Waiter]
           /\ \A w \in Waiters :
                 waiter'[w].pc = "resolved" =>
                    \/ waiter'[w].vehicle = d
                    \/ waiter[w].pc = "resolved" /\ waiter'[w] = waiter[w]
<1>1. ASSUME NEW w \in Waiters
      PROVE  /\ waiter'[w] \in Waiter
             /\ waiter'[w].pc = "resolved" =>
                    \/ waiter'[w].vehicle = d
                    \/ waiter[w].pc = "resolved" /\ waiter'[w] = waiter[w]
  <2>1. CASE w \in WaitingFor(c)
    <3>1. waiter'[w] = [waiter[w] EXCEPT !.pc = "resolved", !.vehicle = d]
      BY <2>1 DEF ResolveAll
    <3>2. /\ waiter[w] \in Waiter /\ waiter'[w].pc = "resolved"
          /\ waiter'[w].vehicle = d
      BY <3>1 DEF MapsOK, Waiter
    <3>3. waiter'[w] \in Waiter
      BY <3>1, <3>2 DEF Waiter
    <3> QED BY <3>2, <3>3
  <2>2. CASE w \notin WaitingFor(c)
    <3>1. waiter'[w] = waiter[w]
      BY <2>2 DEF ResolveAll
    <3> QED BY <3>1 DEF MapsOK
  <2> QED BY <2>1, <2>2
<1>2. waiter' = [w \in Waiters |-> waiter'[w]]
  BY DEF ResolveAll
<1> QED BY <1>1, <1>2

\* Rejecting a code's calls resolves none.
LEMMA Rejected ==
    ASSUME MapsOK, NEW c \in Codes, RejectAll(c)
    PROVE  /\ waiter' \in [Waiters -> Waiter]
           /\ \A w \in Waiters :
                 waiter'[w].pc = "resolved" =>
                    waiter[w].pc = "resolved" /\ waiter'[w] = waiter[w]
BY DEF MapsOK, RejectAll, Waiter, WaitingFor

\* Deleting a code's record and clearing a timer keep the types.
LEMMA Dropped ==
    ASSUME MapsOK, NEW c \in Codes, NEW due
    PROVE  /\ Delete(c) => codes' \in [Codes -> Record \cup {None}]
           /\ ClearTimer(c, due) => timers' \subseteq Timer
BY DEF MapsOK, Delete, ClearTimer

\* The empty Maps have the types.
LEMMA CodesInitTypes == CodesInit => CodesTypeOK
BY CodesNoneAssumption, CodesTimesAssumption, CodesSumsAreTimes
   DEF CodesInit, CodesTypeOK, Board, NoBoard, Waiter, NoWaiter

\* Each action keeps both halves.
LEMMA CodesStepTypes == ASSUME MapsOK, BoardsOK, CodesNext PROVE MapsOK' /\ BoardsOK'
<1> USE CodesSumsAreTimes, CodesTimesAssumption, CodesNoneAssumption
<1>1. CASE CodesTick
  BY <1>1 DEF CodesTick, MapsOK, BoardsOK
<1>2. ASSUME NEW c \in Codes, NEW u \in Users, Issue(u, c) PROVE MapsOK' /\ BoardsOK'
  <2>1. codes' \in [Codes -> Record \cup {None}]
    BY <1>2 DEF Issue, MapsOK, Record
  <2>2. timers' \subseteq Timer
    BY <1>2 DEF Issue, MapsOK, Timer
  <2> QED BY <1>2, <2>1, <2>2 DEF Issue, MapsOK, BoardsOK
<1>3. ASSUME NEW c \in Codes, NEW w \in Waiters, Wait(w, c) PROVE MapsOK' /\ BoardsOK'
  <2>1. waiter' \in [Waiters -> Waiter]
    <3>1. CASE Ready(w, c)
      BY <3>1 DEF Ready, MapsOK, Waiter, NoWaiter
    <3>2. CASE Unknown(w, c)
      BY <3>2 DEF Unknown, MapsOK, Waiter
    <3>3. CASE TooLate(w, c)
      BY <3>3 DEF TooLate, MapsOK, Waiter
    <3>4. CASE PendingWait(w, c)
      BY <3>4, RecordIsReal DEF PendingWait, MapsOK, Waiter, NoWaiter, Record
    <3> QED BY <1>3, <3>1, <3>2, <3>3, <3>4 DEF Wait
  <2>2. codes' \in [Codes -> Record \cup {None}] /\ timers' \subseteq Timer
    BY <1>3, Dropped DEF Wait, Ready, Unknown, TooLate, PendingWait, MapsOK
  <2>3. \A o \in Waiters : waiter'[o].pc = "resolved" => waiter'[o].vehicle # None
    <3>1. /\ waiter[w].pc = "idle"
          /\ \A o \in Waiters : o # w => waiter'[o] = waiter[o]
      BY <1>3 DEF Wait, Ready, Unknown, TooLate, PendingWait, MapsOK
    <3>2. waiter'[w].pc = "resolved" => waiter'[w].vehicle # None
      <4>1. CASE Ready(w, c)
        BY <4>1 DEF Ready, MapsOK, NoWaiter
      <4>2. CASE Unknown(w, c) \/ TooLate(w, c) \/ PendingWait(w, c)
        <5>1. waiter'[w].pc \in {"rejected", "waiting"}
          <6>1. CASE PendingWait(w, c)
            BY <6>1 DEF PendingWait, MapsOK, NoWaiter
          <6>2. CASE Unknown(w, c) \/ TooLate(w, c)
            BY <6>2 DEF Unknown, TooLate, MapsOK, Waiter
          <6> QED BY <4>2, <6>1, <6>2
        <5> QED BY <5>1
      <4> QED BY <1>3, <4>1, <4>2 DEF Wait
    <3> QED BY <3>1, <3>2 DEF BoardsOK
  <2> QED BY <1>3, <2>1, <2>2, <2>3 DEF Wait, MapsOK, BoardsOK
<1>4. ASSUME NEW c \in Codes, NEW b \in Boards, NEW d \in Devices, Redeem(b, c, d)
      PROVE  MapsOK' /\ BoardsOK'
  <2>1. codes[c] \in Record
    BY <1>4, RecordIsReal DEF Redeem
  <2>2. board' \in [Boards -> Board]
        /\ \A o \in Boards : board'[o].pc \notin {"idle", "failed"} =>
              /\ board'[o].code \in Codes /\ board'[o].user \in Users
              /\ board'[o].device \in Devices
    <3>1. CASE now > codes[c].expires
      BY <1>4, <3>1, BoardMoves DEF Redeem, BoardsOK
    <3>2. CASE ~(now > codes[c].expires)
      <4>1. board' = [board EXCEPT ![b] =
                [pc |-> "lookup", code |-> c, device |-> d,
                 user |-> codes[c].user, expires |-> codes[c].expires]]
        BY <1>4, <3>2 DEF Redeem
      <4> QED BY <2>1, <4>1 DEF MapsOK, BoardsOK, Board, Record
    <3> QED BY <3>1, <3>2
  <2>3. codes' \in [Codes -> Record \cup {None}] /\ timers' \subseteq Timer
    BY <1>4, Dropped DEF Redeem, MapsOK
  <2> QED BY <1>4, <2>2, <2>3 DEF Redeem, MapsOK, BoardsOK
<1>5. ASSUME NEW c \in Codes, ResultTimer(c) PROVE MapsOK' /\ BoardsOK'
  BY <1>5 DEF ResultTimer, MapsOK, BoardsOK
<1>6. ASSUME NEW w \in Waiters, WaitReturns(w) \/ WaitTimeout(w)
      PROVE  MapsOK' /\ BoardsOK'
  <2>1. waiter' \in [Waiters -> Waiter]
        /\ \A o \in Waiters : waiter'[o].pc = "resolved" => waiter'[o].vehicle # None
    BY <1>6 DEF WaitReturns, WaitTimeout, MapsOK, BoardsOK, Waiter, NoWaiter
  <2> QED BY <1>6, <2>1 DEF WaitReturns, WaitTimeout, MapsOK, BoardsOK
<1>7. ASSUME NEW b \in Boards, Lookup(b) \/ TxFails(b) PROVE MapsOK' /\ BoardsOK'
  <2>1. PICK pc \in {"insert", "finalize", "failed"} : BoardAt(b, pc)
    BY <1>7 DEF Lookup, TxFails
  <2>2. board[b].pc \in {"lookup", "insert"}
    BY <1>7 DEF Lookup, TxFails
  <2> QED BY <1>7, <2>1, <2>2, BoardMoves DEF Lookup, TxFails, MapsOK, BoardsOK
<1>8. ASSUME NEW b \in Boards, Insert(b) PROVE MapsOK' /\ BoardsOK'
  <2>1. PICK pc \in {"finalize", "failed"} : BoardAt(b, pc)
    BY <1>8 DEF Insert
  <2>2. board[b].pc = "insert" /\ board[b].user \in Users
    BY <1>8 DEF Insert, BoardsOK
  <2>3. vehicles' \in [Devices -> Users \cup {None}]
    BY <1>8, <2>2 DEF Insert, MapsOK
  <2> QED BY <1>8, <2>1, <2>2, <2>3, BoardMoves DEF Insert, MapsOK, BoardsOK
<1>9. ASSUME NEW b \in Boards, FinalizeCode(b) PROVE MapsOK' /\ BoardsOK'
  <2>1. board[b].code \in Codes /\ board[b].device \in Devices /\ board[b].pc = "finalize"
    BY <1>9 DEF FinalizeCode, BoardsOK
  <2>2. waiter' \in [Waiters -> Waiter]
        /\ \A w \in Waiters : waiter'[w].pc = "resolved" => waiter'[w].vehicle # None
    BY <1>9, <2>1, Answered DEF FinalizeCode, BoardsOK
  <2>3. codes' \in [Codes -> Record \cup {None}] /\ timers' \subseteq Timer
    BY <1>9, <2>1, Dropped DEF FinalizeCode
  <2>4. /\ codeResults' \in [Codes -> Devices \cup {None}]
        /\ usedCodes' \in [Codes -> CodesTime] /\ resultTimer' \in [Codes -> CodesTime]
    BY <1>9, <2>1 DEF FinalizeCode, MapsOK
  <2>5. board' \in [Boards -> Board]
        /\ \A o \in Boards : board'[o].pc \notin {"idle", "failed"} =>
              /\ board'[o].code \in Codes /\ board'[o].user \in Users
              /\ board'[o].device \in Devices
    BY <1>9, <2>1, BoardMoves DEF FinalizeCode, BoardsOK
  <2> QED BY <1>9, <2>2, <2>3, <2>4, <2>5 DEF FinalizeCode, MapsOK, BoardsOK
<1>10. ASSUME NEW b \in Boards, RedeemReturns(b) PROVE MapsOK' /\ BoardsOK'
  <2>1. board' \in [Boards -> Board]
    BY <1>10 DEF RedeemReturns, MapsOK, Board, NoBoard
  <2> QED BY <1>10, <2>1 DEF RedeemReturns, MapsOK, BoardsOK, NoBoard
<1>11. ASSUME NEW t \in timers, CodeTimer(t) PROVE MapsOK' /\ BoardsOK'
  <2>1. t.code \in Codes
    BY DEF MapsOK, Timer
  <2>2. codes' \in [Codes -> Record \cup {None}] /\ timers' \subseteq Timer
    BY <1>11, <2>1, Dropped DEF CodeTimer, MapsOK
  <2>3. waiter' \in [Waiters -> Waiter]
        /\ \A w \in Waiters : waiter'[w].pc = "resolved" => waiter'[w].vehicle # None
    BY <1>11, <2>1, Rejected DEF CodeTimer, BoardsOK
  <2> QED BY <1>11, <2>2, <2>3 DEF CodeTimer, MapsOK, BoardsOK
<1> QED
  BY <1>1, <1>2, <1>3, <1>4, <1>5, <1>6, <1>7, <1>8, <1>9, <1>10, <1>11 DEF CodesNext

\* A stuttering step keeps the types.
LEMMA CodesStutterTypes == CodesTypeOK /\ UNCHANGED codesVars => CodesTypeOK'
BY DEF CodesTypeOK, codesVars

\* Every Map and every call of the process keeps its type.
THEOREM CodesTypeCorrect == CodesSpec => []CodesTypeOK
<1>1. CodesTypeOK /\ [CodesNext]_codesVars => CodesTypeOK'
  <2>1. CodesTypeOK /\ CodesNext => CodesTypeOK'
    BY Split, CodesStepTypes DEF CodesTypeOK, MapsOK, BoardsOK
  <2> QED BY <2>1, CodesStutterTypes
<1> QED BY <1>1, CodesInitTypes, PTL DEF CodesSpec

------------------------------------------------------------------------------
(* Timers.                                                                 *)

\* Whoever deletes a record with its timer leaves the other records' timers.
LEMMA StepTimers ==
    ASSUME MapsOK, BoardsOK, LiveCodesHaveTimers, CodesNext PROVE LiveCodesHaveTimers'
<1>1. ASSUME UNCHANGED <<codes, timers>> PROVE LiveCodesHaveTimers'
  BY <1>1 DEF LiveCodesHaveTimers
\* The code whose record goes takes one of its own timers at most with it.
<1>2. ASSUME NEW c \in Codes, NEW due, Delete(c), ClearTimer(c, due)
      PROVE  LiveCodesHaveTimers'
  BY <1>2 DEF LiveCodesHaveTimers, Delete, ClearTimer, MapsOK
<1>3. ASSUME NEW c \in Codes, NEW u \in Users, Issue(u, c) PROVE LiveCodesHaveTimers'
  <2>1. codes'[c].expires = now + TTL /\ [code |-> c, due |-> now + TTL] \in timers'
    BY <1>3 DEF Issue, MapsOK
  <2>2. \A o \in Codes : o # c => codes'[o] = codes[o]
    BY <1>3 DEF Issue, MapsOK
  <2>3. timers \subseteq timers'
    BY <1>3 DEF Issue
  <2> QED BY <2>1, <2>2, <2>3 DEF LiveCodesHaveTimers
<1>4. ASSUME NEW c \in Codes, NEW w \in Waiters, Wait(w, c) PROVE LiveCodesHaveTimers'
  BY <1>1, <1>2, <1>4 DEF Wait, Ready, Unknown, TooLate, PendingWait
<1>5. ASSUME NEW c \in Codes, NEW b \in Boards, NEW d \in Devices, Redeem(b, c, d)
      PROVE  LiveCodesHaveTimers'
  BY <1>1, <1>2, <1>5 DEF Redeem
<1>6. ASSUME NEW b \in Boards, FinalizeCode(b) PROVE LiveCodesHaveTimers'
  BY <1>2, <1>6 DEF FinalizeCode, BoardsOK
<1>7. ASSUME NEW t \in timers, CodeTimer(t) PROVE LiveCodesHaveTimers'
  <2>1. t.code \in Codes /\ t = [code |-> t.code, due |-> t.due]
    BY DEF MapsOK, Timer
  <2>2. ClearTimer(t.code, t.due) /\ Delete(t.code)
    BY <1>7, <2>1 DEF CodeTimer, ClearTimer
  <2> QED BY <1>2, <2>1, <2>2
<1>8. ASSUME NEW c \in Codes, ResultTimer(c) PROVE LiveCodesHaveTimers'
  BY <1>1, <1>8 DEF ResultTimer
<1>9. CASE CodesTick
  BY <1>1, <1>9 DEF CodesTick
<1>10. ASSUME NEW w \in Waiters, WaitReturns(w) \/ WaitTimeout(w)
       PROVE  LiveCodesHaveTimers'
  BY <1>1, <1>10 DEF WaitReturns, WaitTimeout
<1>11. ASSUME NEW b \in Boards,
              Lookup(b) \/ Insert(b) \/ TxFails(b) \/ RedeemReturns(b)
       PROVE  LiveCodesHaveTimers'
  BY <1>1, <1>11 DEF Lookup, Insert, TxFails, RedeemReturns
<1> QED
  BY <1>3, <1>4, <1>5, <1>6, <1>7, <1>8, <1>9, <1>10, <1>11 DEF CodesNext

\* No code is left alive without the timer that ends it.
THEOREM EveryCodeEnds == CodesSpec => []LiveCodesHaveTimers
<1>1. CodesInit => LiveCodesHaveTimers
  BY DEF CodesInit, LiveCodesHaveTimers
<1>2. CodesTypeOK /\ LiveCodesHaveTimers /\ [CodesNext]_codesVars => LiveCodesHaveTimers'
  <2>1. LiveCodesHaveTimers /\ UNCHANGED codesVars => LiveCodesHaveTimers'
    BY DEF LiveCodesHaveTimers, codesVars
  <2> QED BY <2>1, Split, StepTimers
<1> QED BY <1>1, <1>2, CodesTypeCorrect, PTL DEF CodesSpec

------------------------------------------------------------------------------
(* A code is used once in ten minutes.                                     *)

\* Records only come from issue(), which looks at `used`.
LEMMA StepUsed ==
    ASSUME MapsOK, BoardsOK, UsedCodesAreDead, CodesNext PROVE UsedCodesAreDead'
<1>1. now' >= now /\ now \in Nat /\ now' \in Nat
  BY CodesSumsAreTimes, CodesTimesAssumption
     DEF CodesNext, MapsOK, CodesTick, Issue, Wait, Redeem, ResultTimer, WaitReturns,
         WaitTimeout,
         Lookup, Insert, TxFails, FinalizeCode, RedeemReturns, CodeTimer
\* Time and the end of records make no code both used and live.
<1>2. ASSUME usedCodes' = usedCodes, \A c \in Codes : codes'[c] \in {None, codes[c]}
      PROVE  UsedCodesAreDead'
  <2>1. \A c \in Codes : usedCodes[c] \in Nat
    BY CodesTimesAssumption DEF MapsOK, CodesTime
  <2> QED BY <1>1, <1>2, <2>1 DEF UsedCodesAreDead, Used
<1>3. ASSUME NEW c \in Codes, Delete(c)
      PROVE  \A o \in Codes : codes'[o] \in {None, codes[o]}
  BY <1>3 DEF Delete, MapsOK
<1>4. ASSUME NEW c \in Codes, NEW u \in Users, Issue(u, c) PROVE UsedCodesAreDead'
  BY <1>4 DEF Issue, FreeCode, UsedCodesAreDead, Used, MapsOK
<1>5. ASSUME NEW c \in Codes, NEW w \in Waiters, Wait(w, c) PROVE UsedCodesAreDead'
  BY <1>2, <1>3, <1>5 DEF Wait, Ready, Unknown, TooLate, PendingWait
<1>6. ASSUME NEW c \in Codes, NEW b \in Boards, NEW d \in Devices, Redeem(b, c, d)
      PROVE  UsedCodesAreDead'
  BY <1>2, <1>3, <1>6 DEF Redeem
<1>7. ASSUME NEW b \in Boards, FinalizeCode(b) PROVE UsedCodesAreDead'
  BY <1>7 DEF FinalizeCode, BoardsOK, Delete, UsedCodesAreDead, Used, MapsOK
<1>8. ASSUME NEW t \in timers, CodeTimer(t) PROVE UsedCodesAreDead'
  <2>1. t.code \in Codes
    BY DEF MapsOK, Timer
  <2> QED BY <1>2, <1>3, <1>8, <2>1 DEF CodeTimer
<1>9. CASE CodesTick
  BY <1>2, <1>9 DEF CodesTick
<1>10. ASSUME NEW c \in Codes, ResultTimer(c) PROVE UsedCodesAreDead'
  BY <1>2, <1>10 DEF ResultTimer
<1>11. ASSUME NEW w \in Waiters, WaitReturns(w) \/ WaitTimeout(w)
       PROVE  UsedCodesAreDead'
  BY <1>2, <1>11 DEF WaitReturns, WaitTimeout
<1>12. ASSUME NEW b \in Boards,
              Lookup(b) \/ Insert(b) \/ TxFails(b) \/ RedeemReturns(b)
       PROVE  UsedCodesAreDead'
  BY <1>2, <1>12 DEF Lookup, Insert, TxFails, RedeemReturns
<1> QED
  BY <1>4, <1>5, <1>6, <1>7, <1>8, <1>9, <1>10, <1>11, <1>12 DEF CodesNext

\* Whatever redeem()s overlap, a redeemed code stays dead for UsedTTL.
THEOREM UsedStaysDead == CodesSpec => []UsedCodesAreDead
<1>1. CodesInit => UsedCodesAreDead
  BY DEF CodesInit, UsedCodesAreDead
<1>2. CodesTypeOK /\ UsedCodesAreDead /\ [CodesNext]_codesVars => UsedCodesAreDead'
  <2>1. UsedCodesAreDead /\ UNCHANGED codesVars => UsedCodesAreDead'
    BY DEF UsedCodesAreDead, Used, codesVars
  <2> QED BY <2>1, Split, StepUsed
<1> QED BY <1>1, <1>2, CodesTypeCorrect, PTL DEF CodesSpec

------------------------------------------------------------------------------
(* Owners.                                                                 *)

KeepsOwners == \A d \in Devices : vehicles[d] # None => vehicles'[d] = vehicles[d]

\* Only the insert writes a vehicle, and only where the device has none.
LEMMA StepOwners == ASSUME MapsOK, BoardsOK, CodesNext PROVE KeepsOwners
<1>1. CASE vehicles' = vehicles
  BY <1>1 DEF KeepsOwners
<1>2. ASSUME NEW b \in Boards, Insert(b) PROVE KeepsOwners
  BY <1>2 DEF Insert, KeepsOwners, MapsOK, BoardsOK
<1> QED
  BY <1>1, <1>2
     DEF CodesNext, CodesTick, Issue, Wait, Redeem, ResultTimer, WaitReturns, WaitTimeout,
         Lookup, TxFails, FinalizeCode, RedeemReturns, CodeTimer

\* No overlap of redeem()s takes a device away from its owner.
THEOREM OwnersStay == CodesSpec => DeviceKeepsOwner
<1>1. CodesTypeOK /\ [CodesNext]_codesVars => [KeepsOwners]_codesVars
  BY Split, StepOwners
<1>2. CodesSpec => [][KeepsOwners]_codesVars
  BY <1>1, CodesTypeCorrect, PTL DEF CodesSpec
<1> QED BY <1>2 DEF DeviceKeepsOwner, KeepsOwners

\* A call that got past the transaction found or wrote its user's vehicle.
LEMMA StepRedeemed ==
    ASSUME MapsOK, BoardsOK, RedeemedForIssuer, CodesNext PROVE RedeemedForIssuer'
<1>1. KeepsOwners
  BY StepOwners
\* A call that does not reach its last two places now keeps what it had.
<1>2. ASSUME NEW b \in Boards, board'[b] = board[b] \/ board'[b].pc \notin {"finalize", "redeemed"}
      PROVE  board'[b].pc \in {"finalize", "redeemed"} =>
                 vehicles'[board'[b].device] = board'[b].user
  <2>1. board[b].pc \in {"finalize", "redeemed"} =>
            board[b].device \in Devices /\ board[b].user \in Users
    BY DEF BoardsOK
  <2> QED BY <1>1, <1>2, <2>1, CodesNoneAssumption DEF RedeemedForIssuer, KeepsOwners
<1>3. ASSUME board' = board PROVE RedeemedForIssuer'
  BY <1>2, <1>3 DEF RedeemedForIssuer
<1>4. ASSUME NEW b \in Boards, Lookup(b) PROVE RedeemedForIssuer'
  <2>1. board[b].pc = "lookup" /\ vehicles' = vehicles
    BY <1>4 DEF Lookup
  <2>2. CASE vehicles[board[b].device] = board[b].user
    <3>1. BoardAt(b, "insert") \/ BoardAt(b, "finalize")
      BY <1>4, <2>2 DEF Lookup
    <3> QED BY <1>2, <2>1, <2>2, <3>1, BoardMoves DEF RedeemedForIssuer
  <2>3. CASE vehicles[board[b].device] # board[b].user
    <3>1. BoardAt(b, "insert") \/ BoardAt(b, "failed")
      BY <1>4, <2>3 DEF Lookup
    <3> QED BY <1>2, <2>1, <3>1, BoardMoves DEF RedeemedForIssuer
  <2> QED BY <2>2, <2>3
<1>5. ASSUME NEW b \in Boards, Insert(b) PROVE RedeemedForIssuer'
  <2>1. board[b].pc = "insert" /\ board[b].device \in Devices /\ board[b].user \in Users
    BY <1>5 DEF Insert, BoardsOK
  <2>2. CASE vehicles[board[b].device] = None
    <3>1. vehicles'[board[b].device] = board[b].user /\ BoardAt(b, "finalize")
      BY <1>5, <2>1, <2>2 DEF Insert, MapsOK
    <3> QED BY <1>2, <3>1, BoardMoves DEF RedeemedForIssuer
  <2>3. CASE vehicles[board[b].device] # None
    <3>1. BoardAt(b, "failed")
      BY <1>5, <2>3 DEF Insert
    <3> QED BY <1>2, <3>1, BoardMoves DEF RedeemedForIssuer
  <2> QED BY <2>2, <2>3
<1>6. ASSUME NEW b \in Boards, TxFails(b) PROVE RedeemedForIssuer'
  BY <1>2, <1>6, BoardMoves DEF TxFails, RedeemedForIssuer
<1>7. ASSUME NEW b \in Boards, FinalizeCode(b) PROVE RedeemedForIssuer'
  <2>1. BoardAt(b, "redeemed") /\ board[b].pc = "finalize" /\ vehicles' = vehicles
    BY <1>7 DEF FinalizeCode
  <2> QED BY <1>2, <2>1, BoardMoves DEF RedeemedForIssuer
<1>8. ASSUME NEW c \in Codes, NEW b \in Boards, NEW d \in Devices, Redeem(b, c, d)
      PROVE  RedeemedForIssuer'
  <2>1. board'[b].pc \in {"failed", "lookup"}
        /\ \A o \in Boards : o # b => board'[o] = board[o]
    BY <1>8, BoardMoves DEF Redeem, MapsOK
  <2> QED BY <1>2, <2>1 DEF RedeemedForIssuer
<1>9. ASSUME NEW b \in Boards, RedeemReturns(b) PROVE RedeemedForIssuer'
  <2>1. board'[b].pc = "idle" /\ \A o \in Boards : o # b => board'[o] = board[o]
    BY <1>9 DEF RedeemReturns, NoBoard, MapsOK
  <2> QED BY <1>2, <2>1 DEF RedeemedForIssuer
<1> QED
  BY <1>3, <1>4, <1>5, <1>6, <1>7, <1>8, <1>9
     DEF CodesNext, CodesTick, Issue, Wait, ResultTimer, WaitReturns, WaitTimeout, CodeTimer

\* What redeem() returns is the vehicle of the user who was given the code.
THEOREM RedeemsForTheIssuer == CodesSpec => []RedeemedForIssuer
<1>1. CodesInit => RedeemedForIssuer
  BY DEF CodesInit, RedeemedForIssuer, NoBoard
<1>2. CodesTypeOK /\ RedeemedForIssuer /\ [CodesNext]_codesVars => RedeemedForIssuer'
  <2>1. RedeemedForIssuer /\ UNCHANGED codesVars => RedeemedForIssuer'
    BY DEF RedeemedForIssuer, codesVars
  <2> QED BY <2>1, Split, StepRedeemed
<1> QED BY <1>1, <1>2, CodesTypeCorrect, PTL DEF CodesSpec
==============================================================================
