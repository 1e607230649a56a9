--------------------------- MODULE PairingService ---------------------------
(***************************************************************************)
(* What the two halves of PairingService share: the users they pair with   *)
(* cards and with codes, and the clock their deadlines are set by.  The    *)
(* Maps used and results are shared too, but no key of them is both a four *)
(* digit code and a card, so each half has its own part of them.           *)
(***************************************************************************)
EXTENDS Integers, FiniteSets

CONSTANTS
    Users,
    MaxTime,      \* bounds the clock
    None          \* nobody and nothing: no user, record, card or vehicle

VARIABLE
    now           \* Date.now()
=============================================================================
