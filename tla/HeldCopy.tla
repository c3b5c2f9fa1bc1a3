------------------------------- MODULE HeldCopy -------------------------------
(***************************************************************************)
(* What an enrolled player promises about the signed program it holds, in  *)
(* terms an operator would use: the copy on its disk was signed by a       *)
(* coordinator the player paired with, for this player; and a coordinator  *)
(* that is told "verified" is told of a copy this player really held.      *)
(* FallbackEnrollment is shown to implement it.                            *)
(***************************************************************************)
EXTENDS FiniteSets

CONSTANTS
    NoCopy,
    NothingTold,
    Genuine(_, _)     \* Genuine(copy, key): key signed copy for this player

VARIABLES
    given,            \* the coordinator keys pairings have delivered
    held,             \* the copy on disk
    everHeld,         \* the copies that have been on disk
    told              \* the verdict a coordinator was told last

vars == <<given, held, everHeld, told>>

Init ==
    /\ given = {}
    /\ held = NoCopy
    /\ everHeld = {}
    /\ told = NothingTold

(* A pairing delivers the coordinator's key. *)
Pin ==
    /\ \E key \in given' : given' = given \union {key}
    /\ UNCHANGED <<held, everHeld, told>>

(* A whole new copy replaces the old one. *)
Install ==
    /\ held' # NoCopy
    /\ \E key \in given : Genuine(held', key)
    /\ everHeld' = everHeld \union {held'}
    /\ UNCHANGED <<given, told>>

(* A coordinator hears a verdict. *)
Tell ==
    /\ told'.verdict = "verified" => told'.copy \in everHeld
    /\ UNCHANGED <<given, held, everHeld>>

Next == Pin \/ Install \/ Tell

Spec == Init /\ [][Next]_vars
=============================================================================
