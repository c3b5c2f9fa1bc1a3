--------------------------- MODULE CallbackHandoff ---------------------------
(***************************************************************************)
(* The bounded queue between FPP's callback thread and the resident worker *)
(* (native/include/showmesh/callback_handoff.h).  Both operations run      *)
(* under one mutex, so each is one atomic action.  The ring buffer's head  *)
(* and size are the sequence slots.                                        *)
(*                                                                         *)
(* An observation is a record with a field n: its place in the order in    *)
(* which FPP made the callbacks.  The code has no such field; n is a       *)
(* history tag that lets the properties say which callbacks are missing.   *)
(***************************************************************************)
EXTENDS Naturals, Sequences

CONSTANT Capacity      \* slots of the ring, 16 in the runtime

ASSUME CapacityAssumption == Capacity \in Nat \ {0}

VARIABLES
    slots,             \* pending observations, oldest first
    coalesced,         \* observations dropped since the last take
    offered            \* observations offered in this process

handoffVars == <<slots, coalesced, offered>>

HandoffInit ==
    /\ slots = <<>>
    /\ coalesced = 0
    /\ offered = 0

Full == Len(slots) = Capacity

(* offer(): when the ring is full the oldest pending observation goes. *)
Offer(e) ==
    /\ slots' = Append(IF Full THEN Tail(slots) ELSE slots, e)
    /\ coalesced' = IF Full THEN coalesced + 1 ELSE coalesced
    /\ offered' = offered + 1

(* take(): the caller reads Head(slots) and coalesced; the count starts over. *)
Take ==
    /\ slots # <<>>
    /\ slots' = Tail(slots)
    /\ coalesced' = 0
    /\ UNCHANGED offered

(* A new process constructs a new queue; an old one is destroyed with its contents. *)
HandoffReset ==
    /\ slots' = <<>>
    /\ coalesced' = 0
    /\ offered' = 0
=============================================================================
