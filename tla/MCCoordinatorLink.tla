-------------------------- MODULE MCCoordinatorLink --------------------------
(* Small instances of CoordinatorLink for TLC. *)
EXTENDS CoordinatorLink

MCBudget == [events |-> 2, requests |-> 1, failures |-> 2, changes |-> 1, ends |-> 1]
=============================================================================
