---------------------------- MODULE MCMacroHelper ----------------------------
(* Small instances of MacroHelper for TLC. *)
EXTENDS MacroHelper, TLC

(* No process is special. *)
Symmetry == Permutations(Slots)

MCBudget == [attempts |-> 3, faults |-> 2, kills |-> 1, ticks |-> 1, edits |-> 1]

MCOverlapBudget == [attempts |-> 3, faults |-> 2, kills |-> 0, ticks |-> 0, edits |-> 0]
=============================================================================
