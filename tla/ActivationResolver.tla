-------------------------- MODULE ActivationResolver --------------------------
(***************************************************************************)
(* What the installed fallback program says to do for a playlist entry     *)
(* (native/adapters/shared/fallback_activation_resolver.h), and whether    *)
(* the program may be used at all (usableProgramProblem() in               *)
(* fallback_executor.h).                                                   *)
(*                                                                         *)
(* A program is a record of what those functions tell apart: whether its   *)
(* signature verifies, when it expires, whether it carries this player's   *)
(* key, the four known rules and a generation, and its entries.  An entry  *)
(* names target nodes; some of them have something to activate, some an    *)
(* address, some a catalog revision.  The coordinator's key and the        *)
(* player's own are taken as present.                                      *)
(***************************************************************************)
EXTENDS Naturals, Sequences, FiniteSets

CONSTANTS
    Nodes,
    Keys,              \* entry keys
    NoKey,             \* the key asked for when only the program matters
    Programs,          \* the programs the coordinator may publish
    NoProgram          \* no file at installPath, or one that cannot be read

EntryType ==
    [key : Keys, complete : BOOLEAN, targets : SUBSET Nodes, live : SUBSET Nodes,
     addressed : SUBSET Nodes, catalogued : SUBSET Nodes]

ProgramType ==
    [verifies : BOOLEAN, expires : Nat, enrolls : BOOLEAN, rulesKnown : BOOLEAN,
     generation : BOOLEAN, entries : Seq(EntryType)]

ASSUME ProgramAssumption ==
    /\ IsFiniteSet(Nodes)
    /\ NoKey \notin Keys
    /\ Programs \subseteq ProgramType
    /\ NoProgram \notin Programs

Claims(program, key) == {i \in DOMAIN program.entries : program.entries[i].key = key}

EntryFor(program, key) == program.entries[CHOOSE i \in Claims(program, key) : TRUE]

(* A match has at least one target that carries something to activate.     *)
Activatable(entry) == entry.targets \cap entry.live # {}

(* ActivationResolveKind, by this player's outcome words; "none" is kMatch. *)
Refusals ==
    {"no-program", "program-not-verified", "program-expired", "unknown-entry",
     "ambiguous-entry", "no-target"}

RefusalOfEntry(program, key) ==
    IF Claims(program, key) = {} THEN "unknown-entry"
    ELSE IF Cardinality(Claims(program, key)) > 1 THEN "ambiguous-entry"
    ELSE IF ~EntryFor(program, key).complete THEN "program-not-verified"
    ELSE IF ~Activatable(EntryFor(program, key)) THEN "no-target"
    ELSE "none"

(* ResolveActivationFromDocument(): verified again, then the expiry, then the entry. *)
RefusalOfDocument(program, key, now) ==
    IF ~program.verifies THEN "program-not-verified"
    ELSE IF program.expires <= now THEN "program-expired"
    ELSE RefusalOfEntry(program, key)

(* ResolveInstalledActivation() *)
Refusal(program, key, now) ==
    IF program = NoProgram THEN "no-program" ELSE RefusalOfDocument(program, key, now)

(* usableProgramProblem() resolves no entry at all and keeps what is wrong *)
(* with the program; then it looks for the player's key and the rules.     *)
UnusableBecause(program, now) ==
    LET refusal == Refusal(program, NoKey, now)
    IN IF refusal \in {"no-program", "program-not-verified", "program-expired"} THEN refusal
       ELSE IF ~program.enrolls THEN "player-key-not-in-program"
       ELSE IF ~program.rulesKnown THEN "program-rules-unknown"
       ELSE "none"

(* The targets that BuildActivationRequest() and deliverMatch() can ask.   *)
Askable(program, entry) ==
    IF program.generation THEN entry.targets \cap entry.addressed \cap entry.catalogued ELSE {}

TargetProblems == {"no-address", "incomplete-program"}

(* Why this player does not ask a target; signing one is taken to succeed. *)
TargetProblem(entry, node) ==
    IF node \notin entry.addressed THEN "no-address" ELSE "incomplete-program"

(* The words this player has for what it decides itself, each with a text  *)
(* that an operator reads.                                                 *)
PlayerWords ==
    Refusals \union TargetProblems \union
        {"player-key-not-in-program", "program-rules-unknown", "entry-not-identified", "resting"}
=============================================================================
