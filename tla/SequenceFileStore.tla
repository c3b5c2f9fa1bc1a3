-------------------------- MODULE SequenceFileStore --------------------------
(***************************************************************************)
(* The two files behind the per-instance event sequence                    *)
(* (native/src/sequence_store.cpp over native/src/atomic_write.cpp).       *)
(*                                                                         *)
(* A file is Absent, Invalid (it exists but its checksum line does not     *)
(* match) or the number it records.  store() is two file system steps that *)
(* a crash can separate: the rename of the primary over the backup, then   *)
(* the write of a temporary file and its rename over the primary.  The     *)
(* temporary file is never read back, so it is not part of the state.      *)
(***************************************************************************)
EXTENDS Naturals

CONSTANTS Absent, Invalid

ASSUME FileAssumption ==
    /\ Absent \notin Nat
    /\ Invalid \notin Nat
    /\ Absent # Invalid

VARIABLES primary, backup

fileVars == <<primary, backup>>

File == Nat \union {Absent, Invalid}

FilesInit ==
    /\ primary = Absent
    /\ backup = Absent

Valid(file) == file \in Nat

(* A file that does not validate contributes nothing to a load. *)
Height(file) == IF Valid(file) THEN file ELSE 0

(* Plausible bug: the backup is never consulted. *)
LoadPrimaryOnly == Height(primary)

(* loadDetailed().value: the higher of the two valid records, else 0. *)
Load == IF Height(backup) > Height(primary) THEN Height(backup) ELSE Height(primary)

(* The rotation of a valid primary; an invalid or missing one stays put. *)
Rotate ==
    /\ backup' = IF Valid(primary) THEN primary ELSE backup
    /\ primary' = IF Valid(primary) THEN Absent ELSE primary

(* A rename that fails is ignored: the write then replaces the primary. *)
RotationFails ==
    /\ Valid(primary)
    /\ UNCHANGED fileVars

(* writeFileAtomically(): the rename makes the whole record visible at once. *)
WritePrimary(value) ==
    /\ primary' = value
    /\ UNCHANGED backup

(* What a bit flip, a truncation or a hand edit does to one of the files. *)
CorruptPrimary ==
    /\ primary # Invalid
    /\ primary # Absent
    /\ primary' = Invalid
    /\ UNCHANGED backup

CorruptBackup ==
    /\ backup # Invalid
    /\ backup # Absent
    /\ backup' = Invalid
    /\ UNCHANGED primary
=============================================================================
