---------------------------- MODULE MCRegisters ----------------------------
(***************************************************************************)
(* The register file with each slot of the new array marked by its own     *)
(* number, so that a read or write of a wrong slot shows.                  *)
(***************************************************************************)
EXTENDS Trace

MCGarbageFiles == {[s \in Slot |-> IF s = CPSR THEN SVC ELSE 100 + s]}

MCRegValues == {50}

\* Every mode, and a mode number that the architecture does not define.
MCCpsrValues == {USR, FIQ, IRQ, SVC, ABT, UND, SYS, 0}
============================================================================
