----------------------------- MODULE MCArmCore -----------------------------
(***************************************************************************)
(* The processor for a bounded number of steps from reset.                 *)
(***************************************************************************)
EXTENDS GdbRegisters

CONSTANT MaxSteps   \* bound on the steps of a behaviour

VARIABLE steps

\* As for the register file: every slot is marked.
MCGarbageFiles == {[s \in Slot |-> 3000 + s]}

\* An address in memory, one that is not a multiple of four, and one past the end.
MCRegValues == {4, 10, MemSize}

\* User, SVC and FIQ with every interrupt enabled, the last one with a flag set,
\* and IRQ with both masked.
MCCpsrValues == {USR, SVC, FIQ, FIQ + WordMod \div 2, IRQ + 192}

\* What g answers in user mode and in FIQ mode, every register with its own value.
MCPackets ==
    {[n \in 0 .. CPSR |-> CASE n = PC -> 8 [] n = CPSR -> c [] OTHER -> 900 + n] : c \in {USR, FIQ}}

MCInit == arm_create /\ steps = 0

MCNext == steps < MaxSteps /\ steps' = steps + 1 /\ CoreNext

MCSpec == MCInit /\ [][MCNext]_<<r, steps>>
============================================================================
