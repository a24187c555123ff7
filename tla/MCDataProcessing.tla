-------------------------- MODULE MCDataProcessing --------------------------
(***************************************************************************)
(* One instruction from every combination of two boundary operands, modes  *)
(* and flags.                                                              *)
(***************************************************************************)
EXTENDS DataProcessing

CONSTANT MaxSteps   \* bound on the instructions of a behaviour

VARIABLE steps

\* Around zero, the sign change and the wrap around.
Boundary == {0, 1, 2, N - 1, N, N + 1, WordMod - 2, WordMod - 1}

\* Modes with and without SPSR, each flag set and clear.
Statuses == {m + fl : m \in {USR, SVC, FIQ}, fl \in {0, N + Z, C, V, N + C}}

\* SVC was entered from SYS, FIQ from USR.
MCGarbageFiles ==
    {[s \in Slot |-> CASE s = 32 -> SYS + C [] s > 32 -> USR + C [] OTHER -> s]}

MCInit ==
    /\ steps = 0
    /\ \E a \in Boundary, b \in Boundary, c \in Statuses, f \in GarbageFiles :
         r = [f EXCEPT ![0] = a, ![1] = b, ![CPSR] = c]

Shifted(type, R, amount) == [I |-> 0, rm |-> 1, type |-> type, R |-> R, amount |-> amount]

Operands ==
    {Register(1), [I |-> 1, value |-> 255, rotate |-> 4], Shifted("LSL", 0, 3),
     Shifted("LSR", 1, 0), Shifted("ASR", 0, 1), Shifted("ROR", 0, 0)}

\* Every opcode on general registers, comparisons without S (MRS, MSR), and an
\* exception return.
MCInstructions ==
    {[cond |-> c, opcode |-> op, S |-> S, rd |-> rd, rn |-> 0, operand |-> o] :
        c \in {"AL"}, op \in Opcodes, S \in {0, 1}, rd \in {2, 13}, o \in {Register(1)}}
    \cup {[cond |-> c, opcode |-> op, S |-> 1, rd |-> PC, rn |-> LR, operand |-> o] :
        c \in Conditions, op \in {"SUB", "TEQ"}, o \in {Register(1)}}
    \cup {[cond |-> "GT", opcode |-> "MOV", S |-> 1, rd |-> 2, rn |-> 0, operand |-> o] :
        o \in Operands}

MCNext == steps < MaxSteps /\ steps' = steps + 1 /\ StepDataProcessing

MCSpec == MCInit /\ [][MCNext]_<<r, steps>>
============================================================================
