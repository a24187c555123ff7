---------------------------- MODULE MCArmMachine ----------------------------
(***************************************************************************)
(* Short programs of instructions of every class, on a memory of eight     *)
(* words.  The stack pointer starts inside it, unaligned, on its last word,*)
(* outside, and where an offset wraps around into it.                      *)
(***************************************************************************)
EXTENDS ArmMachine, TLC

CONSTANT MaxSteps   \* bound on the instructions of a behaviour

VARIABLE steps

MCRegisterFile == {[s \in Slot |-> CASE s = 32 -> SYS + C [] s > 32 -> USR + C [] OTHER -> 300 + s]}

\* The stack pointer and the pc.
Starts == {<<12, 8>>, <<18, 8>>, <<MemSize - 4, 8>>, <<WordMod - 4, 8>>,
           <<WordMod - 140, 8>>, <<12, MemSize>>}

MCInit ==
    /\ steps = 0 /\ is_big_endian \in {0, 1}
    /\ mem = [a \in 0 .. MemSize - 1 |-> (7 * a + 3) % ByteMod]
    /\ \E f \in GarbageFiles, mode \in {USR, SVC, FIQ}, start \in Starts :
         r = write_register([f EXCEPT ![CPSR] = mode + Z + C, ![PC] = start[2]], SP, start[1])

Shifted == [kind |-> "shifted", I |-> 0, rm |-> 13, type |-> "LSR", R |-> 0, amount |-> 2]

DataInstruction(cond, opcode, rd) ==
    [Instruction(opcode, 1, rd, 0, Register(LR)) EXCEPT !.cond = cond] @@ [class |-> "data"]

Branch(cond, L, offset) == [class |-> "branch", cond |-> cond, L |-> L, offset |-> offset]

MCInstructions ==
    {DataInstruction("EQ", "ADC", 4), DataInstruction("AL", "MOV", PC), DataInstruction("AL", "CMP", PC)}
    \cup {Single(L, size, P, W, 1, IF size = "word" THEN PC ELSE SP, SP, Immediate(4)) :
            L \in {0, 1}, size \in {"word", "byte"}, P \in {0, 1}, W \in {0, 1}}
    \cup {Single(L, "half", 1, 0, 0, 4, SP, [kind |-> "register", rm |-> 15]) : L \in {0, 1}}
    \cup {Single(1, "word", 0, 0, 1, 4, SP, Shifted), Single(1, "word", 1, 0, 1, 4, SP, Immediate(144))}
    \cup {Block(L, U, P, 1, SP, {4, 14}) : L \in {0, 1}, U \in {0, 1}, P \in {0, 1}}
    \cup {Block(L, 1, 0, 1, SP, {13, 15}) : L \in {0, 1}}
    \cup {Branch("AL", 1, 0), Branch("AL", 0, pow2[OffsetBits] - 2), Branch("NE", 0, 0)}
    \cup {[class |-> k, cond |-> "AL"] : k \in {"swi", "coprocessor"}}

MCLists == {{4}, {4, 5}, {0, 7, 14}}
MCOffsets == {0, 1, pow2[OffsetBits - 1] - 1, pow2[OffsetBits - 1], pow2[OffsetBits] - 2}

MCNext == steps < MaxSteps /\ steps' = steps + 1 /\ StepMachine

MCSpec == MCInit /\ [][MCNext]_<<machine, steps>>
=============================================================================
