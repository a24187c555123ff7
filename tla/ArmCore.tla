------------------------------ MODULE ArmCore ------------------------------
(***************************************************************************)
(* The processor state and what moves it: creation and reset, the fetch    *)
(* that advances the program counter (arm_core.c), entry into an exception *)
(* (arm_exception.c) and the step that does one or the other               *)
(* (arm_instruction.c).  Registers are those of module Registers.  Memory  *)
(* is represented by its size, which decides whether a fetch succeeds.     *)
(* What an instruction computes is left open: Effect lists the ways in     *)
(* which the handlers of arm_instruction.c may write registers.            *)
(***************************************************************************)
EXTENDS Registers

CONSTANTS
    MemSize,        \* bytes of memory
    Requests        \* exceptions that send_irq asks for

RESET == 1
UNDEFINED_INSTRUCTION == 2
SOFTWARE_INTERRUPT == 3
PREFETCH_ABORT == 4
DATA_ABORT == 5
IMPRECISE_ABORT == 6
INTERRUPT == 7
FAST_INTERRUPT == 8
Exceptions == 1 .. 8

ASSUME CoreAssumption ==
    /\ WordMod % 16 = 0
    /\ MemSize \in Word
    /\ Requests \subseteq Exceptions

\* Unsigned arithmetic on words wraps around.
Wrap(x) == x % WordMod

\* The bit of x whose weight is w.
Bit(x, w) == (x \div w) % 2

\* value & 0xFFFFFFFD: clears bit 1.
ClearBit1(x) == x - 2 * Bit(x, 2)

\* A read of the pc returns four more than what is stored (reg 15).
arm_read_register(f, reg) ==
    IF reg = PC THEN ClearBit1(Wrap(read_register(f, PC) + 4)) ELSE read_register(f, reg)

\* The address arm_fetch reads.
fetch_address(f) == Wrap(arm_read_register(f, PC) - 4)

\* Mutant: the fetch leaves the pc on the instruction it has read.
arm_fetch_stays(f) == write_register(f, PC, fetch_address(f))

\* The pc moves on even when the read of memory fails.
arm_fetch(f) == write_register(f, PC, Wrap(fetch_address(f) + 4))

\* memory_read_word on that address: success or DATA_ABORT.
fetch_ok(f) == fetch_address(f) < MemSize

\* Mutant: interrupts leave the I bit as they find it.
exception_cpsr_unmasked(c, e) ==
    CASE e = UNDEFINED_INSTRUCTION -> 256 * Bit(c, 256) + 64 * Bit(c, 64) + 155
      [] e = SOFTWARE_INTERRUPT -> 256 * Bit(c, 256) + 64 * Bit(c, 64) + 147
      [] e \in {PREFETCH_ABORT, DATA_ABORT} -> 64 * Bit(c, 64) + 407
      [] e = INTERRUPT -> 64 * Bit(c, 64) + 128 * Bit(c, 128) + 274
      [] e = FAST_INTERRUPT -> 465
      [] OTHER -> c

\* The CPSR arm_exception computes from c.  The constants are 0x9b, 0x93,
\* 0x197, 0x192 and 0x1d1; the bits kept (8 and 6) are clear in them.
exception_cpsr(c, e) ==
    CASE e = UNDEFINED_INSTRUCTION -> 256 * Bit(c, 256) + 64 * Bit(c, 64) + 155
      [] e = SOFTWARE_INTERRUPT -> 256 * Bit(c, 256) + 64 * Bit(c, 64) + 147
      [] e \in {PREFETCH_ABORT, DATA_ABORT} -> 64 * Bit(c, 64) + 407
      [] e = INTERRUPT -> 64 * Bit(c, 64) + 402
      [] e = FAST_INTERRUPT -> 465
      [] OTHER -> c

\* The constant added to the pc to make the link register.
link_distance(e) == IF e \in {DATA_ABORT, INTERRUPT, FAST_INTERRUPT} THEN 8 ELSE 4

reset_state(f) == write_register(write_cpsr(f, 211), SP, 2048)

\* Entry into e.  SPSR and LR are written while the CPSR still holds the
\* interrupted mode.
exception_entry(f, e) ==
    LET f1 == write_spsr(f, read_cpsr(f))
        f2 == write_register(f1, LR, Wrap(arm_read_register(f1, PC) + link_distance(e)))
    IN  write_cpsr(f2, exception_cpsr(read_cpsr(f), e))

\* Mutant: the vector of an exception computed without the -1.
arm_exception_next_vector(f, e) ==
    write_usr_register(IF e = RESET THEN reset_state(f) ELSE exception_entry(f, e), PC, e * 4)

\* The exception number selects a word of the vector at address 0.
arm_exception(f, e) ==
    write_usr_register(IF e = RESET THEN reset_state(f) ELSE exception_entry(f, e),
                       PC, (e - 1) * 4)

----------------------------------------------------------------------------

arm_create == \E f \in GarbageFiles : r = arm_exception(f, RESET)

\* c and d differ in the four flags at most, the four high bits of a word.
SameControl(c, d) == c % (WordMod \div 16) = d % (WordMod \div 16)

\* Slots of the array overwritten as the function w says.
write_some(f, w) == [s \in Slot |-> IF s \in DOMAIN w THEN w[s] ELSE f[s]]

Assignments(slots) == UNION {[T -> RegValues] : T \in SUBSET slots}

CurrentSlots(f) == {register_slot(f, reg) : reg \in RegNames}

\* The ways in which an instruction may leave the registers f it starts with.
\* Registers of the current mode and of the user bank may be written (results,
\* loads, write back, branches; nothing when the condition is false or for a SWI,
\* whose result is dropped), and the flags with them; an S instruction whose Rd
\* is the pc restores the CPSR that the current mode saved, and writes the pc
\* unless it is a comparison.
Effect(f) ==
    {write_cpsr(write_some(f, w), c) :
        w \in Assignments(CurrentSlots(f) \cup RegNames),
        c \in {c \in CpsrValues \cup {read_cpsr(f)} : SameControl(c, read_cpsr(f))}}
      \cup IF current_mode_has_spsr(f)
           THEN {write_cpsr(write_some(f, w), read_spsr(f)) : w \in Assignments({PC})}
           ELSE {}

\* arm_step when the instruction executes.
StepExecute == fetch_ok(r) /\ r' \in Effect(arm_fetch(r))

\* arm_step when the fetch fails or the instruction is a coprocessor access:
\* the only two results of arm_execute_instruction that are not dropped.
StepFault ==
    \/ ~ fetch_ok(r) /\ r' = arm_exception(arm_fetch(r), DATA_ABORT)
    \/ fetch_ok(r) /\ r' = arm_exception(arm_fetch(r), UNDEFINED_INSTRUCTION)

\* An exception asked for by send_irq, between two steps.
Interrupt == \E e \in Requests : r' = arm_exception(r, e)

\* gdb's P packet, and its G packet: the registers of the mode that is current
\* when it arrives, then the CPSR.
DebuggerWrite ==
    \/ \E reg \in RegNames, v \in RegValues : r' = write_register(r, reg, v)
    \/ \E w \in [CurrentSlots(r) -> RegValues], c \in CpsrValues :
         r' = write_cpsr(write_some(r, w), c)

CoreNext == StepExecute \/ StepFault \/ Interrupt \/ DebuggerWrite

CoreSpec == arm_create /\ [][CoreNext]_r

----------------------------------------------------------------------------

\* The comments of arm_core.c on the pc: whatever the registers hold, the
\* instruction that arm_fetch has just read sees its own address plus 8 in the
\* pc, and the next fetch, if nothing writes the pc, reads the next word.
PcReadsAhead ==
    /\ arm_read_register(arm_fetch(r), PC) = Wrap(fetch_address(r) + 8)
    /\ fetch_address(arm_fetch(r)) = Wrap(fetch_address(r) + 4)

\* An exception taken in any reachable state makes the next fetch read the
\* word of the vector that belongs to it, and none of the other seven.
VectorFetched == \A e \in Exceptions : fetch_address(arm_exception(r, e)) = 4 * (e - 1)

\* The mode an exception enters.
EnteredMode(e) ==
    CASE e \in {RESET, SOFTWARE_INTERRUPT} -> SVC
      [] e = UNDEFINED_INSTRUCTION -> UND
      [] e \in {PREFETCH_ABORT, DATA_ABORT} -> ABT
      [] e = INTERRUPT -> IRQ
      [] e = FAST_INTERRUPT -> FIQ

\* Every exception that arm_exception knows enters its mode in ARM state (bit 5
\* clear) with interrupts masked (bit 7), and none unmasks fast interrupts
\* (bit 6) that were masked before; a handler is not entered interruptible.
EntryMasked ==
    \A e \in Exceptions \ {IMPRECISE_ABORT} :
        LET c == read_cpsr(arm_exception(r, e))
        IN  /\ c % 32 = EnteredMode(e)
            /\ Bit(c, 32) = 0 /\ Bit(c, 128) = 1
            /\ Bit(c, 64) >= Bit(read_cpsr(r), 64)

\* What an exception may overwrite of the program it interrupts: the CPSR, the
\* pc, the link register and the SPSR of the interrupted mode (the stack
\* pointer of SVC for a reset); every other register of every mode is kept.
EntryKeepsContext ==
    \A e \in Exceptions, s \in Slot :
        arm_exception(r, e)[s] # r[s] =>
            \/ s \in {PC, CPSR}
            \/ e = RESET /\ s = SlotOf(<<SVC, SP>>)
            \/ e # RESET /\ s = SlotOf(<<Banked!Owner(LR), LR>>)
            \/ e # RESET /\ Banked!Mode \in ExceptionModes /\ s = SpsrSlotOf(Banked!Mode)

\* The SPSR slots of registers.h hold, as their name says, the saved status: the
\* handler of an exception finds the CPSR of the program it interrupted in the
\* SPSR of its own mode, from which arm_data_processing restores the CPSR.
EntrySavesStatus ==
    \A e \in Exceptions \ {RESET, IMPRECISE_ABORT} :
        read_spsr(arm_exception(r, e)) = read_cpsr(r)
============================================================================
