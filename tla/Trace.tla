------------------------------- MODULE Trace -------------------------------
(***************************************************************************)
(* The trace of register accesses (option --trace-registers).  Instruction *)
(* handlers reach the register file only through the accessors of          *)
(* arm_core.c, which call registers.c and then hand trace_register the     *)
(* register, the mode and the value to print.  A line of the trace is a    *)
(* record; a line without mode suffix has mode 0.                          *)
(***************************************************************************)
EXTENDS ArmCore

SPSR == 17

\* The modes that have a name; 0 stands for the missing suffix.
arm_get_mode_name(mode) == IF mode \in {USR, FIQ, IRQ, SVC, ABT, UND, SYS} THEN mode ELSE 0

trace_register(reg, mode, value) ==
    [reg |-> reg, mode |-> arm_get_mode_name(mode), value |-> value]

\* The pc read through the user bank is four ahead, too.
arm_read_usr_register(f, reg) ==
    IF reg = PC THEN ClearBit1(Wrap(read_usr_register(f, PC) + 4)) ELSE read_usr_register(f, reg)

\* What arm_read_register, arm_read_usr_register, arm_read_cpsr and arm_read_spsr
\* print.
ReadLines(f) ==
    {trace_register(reg, get_mode(f), arm_read_register(f, reg)) : reg \in 0 .. 15}
      \cup {trace_register(reg, USR, arm_read_usr_register(f, reg)) : reg \in 0 .. 15}
      \cup {trace_register(CPSR, 0, read_cpsr(f)),
            trace_register(SPSR, get_mode(f), read_spsr(f))}

\* A write: the registers after it and the line printed then.
Traced(after, reg, mode, value) ==
    [after |-> after, line |-> trace_register(reg, mode, value)]

arm_write_register(f, reg, value) ==
    LET after == write_register(f, reg, value) IN Traced(after, reg, get_mode(after), value)

\* Mutant: the mode printed is the current one, as in arm_write_register.
arm_write_usr_register_mode(f, reg, value) ==
    LET after == write_usr_register(f, reg, value) IN Traced(after, reg, get_mode(after), value)

arm_write_usr_register(f, reg, value) ==
    Traced(write_usr_register(f, reg, value), reg, USR, value)

arm_write_cpsr(f, value) == Traced(write_cpsr(f, value), CPSR, 0, value)

arm_write_spsr(f, value) ==
    LET after == write_spsr(f, value) IN Traced(after, SPSR, get_mode(after), value)

----------------------------------------------------------------------------

\* The slot of the register a line names, for a reader who knows the table of
\* registers.h and not the CPSR of the moment; -1 for the SPSR of a mode that has
\* none.
NamedSlot(line) ==
    CASE line.reg = CPSR -> CPSR
      [] line.reg = SPSR -> IF line.mode \in ExceptionModes THEN SpsrSlotOf(line.mode) ELSE -1
      [] OTHER -> SlotOf(IF <<line.mode, line.reg>> \in Physical
                         THEN <<line.mode, line.reg>> ELSE <<USR, line.reg>>)

\* The trace tells what the accesses do, whatever mode the processor is in: every
\* write changes the register its line names to the value of the line and nothing
\* else, so that a reader of the trace can replay the registers; and every read
\* shows the content of the register its line names, the pc as an instruction
\* reads it.
TraceReplays ==
    /\ \A w \in {arm_write_register(r, reg, v) : reg \in 0 .. 15, v \in RegValues}
                \cup {arm_write_usr_register(r, reg, v) : reg \in 0 .. 15, v \in RegValues}
                \cup {arm_write_cpsr(r, v) : v \in CpsrValues}
                \cup {arm_write_spsr(r, v) : v \in RegValues} :
         \A s \in Slot : w.after[s] = IF s = NamedSlot(w.line) THEN w.line.value ELSE r[s]
    /\ \A line \in ReadLines(r) :
         line.value = CASE line.reg = PC -> ClearBit1(Wrap(r[PC] + 4))
                        [] NamedSlot(line) = -1 -> 0
                        [] OTHER -> r[NamedSlot(line)]
============================================================================
