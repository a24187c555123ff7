----------------------------- MODULE Registers -----------------------------
(***************************************************************************)
(* The register file of the simulated ARMv5 processor (registers.c): one   *)
(* array of 37 words that holds the registers of every processor mode.     *)
(* The mode is the low five bits of the CPSR, itself one word of the array *)
(* (slot 16), so every access first reads the array to find out which slot *)
(* of the array it is about.                                               *)
(*                                                                         *)
(* The operators take the array as a value f and return a word or the      *)
(* array after the call; the actions apply them to the variable r.         *)
(***************************************************************************)
EXTENDS Integers

CONSTANTS
    WordMod,        \* number of values of a word: 2^32 in the code
    GarbageFiles,   \* contents that malloc may leave in a new array
    RegNames,       \* registers the callers of a run name (0..15 in the code)
    RegValues,      \* values they write
    CpsrValues      \* values they write into the CPSR

Word == 0 .. WordMod - 1
Slot == 0 .. 36
RegisterFile == [Slot -> Word]

\* The least word size in which the constants of arm_exception fit.
ASSUME WordAssumption == WordMod \in Nat /\ WordMod > 2048

ASSUME InputAssumption ==
    /\ GarbageFiles \subseteq RegisterFile
    /\ RegNames \subseteq 0 .. 15
    /\ RegValues \subseteq Word
    /\ CpsrValues \subseteq Word

VARIABLE r

SP == 13
LR == 14
PC == 15
CPSR == 16

USR == 16
FIQ == 17
IRQ == 18
SVC == 19
ABT == 23
UND == 27
SYS == 31

read_cpsr(f) == f[CPSR]

get_mode(f) == read_cpsr(f) % 32

current_mode_has_spsr(f) == get_mode(f) # USR /\ get_mode(f) # SYS

\* Mutant: the LR of IRQ is given the slot of r8 of FIQ.
mode_offset_irq_late(mode) ==
    CASE mode = SVC -> 4
      [] mode = ABT -> 6
      [] mode = UND -> 8
      [] mode = IRQ -> 11
      [] mode = FIQ -> 17
      [] OTHER -> 0

\* Distance from the slot of r13 or r14 (r8 to r14 for FIQ) to its copy.
mode_offset(mode) ==
    CASE mode = SVC -> 4
      [] mode = ABT -> 6
      [] mode = UND -> 8
      [] mode = IRQ -> 10
      [] mode = FIQ -> 17
      [] OTHER -> 0

\* The condition read_register and write_register both test.
banked(f, reg) ==
    reg \in {13, 14} \/ (8 <= reg /\ reg <= 12 /\ get_mode(f) = FIQ)

\* The slot both of them access.
register_slot(f, reg) == IF banked(f, reg) THEN reg + mode_offset(get_mode(f)) ELSE reg

read_register(f, reg) == f[register_slot(f, reg)]

read_usr_register(f, reg) == f[reg]

\* Mutant: the rows of IRQ and FIQ swapped.
spsr_slot_swapped(mode) ==
    CASE mode = SVC -> 32
      [] mode = ABT -> 33
      [] mode = UND -> 34
      [] mode = IRQ -> 36
      [] mode = FIQ -> 35
      [] OTHER -> -1

\* The slot of the SPSR of a mode, -1 for a mode that has none.
spsr_slot(mode) ==
    CASE mode = SVC -> 32
      [] mode = ABT -> 33
      [] mode = UND -> 34
      [] mode = IRQ -> 35
      [] mode = FIQ -> 36
      [] OTHER -> -1

read_spsr(f) ==
    LET slot == spsr_slot(get_mode(f)) IN IF slot = -1 THEN 0 ELSE f[slot]

\* Mutant: the test for banked registers, which the code repeats, left out here.
write_register_unbanked(f, reg, value) == [f EXCEPT ![reg] = value]

write_register(f, reg, value) == [f EXCEPT ![register_slot(f, reg)] = value]

write_usr_register(f, reg, value) == [f EXCEPT ![reg] = value]

write_cpsr(f, value) == [f EXCEPT ![CPSR] = value]

\* A mode without SPSR ignores the write.
write_spsr(f, value) ==
    LET slot == spsr_slot(get_mode(f))
    IN  IF slot = -1 THEN f ELSE [f EXCEPT ![slot] = value]

----------------------------------------------------------------------------

\* registers_create returns memory it does not initialise.
registers_create == r \in GarbageFiles

WriteRegister == \E reg \in RegNames, v \in RegValues : r' = write_register(r, reg, v)

WriteUsrRegister == \E reg \in RegNames, v \in RegValues : r' = write_usr_register(r, reg, v)

WriteCpsr == \E v \in CpsrValues : r' = write_cpsr(r, v)

WriteSpsr == \E v \in RegValues : r' = write_spsr(r, v)

RegNext == WriteRegister \/ WriteUsrRegister \/ WriteCpsr \/ WriteSpsr

RegSpec == registers_create /\ [][RegNext]_r

----------------------------------------------------------------------------

\* Type invariant: 37 words, whatever sequence of writes has been made; in
\* particular no write of registers.c falls outside the array.
RegTypeOK == r \in RegisterFile

\* The modes that have an SPSR.
ExceptionModes == {SVC, ABT, UND, IRQ, FIQ}

\* The 31 general registers, each named by the mode that owns it and its number.
Physical ==
    ({USR} \X (0 .. 15)) \cup ({FIQ} \X (8 .. 14))
       \cup ({SVC, ABT, UND, IRQ} \X {13, 14})

\* Where the table in the comment of registers.h puts general register p and
\* the SPSR of mode m.
SlotOf(p) ==
    CASE p[1] = USR -> p[2]
      [] p[1] = SVC -> 17 + (p[2] - 13)
      [] p[1] = ABT -> 19 + (p[2] - 13)
      [] p[1] = UND -> 21 + (p[2] - 13)
      [] p[1] = IRQ -> 23 + (p[2] - 13)
      [] p[1] = FIQ -> 25 + (p[2] - 8)

SpsrSlotOf(m) ==
    CASE m = SVC -> 32 [] m = ABT -> 33 [] m = UND -> 34 [] m = IRQ -> 35 [] m = FIQ -> 36

\* The architecture's register file, encoded in the array by that table.
Banked == INSTANCE BankedRegisters
            WITH cpsr <- r[CPSR],
                 gpr  <- [p \in Physical |-> r[SlotOf(p)]],
                 spsr <- [m \in ExceptionModes |-> r[SpsrSlotOf(m)]]

\* registers.c implements the banked register file of the architecture: every
\* step of it changes one architectural register that a write of the
\* architecture may change in the mode the CPSR selects.
ImplementsBanked == Banked!BSpec

\* In every reachable state every read of registers.c returns the content of
\* the architectural register that the current mode gives that number.
ReadsAgree ==
    /\ \A reg \in 0 .. 15 : read_register(r, reg) = Banked!Read(reg)
    /\ \A reg \in 0 .. 15 : read_usr_register(r, reg) = Banked!ReadUsr(reg)
    /\ read_spsr(r) = Banked!ReadSpsr

\* In every reachable state every write of registers.c stores its value in the
\* architectural register that it names in the current mode, and changes none of
\* the 36 others; a mode without SPSR ignores the write of one.
WritesAgree ==
    \A v \in RegValues, reg \in 0 .. 15 :
        /\ write_register(r, reg, v) = [r EXCEPT ![SlotOf(<<Banked!Owner(reg), reg>>)] = v]
        /\ write_usr_register(r, reg, v) = [r EXCEPT ![SlotOf(<<USR, reg>>)] = v]
        /\ write_spsr(r, v) = IF Banked!Mode \in ExceptionModes
                              THEN [r EXCEPT ![SpsrSlotOf(Banked!Mode)] = v] ELSE r
============================================================================
