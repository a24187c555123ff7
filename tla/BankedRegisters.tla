-------------------------- MODULE BankedRegisters --------------------------
(***************************************************************************)
(* What a register file promises: a current program status register, 31    *)
(* general registers of which the current mode shows 16, and one saved     *)
(* status register for each mode that exceptions enter.  Nothing is said   *)
(* of how they are stored.  The layout is that of the table in the comment *)
(* of registers.h.                                                         *)
(***************************************************************************)
EXTENDS Integers

CONSTANTS
    Physical,        \* the general registers, as pairs <<owner, number>>
    ExceptionModes,  \* the modes that own a saved status register
    RegNames, RegValues, CpsrValues,
    USR, FIQ, SVC, ABT, UND, IRQ

VARIABLES cpsr, gpr, spsr

bvars == <<cpsr, gpr, spsr>>

Mode == cpsr % 32

\* The mode that owns the register the current mode calls reg.
Owner(reg) ==
    IF Mode = FIQ /\ reg \in 8 .. 14 THEN FIQ
    ELSE IF Mode \in {SVC, ABT, UND, IRQ} /\ reg \in {13, 14} THEN Mode
    ELSE USR

Read(reg) == gpr[<<Owner(reg), reg>>]

ReadUsr(reg) == gpr[<<USR, reg>>]

ReadSpsr == IF Mode \in ExceptionModes THEN spsr[Mode] ELSE 0

BWrite ==
    \E reg \in RegNames, v \in RegValues :
        /\ gpr' = [gpr EXCEPT ![<<Owner(reg), reg>>] = v]
        /\ UNCHANGED <<cpsr, spsr>>

BWriteUsr ==
    \E reg \in RegNames, v \in RegValues :
        /\ gpr' = [gpr EXCEPT ![<<USR, reg>>] = v]
        /\ UNCHANGED <<cpsr, spsr>>

BWriteCpsr == \E v \in CpsrValues : cpsr' = v /\ UNCHANGED <<gpr, spsr>>

BWriteSpsr ==
    \E v \in RegValues :
        /\ Mode \in ExceptionModes
        /\ spsr' = [spsr EXCEPT ![Mode] = v]
        /\ UNCHANGED <<cpsr, gpr>>

BNext == BWrite \/ BWriteUsr \/ BWriteCpsr \/ BWriteSpsr

\* Every register starts with an arbitrary content.
BInit == cpsr \in Int /\ gpr \in [Physical -> Int] /\ spsr \in [ExceptionModes -> Int]

BSpec == BInit /\ [][BNext]_bvars
============================================================================
