--------------------------- MODULE ArmCoreProofs ---------------------------
(***************************************************************************)
(* Proofs about the register file and the processor core, for every word   *)
(* size, memory size, initial content and set of inputs.                   *)
(*                                                                         *)
(* The register file: the array keeps its type, its encoding of the        *)
(* architectural registers is one to one, reads and writes agree with it,  *)
(* and RegSpec implements the banked register file.                        *)
(*                                                                         *)
(* The core: each property of ArmCore is shown of every well-typed         *)
(* register file, so the inductive invariant is the type of the registers. *)
(***************************************************************************)
EXTENDS ArmCore, TLAPS

Modes == 0 .. 31

\* No two general registers share a slot, and none has that of the CPSR or of an
\* SPSR: the table of registers.h is one to one.
LEMMA LayoutInjective ==
    ASSUME NEW p \in Physical, NEW q \in Physical
    PROVE  /\ SlotOf(p) \in (0 .. 31) \ {CPSR}
           /\ SlotOf(p) = SlotOf(q) => p = q
<1>1. /\ p = <<p[1], p[2]>> /\ p[1] \in {USR, FIQ, SVC, ABT, UND, IRQ} /\ p[2] \in 0 .. 15
      /\ p[1] = FIQ => p[2] \in 8 .. 14
      /\ p[1] \in {SVC, ABT, UND, IRQ} => p[2] \in {13, 14}
  BY DEF Physical, USR, FIQ, SVC, ABT, UND, IRQ
<1>2. /\ q = <<q[1], q[2]>> /\ q[1] \in {USR, FIQ, SVC, ABT, UND, IRQ} /\ q[2] \in 0 .. 15
      /\ q[1] = FIQ => q[2] \in 8 .. 14
      /\ q[1] \in {SVC, ABT, UND, IRQ} => q[2] \in {13, 14}
  BY DEF Physical, USR, FIQ, SVC, ABT, UND, IRQ
<1>3. SlotOf(p) \in (0 .. 31) \ {CPSR}
  BY <1>1 DEF SlotOf, CPSR, USR, FIQ, SVC, ABT, UND, IRQ
<1>4. SlotOf(p) = SlotOf(q) => p[1] = q[1] /\ p[2] = q[2]
  BY <1>1, <1>2 DEF SlotOf, USR, FIQ, SVC, ABT, UND, IRQ
<1> QED
  BY <1>1, <1>2, <1>3, <1>4

\* The mode of any register file is a five-bit number.
LEMMA ModeRange ==
    ASSUME NEW f \in RegisterFile PROVE get_mode(f) \in Modes
BY WordAssumption DEF get_mode, read_cpsr, CPSR, RegisterFile, Slot, Word, Modes

\* The slot read_register and write_register compute is the one the table gives
\* to the architectural register that the mode in the CPSR selects.
LEMMA RegisterSlot ==
    ASSUME r \in RegisterFile, NEW reg \in 0 .. 15
    PROVE  /\ <<Banked!Owner(reg), reg>> \in Physical
           /\ <<USR, reg>> \in Physical
           /\ SlotOf(<<USR, reg>>) = reg
           /\ register_slot(r, reg) = SlotOf(<<Banked!Owner(reg), reg>>)
<1>1. get_mode(r) \in Modes /\ get_mode(r) = Banked!Mode
  BY ModeRange DEF Banked!Mode, get_mode, read_cpsr
<1>2. DEFINE m == get_mode(r)
<1>3. Banked!Owner(reg) = IF m = FIQ /\ reg \in 8 .. 14 THEN FIQ
                          ELSE IF m \in {SVC, ABT, UND, IRQ} /\ reg \in {13, 14} THEN m
                          ELSE USR
  BY <1>1 DEF Banked!Owner
<1>4. register_slot(r, reg) =
        IF reg \in {13, 14} \/ (8 <= reg /\ reg <= 12 /\ m = FIQ)
        THEN reg + mode_offset(m) ELSE reg
  BY DEF register_slot, banked
<1>5. m \in Modes
  BY <1>1
<1> HIDE DEF m
<1>6. <<Banked!Owner(reg), reg>> \in Physical /\ <<USR, reg>> \in Physical
  BY <1>3, <1>5 DEF Physical, Modes, USR, FIQ, SVC, ABT, UND, IRQ
<1>7. SlotOf(<<USR, reg>>) = reg
  BY DEF SlotOf, USR, FIQ, SVC, ABT, UND, IRQ
<1>8. register_slot(r, reg) = SlotOf(<<Banked!Owner(reg), reg>>)
  BY <1>3, <1>4, <1>5 DEF SlotOf, mode_offset, Modes, USR, FIQ, SVC, ABT, UND, IRQ
<1> QED
  BY <1>6, <1>7, <1>8

\* The slot of an SPSR is the one the table gives it.
LEMMA SpsrSlot ==
    ASSUME NEW m \in Modes
    PROVE  /\ m \in ExceptionModes => spsr_slot(m) = SpsrSlotOf(m) /\ spsr_slot(m) \in 32 .. 36
           /\ m \notin ExceptionModes => spsr_slot(m) = -1
BY DEF ExceptionModes, spsr_slot, SpsrSlotOf, Modes, FIQ, SVC, ABT, UND, IRQ
----------------------------------------------------------------------------

\* Every write of registers.c keeps an array of 37 words.
LEMMA WritesKeepType ==
    ASSUME NEW f \in RegisterFile, NEW reg \in 0 .. 15, NEW v \in Word
    PROVE  /\ write_register(f, reg, v) \in RegisterFile
           /\ write_usr_register(f, reg, v) \in RegisterFile
           /\ write_cpsr(f, v) \in RegisterFile
           /\ write_spsr(f, v) \in RegisterFile
BY DEF RegisterFile, write_register, write_usr_register, write_cpsr, write_spsr

\* RegSpec keeps the type of the array, for every word size and input set.
THEOREM RegistersTyped == RegSpec => []RegTypeOK
<1>1. registers_create => RegTypeOK
  BY InputAssumption DEF registers_create, RegTypeOK
<1>2. RegTypeOK /\ [RegNext]_r => RegTypeOK'
  <2> SUFFICES ASSUME RegTypeOK, [RegNext]_r PROVE RegTypeOK'
    OBVIOUS
  <2>1. CASE WriteRegister
    BY <2>1, WritesKeepType, InputAssumption DEF WriteRegister, RegTypeOK
  <2>2. CASE WriteUsrRegister
    BY <2>2, WritesKeepType, InputAssumption DEF WriteUsrRegister, RegTypeOK
  <2>3. CASE WriteCpsr
    BY <2>3, WritesKeepType, InputAssumption DEF WriteCpsr, RegTypeOK
  <2>4. CASE WriteSpsr
    BY <2>4, WritesKeepType, InputAssumption DEF WriteSpsr, RegTypeOK
  <2>5. CASE UNCHANGED r
    BY <2>5 DEF RegTypeOK
  <2> QED
    BY <2>1, <2>2, <2>3, <2>4, <2>5 DEF RegNext
<1> QED
  BY <1>1, <1>2, PTL DEF RegSpec

\* In every reachable state every read returns the architectural register.
THEOREM ReadsAlwaysAgree == RegSpec => []ReadsAgree
<1>1. RegTypeOK => ReadsAgree
  <2> SUFFICES ASSUME RegTypeOK PROVE ReadsAgree
    OBVIOUS
  <2>1. r \in RegisterFile
    BY DEF RegTypeOK
  <2>2. \A reg \in 0 .. 15 : read_register(r, reg) = Banked!Read(reg)
    BY <2>1, RegisterSlot DEF read_register, Banked!Read
  <2>3. \A reg \in 0 .. 15 : read_usr_register(r, reg) = Banked!ReadUsr(reg)
    BY <2>1, RegisterSlot DEF read_usr_register, Banked!ReadUsr
  <2>4. get_mode(r) \in Modes /\ get_mode(r) = Banked!Mode
    BY <2>1, ModeRange DEF Banked!Mode, get_mode, read_cpsr
  <2>5. read_spsr(r) = Banked!ReadSpsr
    BY <2>4, SpsrSlot DEF read_spsr, Banked!ReadSpsr
  <2> QED
    BY <2>2, <2>3, <2>5 DEF ReadsAgree
<1> QED
  BY <1>1, RegistersTyped, PTL

\* In every reachable state every write changes the architectural register it
\* names and no other one, for every word size and every value.
THEOREM WritesAlwaysAgree == RegSpec => []WritesAgree
<1>1. RegTypeOK => WritesAgree
  <2> SUFFICES ASSUME RegTypeOK, NEW v \in RegValues, NEW reg \in 0 .. 15
               PROVE  /\ write_register(r, reg, v)
                           = [r EXCEPT ![SlotOf(<<Banked!Owner(reg), reg>>)] = v]
                      /\ write_usr_register(r, reg, v) = [r EXCEPT ![SlotOf(<<USR, reg>>)] = v]
                      /\ write_spsr(r, v) = IF Banked!Mode \in ExceptionModes
                                            THEN [r EXCEPT ![SpsrSlotOf(Banked!Mode)] = v] ELSE r
    BY DEF WritesAgree
  <2>1. r \in RegisterFile
    BY DEF RegTypeOK
  <2>2. write_register(r, reg, v) = [r EXCEPT ![SlotOf(<<Banked!Owner(reg), reg>>)] = v]
    BY <2>1, RegisterSlot DEF write_register
  <2>3. write_usr_register(r, reg, v) = [r EXCEPT ![SlotOf(<<USR, reg>>)] = v]
    BY <2>1, RegisterSlot DEF write_usr_register
  <2>4. get_mode(r) \in Modes /\ get_mode(r) = Banked!Mode
    BY <2>1, ModeRange DEF Banked!Mode, get_mode, read_cpsr
  <2>5. CASE Banked!Mode \in ExceptionModes
    <3>1. spsr_slot(get_mode(r)) = SpsrSlotOf(Banked!Mode) /\ spsr_slot(get_mode(r)) # -1
      BY <2>4, <2>5, SpsrSlot
    <3> QED
      BY <2>2, <2>3, <2>5, <3>1 DEF write_spsr
  <2>6. CASE Banked!Mode \notin ExceptionModes
    <3>1. spsr_slot(get_mode(r)) = -1
      BY <2>4, <2>6, SpsrSlot
    <3> QED
      BY <2>2, <2>3, <2>6, <3>1 DEF write_spsr
  <2> QED
    BY <2>5, <2>6
<1> QED
  BY <1>1, RegistersTyped, PTL

----------------------------------------------------------------------------

\* The general registers as the table of registers.h reads them in the array.
General(f) == [p \in Physical |-> f[SlotOf(p)]]

Saved(f) == [m \in ExceptionModes |-> f[SpsrSlotOf(m)]]

\* A write into the slot of general register p changes p and no other register.
LEMMA GeneralWrite ==
    ASSUME r \in RegisterFile, NEW p \in Physical, NEW v \in Word,
           \A s \in Slot : r'[s] = IF s = SlotOf(p) THEN v ELSE r[s]
    PROVE  /\ General(r') = [General(r) EXCEPT ![p] = v]
           /\ Saved(r') = Saved(r)
           /\ r'[CPSR] = r[CPSR]
<1>1. SlotOf(p) \in (0 .. 31) \ {CPSR}
  BY LayoutInjective
<1>2. \A s \in Slot : r'[s] = IF s = SlotOf(p) THEN v ELSE r[s]
  OBVIOUS
<1>3. \A q \in Physical : SlotOf(q) \in Slot /\ (SlotOf(q) = SlotOf(p) <=> q = p)
  BY LayoutInjective DEF Slot
<1>4. General(r') = [General(r) EXCEPT ![p] = v]
  BY <1>2, <1>3 DEF General
<1>5. \A m \in ExceptionModes : SpsrSlotOf(m) \in 32 .. 36
  BY DEF ExceptionModes, SpsrSlotOf, SVC, ABT, UND, IRQ, FIQ
<1>6. Saved(r') = Saved(r)
  BY <1>1, <1>2, <1>5 DEF Saved, Slot
<1>7. r'[CPSR] = r[CPSR]
  BY <1>1, <1>2 DEF Slot, CPSR
<1> QED
  BY <1>4, <1>6, <1>7

\* A write into the slot of the SPSR of m changes that SPSR and no other register.
LEMMA SavedWrite ==
    ASSUME r \in RegisterFile, NEW m \in ExceptionModes, NEW v \in Word,
           \A s \in Slot : r'[s] = IF s = SpsrSlotOf(m) THEN v ELSE r[s]
    PROVE  /\ General(r') = General(r)
           /\ Saved(r') = [Saved(r) EXCEPT ![m] = v]
           /\ r'[CPSR] = r[CPSR]
<1>1. \A n \in ExceptionModes : /\ SpsrSlotOf(n) \in 32 .. 36
                                /\ SpsrSlotOf(n) = SpsrSlotOf(m) <=> n = m
  BY DEF ExceptionModes, SpsrSlotOf, SVC, ABT, UND, IRQ, FIQ
<1>2. \A n \in ExceptionModes : r'[SpsrSlotOf(n)] = IF n = m THEN v ELSE r[SpsrSlotOf(n)]
  BY <1>1 DEF Slot
<1>3. Saved(r') = [Saved(r) EXCEPT ![m] = v]
  BY <1>2 DEF Saved
<1>4. \A p \in Physical : SlotOf(p) \in 0 .. 31
  BY LayoutInjective
<1>5. General(r') = General(r)
  BY <1>1, <1>4 DEF General, Slot
<1>6. r'[CPSR] = r[CPSR]
  BY <1>1 DEF CPSR, Slot
<1> QED
  BY <1>3, <1>5, <1>6

\* registers.c implements the banked register file, for every word size and
\* every register and value its callers use.
THEOREM RegistersImplementBanked == RegSpec => ImplementsBanked
<1>1. registers_create => Banked!BInit
  <2> SUFFICES ASSUME r \in RegisterFile PROVE Banked!BInit
    BY InputAssumption DEF registers_create
  <2>1. \A s \in Slot : r[s] \in Int
    BY WordAssumption DEF RegisterFile, Word
  <2>2. \A p \in Physical : SlotOf(p) \in Slot
    BY LayoutInjective DEF Slot
  <2>3. \A m \in ExceptionModes : SpsrSlotOf(m) \in Slot
    BY DEF ExceptionModes, SpsrSlotOf, Slot, SVC, ABT, UND, IRQ, FIQ
  <2>4. CPSR \in Slot
    BY DEF CPSR, Slot
  <2> QED
    BY <2>1, <2>2, <2>3, <2>4 DEF Banked!BInit
<1>2. RegTypeOK /\ [RegNext]_r => [Banked!BNext]_(Banked!bvars)
  <2> SUFFICES ASSUME RegTypeOK, [RegNext]_r PROVE [Banked!BNext]_(Banked!bvars)
    OBVIOUS
  <2>1. r \in RegisterFile
    BY DEF RegTypeOK
  <2>2. CASE WriteRegister
    <3>1. PICK reg \in RegNames, v \in RegValues : r' = write_register(r, reg, v)
      BY <2>2 DEF WriteRegister
    <3>2. reg \in 0 .. 15 /\ v \in Word
      BY InputAssumption
    <3> DEFINE p == <<Banked!Owner(reg), reg>>
    <3>3. p \in Physical /\ r' = [r EXCEPT ![SlotOf(p)] = v]
      BY <2>1, <3>1, <3>2, RegisterSlot DEF write_register
    <3> HIDE DEF p
    <3>4. \A s \in Slot : r'[s] = IF s = SlotOf(p) THEN v ELSE r[s]
      BY <2>1, <3>3 DEF RegisterFile
    <3>5. General(r') = [General(r) EXCEPT ![p] = v] /\ Saved(r') = Saved(r) /\ r'[CPSR] = r[CPSR]
      BY <2>1, <3>2, <3>3, <3>4, GeneralWrite
    <3>6. Banked!BWrite
      BY <3>5 DEF Banked!BWrite, General, Saved, p
    <3> QED
      BY <3>6 DEF Banked!BNext
  <2>3. CASE WriteUsrRegister
    <3>1. PICK reg \in RegNames, v \in RegValues : r' = write_usr_register(r, reg, v)
      BY <2>3 DEF WriteUsrRegister
    <3>2. reg \in 0 .. 15 /\ v \in Word
      BY InputAssumption
    <3> DEFINE p == <<USR, reg>>
    <3>3. p \in Physical /\ r' = [r EXCEPT ![SlotOf(p)] = v]
      BY <2>1, <3>1, <3>2, RegisterSlot DEF write_usr_register
    <3> HIDE DEF p
    <3>4. \A s \in Slot : r'[s] = IF s = SlotOf(p) THEN v ELSE r[s]
      BY <2>1, <3>3 DEF RegisterFile
    <3>5. General(r') = [General(r) EXCEPT ![p] = v] /\ Saved(r') = Saved(r) /\ r'[CPSR] = r[CPSR]
      BY <2>1, <3>2, <3>3, <3>4, GeneralWrite
    <3>6. Banked!BWriteUsr
      BY <3>5 DEF Banked!BWriteUsr, General, Saved, p
    <3> QED
      BY <3>6 DEF Banked!BNext
  <2>4. CASE WriteCpsr
    <3>1. PICK v \in CpsrValues : r' = [r EXCEPT ![CPSR] = v]
      BY <2>4 DEF WriteCpsr, write_cpsr
    <3>2. \A s \in Slot : r'[s] = IF s = CPSR THEN v ELSE r[s]
      BY <2>1, <3>1 DEF RegisterFile
    <3>3. \A p \in Physical : SlotOf(p) \in Slot \ {CPSR}
      BY LayoutInjective DEF Slot
    <3>4. \A m \in ExceptionModes : SpsrSlotOf(m) \in Slot \ {CPSR}
      BY DEF ExceptionModes, SpsrSlotOf, Slot, CPSR, SVC, ABT, UND, IRQ, FIQ
    <3>5. General(r') = General(r) /\ Saved(r') = Saved(r)
      BY <3>2, <3>3, <3>4 DEF General, Saved
    <3>6. r'[CPSR] = v
      BY <3>2 DEF CPSR, Slot
    <3>7. Banked!BWriteCpsr
      BY <3>5, <3>6 DEF Banked!BWriteCpsr, General, Saved
    <3> QED
      BY <3>7 DEF Banked!BNext
  <2>5. CASE WriteSpsr
    <3>1. PICK v \in RegValues : r' = write_spsr(r, v)
      BY <2>5 DEF WriteSpsr
    <3>2. get_mode(r) \in Modes /\ get_mode(r) = Banked!Mode
      BY <2>1, ModeRange DEF Banked!Mode, get_mode, read_cpsr
    <3> DEFINE m == Banked!Mode
    <3>3. CASE m \notin ExceptionModes
      <4>1. r' = r
        BY <3>1, <3>2, <3>3, SpsrSlot DEF write_spsr
      <4> QED
        BY <4>1 DEF Banked!bvars
    <3>4. CASE m \in ExceptionModes
      <4>0. spsr_slot(get_mode(r)) = SpsrSlotOf(m) /\ spsr_slot(get_mode(r)) # -1
        BY <3>2, <3>4, SpsrSlot
      <4>1. r' = [r EXCEPT ![SpsrSlotOf(m)] = v]
        BY <3>1, <4>0 DEF write_spsr
      <4>2. m \in ExceptionModes /\ v \in Word
        BY <3>4, InputAssumption
      <4> HIDE DEF m
      <4>3. \A s \in Slot : r'[s] = IF s = SpsrSlotOf(m) THEN v ELSE r[s]
        BY <2>1, <4>1 DEF RegisterFile
      <4>4. General(r') = General(r) /\ Saved(r') = [Saved(r) EXCEPT ![m] = v] /\ r'[CPSR] = r[CPSR]
        BY <2>1, <4>2, <4>3, SavedWrite
      <4>5. Banked!BWriteSpsr
        BY <4>2, <4>4 DEF Banked!BWriteSpsr, General, Saved, m
      <4> QED
        BY <4>5 DEF Banked!BNext
    <3> QED
      BY <3>3, <3>4
  <2>6. CASE UNCHANGED r
    BY <2>6 DEF Banked!bvars
  <2> QED
    BY <2>2, <2>3, <2>4, <2>5, <2>6 DEF RegNext
<1> QED
  BY <1>1, <1>2, RegistersTyped, PTL DEF RegSpec, ImplementsBanked, Banked!BSpec
----------------------------------------------------------------------------

\* Addition on words: at most one multiple of the modulus is lost.
LEMMA WrapAdd ==
    ASSUME NEW x \in Word, NEW d \in 0 .. 16
    PROVE  Wrap(x + d) = IF x + d < WordMod THEN x + d ELSE x + d - WordMod
BY WordAssumption DEF Wrap, Word

\* Subtraction of a small constant likewise.
LEMMA WrapSub ==
    ASSUME NEW x \in Word, NEW d \in 0 .. 16
    PROVE  Wrap(x - d) = IF x - d >= 0 THEN x - d ELSE x - d + WordMod
BY WordAssumption DEF Wrap, Word

\* The value read for a stored pc x: a word with bit 1 clear, from which the fetch
\* address is four less and four more is again such a word.
PcValue(x) == ClearBit1(Wrap(x + 4))

LEMMA PcArithmetic ==
    ASSUME NEW x \in Word
    PROVE  LET a == PcValue(x) IN
           /\ a \in Word
           /\ Wrap(a - 4) \in Word
           /\ Wrap(Wrap(a - 4) + 4) = a
           /\ Wrap(a + 4) = Wrap(Wrap(a - 4) + 8)
           /\ PcValue(a) = Wrap(a + 4)
           /\ Wrap(Wrap(a + 4) - 4) = a
<1> DEFINE y == Wrap(x + 4)
           a == PcValue(x)
           k == WordMod \div 16
<1>1. k \in Nat /\ WordMod = 16 * k
  BY WordAssumption, CoreAssumption
<1>2. y \in Word
  BY WordAssumption, WrapAdd DEF Word
<1>3. a = y - 2 * ((y \div 2) % 2)
  BY DEF PcValue, ClearBit1, Bit
<1> HIDE DEF y, a, k
<1>4. a \in Word /\ (a \div 2) % 2 = 0
  BY <1>2, <1>3, WordAssumption DEF Word
<1>5. Wrap(a - 4) = IF a - 4 >= 0 THEN a - 4 ELSE a - 4 + WordMod
  BY <1>4, WordAssumption DEF Wrap, Word
<1>6. Wrap(a + 4) = IF a + 4 < WordMod THEN a + 4 ELSE a + 4 - WordMod
  BY <1>4, WrapAdd
<1>7. Wrap(a - 4) \in Word /\ Wrap(a + 4) \in Word
  BY <1>4, <1>5, <1>6, WordAssumption DEF Word
<1>8. Wrap(Wrap(a - 4) + 4) = a
  BY <1>4, <1>5, <1>7, WrapAdd, WordAssumption DEF Word
<1>9. Wrap(Wrap(a - 4) + 8) = Wrap(a + 4)
  BY <1>4, <1>5, <1>6, <1>7, WrapAdd, WordAssumption DEF Word
<1>10. Wrap(Wrap(a + 4) - 4) = a
  BY <1>4, <1>6, <1>7, WrapSub, WordAssumption DEF Word
<1>11. (Wrap(a + 4) \div 2) % 2 = 0
  BY <1>1, <1>4, <1>6 DEF Word
<1>12. PcValue(a) = Wrap(a + 4)
  BY <1>7, <1>11, WordAssumption DEF PcValue, ClearBit1, Bit, Word
<1> QED
  BY <1>4, <1>7, <1>8, <1>9, <1>10, <1>12 DEF a

\* In any register file the pc is slot 15, and arm_fetch changes that slot alone.
LEMMA FetchPc ==
    ASSUME NEW f \in RegisterFile
    PROVE  /\ arm_read_register(f, PC) = PcValue(f[15])
           /\ fetch_address(f) = Wrap(PcValue(f[15]) - 4)
           /\ arm_fetch(f) = [f EXCEPT ![15] = PcValue(f[15])]
           /\ arm_fetch(f) \in RegisterFile
<1>1. register_slot(f, PC) = 15
  BY DEF register_slot, banked, PC
<1>2. arm_read_register(f, PC) = PcValue(f[15])
  BY <1>1 DEF arm_read_register, read_register, PcValue
<1>3. fetch_address(f) = Wrap(PcValue(f[15]) - 4)
  BY <1>2 DEF fetch_address
<1>4. f[15] \in Word
  BY DEF RegisterFile, Slot
<1>5. arm_fetch(f) = [f EXCEPT ![15] = PcValue(f[15])]
  BY <1>1, <1>3, <1>4, PcArithmetic DEF arm_fetch, write_register
<1>6. arm_fetch(f) \in RegisterFile
  BY <1>4, <1>5, PcArithmetic DEF RegisterFile
<1> QED
  BY <1>2, <1>3, <1>5, <1>6
\* The type of the registers after an exception, and what each slot then holds.
LEMMA ExceptionType ==
    ASSUME NEW f \in RegisterFile, NEW e \in Exceptions
    PROVE  arm_exception(f, e) \in RegisterFile
<1>1. reset_state(f) \in RegisterFile
  BY WritesKeepType, WordAssumption DEF reset_state, Word, SP
<1>2. read_cpsr(f) \in Word
  BY DEF read_cpsr, RegisterFile, Slot, CPSR
<1>3. exception_cpsr(read_cpsr(f), e) \in Word
  <2> DEFINE c == read_cpsr(f)
  <2>1. Bit(c, 256) \in 0 .. 1 /\ Bit(c, 64) \in 0 .. 1
    BY <1>2, WordAssumption DEF Bit, Word
  <2> QED
    BY <1>2, <2>1, WordAssumption DEF exception_cpsr, Word
<1>4. exception_entry(f, e) \in RegisterFile
  <2> DEFINE f1 == write_spsr(f, read_cpsr(f))
             w  == Wrap(arm_read_register(f1, PC) + link_distance(e))
             f2 == write_register(f1, LR, w)
  <2>1. f1 \in RegisterFile
    BY <1>2 DEF write_spsr, RegisterFile
  <2>2. arm_read_register(f1, PC) \in Word
    BY <2>1, FetchPc, PcArithmetic DEF RegisterFile, Slot
  <2> HIDE DEF f1
  <2>3. w \in Word
    BY <2>2, WordAssumption DEF link_distance, Wrap, Word
  <2> HIDE DEF w
  <2>4. f2 \in RegisterFile
    BY <2>1, <2>3, WritesKeepType DEF LR
  <2> HIDE DEF f2
  <2>5. write_cpsr(f2, exception_cpsr(read_cpsr(f), e)) \in RegisterFile
    BY <2>4, <1>3 DEF write_cpsr, RegisterFile
  <2> QED
    BY <2>5 DEF exception_entry, f1, f2, w
<1>5. (e - 1) * 4 \in Word
  BY WordAssumption DEF Exceptions, Word
<1> DEFINE h == IF e = RESET THEN reset_state(f) ELSE exception_entry(f, e)
<1>6. h \in RegisterFile
  BY <1>1, <1>4
<1> HIDE DEF h
<1>7. write_usr_register(h, PC, (e - 1) * 4) \in RegisterFile
  BY <1>5, <1>6, WritesKeepType DEF PC
<1> QED
  BY <1>7 DEF arm_exception, h

\* Which slots an exception may change, and what it puts in the pc and the CPSR.
LEMMA ExceptionSlots ==
    ASSUME NEW f \in RegisterFile, NEW e \in Exceptions
    PROVE  LET g == arm_exception(f, e) IN
           /\ g[PC] = 4 * (e - 1)
           /\ g[CPSR] = IF e = RESET THEN 211 ELSE exception_cpsr(f[CPSR], e)
           /\ \A s \in Slot \ {PC, CPSR} :
                 g[s] # f[s] =>
                   \/ e = RESET /\ s = 17
                   \/ e # RESET /\ s = register_slot(f, LR)
                   \/ e # RESET /\ s = spsr_slot(get_mode(f))
<1> DEFINE g == arm_exception(f, e)
           h == IF e = RESET THEN reset_state(f) ELSE exception_entry(f, e)
           ls == register_slot(f, LR)
           ss == spsr_slot(get_mode(f))
           c  == IF e = RESET THEN 211 ELSE exception_cpsr(f[CPSR], e)
<1>1. get_mode(f) \in Modes
  BY ModeRange
<1>2. ls \in {14, 18, 20, 22, 24, 31} /\ ss \in {-1, 32, 33, 34, 35, 36}
  BY <1>1 DEF register_slot, banked, mode_offset, spsr_slot, Modes, LR, FIQ, SVC, ABT, UND, IRQ
<1>3. CASE e = RESET
  <2> DEFINE f1 == write_cpsr(f, 211)
  <2>1. \A s \in Slot : f1[s] = IF s = 16 THEN 211 ELSE f[s]
    BY DEF write_cpsr, RegisterFile, CPSR
  <2>2. get_mode(f1) = 19
    BY <2>1 DEF get_mode, read_cpsr, CPSR, Slot
  <2>3. DOMAIN f1 = Slot
    BY DEF write_cpsr, RegisterFile
  <2>4. register_slot(f1, SP) = 17
    BY <2>2 DEF register_slot, banked, mode_offset, SP, FIQ, SVC, ABT, UND, IRQ
  <2> HIDE DEF f1
  <2>5. h = [f1 EXCEPT ![17] = 2048]
    BY <1>3, <2>4 DEF reset_state, write_register, f1
  <2> HIDE DEF h
  <2>6. DOMAIN h = Slot /\ \A s \in Slot : h[s] = IF s = 17 THEN 2048 ELSE f1[s]
    BY <2>3, <2>5
  <2>7. g = [h EXCEPT ![15] = (e - 1) * 4]
    BY DEF arm_exception, write_usr_register, PC, h
  <2>8. \A s \in Slot : g[s] = IF s = 15 THEN (e - 1) * 4 ELSE h[s]
    BY <2>6, <2>7
  <2> HIDE DEF g
  <2>9. g[PC] = 4 * (e - 1) /\ g[CPSR] = 211
    BY <2>1, <2>6, <2>8 DEF Slot, PC, CPSR, Exceptions
  <2>10. \A s \in Slot \ {PC, CPSR} : g[s] # f[s] => s = 17
    BY <2>1, <2>6, <2>8 DEF PC, CPSR
  <2> QED
    BY <1>3, <2>9, <2>10 DEF g
<1>4. CASE e # RESET
  <2> DEFINE f1 == write_spsr(f, read_cpsr(f))
             w  == Wrap(arm_read_register(f1, PC) + link_distance(e))
             f2 == write_register(f1, LR, w)
  <2>1. DOMAIN f1 = Slot /\ \A s \in Slot : s # ss => f1[s] = f[s]
    BY DEF write_spsr, RegisterFile
  <2>2. register_slot(f1, LR) = ls
    BY <1>2, <2>1 DEF register_slot, banked, get_mode, read_cpsr, CPSR, Slot
  <2> HIDE DEF f1, w
  <2>3. f2 = [f1 EXCEPT ![ls] = w]
    BY <2>2 DEF write_register
  <2> HIDE DEF ls
  <2>4. DOMAIN f2 = Slot /\ \A s \in Slot : s # ls => f2[s] = f1[s]
    BY <2>1, <2>3
  <2> HIDE DEF f2
  <2>5. h = [f2 EXCEPT ![16] = c]
    BY <1>4 DEF exception_entry, write_cpsr, read_cpsr, CPSR, f1, f2, w
  <2> HIDE DEF c
  <2>6. DOMAIN h = Slot /\ \A s \in Slot : h[s] = IF s = 16 THEN c ELSE f2[s]
    BY <2>4, <2>5
  <2> HIDE DEF h
  <2>7. g = [h EXCEPT ![15] = (e - 1) * 4]
    BY DEF arm_exception, write_usr_register, PC, h
  <2>8. \A s \in Slot : g[s] = IF s = 15 THEN (e - 1) * 4 ELSE h[s]
    BY <2>6, <2>7
  <2> HIDE DEF g, ss
  <2>9. g[PC] = 4 * (e - 1) /\ g[CPSR] = c
    BY <2>6, <2>8 DEF Slot, PC, CPSR, Exceptions
  <2>10. \A s \in Slot \ {PC, CPSR} : g[s] # f[s] => s = ls \/ s = ss
    BY <2>1, <2>4, <2>6, <2>8 DEF PC, CPSR
  <2> QED
    BY <1>4, <2>9, <2>10 DEF g, c, ls, ss
<1> QED
  BY <1>3, <1>4
----------------------------------------------------------------------------

\* Writing words into slots, then a word into the CPSR, keeps the type.
LEMMA SomeType ==
    ASSUME NEW f \in RegisterFile, NEW T, NEW w \in [T -> RegValues], NEW c \in Word
    PROVE  write_cpsr(write_some(f, w), c) \in RegisterFile
<1>1. write_some(f, w) \in RegisterFile
  BY InputAssumption DEF write_some, RegisterFile
<1> QED
  BY <1>1 DEF write_cpsr, RegisterFile

\* Every effect of an instruction keeps the type of the registers.
LEMMA EffectType ==
    ASSUME NEW f \in RegisterFile, NEW g \in Effect(f)
    PROVE  g \in RegisterFile
<1>1. read_cpsr(f) \in Word
  BY DEF read_cpsr, RegisterFile, Slot, CPSR
<1>2. read_spsr(f) \in Word
  <2>1. spsr_slot(get_mode(f)) = -1 \/ spsr_slot(get_mode(f)) \in 32 .. 36
    BY ModeRange, SpsrSlot
  <2> QED
    BY <2>1, WordAssumption DEF read_spsr, RegisterFile, Slot, Word
<1>3. CASE \E w \in Assignments(CurrentSlots(f) \cup RegNames), c \in CpsrValues \cup {read_cpsr(f)} :
              g = write_cpsr(write_some(f, w), c)
  <2>1. PICK w \in Assignments(CurrentSlots(f) \cup RegNames), c \in CpsrValues \cup {read_cpsr(f)} :
              g = write_cpsr(write_some(f, w), c)
    BY <1>3
  <2>2. PICK T : w \in [T -> RegValues]
    BY <2>1 DEF Assignments
  <2> QED
    BY <1>1, <2>1, <2>2, SomeType, InputAssumption
<1>4. CASE \E w \in Assignments({PC}) : g = write_cpsr(write_some(f, w), read_spsr(f))
  <2>1. PICK w \in Assignments({PC}) : g = write_cpsr(write_some(f, w), read_spsr(f))
    BY <1>4
  <2>2. PICK T : w \in [T -> RegValues]
    BY <2>1 DEF Assignments
  <2> QED
    BY <1>2, <2>1, <2>2, SomeType
<1> QED
  BY <1>3, <1>4 DEF Effect

\* The registers keep their type under everything the core does: creation on
\* uninitialised memory, steps, faults, interrupts and the debugger's writes.
THEOREM CoreTyped == CoreSpec => []RegTypeOK
<1>1. arm_create => RegTypeOK
  BY InputAssumption, ExceptionType DEF arm_create, RegTypeOK, Exceptions, RESET
<1>2. RegTypeOK /\ [CoreNext]_r => RegTypeOK'
  <2> SUFFICES ASSUME RegTypeOK, [CoreNext]_r PROVE RegTypeOK'
    OBVIOUS
  <2>1. r \in RegisterFile /\ arm_fetch(r) \in RegisterFile
    BY FetchPc DEF RegTypeOK
  <2>2. CASE StepExecute
    BY <2>1, <2>2, EffectType DEF StepExecute, RegTypeOK
  <2>3. CASE StepFault
    BY <2>1, <2>3, ExceptionType
       DEF StepFault, RegTypeOK, Exceptions, DATA_ABORT, UNDEFINED_INSTRUCTION
  <2>4. CASE Interrupt
    BY <2>1, <2>4, ExceptionType, CoreAssumption DEF Interrupt, RegTypeOK
  <2>5. CASE DebuggerWrite
    <3>1. CASE \E reg \in RegNames, v \in RegValues : r' = write_register(r, reg, v)
      BY <2>1, <3>1, InputAssumption, WritesKeepType DEF RegTypeOK
    <3>2. CASE \E w \in [CurrentSlots(r) -> RegValues], c \in CpsrValues :
                  r' = write_cpsr(write_some(r, w), c)
      BY <2>1, <3>2, SomeType, InputAssumption DEF RegTypeOK
    <3> QED
      BY <2>5, <3>1, <3>2 DEF DebuggerWrite
  <2>6. CASE UNCHANGED r
    BY <2>6 DEF RegTypeOK
  <2> QED
    BY <2>2, <2>3, <2>4, <2>5, <2>6 DEF CoreNext
<1> QED
  BY <1>1, <1>2, PTL DEF CoreSpec

\* The instruction being executed always reads its own address plus 8 in the pc,
\* as the comments of arm_core.c say, for every word size and at every address,
\* the last ones before the wrap around and the unaligned ones included.
THEOREM PcAlwaysReadsAhead == CoreSpec => []PcReadsAhead
<1>1. RegTypeOK => PcReadsAhead
  <2> SUFFICES ASSUME RegTypeOK PROVE PcReadsAhead
    OBVIOUS
  <2> DEFINE a == PcValue(r[15])
             g == arm_fetch(r)
  <2>1. r \in RegisterFile /\ r[15] \in Word
    BY DEF RegTypeOK, RegisterFile, Slot
  <2>2. fetch_address(r) = Wrap(a - 4) /\ g = [r EXCEPT ![15] = a] /\ g \in RegisterFile
    BY <2>1, FetchPc
  <2>3. g[15] = a
    BY <2>1, <2>2 DEF RegisterFile, Slot
  <2> HIDE DEF g
  <2>4. arm_read_register(g, PC) = PcValue(a) /\ fetch_address(g) = Wrap(PcValue(a) - 4)
    BY <2>2, <2>3, FetchPc
  <2>5. PcValue(a) = Wrap(Wrap(a - 4) + 8) /\ Wrap(PcValue(a) - 4) = Wrap(Wrap(a - 4) + 4)
    BY <2>1, PcArithmetic
  <2> QED
    BY <2>2, <2>4, <2>5 DEF PcReadsAhead, g
<1> QED
  BY <1>1, CoreTyped, PTL

\* Every exception, from every reachable state, is followed by a fetch of its own
\* word of the vector.
THEOREM VectorAlwaysFetched == CoreSpec => []VectorFetched
<1>1. RegTypeOK => VectorFetched
  <2> SUFFICES ASSUME RegTypeOK, NEW e \in Exceptions
               PROVE  fetch_address(arm_exception(r, e)) = 4 * (e - 1)
    BY DEF VectorFetched
  <2> DEFINE g == arm_exception(r, e)
  <2>1. r \in RegisterFile
    BY DEF RegTypeOK
  <2>2. g \in RegisterFile /\ g[15] = 4 * (e - 1)
    BY <2>1, ExceptionType, ExceptionSlots DEF PC
  <2> HIDE DEF g
  <2>3. fetch_address(g) = Wrap(PcValue(4 * (e - 1)) - 4)
    BY <2>2, FetchPc
  <2>4. e \in 1 .. 8
    BY DEF Exceptions
  <2>5. Wrap(4 * (e - 1) + 4) = 4 * e
    BY <2>4, WordAssumption DEF Wrap
  <2>6. PcValue(4 * (e - 1)) = 4 * e
    BY <2>4, <2>5 DEF PcValue, ClearBit1, Bit
  <2>7. Wrap(4 * e - 4) = 4 * (e - 1)
    BY <2>4, WordAssumption DEF Wrap
  <2> QED
    BY <2>3, <2>6, <2>7 DEF g
<1> QED
  BY <1>1, CoreTyped, PTL
\* Every handler is entered in its own mode, in ARM state, with interrupts masked.
THEOREM EntryAlwaysMasked == CoreSpec => []EntryMasked
<1>1. RegTypeOK => EntryMasked
  <2> SUFFICES ASSUME RegTypeOK, NEW e \in Exceptions \ {IMPRECISE_ABORT}
               PROVE  LET c == read_cpsr(arm_exception(r, e))
                      IN  /\ c % 32 = EnteredMode(e)
                          /\ Bit(c, 32) = 0 /\ Bit(c, 128) = 1
                          /\ Bit(c, 64) >= Bit(read_cpsr(r), 64)
    BY DEF EntryMasked
  <2> DEFINE c == read_cpsr(arm_exception(r, e))
             a == Bit(r[CPSR], 256)
             b == Bit(r[CPSR], 64)
  <2>1. r \in RegisterFile /\ r[CPSR] \in Word
    BY DEF RegTypeOK, RegisterFile, Slot, CPSR
  <2>2. a \in {0, 1} /\ b \in {0, 1}
    BY <2>1, WordAssumption DEF Bit, Word
  <2>3. c = IF e = RESET THEN 211 ELSE exception_cpsr(r[CPSR], e)
    BY <2>1, ExceptionSlots DEF read_cpsr
  <2> HIDE DEF c, a, b
  <2>4. \/ e = RESET /\ c = 211
        \/ e = UNDEFINED_INSTRUCTION /\ c = 256 * a + 64 * b + 155
        \/ e = SOFTWARE_INTERRUPT /\ c = 256 * a + 64 * b + 147
        \/ e \in {PREFETCH_ABORT, DATA_ABORT} /\ c = 64 * b + 407
        \/ e = INTERRUPT /\ c = 64 * b + 402
        \/ e = FAST_INTERRUPT /\ c = 465
    BY <2>3 DEF exception_cpsr, a, b, Exceptions, RESET, UNDEFINED_INSTRUCTION,
       SOFTWARE_INTERRUPT, PREFETCH_ABORT, DATA_ABORT, IMPRECISE_ABORT, INTERRUPT,
       FAST_INTERRUPT
  <2>5. c % 32 = EnteredMode(e)
    BY <2>2, <2>4 DEF EnteredMode, SVC, UND, ABT, IRQ, FIQ, RESET, UNDEFINED_INSTRUCTION,
       SOFTWARE_INTERRUPT, PREFETCH_ABORT, DATA_ABORT, INTERRUPT, FAST_INTERRUPT
  <2>6. Bit(c, 32) = 0 /\ Bit(c, 128) = 1 /\ Bit(c, 64) >= b
    BY <2>2, <2>4 DEF Bit
  <2> QED
    BY <2>5, <2>6 DEF c, b, read_cpsr
<1> QED
  BY <1>1, CoreTyped, PTL

\* An exception overwrites nothing of the interrupted program but the CPSR, the pc
\* and the LR and SPSR of its mode (SP of SVC for a reset).
THEOREM EntryAlwaysKeepsContext == CoreSpec => []EntryKeepsContext
<1>1. RegTypeOK => EntryKeepsContext
  <2> SUFFICES ASSUME RegTypeOK, NEW e \in Exceptions, NEW s \in Slot \ {PC, CPSR},
                      arm_exception(r, e)[s] # r[s]
               PROVE  \/ e = RESET /\ s = SlotOf(<<SVC, SP>>)
                      \/ e # RESET /\ s = SlotOf(<<Banked!Owner(LR), LR>>)
                      \/ /\ e # RESET /\ Banked!Mode \in ExceptionModes
                         /\ s = SpsrSlotOf(Banked!Mode)
    BY DEF EntryKeepsContext
  <2>1. r \in RegisterFile
    BY DEF RegTypeOK
  <2>2. \/ e = RESET /\ s = 17
        \/ e # RESET /\ s = register_slot(r, LR)
        \/ e # RESET /\ s = spsr_slot(get_mode(r))
    BY <2>1, ExceptionSlots
  <2>3. SlotOf(<<SVC, SP>>) = 17
    BY DEF SlotOf, SP, USR, SVC, ABT, UND, IRQ, FIQ
  <2>4. register_slot(r, LR) = SlotOf(<<Banked!Owner(LR), LR>>)
    BY <2>1, RegisterSlot DEF LR
  <2>5. get_mode(r) \in Modes /\ get_mode(r) = Banked!Mode
    BY <2>1, ModeRange DEF Banked!Mode, get_mode, read_cpsr
  <2>6. s = spsr_slot(get_mode(r)) => Banked!Mode \in ExceptionModes /\ s = SpsrSlotOf(Banked!Mode)
    BY <2>5, SpsrSlot DEF Slot
  <2> QED
    BY <2>2, <2>3, <2>4, <2>6
<1> QED
  BY <1>1, CoreTyped, PTL
============================================================================
