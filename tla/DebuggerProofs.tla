--------------------------- MODULE DebuggerProofs ---------------------------
(***************************************************************************)
(* Proofs about what gdb sees of the simulator.                            *)
(*                                                                         *)
(* What the register packets of gdb and the register trace promise, for    *)
(* every word size, every packet and every reachable register file.        *)
(*                                                                         *)
(* The packet link, for every number of requests, of altered packets and   *)
(* of Ctrl-C, and every size of the buffer of the scanner: the index in    *)
(* that buffer stays inside it, and the link implements the session of     *)
(* GdbSession.                                                             *)
(***************************************************************************)
EXTENDS GdbRegisters, Trace, ArmCoreProofs, GdbLink, SequenceTheorems

----------------------------------------------------------------------------
(* Registers in packets and in the trace (modules GdbRegisters and Trace). *)

\* Division by a byte: the only fact about it that the packets rest on.
LEMMA Quotient ==
    ASSUME NEW x \in Nat
    PROVE  /\ x \div ByteMod \in Nat
           /\ x % ByteMod \in Nat
           /\ (x % ByteMod) + ByteMod * (x \div ByteMod) = x
BY ByteAssumption

\* A word is the one whose bytes are those of the word.
LEMMA IntegerOfBytes ==
    ASSUME NEW v \in Word PROVE Integer(Bytes(v)) = v
<1> DEFINE q1 == v \div ByteMod
           q2 == q1 \div ByteMod
           q3 == q2 \div ByteMod
<1>1. v \in Nat
  BY WordAssumption DEF Word
<1>2. q1 \in Nat /\ (v % ByteMod) + ByteMod * q1 = v
  BY <1>1, Quotient
<1>3. q2 \in Nat /\ (q1 % ByteMod) + ByteMod * q2 = q1
  BY <1>2, Quotient
<1>4. q3 \in Nat /\ (q2 % ByteMod) + ByteMod * q3 = q2
  BY <1>3, Quotient
<1>5. Integer(Bytes(v)) = (v % ByteMod) + ByteMod * ((q1 % ByteMod) + ByteMod * ((q2 % ByteMod) + ByteMod * q3))
  BY DEF Integer, Bytes
<1> HIDE DEF q1, q2, q3
<1> QED
  BY <1>2, <1>3, <1>4, <1>5

\* The word depends on its four bytes only.
LEMMA SameBytes ==
    ASSUME NEW a, NEW b, \A i \in 0 .. 3 : a[i] = b[i]
    PROVE  Integer(a) = Integer(b)
BY DEF Integer

\* "in local byte order": words travel unchanged between the client and the
\* simulator (read_uint32, write_uint32), for every byte and word size.
THEOREM WordsAlwaysTravel == CoreSpec => []WordsTravel
<1>1. RegTypeOK => WordsTravel
  <2> SUFFICES ASSUME RegTypeOK, NEW host \in Orders, NEW target \in Orders,
                      NEW v \in {r[PC], r[CPSR]}
               PROVE  /\ Unpacked(target, write_uint32(host, target, v)) = v
                      /\ read_uint32(host, target, Packed(target, v)) = v
    BY DEF WordsTravel
  <2> DEFINE b == Bytes(v)
  <2>1. Integer(b) = v
    BY IntegerOfBytes DEF RegTypeOK, RegisterFile, Slot, PC, CPSR
  <2> HIDE DEF b
  <2>2. \A i \in 0 .. 3 : 3 - i \in 0 .. 3 /\ 3 - (3 - i) = i
    OBVIOUS
  <2>3. Unpacked(target, write_uint32(host, target, v)) = Integer(b)
    <3> DEFINE out == write_uint32(host, target, v)
               got == [i \in 0 .. 3 |-> IF target = 0 THEN out[i] ELSE out[3 - i]]
    <3>1. \A i \in 0 .. 3 : got[i] = b[i]
      BY <2>2 DEF write_uint32, host_bytes, position, Orders, b
    <3> QED
      BY <3>1, SameBytes DEF Unpacked
  <2>4. read_uint32(host, target, Packed(target, v)) = Integer(b)
    <3> DEFINE data == Packed(target, v)
               got == host_bytes(host, [i \in 0 .. 3 |-> data[position(host, target, i)]])
    <3>1. \A i \in 0 .. 3 : got[i] = b[i]
      BY <2>2 DEF host_bytes, position, Packed, Orders, b
    <3> QED
      BY <3>1, SameBytes DEF read_uint32
  <2> QED
    BY <2>1, <2>3, <2>4
<1> QED
  BY <1>1, CoreTyped, PTL

----------------------------------------------------------------------------

\* The sixteen registers of a mode are in sixteen slots, none of them that of the
\* CPSR; the pc is in slot 15 in every mode.
LEMMA SlotsDiffer ==
    ASSUME NEW f \in RegisterFile, NEW m \in 0 .. 15, NEW n \in 0 .. 15
    PROVE  /\ register_slot(f, m) \in Slot \ {CPSR}
           /\ register_slot(f, m) = register_slot(f, n) => m = n
           /\ register_slot(f, PC) = PC
BY ModeRange DEF register_slot, banked, mode_offset, Modes, Slot, CPSR, PC, SVC, ABT, UND, IRQ, FIQ

\* A pc with bit 1 clear is sent as it is stored.
LEMMA PcExact ==
    ASSUME NEW x \in Word, Bit(x, 2) = 0
    PROVE  Wrap(PcValue(x) - 4) = x
<1>1. Wrap(x + 4) \in Word /\ Wrap(x + 4) = IF x + 4 < WordMod THEN x + 4 ELSE x + 4 - WordMod
  BY WrapAdd, WordAssumption DEF Word
<1>2. Bit(Wrap(x + 4), 2) = 0
  BY <1>1, WordAssumption, CoreAssumption DEF Bit, Word
<1>3. PcValue(x) = Wrap(x + 4)
  BY <1>1, <1>2 DEF PcValue, ClearBit1, Word
<1> DEFINE y == Wrap(x + 4)
<1>4. y \in Word /\ y = IF x + 4 < WordMod THEN x + 4 ELSE x + 4 - WordMod
  BY <1>1
<1> HIDE DEF y
<1>5. Wrap(y - 4) = IF y - 4 >= 0 THEN y - 4 ELSE y - 4 + WordMod
  BY <1>4, WrapSub
<1>6. Wrap(y - 4) = x
  BY <1>4, <1>5, WordAssumption DEF Word
<1> QED
  BY <1>3, <1>6 DEF y

\* What g answers, slot by slot.
LEMMA Sent ==
    ASSUME NEW f \in RegisterFile, NEW n \in 0 .. CPSR
    PROVE  /\ n = CPSR => read_general_registers(f)[n] = f[CPSR]
           /\ n = PC => read_general_registers(f)[n] = Wrap(PcValue(f[PC]) - 4)
           /\ n < PC => read_general_registers(f)[n] = f[register_slot(f, n)]
BY FetchPc DEF read_general_registers, sent_register, arm_read_register, read_register,
   read_cpsr, CPSR, PC

\* A G packet restores what a g packet has saved (write_general_registers,
\* read_general_registers), up to the registers banked by the mode at the restore.
THEOREM SavedIsAlwaysRestored == CoreSpec => []SavedIsRestored
<1>1. RegTypeOK => SavedIsRestored
  <2> SUFFICES ASSUME RegTypeOK, NEW packet \in Packets
               PROVE  LET back == write_general_registers(r, packet)
                          shown == read_general_registers(back)
                          written == {register_slot(r, n) : n \in 0 .. 15}
                      IN  /\ \A n \in 0 .. CPSR :
                               \/ shown[n] = packet[n]
                               \/ n < 15 /\ register_slot(back, n) # register_slot(r, n)
                          /\ \A s \in Slot \ {CPSR} : s \in written \/ back[s] = r[s]
    BY DEF SavedIsRestored
  <2> DEFINE back == write_general_registers(r, packet)
             written == {register_slot(r, n) : n \in 0 .. 15}
  <2>1. r \in RegisterFile /\ packet \in [0 .. CPSR -> Word] /\ Bit(packet[PC], 2) = 0
    BY PacketAssumption DEF RegTypeOK
  <2>2. \A n \in 0 .. 15 : /\ register_slot(r, n) \in written \ {CPSR}
                           /\ register_slot(r, n) \in Slot
                           /\ register_at(r, register_slot(r, n)) = n
    BY <2>1, SlotsDiffer DEF register_at
  <2>3. /\ back = [s \in Slot |-> IF s = CPSR THEN packet[CPSR]
                                  ELSE IF s \in written THEN packet[register_at(r, s)]
                                  ELSE r[s]]
    BY <2>1 DEF write_general_registers, write_cpsr, write_some, Slot, CPSR
  <2>4. back \in RegisterFile
    <3>1. \A s \in written : packet[register_at(r, s)] \in Word
      BY <2>1, <2>2 DEF CPSR
    <3>2. packet[CPSR] \in Word /\ \A s \in Slot : r[s] \in Word
      BY <2>1 DEF CPSR, RegisterFile
    <3> HIDE DEF back, written
    <3> QED
      BY <3>1, <3>2, <2>3 DEF RegisterFile
  <2>5. /\ \A n \in 0 .. 15 : back[register_slot(r, n)] = packet[n]
        /\ back[CPSR] = packet[CPSR]
    <3> HIDE DEF back, written
    <3> QED
      BY <2>2, <2>3 DEF Slot, CPSR
  <2>6. \A s \in Slot \ {CPSR} : s \in written \/ back[s] = r[s]
    <3> HIDE DEF back, written
    <3> QED
      BY <2>3
  <2>7. ASSUME NEW n \in 0 .. CPSR, n < 15 => register_slot(back, n) = register_slot(r, n)
        PROVE  read_general_registers(back)[n] = packet[n]
    <3> HIDE DEF back, written
    <3>1. CASE n = CPSR
      BY <3>1, <2>4, <2>5, Sent DEF CPSR
    <3>2. CASE n = PC
      <4>1. back[PC] = packet[PC] /\ packet[PC] \in Word
        BY <2>1, <2>5, SlotsDiffer DEF PC, CPSR
      <4> QED
        BY <3>2, <4>1, <2>1, <2>4, Sent, PcExact DEF PC, CPSR
    <3>3. CASE n \in 0 .. 14
      BY <3>3, <2>4, <2>5, <2>7, Sent DEF PC, CPSR
    <3> QED
      BY <3>1, <3>2, <3>3 DEF PC, CPSR
  <2> QED
    BY <2>6, <2>7
<1> QED
  BY <1>1, CoreTyped, PTL

\* A P packet changes, in what g answers, the register it names and nothing else
\* (write_register and read_register of gdb_protocol.c).
THEOREM WriteIsAlwaysShown == CoreSpec => []WriteIsShown
<1>1. RegTypeOK => WriteIsShown
  <2> SUFFICES ASSUME RegTypeOK, NEW n \in 0 .. 15, NEW v \in RegValues, Bit(v, 2) = 0
               PROVE  LET after == gdb_write_register(r, n, v)
                      IN  /\ read_general_registers(after)
                               = [read_general_registers(r) EXCEPT ![n] = v]
                          /\ n < 10 => gdb_read_register(after, n) = v
    BY DEF WriteIsShown
  <2> DEFINE after == gdb_write_register(r, n, v)
  <2>1. r \in RegisterFile /\ v \in Word
    BY InputAssumption DEF RegTypeOK
  <2>2. after = [r EXCEPT ![register_slot(r, n)] = v]
    BY DEF gdb_write_register, write_register, sscanf_x
  <2>3. after \in RegisterFile
    BY <2>1, <2>2 DEF RegisterFile
  <2> HIDE DEF after
  <2>4. /\ \A s \in Slot : after[s] = IF s = register_slot(r, n) THEN v ELSE r[s]
        /\ after[CPSR] = r[CPSR]
    <3>1. register_slot(r, n) \in Slot \ {CPSR}
      BY <2>1, SlotsDiffer
    <3>2. \A s \in Slot : after[s] = IF s = register_slot(r, n) THEN v ELSE r[s]
      BY <2>1, <2>2 DEF RegisterFile
    <3>3. CPSR \in Slot
      BY DEF Slot, CPSR
    <3> QED
      BY <3>1, <3>2, <3>3
  <2>5. \A k \in 0 .. 15 : register_slot(after, k) = register_slot(r, k)
    BY <2>4 DEF register_slot, banked, get_mode, read_cpsr
  <2>6. \A k \in 0 .. 15 : /\ after[register_slot(r, k)] = IF k = n THEN v ELSE r[register_slot(r, k)]
                           /\ register_slot(r, PC) = PC
    BY <2>1, <2>4, SlotsDiffer
  <2>7. ASSUME NEW k \in 0 .. CPSR
        PROVE  read_general_registers(after)[k] = IF k = n THEN v ELSE read_general_registers(r)[k]
    <3>1. CASE k = CPSR
      BY <3>1, <2>1, <2>3, <2>4, Sent DEF CPSR
    <3>2. CASE k = PC
      BY <3>2, <2>1, <2>3, <2>6, Sent, PcExact DEF PC, CPSR
    <3>3. CASE k \in 0 .. 14
      BY <3>3, <2>1, <2>3, <2>5, <2>6, Sent DEF PC, CPSR
    <3> QED
      BY <3>1, <3>2, <3>3 DEF PC, CPSR
  <2>8. read_general_registers(after) = [read_general_registers(r) EXCEPT ![n] = v]
    BY <2>7 DEF read_general_registers, CPSR
  <2>9. n < 10 => gdb_read_register(after, n) = v
    <3> SUFFICES ASSUME n < 10 PROVE gdb_read_register(after, n) = v
      OBVIOUS
    <3>1. atoi(n) = n
      BY DEF atoi
    <3> QED
      BY <3>1, <2>3, <2>5, <2>6 DEF gdb_read_register, sent_register, arm_read_register, read_register, PC
  <2> QED
    BY <2>8, <2>9 DEF after
<1> QED
  BY <1>1, CoreTyped, PTL

----------------------------------------------------------------------------

\* A line that names register reg of mode m names, for its reader, the slot that
\* registers.c accesses in mode m.
LEMMA NamedGeneral ==
    ASSUME NEW f \in RegisterFile, NEW reg \in 0 .. 15, NEW v
    PROVE  /\ NamedSlot(trace_register(reg, get_mode(f), v)) = register_slot(f, reg)
           /\ NamedSlot(trace_register(reg, USR, v)) = reg
           /\ trace_register(reg, get_mode(f), v).reg = reg
           /\ trace_register(reg, get_mode(f), v).value = v
<1> DEFINE m == get_mode(f)
<1>1. m \in Modes
  BY ModeRange
<1> HIDE DEF m
<1>2. \A k : /\ trace_register(reg, k, v).reg = reg
             /\ trace_register(reg, k, v).value = v
             /\ trace_register(reg, k, v).mode = arm_get_mode_name(k)
  BY DEF trace_register
<1>3. \A k : <<k, reg>> \in Physical <=>
               \/ k = USR
               \/ k = FIQ /\ reg \in 8 .. 14
               \/ k \in {SVC, ABT, UND, IRQ} /\ reg \in {13, 14}
  BY DEF Physical, USR, FIQ, SVC, ABT, UND, IRQ
<1>4. \A k : NamedSlot(trace_register(reg, k, v)) =
               SlotOf(IF <<arm_get_mode_name(k), reg>> \in Physical
                      THEN <<arm_get_mode_name(k), reg>> ELSE <<USR, reg>>)
  BY <1>2 DEF NamedSlot, CPSR, SPSR
<1>5. NamedSlot(trace_register(reg, USR, v)) = reg
  <2>1. arm_get_mode_name(USR) = USR
    BY DEF arm_get_mode_name
  <2>2. SlotOf(<<USR, reg>>) = reg
    BY DEF SlotOf, USR, FIQ, SVC, ABT, UND, IRQ
  <2> QED
    BY <1>4, <2>1, <2>2
<1>6. NamedSlot(trace_register(reg, m, v)) = register_slot(f, reg)
  <2>1. m \notin {USR, FIQ, IRQ, SVC, ABT, UND, SYS} => arm_get_mode_name(m) = 0
    BY DEF arm_get_mode_name
  <2>2. m \in {USR, FIQ, IRQ, SVC, ABT, UND, SYS} => arm_get_mode_name(m) = m
    BY DEF arm_get_mode_name
  <2>3. register_slot(f, reg) =
          IF reg \in {13, 14} \/ (8 <= reg /\ reg <= 12 /\ m = FIQ) THEN reg + mode_offset(m) ELSE reg
    BY DEF register_slot, banked, m
  <2>4. CASE <<arm_get_mode_name(m), reg>> \in Physical
    <3>1. m \in {USR, FIQ, SVC, ABT, UND, IRQ}
      BY <1>1, <1>3, <2>1, <2>2, <2>4 DEF USR, FIQ, SVC, ABT, UND, IRQ, SYS
    <3>2. SlotOf(<<m, reg>>) = register_slot(f, reg)
      BY <1>3, <2>2, <2>3, <2>4, <3>1 DEF SlotOf, mode_offset, USR, FIQ, SVC, ABT, UND, IRQ, SYS
    <3> QED
      BY <1>4, <2>2, <2>4, <3>1, <3>2
  <2>5. CASE <<arm_get_mode_name(m), reg>> \notin Physical
    <3>1. register_slot(f, reg) = reg
      BY <1>1, <1>3, <2>1, <2>2, <2>3, <2>5 DEF mode_offset, Modes, USR, FIQ, SVC, ABT, UND, IRQ, SYS
    <3>2. SlotOf(<<USR, reg>>) = reg
      BY DEF SlotOf, USR, FIQ, SVC, ABT, UND, IRQ
    <3> QED
      BY <1>4, <2>5, <3>1, <3>2
  <2> QED
    BY <2>4, <2>5
<1> QED
  BY <1>2, <1>5, <1>6 DEF m

\* The line of the SPSR names the slot of write_spsr and read_spsr.
LEMMA NamedSpsr ==
    ASSUME NEW f \in RegisterFile, NEW v
    PROVE  /\ NamedSlot(trace_register(SPSR, get_mode(f), v)) = spsr_slot(get_mode(f))
           /\ spsr_slot(get_mode(f)) \in {-1} \cup (32 .. 36)
<1>1. get_mode(f) \in Modes
  BY ModeRange
<1>2. get_mode(f) \in ExceptionModes <=> arm_get_mode_name(get_mode(f)) \in ExceptionModes
  BY <1>1 DEF arm_get_mode_name, ExceptionModes, Modes, USR, FIQ, SVC, ABT, UND, IRQ, SYS
<1>3. get_mode(f) \in ExceptionModes => arm_get_mode_name(get_mode(f)) = get_mode(f)
  BY DEF arm_get_mode_name, ExceptionModes, USR, FIQ, SVC, ABT, UND, IRQ, SYS
<1> DEFINE line == trace_register(SPSR, get_mode(f), v)
<1>4. line.reg = SPSR /\ line.mode = arm_get_mode_name(get_mode(f))
  BY DEF trace_register
<1>5. NamedSlot(line) = IF line.mode \in ExceptionModes THEN SpsrSlotOf(line.mode) ELSE -1
  BY <1>4 DEF NamedSlot, SPSR, CPSR
<1> QED
  BY <1>1, <1>2, <1>3, <1>4, <1>5, SpsrSlot

\* The register trace tells what the accesses of arm_core.c do, in every mode and
\* for every value written.
THEOREM TraceAlwaysReplays == RegSpec => []TraceReplays
<1>1. RegTypeOK => TraceReplays
  <2> SUFFICES ASSUME RegTypeOK PROVE TraceReplays
    OBVIOUS
  <2> DEFINE Right(w) == \A s \in Slot :
                w.after[s] = IF s = NamedSlot(w.line) THEN w.line.value ELSE r[s]
  <2>1. r \in RegisterFile /\ \A v \in RegValues : v \in Word
    BY InputAssumption DEF RegTypeOK
  <2>2. ASSUME NEW reg \in 0 .. 15, NEW v \in RegValues
        PROVE  Right(arm_write_register(r, reg, v))
    <3> DEFINE after == write_register(r, reg, v)
    <3>1. \A s \in Slot : after[s] = IF s = register_slot(r, reg) THEN v ELSE r[s]
      BY <2>1 DEF write_register, RegisterFile
    <3>2. get_mode(after) = get_mode(r)
      <4>1. register_slot(r, reg) \in Slot \ {CPSR}
        BY <2>1, SlotsDiffer
      <4>2. CPSR \in Slot
        BY DEF Slot, CPSR
      <4>3. after[CPSR] = r[CPSR]
        BY <3>1, <4>1, <4>2
      <4> QED
        BY <4>3 DEF get_mode, read_cpsr
    <3>3. /\ arm_write_register(r, reg, v).after = after
          /\ arm_write_register(r, reg, v).line = trace_register(reg, get_mode(r), v)
      BY <3>2 DEF arm_write_register, Traced
    <3> QED
      BY <2>1, <3>1, <3>3, NamedGeneral
  <2>3. ASSUME NEW reg \in 0 .. 15, NEW v \in RegValues
        PROVE  Right(arm_write_usr_register(r, reg, v))
    <3>1. \A s \in Slot : write_usr_register(r, reg, v)[s] = IF s = reg THEN v ELSE r[s]
      BY <2>1 DEF write_usr_register, RegisterFile, Slot
    <3>2. /\ arm_write_usr_register(r, reg, v).after = write_usr_register(r, reg, v)
          /\ arm_write_usr_register(r, reg, v).line = trace_register(reg, USR, v)
          /\ trace_register(reg, USR, v).value = v
      BY DEF arm_write_usr_register, Traced, trace_register
    <3> QED
      BY <2>1, <3>1, <3>2, NamedGeneral
  <2>4. ASSUME NEW v \in CpsrValues
        PROVE  Right(arm_write_cpsr(r, v))
    <3>1. \A s \in Slot : write_cpsr(r, v)[s] = IF s = CPSR THEN v ELSE r[s]
      BY <2>1 DEF write_cpsr, RegisterFile, Slot
    <3>2. /\ arm_write_cpsr(r, v).after = write_cpsr(r, v)
          /\ arm_write_cpsr(r, v).line = trace_register(CPSR, 0, v)
          /\ trace_register(CPSR, 0, v).value = v
          /\ trace_register(CPSR, 0, v).reg = CPSR
      BY DEF arm_write_cpsr, Traced, trace_register
    <3>3. NamedSlot(trace_register(CPSR, 0, v)) = CPSR
      BY <3>2 DEF NamedSlot, CPSR, SPSR
    <3> QED
      BY <3>1, <3>2, <3>3
  <2>5. ASSUME NEW v \in RegValues
        PROVE  Right(arm_write_spsr(r, v))
    <3> DEFINE after == write_spsr(r, v)
               slot == spsr_slot(get_mode(r))
    <3>1. slot \in {-1} \cup (32 .. 36)
      BY <2>1, NamedSpsr
    <3>2. \A s \in Slot : after[s] = IF s = slot THEN v ELSE r[s]
      BY <2>1, <3>1 DEF write_spsr, RegisterFile, Slot
    <3>3. get_mode(after) = get_mode(r)
      BY <3>1, <3>2 DEF get_mode, read_cpsr, Slot, CPSR
    <3>4. /\ arm_write_spsr(r, v).after = after
          /\ arm_write_spsr(r, v).line = trace_register(SPSR, get_mode(r), v)
          /\ trace_register(SPSR, get_mode(r), v).value = v
      BY <3>3 DEF arm_write_spsr, Traced, trace_register
    <3> QED
      BY <2>1, <3>2, <3>4, NamedSpsr
  <2> DEFINE Shows(line) == line.value = CASE line.reg = PC -> ClearBit1(Wrap(r[PC] + 4))
                                           [] NamedSlot(line) = -1 -> 0
                                           [] OTHER -> r[NamedSlot(line)]
  <2>6. \A reg \in 0 .. 15 : Shows(trace_register(reg, get_mode(r), arm_read_register(r, reg)))
    <3> SUFFICES ASSUME NEW reg \in 0 .. 15
                 PROVE  Shows(trace_register(reg, get_mode(r), arm_read_register(r, reg)))
      OBVIOUS
    <3> DEFINE line == trace_register(reg, get_mode(r), arm_read_register(r, reg))
    <3>1. /\ line.reg = reg /\ line.value = arm_read_register(r, reg)
          /\ NamedSlot(line) = register_slot(r, reg)
      BY <2>1, NamedGeneral
    <3>2. register_slot(r, reg) # -1 /\ register_slot(r, PC) = PC
      <4>1. register_slot(r, reg) \in Slot /\ register_slot(r, PC) = PC
        BY <2>1, SlotsDiffer
      <4> QED
        BY <4>1 DEF Slot
    <3> HIDE DEF line
    <3>3. Shows(line)
      BY <3>1, <3>2 DEF arm_read_register, read_register
    <3> QED
      BY <3>3 DEF line
  <2>7. \A reg \in 0 .. 15 : Shows(trace_register(reg, USR, arm_read_usr_register(r, reg)))
    <3> SUFFICES ASSUME NEW reg \in 0 .. 15
                 PROVE  Shows(trace_register(reg, USR, arm_read_usr_register(r, reg)))
      OBVIOUS
    <3>1. /\ trace_register(reg, USR, arm_read_usr_register(r, reg)).reg = reg
          /\ trace_register(reg, USR, arm_read_usr_register(r, reg)).value = arm_read_usr_register(r, reg)
          /\ NamedSlot(trace_register(reg, USR, arm_read_usr_register(r, reg))) = reg
      BY <2>1, NamedGeneral DEF trace_register
    <3> QED
      BY <3>1 DEF arm_read_usr_register, read_usr_register
  <2>8. Shows(trace_register(CPSR, 0, read_cpsr(r)))
    <3>1. /\ trace_register(CPSR, 0, read_cpsr(r)).reg = CPSR
          /\ trace_register(CPSR, 0, read_cpsr(r)).value = r[CPSR]
      BY DEF trace_register, read_cpsr
    <3>2. NamedSlot(trace_register(CPSR, 0, read_cpsr(r))) = CPSR
      BY <3>1 DEF NamedSlot, CPSR, SPSR
    <3> QED
      BY <3>1, <3>2 DEF CPSR, PC
  <2>9. Shows(trace_register(SPSR, get_mode(r), read_spsr(r)))
    <3>1. /\ trace_register(SPSR, get_mode(r), read_spsr(r)).reg = SPSR
          /\ trace_register(SPSR, get_mode(r), read_spsr(r)).value = read_spsr(r)
      BY DEF trace_register
    <3> QED
      BY <2>1, <3>1, NamedSpsr DEF read_spsr, SPSR, PC
  <2> HIDE DEF Right, Shows
  <2>10. \A line \in ReadLines(r) : Shows(line)
    BY <2>6, <2>7, <2>8, <2>9 DEF ReadLines
  <2>11. \A w \in {arm_write_register(r, reg, v) : reg \in 0 .. 15, v \in RegValues}
                  \cup {arm_write_usr_register(r, reg, v) : reg \in 0 .. 15, v \in RegValues}
                  \cup {arm_write_cpsr(r, v) : v \in CpsrValues}
                  \cup {arm_write_spsr(r, v) : v \in RegValues} : Right(w)
    BY <2>2, <2>3, <2>4, <2>5
  <2> QED
    BY <2>10, <2>11 DEF TraceReplays, Right, Shows
<1> QED
  BY <1>1, RegistersTyped, PTL

----------------------------------------------------------------------------
(* The packet link (module GdbLink).                                       *)

\* ErrorBufferFits is not inductive alone: len must be a number first.
LenInv == len \in 0 .. MAX_ERROR_SIZE - 1

\* The index that add_character_to_error and handle_error write is always inside
\* the buffer: see the comment of the property in GdbLink.
THEOREM ErrorBufferAlwaysFits == Spec => []ErrorBufferFits
<1>1. Init => LenInv
  BY LinkAssumption DEF Init, LenInv
<1>2. LenInv /\ [Next]_vars => LenInv'
  <2> SUFFICES ASSUME LenInv, [Next]_vars PROVE LenInv'
    OBVIOUS
  <2>1. CASE Client \/ ClientInterrupt
    BY <2>1 DEF Client, ClientRequest, ClientAck, ClientReply, ClientInterrupt, svars, LenInv
  <2>2. CASE RuleAck \/ RuleNak \/ RulePacket
    <3>1. len' = 0
      BY <2>2, Zenon DEF RuleAck, RuleNak, RulePacket
    <3> QED
      BY <3>1, LinkAssumption DEF LenInv
  <2>3. CASE RuleOther
    BY <2>3, LinkAssumption DEF RuleOther, LenInv
  <2>4. CASE StubSigpipe \/ UNCHANGED vars
    BY <2>4 DEF StubSigpipe, vars, svars, LenInv
  <2> QED
    BY <2>1, <2>2, <2>3, <2>4 DEF Next, Stub
<1>3. LenInv => ErrorBufferFits
  BY LinkAssumption DEF LenInv, ErrorBufferFits
<1> QED
  BY <1>1, <1>2, <1>3, PTL DEF Spec

----------------------------------------------------------------------------
(* What travels in the connection.                                         *)

\* What the scanner of either side makes of the bytes it reads.
Tokens == [n : Nat \cup {-1}, good : BOOLEAN]

\* The last request executed, or the last execution reported; 0 before the first.
Newest(s) == Session!Newest(s)

\* The requests in q are in the order they were made; none is older than lo, the
\* last one executed, and none newer than hi, the last one made.
RequestsInOrder(q, lo, hi) ==
    /\ lo \in 0 .. hi
    /\ \A i \in 1 .. Len(q) : IsPacket(q[i]) => q[i].n \in lo .. hi
    /\ \A i, j \in 1 .. Len(q) : i < j /\ IsPacket(q[i]) /\ IsPacket(q[j]) => q[i].n <= q[j].n

\* The replies in q are in the order of the executions, which are numbered lo, the
\* last reported, to hi, the last one made.  An acknowledgement stands before the
\* reply to the request it acknowledges, so a reply after it is a newer one: this is
\* why a client that waits for an acknowledgement first never takes a reply twice,
\* whatever the scanner adds to the connection for invalid characters.
RepliesInOrder(q, lo, hi, state) ==
    /\ lo \in 0 .. hi
    /\ state = "reply" => lo < hi
    /\ \A i \in 1 .. Len(q) : IsPacket(q[i]) => q[i].n \in lo .. hi /\ (state = "reply" => q[i].n > lo)
    /\ \A i \in 1 .. Len(q) : q[i] = Ack => lo < hi
    /\ \A i, j \in 1 .. Len(q) : i < j =>
         /\ IsPacket(q[i]) /\ IsPacket(q[j]) => q[i].n <= q[j].n
         /\ IsPacket(q[i]) /\ q[j] = Ack => q[i].n < hi
         /\ q[i] = Ack /\ IsPacket(q[j]) => q[j].n > lo
    /\ \A i, k, j \in 1 .. Len(q) :
         i < k /\ k < j /\ IsPacket(q[i]) /\ q[k] = Ack /\ IsPacket(q[j]) => q[i].n < q[j].n

\* The tokens are of these kinds, which a reader tells apart.
LEMMA TokenFacts ==
    /\ Ack \in Tokens /\ Nak \in Tokens /\ Junk \in Tokens
    /\ ~ IsPacket(Ack) /\ ~ IsPacket(Nak) /\ ~ IsPacket(Junk)
    /\ Ack # Nak /\ Ack # Junk /\ Nak # Junk
    /\ \A n \in Nat \ {0}, g \in BOOLEAN :
         /\ Packet(n, g) \in Tokens /\ IsPacket(Packet(n, g)) /\ Packet(n, g).n = n
         /\ Packet(n, g) # Ack /\ Packet(n, g) # Nak /\ Packet(n, g) # Junk
    /\ \A n \in Nat \ {0} : Packet(n, TRUE).good /\ ~ Packet(n, FALSE).good
<1>1. /\ Ack.n = 0 /\ Nak.n = 0 /\ Junk.n = -1 /\ Ack.good = TRUE /\ Nak.good = FALSE
      /\ \A n, g : Packet(n, g).n = n /\ Packet(n, g).good = g
  BY DEF Ack, Nak, Junk, Packet
<1>2. Ack \in Tokens /\ Nak \in Tokens /\ Junk \in Tokens
  BY DEF Ack, Nak, Junk, Tokens
<1>3. \A n \in Nat \ {0}, g \in BOOLEAN : Packet(n, g) \in Tokens
  BY DEF Packet, Tokens
<1>4. Ack # Junk /\ Nak # Junk
  BY <1>1
<1>5. Ack # Nak
  <2>1. Ack.good /\ ~ Nak.good
    BY <1>1, Zenon
  <2> QED
    BY <2>1, Zenon
<1>6. ~ IsPacket(Ack) /\ ~ IsPacket(Nak) /\ ~ IsPacket(Junk)
  BY <1>1 DEF IsPacket
<1>7. ASSUME NEW n \in Nat \ {0}, NEW g \in BOOLEAN
      PROVE  /\ Packet(n, g) \in Tokens /\ IsPacket(Packet(n, g)) /\ Packet(n, g).n = n
             /\ Packet(n, g) # Ack /\ Packet(n, g) # Nak /\ Packet(n, g) # Junk
  BY <1>1, <1>3 DEF IsPacket
<1>8. \A n \in Nat \ {0} : Packet(n, TRUE).good /\ ~ Packet(n, FALSE).good
  BY <1>1, Zenon
<1> QED
  BY <1>2, <1>4, <1>5, <1>6, <1>7, <1>8

\* Reading the first token of a connection.
LEMMA TailOf ==
    ASSUME NEW q \in Seq(Tokens), q # <<>>
    PROVE  /\ Tail(q) \in Seq(Tokens) /\ Len(q) \in Nat \ {0} /\ Len(Tail(q)) = Len(q) - 1
           /\ \A i \in 1 .. Len(Tail(q)) : i + 1 \in 1 .. Len(q) /\ Tail(q)[i] = q[i + 1]
           /\ Head(q) = q[1] /\ Head(q) \in Tokens
OBVIOUS

\* Writing a token at the end of a connection.
LEMMA AppendTo ==
    ASSUME NEW q \in Seq(Tokens), NEW t \in Tokens
    PROVE  /\ Append(q, t) \in Seq(Tokens) /\ Len(q) \in Nat /\ Len(Append(q, t)) = Len(q) + 1
           /\ \A i \in 1 .. Len(Append(q, t)) :
                \/ i \in 1 .. Len(q) /\ Append(q, t)[i] = q[i]
                \/ i = Len(q) + 1 /\ Append(q, t)[i] = t
OBVIOUS

\* Taking the first token keeps the order of the requests; when it is a packet, it may
\* become the last request executed.
LEMMA RequestsTail ==
    ASSUME NEW q \in Seq(Tokens), q # <<>>, NEW lo \in Nat, NEW hi \in Nat, RequestsInOrder(q, lo, hi)
    PROVE  /\ RequestsInOrder(Tail(q), lo, hi)
           /\ IsPacket(Head(q)) => Head(q).n \in lo .. hi /\ RequestsInOrder(Tail(q), Head(q).n, hi)
<1> DEFINE t == Tail(q)
<1>1. /\ Len(q) \in Nat \ {0} /\ Len(t) = Len(q) - 1
      /\ \A i \in 1 .. Len(t) : i + 1 \in 1 .. Len(q) /\ t[i] = q[i + 1]
      /\ Head(q) = q[1] /\ 1 \in 1 .. Len(q)
  BY TailOf
<1> HIDE DEF t
<1>2. \A i, j \in 1 .. Len(t) : i < j => i + 1 < j + 1 /\ 1 < j + 1
  BY <1>1
<1>3. \A i \in 1 .. Len(t) : 1 < i + 1
  BY <1>1
<1>4. RequestsInOrder(t, lo, hi)
  BY <1>1, <1>2 DEF RequestsInOrder
<1>5. ASSUME IsPacket(Head(q)) PROVE Head(q).n \in lo .. hi /\ RequestsInOrder(t, Head(q).n, hi)
  <2> DEFINE h == Head(q).n
  <2>1. h \in lo .. hi /\ h \in 0 .. hi
    BY <1>1, <1>5 DEF RequestsInOrder
  <2>2. \A i \in 1 .. Len(t) : IsPacket(t[i]) => t[i].n \in lo .. hi /\ h <= t[i].n
    BY <1>1, <1>3, <1>5 DEF RequestsInOrder
  <2> HIDE DEF h
  <2>3. \A i \in 1 .. Len(t) : IsPacket(t[i]) => t[i].n \in h .. hi
    BY <2>1, <2>2
  <2>4. RequestsInOrder(t, h, hi)
    BY <1>4, <2>1, <2>3 DEF RequestsInOrder
  <2> QED
    BY <2>1, <2>4 DEF h
<1> QED
  BY <1>4, <1>5 DEF t

\* Writing the last request made, or a token that is no packet, keeps the order.
LEMMA RequestsAppend ==
    ASSUME NEW q \in Seq(Tokens), NEW lo \in Nat, NEW hi \in Nat, RequestsInOrder(q, lo, hi), NEW t \in Tokens
    PROVE  /\ ~ IsPacket(t) => RequestsInOrder(Append(q, t), lo, hi)
           /\ IsPacket(t) /\ t.n = hi => RequestsInOrder(Append(q, t), lo, hi)
           /\ IsPacket(t) /\ t.n = hi + 1 => RequestsInOrder(Append(q, t), lo, hi + 1)
<1> DEFINE a == Append(q, t)
<1>1. /\ Len(q) \in Nat /\ Len(a) = Len(q) + 1
      /\ \A i \in 1 .. Len(a) : \/ i \in 1 .. Len(q) /\ a[i] = q[i]
                                \/ i = Len(q) + 1 /\ a[i] = t
  BY AppendTo
<1> HIDE DEF a
<1>2. /\ lo \in 0 .. hi
      /\ \A i \in 1 .. Len(q) : IsPacket(q[i]) => q[i].n \in lo .. hi
      /\ \A i, j \in 1 .. Len(q) : i < j /\ IsPacket(q[i]) /\ IsPacket(q[j]) => q[i].n <= q[j].n
  BY DEF RequestsInOrder
<1>3. ASSUME ~ IsPacket(t) PROVE RequestsInOrder(a, lo, hi)
  BY <1>1, <1>2, <1>3 DEF RequestsInOrder
<1>4. ASSUME IsPacket(t), NEW top \in Nat, t.n = top, top = hi \/ top = hi + 1 PROVE RequestsInOrder(a, lo, top)
  <2>1. \A i \in 1 .. Len(a) : IsPacket(a[i]) => a[i].n \in lo .. top
    BY <1>1, <1>2, <1>4
  <2>2. \A i, j \in 1 .. Len(a) : i < j => i \in 1 .. Len(q) /\ a[i] = q[i]
    BY <1>1
  <2>3. \A i, j \in 1 .. Len(a) : i < j /\ IsPacket(a[i]) /\ IsPacket(a[j]) => a[i].n <= a[j].n
    BY <1>1, <1>2, <1>4, <2>2
  <2>4. lo \in 0 .. top
    BY <1>2, <1>4
  <2> QED
    BY <2>1, <2>3, <2>4 DEF RequestsInOrder
<1> QED
  BY <1>3, <1>4 DEF a

\* Taking the first token keeps the order of the replies, with the state the client
\* moves to and the reply it takes.
LEMMA RepliesTail ==
    ASSUME NEW q \in Seq(Tokens), q # <<>>, NEW lo \in Nat, NEW hi \in Nat, NEW state,
           RepliesInOrder(q, lo, hi, state)
    PROVE  /\ RepliesInOrder(Tail(q), lo, hi, state)
           /\ Head(q) = Ack => RepliesInOrder(Tail(q), lo, hi, "reply")
           /\ state = "reply" /\ IsPacket(Head(q)) =>
                Head(q).n \in lo + 1 .. hi /\ RepliesInOrder(Tail(q), Head(q).n, hi, "idle")
<1> DEFINE t == Tail(q)
<1>1. /\ Len(q) \in Nat \ {0} /\ Len(t) = Len(q) - 1
      /\ \A i \in 1 .. Len(t) : i + 1 \in 1 .. Len(q) /\ t[i] = q[i + 1]
      /\ Head(q) = q[1] /\ 1 \in 1 .. Len(q)
  BY TailOf
<1> HIDE DEF t
<1>2. \A i, j \in 1 .. Len(t) : i < j => i + 1 < j + 1
  BY <1>1
<1>3. \A i \in 1 .. Len(t) : 1 < i + 1
  BY <1>1
<1>4. RepliesInOrder(t, lo, hi, state)
  <2>1. \A i, k, j \in 1 .. Len(t) :
          i < k /\ k < j /\ IsPacket(t[i]) /\ t[k] = Ack /\ IsPacket(t[j]) => t[i].n < t[j].n
    <3>1. \A i, k, j \in 1 .. Len(q) :
            i < k /\ k < j /\ IsPacket(q[i]) /\ q[k] = Ack /\ IsPacket(q[j]) => q[i].n < q[j].n
      BY DEF RepliesInOrder
    <3> TAKE i, k, j \in 1 .. Len(t)
    <3>2. /\ i + 1 \in 1 .. Len(q) /\ k + 1 \in 1 .. Len(q) /\ j + 1 \in 1 .. Len(q)
          /\ t[i] = q[i + 1] /\ t[k] = q[k + 1] /\ t[j] = q[j + 1]
          /\ i < k => i + 1 < k + 1
          /\ k < j => k + 1 < j + 1
      BY <1>1, <1>2
    <3> QED
      BY <3>1, <3>2
  <2>2. \A i, j \in 1 .. Len(t) : i < j =>
          /\ IsPacket(t[i]) /\ IsPacket(t[j]) => t[i].n <= t[j].n
          /\ IsPacket(t[i]) /\ t[j] = Ack => t[i].n < hi
          /\ t[i] = Ack /\ IsPacket(t[j]) => t[j].n > lo
    BY <1>1, <1>2 DEF RepliesInOrder
  <2> QED
    BY <1>1, <2>1, <2>2 DEF RepliesInOrder
<1>5. ASSUME Head(q) = Ack PROVE RepliesInOrder(t, lo, hi, "reply")
  <2>1. \A i \in 1 .. Len(t) : IsPacket(t[i]) => t[i].n > lo
    BY <1>1, <1>3, <1>5 DEF RepliesInOrder
  <2>2. lo < hi
    BY <1>1, <1>5 DEF RepliesInOrder
  <2> QED
    BY <1>4, <2>1, <2>2 DEF RepliesInOrder
<1>6. ASSUME state = "reply", IsPacket(Head(q))
      PROVE  Head(q).n \in lo + 1 .. hi /\ RepliesInOrder(t, Head(q).n, hi, "idle")
  <2> DEFINE h == Head(q).n
  <2>1. h \in lo .. hi /\ h > lo
    BY <1>1, <1>6 DEF RepliesInOrder
  <2>2. \A i \in 1 .. Len(t) : IsPacket(t[i]) => t[i].n \in lo .. hi /\ h <= t[i].n
    BY <1>1, <1>3, <1>6 DEF RepliesInOrder
  <2>3. \A i \in 1 .. Len(t) : t[i] = Ack => h < hi
    BY <1>1, <1>3, <1>6 DEF RepliesInOrder
  <2>4. \A i, j \in 1 .. Len(t) : i < j /\ t[i] = Ack /\ IsPacket(t[j]) => t[j].n > h
    BY <1>1, <1>2, <1>3, <1>6 DEF RepliesInOrder
  <2> HIDE DEF h
  <2>5. h \in 0 .. hi /\ h \in lo + 1 .. hi /\ \A i \in 1 .. Len(t) : IsPacket(t[i]) => t[i].n \in h .. hi
    BY <2>1, <2>2
  <2>6. RepliesInOrder(t, h, hi, "idle")
    BY <1>4, <2>3, <2>4, <2>5 DEF RepliesInOrder
  <2> QED
    BY <2>5, <2>6 DEF h
<1> QED
  BY <1>4, <1>5, <1>6 DEF t

\* So does a refusal written by the stub.
LEMMA RepliesNak ==
    ASSUME NEW q \in Seq(Tokens), NEW lo \in Nat, NEW hi \in Nat, NEW state,
           RepliesInOrder(q, lo, hi, state)
    PROVE  RepliesInOrder(Append(q, Nak), lo, hi, state)
<1> DEFINE a == Append(q, Nak)
<1>1. /\ Len(q) \in Nat /\ Len(a) = Len(q) + 1
      /\ \A i \in 1 .. Len(a) : \/ i \in 1 .. Len(q) /\ a[i] = q[i]
                                \/ i = Len(q) + 1 /\ a[i] = Nak
  BY AppendTo, TokenFacts
<1> HIDE DEF a
<1>2. \A i \in 1 .. Len(a) : IsPacket(a[i]) \/ a[i] = Ack => i \in 1 .. Len(q) /\ a[i] = q[i]
  BY <1>1, TokenFacts
<1>3. RepliesInOrder(a, lo, hi, state)
  <2>1. \A i, k, j \in 1 .. Len(a) :
          i < k /\ k < j /\ IsPacket(a[i]) /\ a[k] = Ack /\ IsPacket(a[j]) => a[i].n < a[j].n
    BY <1>2 DEF RepliesInOrder
  <2>2. \A i, j \in 1 .. Len(a) : i < j =>
          /\ IsPacket(a[i]) /\ IsPacket(a[j]) => a[i].n <= a[j].n
          /\ IsPacket(a[i]) /\ a[j] = Ack => a[i].n < hi
          /\ a[i] = Ack /\ IsPacket(a[j]) => a[j].n > lo
    BY <1>2 DEF RepliesInOrder
  <2> QED
    BY <1>2, <2>1, <2>2 DEF RepliesInOrder
<1> QED
  BY <1>3 DEF a

\* So does the last packet sent again by gdb_transmit_packet.
LEMMA RepliesAgain ==
    ASSUME NEW q \in Seq(Tokens), NEW lo \in Nat, NEW hi \in Nat \ {0}, NEW state,
           RepliesInOrder(q, lo, hi, state), NEW p \in Tokens, IsPacket(p), p.n = hi
    PROVE  RepliesInOrder(Append(q, p), lo, hi, state)
<1> DEFINE a == Append(q, p)
<1>1. /\ Len(q) \in Nat /\ Len(a) = Len(q) + 1
      /\ \A i \in 1 .. Len(a) : \/ i \in 1 .. Len(q) /\ a[i] = q[i]
                                \/ i = Len(q) + 1 /\ a[i] = p
  BY AppendTo
<1> HIDE DEF a
<1>2. p # Ack
  BY TokenFacts
<1>3. \A i, j \in 1 .. Len(a) : i < j => i \in 1 .. Len(q) /\ a[i] = q[i]
  BY <1>1
<1>4. /\ lo \in 0 .. hi
      /\ state = "reply" => lo < hi
      /\ \A i \in 1 .. Len(q) : IsPacket(q[i]) => q[i].n \in lo .. hi /\ (state = "reply" => q[i].n > lo)
      /\ \A i \in 1 .. Len(q) : q[i] = Ack => lo < hi
      /\ \A i, j \in 1 .. Len(q) : i < j =>
           /\ IsPacket(q[i]) /\ IsPacket(q[j]) => q[i].n <= q[j].n
           /\ IsPacket(q[i]) /\ q[j] = Ack => q[i].n < hi
           /\ q[i] = Ack /\ IsPacket(q[j]) => q[j].n > lo
      /\ \A i, k, j \in 1 .. Len(q) :
           i < k /\ k < j /\ IsPacket(q[i]) /\ q[k] = Ack /\ IsPacket(q[j]) => q[i].n < q[j].n
  BY DEF RepliesInOrder
<1>5. \A i \in 1 .. Len(a) : IsPacket(a[i]) => a[i].n \in lo .. hi /\ (state = "reply" => a[i].n > lo)
  BY <1>1, <1>4
<1>6. \A i \in 1 .. Len(a) : a[i] = Ack => lo < hi
  BY <1>1, <1>2, <1>4
<1>7. ASSUME NEW i \in 1 .. Len(a), NEW j \in 1 .. Len(a), i < j
      PROVE  /\ IsPacket(a[i]) /\ IsPacket(a[j]) => a[i].n <= a[j].n
             /\ IsPacket(a[i]) /\ a[j] = Ack => a[i].n < hi
             /\ a[i] = Ack /\ IsPacket(a[j]) => a[j].n > lo
  <2>1. i \in 1 .. Len(q) /\ a[i] = q[i]
    BY <1>3, <1>7
  <2>2. CASE j \in 1 .. Len(q) /\ a[j] = q[j]
    BY <1>4, <1>7, <2>1, <2>2
  <2>3. CASE a[j] = p
    BY <1>2, <1>4, <2>1, <2>3
  <2> QED
    BY <1>1, <2>2, <2>3
<1>8. ASSUME NEW i \in 1 .. Len(a), NEW k \in 1 .. Len(a), NEW j \in 1 .. Len(a), i < k, k < j,
             IsPacket(a[i]), a[k] = Ack, IsPacket(a[j])
      PROVE  a[i].n < a[j].n
  <2>1. i \in 1 .. Len(q) /\ a[i] = q[i] /\ k \in 1 .. Len(q) /\ a[k] = q[k]
    BY <1>3, <1>8
  <2>2. CASE j \in 1 .. Len(q) /\ a[j] = q[j]
    BY <1>4, <1>8, <2>1, <2>2
  <2>3. CASE a[j] = p
    BY <1>4, <1>8, <2>1, <2>3
  <2> QED
    BY <1>1, <2>2, <2>3
<1>9. RepliesInOrder(a, lo, hi, state)
  BY <1>4, <1>5, <1>6, <1>7, <1>8 DEF RepliesInOrder
<1> QED
  BY <1>9 DEF a

\* So do the acknowledgement and the reply of a new execution.
LEMMA RepliesNew ==
    ASSUME NEW q \in Seq(Tokens), NEW lo \in Nat, NEW hi \in Nat, NEW state,
           RepliesInOrder(q, lo, hi, state)
    PROVE  RepliesInOrder(Append(q, Ack), lo, hi + 1, state)
<1> DEFINE a == Append(q, Ack)
<1>1. /\ Len(q) \in Nat /\ Len(a) = Len(q) + 1
      /\ \A i \in 1 .. Len(a) : \/ i \in 1 .. Len(q) /\ a[i] = q[i]
                                \/ i = Len(q) + 1 /\ a[i] = Ack
  BY AppendTo, TokenFacts
<1> HIDE DEF a
<1>2. ~ IsPacket(Ack)
  BY TokenFacts
<1>3. \A i, j \in 1 .. Len(a) : i < j => i \in 1 .. Len(q) /\ a[i] = q[i]
  BY <1>1
<1>4. \A i \in 1 .. Len(a) : IsPacket(a[i]) => i \in 1 .. Len(q) /\ a[i] = q[i]
  BY <1>1, <1>2
<1>5. /\ lo \in 0 .. hi
      /\ \A i \in 1 .. Len(q) : IsPacket(q[i]) => q[i].n \in lo .. hi /\ (state = "reply" => q[i].n > lo)
      /\ \A i, j \in 1 .. Len(q) : i < j =>
           /\ IsPacket(q[i]) /\ IsPacket(q[j]) => q[i].n <= q[j].n
           /\ q[i] = Ack /\ IsPacket(q[j]) => q[j].n > lo
      /\ \A i, k, j \in 1 .. Len(q) :
           i < k /\ k < j /\ IsPacket(q[i]) /\ q[k] = Ack /\ IsPacket(q[j]) => q[i].n < q[j].n
  BY DEF RepliesInOrder
<1>6. \A i \in 1 .. Len(a) : IsPacket(a[i]) =>
         a[i].n \in lo .. hi + 1 /\ a[i].n < hi + 1 /\ (state = "reply" => a[i].n > lo)
  BY <1>4, <1>5
<1>7. \A i, j \in 1 .. Len(a) : i < j =>
        /\ IsPacket(a[i]) /\ IsPacket(a[j]) => a[i].n <= a[j].n
        /\ IsPacket(a[i]) /\ a[j] = Ack => a[i].n < hi + 1
        /\ a[i] = Ack /\ IsPacket(a[j]) => a[j].n > lo
  BY <1>3, <1>4, <1>5, <1>6
<1>8. \A i, k, j \in 1 .. Len(a) :
        i < k /\ k < j /\ IsPacket(a[i]) /\ a[k] = Ack /\ IsPacket(a[j]) => a[i].n < a[j].n
  BY <1>3, <1>4, <1>5
<1>9. lo \in 0 .. hi + 1 /\ lo < hi + 1
  BY <1>5
<1>10. RepliesInOrder(a, lo, hi + 1, state)
  BY <1>6, <1>7, <1>8, <1>9 DEF RepliesInOrder
<1> QED
  BY <1>10 DEF a

----------------------------------------------------------------------------
(* The order of requests and replies is kept by every step.                *)

\* What holds of the connection whether or not Ctrl-C was typed.
LineInv ==
    /\ toStub \in Seq(Tokens) /\ toGdb \in Seq(Tokens) /\ client \in {"idle", "ack", "reply", "closed"}
    /\ sent \in 0 .. MaxRequests /\ interrupts \in Nat /\ len \in Nat /\ last \in Nat
    /\ log \in Seq(Nat) /\ answers \in Seq(Nat) /\ (stub = "scan" => last = Len(log))
    /\ Len(answers) = (IF client = "idle" THEN sent ELSE sent - 1)
    /\ RequestsInOrder(toStub, Newest(log), sent)
    /\ RepliesInOrder(toGdb, Newest(answers), Len(log), client)

\* The last element of a sequence of numbers.
LEMMA NewestOf ==
    ASSUME NEW s \in Seq(Nat)
    PROVE  /\ Newest(s) \in Nat /\ Len(s) \in Nat
           /\ \A x \in Nat : Append(s, x) \in Seq(Nat) /\ Newest(Append(s, x)) = x /\ Len(Append(s, x)) = Len(s) + 1
<1>1. Newest(s) \in Nat /\ Len(s) \in Nat
  BY DEF Newest, Session!Newest
<1>2. ASSUME NEW x \in Nat
      PROVE  Append(s, x) \in Seq(Nat) /\ Newest(Append(s, x)) = x /\ Len(Append(s, x)) = Len(s) + 1
  BY DEF Newest, Session!Newest
<1> QED
  BY <1>1, <1>2

\* The types of the numbers LineInv speaks of.
LEMMA Types ==
    ASSUME LineInv
    PROVE  /\ Newest(log) \in Nat /\ Len(log) \in Nat /\ Newest(answers) \in Nat /\ sent \in Nat
           /\ Len(answers) \in Nat /\ Newest(log) <= sent /\ MaxRequests \in Nat
BY NewestOf, LinkAssumption DEF LineInv, RequestsInOrder

\* Concatenating one token, or none.
LEMMA Appended ==
    ASSUME NEW q \in Seq(Tokens), NEW x \in Tokens
    PROVE  q \o <<x>> = Append(q, x) /\ q \o <<>> = q
OBVIOUS

\* What handle_error sends before the answer keeps the order of the replies, and is
\* nothing when no invalid character is in the buffer.
LEMMA ErrorReply ==
    ASSUME LineInv
    PROVE  LET e == toGdb \o error_reply
           IN  /\ e \in Seq(Tokens) /\ RepliesInOrder(e, Newest(answers), Len(log), client)
               /\ len = 0 => e = toGdb
<1>1. toGdb \in Seq(Tokens) /\ RepliesInOrder(toGdb, Newest(answers), Len(log), client) /\ len \in Nat
  BY DEF LineInv
<1>2. CASE len > 0
  <2>1. toGdb \o error_reply = Append(toGdb, Nak)
    BY <1>1, <1>2, Appended, TokenFacts DEF error_reply
  <2> QED
    BY <1>1, <1>2, <2>1, Types, RepliesNak, AppendTo, TokenFacts
<1>3. CASE ~ (len > 0)
  <2>1. toGdb \o error_reply = toGdb
    BY <1>1, <1>3, Appended, TokenFacts DEF error_reply
  <2> QED
    BY <1>1, <2>1
<1> QED
  BY <1>2, <1>3

\* A packet put in the connection arrives, altered or not.
LEMMA PutPacket ==
    ASSUME NEW q, NEW q2, NEW n \in Nat \ {0}, Put(q, q2, n)
    PROVE  \E g \in BOOLEAN : q2 = Append(q, Packet(n, g))
BY Zenon DEF Put

\* gdb makes a request.
LEMMA RequestKeepsLine == ASSUME LineInv, ClientRequest PROVE LineInv'
<1>1. PICK g \in BOOLEAN : toStub' = Append(toStub, Packet(sent + 1, g))
  <2>1. Put(toStub, toStub', sent + 1) /\ sent + 1 \in Nat \ {0}
    BY Types DEF ClientRequest
  <2> QED
    BY <2>1, PutPacket
<1> DEFINE p == Packet(sent + 1, g)
<1>2. p \in Tokens /\ IsPacket(p) /\ p.n = sent + 1
  <2>1. sent + 1 \in Nat \ {0}
    BY Types
  <2> QED
    BY <2>1, TokenFacts
<1>3. toStub' = Append(toStub, p)
  BY <1>1
<1> HIDE DEF p
<1>4. toStub' \in Seq(Tokens) /\ RequestsInOrder(toStub', Newest(log), sent + 1)
  BY <1>2, <1>3, Types, AppendTo, RequestsAppend DEF LineInv
<1>5. /\ client = "idle" /\ client' = "ack" /\ sent' = sent + 1 /\ sent < MaxRequests
      /\ UNCHANGED <<toGdb, answers, interrupts, stub, len, last, log>>
  BY DEF ClientRequest, svars
<1>6. Newest(log') = Newest(log) /\ Newest(answers') = Newest(answers)
  BY <1>5
<1>7. RepliesInOrder(toGdb', Newest(answers'), Len(log'), client')
  BY <1>5, <1>6 DEF LineInv, RepliesInOrder
<1>8. sent' \in 0 .. MaxRequests /\ Len(answers) = sent /\ Len(answers') = sent' - 1
  BY <1>5, Types DEF LineInv
<1>9. RequestsInOrder(toStub', Newest(log'), sent')
  BY <1>4, <1>5, <1>6
<1> QED
  BY <1>4, <1>5, <1>7, <1>8, <1>9 DEF LineInv

\* gdb waits for the acknowledgement of its packet.
LEMMA AckKeepsLine == ASSUME LineInv, ClientAck PROVE LineInv'
<1>1. /\ client = "ack" /\ toGdb # <<>> /\ toGdb' = Tail(toGdb)
      /\ UNCHANGED <<sent, answers, interrupts, stub, len, last, log>>
  BY DEF ClientAck, svars
<1>2. toGdb' \in Seq(Tokens)
  BY <1>1, TailOf DEF LineInv
<1>3. Newest(log') = Newest(log) /\ Newest(answers') = Newest(answers)
  BY <1>1
<1>4. /\ RepliesInOrder(toGdb', Newest(answers), Len(log), "ack")
      /\ Head(toGdb) = Ack => RepliesInOrder(toGdb', Newest(answers), Len(log), "reply")
  BY <1>1, Types, RepliesTail DEF LineInv
<1>5. CASE Head(toGdb) = Ack /\ client' \in {"reply", "closed"} /\ UNCHANGED <<toStub, noise>>
  <2>1. RepliesInOrder(toGdb', Newest(answers), Len(log), "closed")
    BY <1>4 DEF RepliesInOrder
  <2>2. RepliesInOrder(toGdb', Newest(answers), Len(log), client')
    BY <1>4, <1>5, <2>1
  <2> QED
    BY <1>1, <1>2, <1>3, <1>5, <2>2 DEF LineInv
<1>6. CASE Head(toGdb) = Nak /\ Put(toStub, toStub', sent) /\ UNCHANGED client
  <2>1. sent \in Nat \ {0}
    BY <1>1, Types DEF LineInv
  <2>2. PICK g \in BOOLEAN : toStub' = Append(toStub, Packet(sent, g))
    BY <1>6, <2>1, PutPacket
  <2> DEFINE p == Packet(sent, g)
  <2>3. p \in Tokens /\ IsPacket(p) /\ p.n = sent /\ toStub' = Append(toStub, p)
    BY <2>1, <2>2, TokenFacts
  <2> HIDE DEF p
  <2>4. toStub' \in Seq(Tokens) /\ RequestsInOrder(toStub', Newest(log), sent)
    BY <2>3, Types, AppendTo, RequestsAppend DEF LineInv
  <2> QED
    BY <1>1, <1>2, <1>3, <1>4, <1>6, <2>4 DEF LineInv
<1>7. CASE toStub' = Append(toStub, Ack) /\ UNCHANGED <<client, noise>>
  <2>1. toStub' \in Seq(Tokens) /\ RequestsInOrder(toStub', Newest(log), sent)
    BY <1>7, Types, AppendTo, RequestsAppend, TokenFacts DEF LineInv
  <2> QED
    BY <1>1, <1>2, <1>3, <1>4, <1>7, <2>1 DEF LineInv
<1> QED
  BY <1>5, <1>6, <1>7 DEF ClientAck

\* gdb waits for the reply: the one it takes is newer than every one it took before.
LEMMA ReplyKeepsLine ==
    ASSUME LineInv, ClientReply
    PROVE  /\ LineInv'
           /\ \/ UNCHANGED answers
              \/ Head(toGdb).n \in Newest(answers) + 1 .. Len(log) /\ answers' = Append(answers, Head(toGdb).n)
<1>1. /\ client = "reply" /\ toGdb # <<>> /\ toGdb' = Tail(toGdb)
      /\ UNCHANGED <<sent, noise, interrupts, stub, len, last, log>>
  BY DEF ClientReply, svars
<1> DEFINE s == Head(toGdb)
<1>2. toGdb' \in Seq(Tokens)
  BY <1>1, TailOf DEF LineInv
<1>3. Newest(log') = Newest(log)
  BY <1>1
<1>4. /\ RepliesInOrder(toGdb', Newest(answers), Len(log), "reply")
      /\ IsPacket(s) => s.n \in Newest(answers) + 1 .. Len(log) /\ RepliesInOrder(toGdb', s.n, Len(log), "idle")
  BY <1>1, Types, RepliesTail DEF LineInv
<1> HIDE DEF s
<1>5. ASSUME NEW t \in {Ack, Nak}, toStub' = Append(toStub, t)
      PROVE  toStub' \in Seq(Tokens) /\ RequestsInOrder(toStub', Newest(log), sent)
  BY <1>5, Types, AppendTo, RequestsAppend, TokenFacts DEF LineInv
<1>6. CASE UNCHANGED <<toStub, client, answers>>
  BY <1>1, <1>2, <1>3, <1>4, <1>6 DEF LineInv
<1>7. CASE IsPacket(s) /\ toStub' = Append(toStub, Ack) /\ client' = "idle" /\ answers' = Append(answers, s.n)
  <2>1. s.n \in Nat /\ s.n \in Newest(answers) + 1 .. Len(log)
    BY <1>4, <1>7, Types
  <2>2. answers' \in Seq(Nat) /\ Newest(answers') = s.n /\ Len(answers') = Len(answers) + 1
    BY <1>7, <2>1, NewestOf DEF LineInv
  <2>3. RepliesInOrder(toGdb', Newest(answers'), Len(log'), client')
    BY <1>1, <1>4, <1>7, <2>2
  <2>4. Len(answers') = sent'
    BY <1>1, <2>2, Types DEF LineInv
  <2> QED
    BY <1>1, <1>2, <1>3, <1>5, <1>7, <2>1, <2>2, <2>3, <2>4 DEF LineInv, s
<1>8. CASE toStub' = Append(toStub, Nak) /\ UNCHANGED <<client, answers>>
  BY <1>1, <1>2, <1>3, <1>4, <1>5, <1>8 DEF LineInv
<1> QED
  BY <1>6, <1>7, <1>8 DEF ClientReply, s

\* The user types Ctrl-C.
LEMMA InterruptKeepsLine == ASSUME LineInv, ClientInterrupt PROVE LineInv'
<1>1. /\ toStub' = Append(toStub, Junk) /\ interrupts' = interrupts + 1
      /\ UNCHANGED <<toGdb, client, sent, answers, noise, stub, len, last, log>>
  BY DEF ClientInterrupt, svars
<1>2. toStub' \in Seq(Tokens) /\ RequestsInOrder(toStub', Newest(log), sent)
  BY <1>1, Types, AppendTo, RequestsAppend, TokenFacts DEF LineInv
<1>3. Newest(log') = Newest(log) /\ Newest(answers') = Newest(answers)
  BY <1>1
<1> QED
  BY <1>1, <1>2, <1>3 DEF LineInv

\* What each rule of the scanner does to the requests in the connection.
LEMMA TokenTaken ==
    ASSUME LineInv, NEW t, Read(t)
    PROVE  /\ toStub' \in Seq(Tokens) /\ toStub # <<>> /\ t = Head(toStub)
           /\ RequestsInOrder(toStub', Newest(log), sent)
           /\ IsPacket(t) => t.n \in Newest(log) .. sent /\ RequestsInOrder(toStub', t.n, sent)
<1>1. toStub # <<>> /\ t = Head(toStub) /\ toStub' = Tail(toStub)
  BY DEF Read
<1>2. toStub \in Seq(Tokens) /\ RequestsInOrder(toStub, Newest(log), sent)
  BY DEF LineInv
<1>3. /\ RequestsInOrder(Tail(toStub), Newest(log), sent)
      /\ IsPacket(Head(toStub)) =>
           Head(toStub).n \in Newest(log) .. sent /\ RequestsInOrder(Tail(toStub), Head(toStub).n, sent)
  BY <1>1, <1>2, Types, RequestsTail
<1>4. Tail(toStub) \in Seq(Tokens)
  BY <1>1, <1>2, TailOf
<1> QED
  BY <1>1, <1>3, <1>4

\* The rules of the scanner that execute nothing.
LEMMA SimpleRulesKeepLine == ASSUME LineInv, RuleAck \/ RuleNak \/ RuleOther PROVE LineInv'
<1> DEFINE e == toGdb \o error_reply
<1>1. e \in Seq(Tokens) /\ RepliesInOrder(e, Newest(answers), Len(log), client)
  BY ErrorReply
<1>2. UNCHANGED <<client, sent, answers, interrupts, stub, last, log>>
  BY DEF RuleAck, RuleNak, RuleOther, cvars
<1>3. Newest(log') = Newest(log) /\ Newest(answers') = Newest(answers)
  BY <1>2
<1>4. toStub' \in Seq(Tokens) /\ RequestsInOrder(toStub', Newest(log), sent)
  BY TokenTaken DEF RuleAck, RuleNak, RuleOther, Token
<1>5. len' \in Nat
  BY DEF RuleAck, RuleNak, RuleOther, LineInv
<1>6. toGdb' \in Seq(Tokens) /\ RepliesInOrder(toGdb', Newest(answers), Len(log), client)
  <2>1. CASE toGdb' = e \/ toGdb' = toGdb
    BY <1>1, <2>1 DEF LineInv
  <2>2. CASE Token(Nak) /\ last # 0 /\ Put(e, toGdb', last)
    <3>1. last \in Nat \ {0} /\ last = Len(log)
      BY <2>2, Types DEF LineInv, Token, Writes
    <3>2. PICK g \in BOOLEAN : toGdb' = Append(e, Packet(last, g))
      BY <2>2, <3>1, PutPacket
    <3> DEFINE p == Packet(last, g)
    <3>3. p \in Tokens /\ IsPacket(p) /\ p.n = Len(log) /\ toGdb' = Append(e, p)
      BY <3>1, <3>2, TokenFacts
    <3> HIDE DEF p, e
    <3> QED
      BY <1>1, <3>1, <3>3, Types, AppendTo, RepliesAgain
  <2> QED
    BY <2>1, <2>2 DEF RuleAck, RuleNak, RuleOther
<1> HIDE DEF e
<1> QED
  BY <1>2, <1>3, <1>4, <1>5, <1>6 DEF LineInv

\* The write that ends the process changes nothing else.
LEMMA SigpipeKeepsLine == ASSUME LineInv, StubSigpipe PROVE LineInv'
<1>1. UNCHANGED <<toGdb, client, sent, answers, interrupts, len, last, log>> /\ stub' = "dead"
  BY DEF StubSigpipe, cvars
<1>2. Newest(log') = Newest(log) /\ Newest(answers') = Newest(answers)
  BY <1>1
<1>3. toStub' \in Seq(Tokens) /\ RequestsInOrder(toStub', Newest(log), sent)
  BY TokenTaken DEF StubSigpipe
<1> QED
  BY <1>1, <1>2, <1>3 DEF LineInv

\* gdb_packet_analysis: the request it hands to its handler is not older than the last
\* one executed.
LEMMA PacketKeepsLine ==
    ASSUME LineInv, RulePacket
    PROVE  /\ LineInv'
           /\ \/ UNCHANGED log
              \/ \E n \in 1 .. MaxRequests :
                   /\ Token(Packet(n, TRUE)) /\ n \in Newest(log) .. sent /\ log' = Append(log, n)
<1> DEFINE e == toGdb \o error_reply
<1>1. e \in Seq(Tokens) /\ RepliesInOrder(e, Newest(answers), Len(log), client)
  BY ErrorReply
<1> HIDE DEF e
<1>2. UNCHANGED <<client, sent, answers, interrupts>> /\ len' = 0
  BY DEF RulePacket, cvars
<1>3. PICK n \in 1 .. MaxRequests : Refuse(n) \/ Serve(n) \/ ServeSilently(n)
  BY DEF RulePacket
<1>4. Newest(answers') = Newest(answers) /\ n \in Nat \ {0}
  BY <1>2, LinkAssumption
<1>5. CASE Refuse(n)
  <2>6. Token(Packet(n, FALSE)) /\ toGdb' = e \o <<Nak>> /\ UNCHANGED <<noise, stub, last, log>>
    BY <1>5 DEF Refuse, e
  <2>1. toStub' \in Seq(Tokens) /\ RequestsInOrder(toStub', Newest(log), sent)
    BY <2>6, TokenTaken DEF Token
  <2>2. toGdb' = Append(e, Nak)
    BY <1>1, <2>6, Appended, TokenFacts
  <2>3. toGdb' \in Seq(Tokens) /\ RepliesInOrder(toGdb', Newest(answers), Len(log), client)
    BY <1>1, <2>2, Types, AppendTo, RepliesNak, TokenFacts
  <2>4. Newest(log') = Newest(log)
    BY <2>6
  <2>5. len' \in Nat
    BY <1>2
  <2> QED
    BY <1>2, <1>4, <2>1, <2>3, <2>4, <2>5, <2>6 DEF LineInv
<1> DEFINE a == Append(e, Ack)
<1>6. a \in Seq(Tokens) /\ RepliesInOrder(a, Newest(answers), Len(log) + 1, client) /\ e \o <<Ack>> = a
  BY <1>1, Types, Appended, AppendTo, RepliesNew, TokenFacts
<1> HIDE DEF a
<1>7. ASSUME Token(Packet(n, TRUE)), log' = Append(log, n)
      PROVE  /\ toStub' \in Seq(Tokens) /\ n \in Newest(log) .. sent
             /\ log' \in Seq(Nat) /\ Newest(log') = n /\ Len(log') = Len(log) + 1
             /\ RequestsInOrder(toStub', Newest(log'), sent')
  <2>1. IsPacket(Packet(n, TRUE)) /\ Packet(n, TRUE).n = n
    BY <1>4, TokenFacts
  <2>2. toStub' \in Seq(Tokens) /\ n \in Newest(log) .. sent /\ RequestsInOrder(toStub', n, sent)
    BY <1>7, <2>1, TokenTaken DEF Token
  <2>3. log' \in Seq(Nat) /\ Newest(log') = n /\ Len(log') = Len(log) + 1
    BY <1>4, <1>7, NewestOf DEF LineInv
  <2> QED
    BY <1>2, <2>2, <2>3
<1>8. CASE Serve(n)
  <2>1. /\ Token(Packet(n, TRUE)) /\ log' = Append(log, n) /\ last' = Len(log')
        /\ Put(a, toGdb', last')
    BY <1>6, <1>8 DEF Serve, e
  <2>2. last' \in Nat \ {0} /\ last' = Len(log) + 1
    BY <1>7, <2>1, Types
  <2>3. PICK g \in BOOLEAN : toGdb' = Append(a, Packet(last', g))
    <3> DEFINE k == last'
    <3>1. k \in Nat \ {0} /\ Put(a, toGdb', k)
      BY <2>1, <2>2
    <3> HIDE DEF k
    <3>2. \E g \in BOOLEAN : toGdb' = Append(a, Packet(k, g))
      BY <3>1, PutPacket
    <3> QED
      BY <3>2 DEF k
  <2> DEFINE p == Packet(last', g)
  <2>4. toGdb' = Append(a, p) /\ p \in Tokens /\ IsPacket(p) /\ p.n = Len(log) + 1
    BY <2>2, <2>3, TokenFacts
  <2> HIDE DEF p
  <2>5. toGdb' \in Seq(Tokens) /\ RepliesInOrder(toGdb', Newest(answers), Len(log) + 1, client)
    <3>1. Len(log) + 1 \in Nat \ {0}
      BY Types
    <3> QED
      BY <1>6, <2>4, <3>1, Types, AppendTo, RepliesAgain
  <2>6. len' \in Nat /\ last' \in Nat
    BY <1>2, <2>2
  <2>7. RepliesInOrder(toGdb', Newest(answers'), Len(log'), client')
    BY <1>2, <1>4, <1>7, <2>1, <2>5
  <2>8. LineInv'
    BY <1>2, <1>7, <2>1, <2>5, <2>6, <2>7 DEF LineInv
  <2> QED
    BY <1>7, <2>1, <2>8
<1>9. CASE ServeSilently(n)
  <2>1. /\ Token(Packet(n, TRUE)) /\ log' = Append(log, n) /\ toGdb' = a
        /\ stub' # "scan" /\ UNCHANGED last
    BY <1>6, <1>9 DEF ServeSilently, e
  <2>2. len' \in Nat
    BY <1>2
  <2>3. RepliesInOrder(toGdb', Newest(answers'), Len(log'), client')
    BY <1>2, <1>4, <1>6, <1>7, <2>1
  <2>4. LineInv'
    BY <1>2, <1>6, <1>7, <2>1, <2>2, <2>3 DEF LineInv
  <2> QED
    BY <1>7, <2>1, <2>4
<1> QED
  BY <1>3, <1>5, <1>8, <1>9

----------------------------------------------------------------------------
(* Without Ctrl-C the exchange goes from phase to phase.                   *)

\* The requests up to k were executed, each of them once.
Done(k) == Len(log) = k /\ Newest(log) = k

\* The exchange of a session without Ctrl-C is at all times in one of seven phases: there
\* is no request under way;
AtRest == client = "idle" /\ toGdb = <<>> /\ (toStub = <<>> \/ toStub = <<Ack>>) /\ Done(sent)

\* the request is on its way, behind the acknowledgement of the answer before it;
Asked ==
    /\ client = "ack" /\ toGdb = <<>> /\ Done(sent - 1)
    /\ \E g \in BOOLEAN : toStub = <<Packet(sent, g)>> \/ toStub = <<Ack, Packet(sent, g)>>

\* the request arrived altered, and its refusal is on its way;
Refused == client = "ack" /\ toGdb = <<Nak>> /\ toStub = <<>> /\ Done(sent - 1)

\* the request was executed, and its acknowledgement and its reply are on their way;
Accepted ==
    /\ client = "ack" /\ toStub = <<>> /\ Done(sent) /\ sent # kill
    /\ \E g \in BOOLEAN : toGdb = <<Ack, Packet(sent, g)>>

\* gdb has read the acknowledgement, and the reply is on its way;
Answered ==
    /\ client = "reply" /\ toStub = <<>> /\ Done(sent)
    /\ \E g \in BOOLEAN : toGdb = <<Packet(sent, g)>>

\* the reply arrived altered, and its refusal is on its way;
Unread == client = "reply" /\ toStub = <<Nak>> /\ toGdb = <<>> /\ Done(sent)

\* or the request was executed and acknowledged, and no reply will come.
Silent ==
    /\ toStub = <<>> /\ Done(sent)
    /\ \/ client = "ack" /\ toGdb = <<Ack>>
       \/ client \in {"reply", "closed"} /\ toGdb = <<>>

\* Until Ctrl-C is typed, one packet at a time is in the connection.
Quiet ==
    /\ len = 0
    /\ \/ stub = "scan" /\ (AtRest \/ Asked \/ Refused \/ Accepted \/ Answered \/ Unread)
       \/ stub # "scan" /\ Silent

\* The inductive invariant of the link.  The order of LineInv alone is not enough for
\* the session, which promises without Ctrl-C that no request is repeated or skipped;
\* Quiet alone fails at the first Ctrl-C, whose refusal gdb takes for that of its next
\* request.
LinkInv == LineInv /\ (interrupts = 0 => Quiet)

\* Connections of one and of two tokens.
LEMMA Pairs ==
    ASSUME NEW x \in Tokens, NEW y \in Tokens
    PROVE  /\ <<x>> # <<>> /\ Head(<<x>>) = x /\ Tail(<<x>>) = <<>>
           /\ <<x, y>> # <<>> /\ Head(<<x, y>>) = x /\ Tail(<<x, y>>) = <<y>>
           /\ Append(<<>>, x) = <<x>> /\ Append(<<x>>, y) = <<x, y>>
           /\ <<>> \o <<x>> = <<x>>
<1>1. <<x>> # <<>> /\ Head(<<x>>) = x /\ Tail(<<x>>) = <<>>
  OBVIOUS
<1>2. <<x, y>> # <<>> /\ Head(<<x, y>>) = x /\ Tail(<<x, y>>) = <<y>>
  OBVIOUS
<1>3. Append(<<>>, x) = <<x>>
  OBVIOUS
<1>4. Append(<<x>>, y) = <<x, y>>
  <2> DEFINE s == <<x>>
  <2>1. s \in Seq(Tokens) /\ Len(s) = 1 /\ s[1] = x
    OBVIOUS
  <2> HIDE DEF s
  <2>2. /\ Append(s, y) \in Seq(Tokens) /\ Len(Append(s, y)) = 2
        /\ Append(s, y)[1] = x /\ Append(s, y)[2] = y
    <3>1. /\ Append(s, y) \in Seq(Tokens) /\ Len(Append(s, y)) = Len(s) + 1
          /\ \A i \in 1 .. Len(s) : Append(s, y)[i] = s[i]
          /\ Append(s, y)[Len(s) + 1] = y
      BY <2>1, AppendTo
    <3>2. 1 \in 1 .. Len(s) /\ Len(s) + 1 = 2
      BY <2>1
    <3> QED
      BY <2>1, <3>1, <3>2, Zenon
  <2>3. <<x, y>> \in Seq(Tokens) /\ Len(<<x, y>>) = 2 /\ <<x, y>>[1] = x /\ <<x, y>>[2] = y
    OBVIOUS
  <2>4. \A i \in 1 .. 2 : Append(s, y)[i] = <<x, y>>[i]
    BY <2>2, <2>3
  <2>5. Append(s, y) = <<x, y>>
    BY <2>2, <2>3, <2>4, SeqEqual
  <2> QED
    BY <2>5 DEF s
<1>5. <<>> \o <<x>> = <<x>>
  OBVIOUS
<1> QED
  BY <1>1, <1>2, <1>3, <1>4, <1>5

\* The client's steps follow the exchange.
LEMMA ClientKeepsQuiet == ASSUME LineInv, Quiet, Client PROVE Quiet'
<1> USE DEF Done
<1>1. /\ sent \in Nat /\ Len(log) \in Nat /\ len = 0 /\ len' = 0 /\ UNCHANGED <<stub, log>>
      /\ Ack \in Tokens /\ Nak \in Tokens
  BY Types, TokenFacts DEF Quiet, Client, ClientRequest, ClientAck, ClientReply, svars
<1>2. Len(log') = Len(log) /\ Newest(log') = Newest(log)
  BY <1>1
<1>3. CASE ClientRequest
  <2>1. client = "idle" /\ client' = "ack" /\ sent' = sent + 1 /\ UNCHANGED toGdb
    BY <1>3 DEF ClientRequest
  <2>2. AtRest /\ stub = "scan"
    BY <2>1 DEF Quiet, Silent, Asked, Refused, Accepted, Answered, Unread
  <2>3. PICK g \in BOOLEAN : toStub' = Append(toStub, Packet(sent + 1, g))
    <3>1. sent + 1 \in Nat \ {0} /\ Put(toStub, toStub', sent + 1)
      BY <1>1, <1>3 DEF ClientRequest
    <3> QED
      BY <3>1, PutPacket
  <2>4. Packet(sent + 1, g) \in Tokens
    BY <1>1, TokenFacts
  <2>5. toStub' = <<Packet(sent', g)>> \/ toStub' = <<Ack, Packet(sent', g)>>
    <3>1. /\ Append(<<>>, Packet(sent + 1, g)) = <<Packet(sent + 1, g)>>
          /\ Append(<<Ack>>, Packet(sent + 1, g)) = <<Ack, Packet(sent + 1, g)>>
      BY <1>1, <2>4, Pairs
    <3> QED
      BY <2>1, <2>2, <2>3, <3>1 DEF AtRest
  <2>6. Asked'
    BY <1>1, <1>2, <2>1, <2>2, <2>5 DEF AtRest, Asked
  <2> QED
    BY <1>1, <2>2, <2>6 DEF Quiet
<1>4. CASE ClientAck
  <2>1. client = "ack" /\ toGdb # <<>> /\ toGdb' = Tail(toGdb) /\ UNCHANGED sent
    BY <1>4 DEF ClientAck
  <2>2. (stub = "scan" /\ (Refused \/ Accepted)) \/ (stub # "scan" /\ Silent /\ toGdb = <<Ack>>)
    BY <2>1 DEF Quiet, Silent, AtRest, Asked, Answered, Unread
  <2>3. sent \in Nat \ {0}
    BY <1>1, <2>1, Types DEF LineInv
  <2>4. CASE stub = "scan" /\ Refused
    <3>1. Head(toGdb) = Nak /\ toGdb' = <<>> /\ toStub = <<>>
      BY <1>1, <2>1, <2>4, Pairs DEF Refused
    <3>2. Put(toStub, toStub', sent) /\ UNCHANGED client
      BY <1>4, <3>1, TokenFacts DEF ClientAck
    <3>3. PICK g \in BOOLEAN : toStub' = Append(toStub, Packet(sent, g))
      BY <2>3, <3>2, PutPacket
    <3>4. toStub' = <<Packet(sent', g)>>
      BY <2>1, <2>3, <3>1, <3>3, Pairs, TokenFacts
    <3>5. Asked'
      BY <1>2, <2>1, <2>4, <3>1, <3>2, <3>4 DEF Refused, Asked
    <3> QED
      BY <1>1, <2>4, <3>5 DEF Quiet
  <2>5. CASE stub = "scan" /\ Accepted
    <3>1. PICK g \in BOOLEAN : toGdb = <<Ack, Packet(sent, g)>>
      BY <2>5 DEF Accepted
    <3>2. Packet(sent, g) \in Tokens
      BY <2>3, TokenFacts
    <3>3. Head(toGdb) = Ack /\ toGdb' = <<Packet(sent', g)>>
      BY <1>1, <2>1, <3>1, <3>2, Pairs
    <3>4. client' = "reply" /\ UNCHANGED toStub
      BY <1>4, <2>5, <3>3, TokenFacts DEF ClientAck, Accepted
    <3>5. Answered'
      BY <1>2, <2>1, <2>5, <3>3, <3>4 DEF Accepted, Answered
    <3> QED
      BY <1>1, <2>5, <3>5 DEF Quiet
  <2>6. CASE stub # "scan" /\ Silent /\ toGdb = <<Ack>>
    <3>1. Head(toGdb) = Ack /\ toGdb' = <<>>
      BY <1>1, <2>1, <2>6, Pairs
    <3>2. client' \in {"reply", "closed"} /\ UNCHANGED toStub
      BY <1>4, <3>1, TokenFacts DEF ClientAck
    <3>3. Silent'
      BY <1>2, <2>1, <2>6, <3>1, <3>2 DEF Silent
    <3> QED
      BY <1>1, <2>6, <3>3 DEF Quiet
  <2> QED
    BY <2>2, <2>4, <2>5, <2>6
<1>5. CASE ClientReply
  <2>1. client = "reply" /\ toGdb # <<>> /\ toGdb' = Tail(toGdb) /\ UNCHANGED sent
    BY <1>5 DEF ClientReply
  <2>2. Answered /\ stub = "scan"
    BY <2>1 DEF Quiet, Silent, AtRest, Asked, Refused, Accepted, Unread
  <2>3. sent \in Nat \ {0}
    BY <1>1, <2>1, Types DEF LineInv
  <2>4. PICK g \in BOOLEAN : toGdb = <<Packet(sent, g)>>
    BY <2>2 DEF Answered
  <2>5. Packet(sent, g) \in Tokens /\ IsPacket(Packet(sent, g))
    BY <2>3, TokenFacts
  <2>6. IsPacket(Head(toGdb)) /\ toGdb' = <<>>
    BY <2>1, <2>4, <2>5, Pairs
  <2>7. \/ toStub' = Append(toStub, Ack) /\ client' = "idle"
        \/ toStub' = Append(toStub, Nak) /\ UNCHANGED client
    BY <1>5, <2>6 DEF ClientReply
  <2>8. \/ toStub' = <<Ack>> /\ client' = "idle"
        \/ toStub' = <<Nak>> /\ client' = "reply"
    BY <1>1, <2>1, <2>2, <2>7, Pairs DEF Answered
  <2>9. AtRest' \/ Unread'
    BY <1>2, <2>1, <2>2, <2>6, <2>8 DEF Answered, AtRest, Unread
  <2> QED
    BY <1>1, <2>2, <2>9 DEF Quiet
<1> QED
  BY <1>3, <1>4, <1>5 DEF Client

\* So do the rules of the scanner; the request they execute is the one just made.
LEMMA StubKeepsQuiet ==
    ASSUME LineInv, Quiet, Stub
    PROVE  /\ Quiet'
           /\ \A n \in 1 .. MaxRequests : Token(Packet(n, TRUE)) => n = sent /\ Done(sent - 1)
<1> USE DEF Done
<1>1. /\ sent \in Nat /\ Len(log) \in Nat /\ len = 0 /\ Ack \in Tokens /\ Nak \in Tokens
      /\ toGdb \in Seq(Tokens) /\ toGdb \o error_reply = toGdb
  BY Types, TokenFacts, ErrorReply DEF Quiet, LineInv
<1>2. toStub # <<>> /\ toStub' = Tail(toStub) /\ UNCHANGED <<client, sent>>
  <2>1. CASE RuleAck \/ RuleNak \/ RuleOther
    BY <2>1 DEF RuleAck, RuleNak, RuleOther, Token, Read, cvars
  <2>2. CASE RulePacket
    BY <2>2 DEF RulePacket, Refuse, Serve, ServeSilently, Token, Read, cvars
  <2>3. CASE StubSigpipe
    BY <2>3 DEF StubSigpipe, Read, cvars
  <2> QED
    BY <2>1, <2>2, <2>3 DEF Stub
<1>3. stub = "scan" /\ (AtRest \/ Asked \/ Unread)
  BY <1>2 DEF Quiet, Silent, Refused, Accepted, Answered
<1>10. ~ StubSigpipe
  BY <1>3 DEF StubSigpipe, AtRest, Asked, Unread
<1>4. ASSUME NEW n \in 1 .. MaxRequests, NEW g \in BOOLEAN
      PROVE  /\ Packet(n, g) # Ack /\ Packet(n, g) # Nak /\ Packet(n, g).n = n
  <2>1. n \in Nat \ {0}
    BY LinkAssumption
  <2> QED
    BY <2>1, TokenFacts
<1>5. ASSUME Head(toStub) = Ack PROVE RuleAck /\ ~ \E n \in 1 .. MaxRequests, g \in BOOLEAN : Token(Packet(n, g))
  BY <1>4, <1>5, <1>10, TokenFacts
     DEF Stub, RuleAck, RuleNak, RulePacket, Refuse, Serve, ServeSilently, RuleOther, Token, Read
<1>6. ASSUME Head(toStub) = Nak PROVE RuleNak /\ ~ \E n \in 1 .. MaxRequests, g \in BOOLEAN : Token(Packet(n, g))
  BY <1>4, <1>6, <1>10, TokenFacts
     DEF Stub, RuleAck, RuleNak, RulePacket, Refuse, Serve, ServeSilently, RuleOther, Token, Read
<1>7. CASE AtRest
  <2>1. Head(toStub) = Ack /\ toStub' = <<>>
    BY <1>1, <1>2, <1>7, Pairs DEF AtRest
  <2>2. toGdb' = toGdb /\ len' = 0 /\ UNCHANGED <<stub, log>>
    BY <1>1, <1>5, <2>1 DEF RuleAck
  <2>3. Newest(log') = Newest(log) /\ Len(log') = Len(log)
    BY <2>2
  <2>4. AtRest'
    BY <1>2, <1>7, <2>1, <2>2, <2>3 DEF AtRest
  <2> QED
    BY <1>3, <1>5, <2>1, <2>2, <2>4 DEF Quiet
<1>8. CASE Unread
  <2>1. Head(toStub) = Nak /\ toStub' = <<>> /\ toGdb = <<>> /\ client = "reply"
    BY <1>1, <1>2, <1>8, Pairs DEF Unread
  <2>2. last = sent /\ sent \in Nat \ {0}
    BY <1>1, <1>3, <1>8, <2>1, Types DEF Unread, LineInv
  <2>3. Put(toGdb, toGdb', sent) /\ len' = 0 /\ UNCHANGED <<stub, log>>
    BY <1>1, <1>6, <2>1, <2>2 DEF RuleNak
  <2>4. PICK g \in BOOLEAN : toGdb' = Append(toGdb, Packet(sent, g))
    BY <2>2, <2>3, PutPacket
  <2>5. toGdb' = <<Packet(sent', g)>>
    BY <1>2, <2>1, <2>2, <2>4, Pairs, TokenFacts
  <2>6. Newest(log') = Newest(log) /\ Len(log') = Len(log)
    BY <2>3
  <2>7. Answered'
    BY <1>2, <1>8, <2>1, <2>5, <2>6 DEF Unread, Answered
  <2> QED
    BY <1>3, <1>6, <2>1, <2>3, <2>7 DEF Quiet
<1>9. CASE Asked
  <2>1. PICK g \in BOOLEAN : toStub = <<Packet(sent, g)>> \/ toStub = <<Ack, Packet(sent, g)>>
    BY <1>9 DEF Asked
  <2>2. /\ sent \in Nat \ {0} /\ sent \in 1 .. MaxRequests /\ Packet(sent, g) \in Tokens
        /\ IsPacket(Packet(sent, g)) /\ Packet(sent, g).n = sent
    <3>1. sent \in Nat \ {0} /\ sent \in 1 .. MaxRequests
      BY <1>1, <1>9, Types DEF Asked, LineInv
    <3> QED
      BY <3>1, TokenFacts
  <2>3. CASE toStub = <<Ack, Packet(sent, g)>>
    <3>1. Head(toStub) = Ack /\ toStub' = <<Packet(sent', g)>>
      BY <1>1, <1>2, <2>2, <2>3, Pairs
    <3>2. toGdb' = toGdb /\ len' = 0 /\ UNCHANGED <<stub, log>>
      BY <1>1, <1>5, <3>1 DEF RuleAck
    <3>3. Newest(log') = Newest(log) /\ Len(log') = Len(log)
      BY <3>2
    <3>4. Asked'
      BY <1>2, <1>9, <3>1, <3>2, <3>3 DEF Asked
    <3> QED
      BY <1>3, <1>5, <3>1, <3>2, <3>4 DEF Quiet
  <2>4. CASE toStub = <<Packet(sent, g)>>
    <3>1. Head(toStub) = Packet(sent, g) /\ toStub' = <<>>
      BY <1>1, <1>2, <2>2, <2>4, Pairs
    <3>2. \A n \in 1 .. MaxRequests, h \in BOOLEAN : Token(Packet(n, h)) => n = sent
      BY <1>4, <2>2, <3>1 DEF Token, Read
    <3>3. Head(toStub) # Ack /\ Head(toStub) # Nak /\ Head(toStub) # Junk
      BY <2>2, <3>1, TokenFacts
    <3>4. RulePacket
      BY <1>10, <3>3 DEF Stub, RuleAck, RuleNak, RuleOther, Token, Read
    <3>5. len' = 0 /\ client = "ack" /\ toGdb = <<>>
      BY <1>9, <3>4 DEF RulePacket, Asked
    <3>6. PICK n \in 1 .. MaxRequests : Refuse(n) \/ Serve(n) \/ ServeSilently(n)
      BY <3>4 DEF RulePacket
    <3>7. CASE Refuse(n)
      <4>4. toGdb' = toGdb \o <<Nak>> /\ UNCHANGED <<stub, log>>
        BY <1>1, <3>7 DEF Refuse
      <4>1. toGdb' = <<Nak>>
        BY <1>1, <3>5, <4>4, Pairs
      <4>2. Newest(log') = Newest(log) /\ Len(log') = Len(log)
        BY <4>4
      <4>3. Refused'
        BY <1>2, <1>9, <3>1, <4>1, <4>2 DEF Asked, Refused
      <4> QED
        BY <1>3, <1>9, <3>2, <3>5, <4>3, <4>4 DEF Quiet, Asked
    <3>8. CASE Serve(n)
      <4>1. /\ Token(Packet(n, TRUE)) /\ log' = Append(log, n) /\ last' = Len(log') /\ n # kill
            /\ Put(toGdb \o <<Ack>>, toGdb', last') /\ UNCHANGED stub /\ UNCHANGED kill
        BY <1>1, <3>4, <3>8 DEF Serve, RulePacket, cvars
      <4>7. n = sent /\ log \in Seq(Nat)
        BY <3>2, <4>1 DEF LineInv
      <4>2. Newest(log') = sent /\ Len(log') = sent /\ last' = sent
        BY <1>1, <1>9, <2>2, <4>1, <4>7, NewestOf DEF Asked
      <4>3. Put(toGdb \o <<Ack>>, toGdb', sent) /\ toGdb \o <<Ack>> = <<Ack>>
        BY <1>1, <3>5, <4>1, <4>2, Pairs
      <4>4. PICK h \in BOOLEAN : toGdb' = Append(<<Ack>>, Packet(sent, h))
        <5>1. sent \in Nat \ {0} /\ Put(<<Ack>>, toGdb', sent)
          BY <2>2, <4>3, Zenon
        <5> QED
          BY <5>1, PutPacket, Zenon
      <4>5. toGdb' = <<Ack, Packet(sent', h)>>
        BY <1>1, <1>2, <2>2, <4>4, Pairs, TokenFacts
      <4>6. Accepted'
        BY <1>2, <3>1, <3>5, <4>1, <4>2, <4>5, <4>7 DEF Accepted
      <4> QED
        BY <1>3, <1>9, <3>2, <3>5, <4>1, <4>6 DEF Quiet, Asked
    <3>9. CASE ServeSilently(n)
      <4>1. Token(Packet(n, TRUE)) /\ log' = Append(log, n) /\ toGdb' = toGdb \o <<Ack>> /\ stub' # "scan"
        BY <1>1, <3>9 DEF ServeSilently
      <4>2. n = sent /\ log \in Seq(Nat)
        BY <3>2, <4>1 DEF LineInv
      <4>3. Newest(log') = sent /\ Len(log') = sent
        BY <1>1, <1>9, <2>2, <4>1, <4>2, NewestOf DEF Asked
      <4>4. toGdb' = <<Ack>>
        BY <1>1, <3>5, <4>1, Pairs
      <4>5. Silent'
        BY <1>2, <3>1, <3>5, <4>3, <4>4 DEF Silent
      <4> QED
        BY <1>9, <3>2, <3>5, <4>1, <4>5 DEF Quiet, Asked
    <3> QED
      BY <3>6, <3>7, <3>8, <3>9
  <2> QED
    BY <2>1, <2>3, <2>4
<1> QED
  BY <1>3, <1>7, <1>8, <1>9

\* A step of the link keeps LinkInv and is one of the session, or changes nothing of it.
LEMMA LinkStep ==
    ASSUME LinkInv, Next
    PROVE  LinkInv' /\ (Session!SNext \/ UNCHANGED Session!svars)
<1> USE DEF Session!svars
<1>1. LineInv /\ (interrupts = 0 => Quiet)
  BY DEF LinkInv
<1>2. CASE ClientRequest
  <2>1. LineInv' /\ UNCHANGED <<answers, interrupts, log>>
    BY <1>1, <1>2, RequestKeepsLine DEF ClientRequest, svars
  <2>2. interrupts = 0 => Quiet'
    BY <1>1, <1>2, ClientKeepsQuiet DEF Client
  <2>3. Session!Issue
    BY <1>1, <1>2 DEF ClientRequest, Session!Issue, LineInv, svars
  <2> QED
    BY <2>1, <2>2, <2>3 DEF LinkInv, Session!SNext
<1>3. CASE ClientAck
  <2>1. LineInv' /\ UNCHANGED <<sent, answers, interrupts, log>>
    BY <1>1, <1>3, AckKeepsLine DEF ClientAck, svars
  <2>2. interrupts = 0 => Quiet'
    BY <1>1, <1>3, ClientKeepsQuiet DEF Client
  <2> QED
    BY <2>1, <2>2 DEF LinkInv
<1>4. CASE ClientReply
  <2>1. LineInv' /\ UNCHANGED <<sent, interrupts, log>> /\ client = "reply"
    BY <1>1, <1>4, ReplyKeepsLine DEF ClientReply, svars
  <2>2. interrupts = 0 => Quiet'
    BY <1>1, <1>4, ClientKeepsQuiet DEF Client
  <2>3. CASE UNCHANGED answers
    BY <2>1, <2>2, <2>3 DEF LinkInv
  <2>4. CASE Head(toGdb).n \in Newest(answers) + 1 .. Len(log) /\ answers' = Append(answers, Head(toGdb).n)
    <3>1. Len(answers) = sent - 1 /\ sent \in Nat
      BY <1>1, <2>1, Types DEF LineInv
    <3>2. interrupts = 0 => Head(toGdb).n = Len(answers) + 1
      <4> SUFFICES ASSUME interrupts = 0 PROVE Head(toGdb).n = sent
        BY <3>1
      <4>1. toGdb # <<>>
        BY <1>4 DEF ClientReply
      <4>2. Answered
        BY <1>1, <2>1, <4>1 DEF Quiet, Silent, AtRest, Asked, Refused, Accepted, Unread
      <4>3. PICK g \in BOOLEAN : toGdb = <<Packet(sent, g)>>
        BY <4>2 DEF Answered
      <4>4. sent \in Nat \ {0}
        BY <1>1, <3>1, Types
      <4>5. Packet(sent, g) \in Tokens /\ Packet(sent, g).n = sent
        BY <4>4, TokenFacts
      <4> QED
        BY <4>3, <4>5, Pairs
    <3>3. Session!Answer
      BY <2>1, <2>4, <3>1, <3>2 DEF Session!Answer, Newest
    <3> QED
      BY <2>1, <2>2, <3>3 DEF LinkInv, Session!SNext
  <2> QED
    BY <1>1, <1>4, <2>3, <2>4, ReplyKeepsLine
<1>5. CASE ClientInterrupt
  <2>1. LineInv' /\ Session!Interrupt
    BY <1>1, <1>5, InterruptKeepsLine DEF ClientInterrupt, Session!Interrupt, svars
  <2>2. interrupts' # 0
    BY <1>1, <1>5 DEF ClientInterrupt, LineInv
  <2> QED
    BY <2>1, <2>2 DEF LinkInv, Session!SNext
<1>6. CASE RuleAck \/ RuleNak \/ RuleOther
  <2>1. LineInv' /\ UNCHANGED <<sent, answers, interrupts, log>>
    BY <1>1, <1>6, SimpleRulesKeepLine DEF RuleAck, RuleNak, RuleOther, cvars
  <2>2. interrupts = 0 => Quiet'
    BY <1>1, <1>6, StubKeepsQuiet DEF Stub
  <2> QED
    BY <2>1, <2>2 DEF LinkInv
<1>7. CASE RulePacket
  <2>1. LineInv' /\ UNCHANGED <<sent, answers, interrupts>>
    BY <1>1, <1>7, PacketKeepsLine DEF RulePacket, cvars
  <2>2. interrupts = 0 => Quiet'
    BY <1>1, <1>7, StubKeepsQuiet DEF Stub
  <2>3. CASE UNCHANGED log
    BY <2>1, <2>2, <2>3 DEF LinkInv
  <2>4. ASSUME NEW n \in 1 .. MaxRequests, Token(Packet(n, TRUE)), n \in Newest(log) .. sent,
               log' = Append(log, n)
        PROVE  Session!Execute \/ Session!ExecuteOutOfStep
    <3>1. CASE interrupts = 0
      <4>1. n = sent /\ Newest(log) = sent - 1 /\ sent \in Nat
        BY <1>1, <1>7, <2>4, <3>1, Types, StubKeepsQuiet DEF Stub, Done
      <4>2. n = Newest(log) + 1 /\ Newest(log) < sent
        BY <4>1
      <4> QED
        BY <2>1, <2>4, <4>2 DEF Session!Execute, Newest
    <3>2. CASE interrupts # 0
      <4>1. interrupts > 0 /\ n > 0
        BY <1>1, <3>2, LinkAssumption DEF LineInv
      <4> QED
        BY <2>1, <2>4, <4>1 DEF Session!ExecuteOutOfStep, Newest
    <3> QED
      BY <3>1, <3>2
  <2>5. UNCHANGED log \/ Session!Execute \/ Session!ExecuteOutOfStep
    BY <1>1, <1>7, <2>4, PacketKeepsLine
  <2> QED
    BY <2>1, <2>2, <2>3, <2>5 DEF LinkInv, Session!SNext
<1>8. CASE StubSigpipe
  <2>1. LineInv' /\ UNCHANGED <<sent, answers, interrupts, log>>
    BY <1>1, <1>8, SigpipeKeepsLine DEF StubSigpipe, cvars
  <2>2. interrupts = 0 => Quiet'
    BY <1>1, <1>8, StubKeepsQuiet DEF Stub
  <2> QED
    BY <2>1, <2>2 DEF LinkInv
<1> QED
  BY <1>2, <1>3, <1>4, <1>5, <1>6, <1>7, <1>8 DEF Next, Client, Stub

\* Each step of the link is a step of the session, or changes nothing the session
\* shows: see the comment of the property in GdbLink.
THEOREM LinkImplementsSession == Spec => ImplementsSession
<1>1. Init => LinkInv /\ Session!SInit
  <2> SUFFICES ASSUME Init PROVE LinkInv /\ Session!SInit
    OBVIOUS
  <2>1. Newest(<<>>) = 0 /\ Len(<<>>) = 0
    BY DEF Newest, Session!Newest
  <2>2. /\ toStub = <<>> /\ toGdb = <<>> /\ log = <<>> /\ answers = <<>> /\ client = "idle" /\ sent = 0
        /\ interrupts = 0 /\ len = 0 /\ last = 0 /\ stub = "scan"
    BY DEF Init
  <2>3. RequestsInOrder(<<>>, 0, 0) /\ RepliesInOrder(<<>>, 0, 0, "idle")
    BY DEF RequestsInOrder, RepliesInOrder
  <2>4. LineInv
    BY <2>1, <2>2, <2>3, LinkAssumption DEF LineInv
  <2>5. Quiet
    BY <2>1, <2>2 DEF Quiet, AtRest, Done
  <2> QED
    BY <2>2, <2>4, <2>5 DEF LinkInv, Session!SInit
<1>2. LinkInv /\ [Next]_vars => LinkInv' /\ [Session!SNext]_(Session!svars)
  <2> SUFFICES ASSUME LinkInv, [Next]_vars PROVE LinkInv' /\ [Session!SNext]_(Session!svars)
    OBVIOUS
  <2>1. CASE Next
    BY <2>1, LinkStep
  <2>2. CASE UNCHANGED vars
    BY <2>2 DEF vars, cvars, svars, LinkInv, LineInv, Quiet, Silent, AtRest, Asked, Refused, Accepted,
                Answered, Unread, Done, Session!svars
  <2> QED
    BY <2>1, <2>2
<1> QED
  BY <1>1, <1>2, PTL DEF Spec, ImplementsSession, Session!SSpec
=============================================================================
