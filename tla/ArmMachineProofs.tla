-------------------------- MODULE ArmMachineProofs --------------------------
(***************************************************************************)
(* Proofs about every step of the machine, for every size of words and of  *)
(* memory, every content of both, every program and every value of what is *)
(* not initialised: the state keeps its type, no step leaves what Effect   *)
(* allows, an indexed load is two steps, and a call returns.               *)
(***************************************************************************)
EXTENDS ArmMachine, DataProcessingProofs, FiniteSetTheorems

----------------------------------------------------------------------------
(* What registers and operands hold.                                       *)

\* Arithmetic on words wraps around to words.
LEMMA WrapTyped == ASSUME NEW x \in Int PROVE Wrap(x) \in Word
<1>1. WordMod \in Nat \ {0}
  BY WordAssumption
<1> QED
  BY <1>1 DEF Wrap, Word

\* Every read of a register is that of a word, and no two registers of a mode have
\* the same slot.
LEMMA ReadTyped ==
    ASSUME NEW f \in RegisterFile, NEW reg \in 0 .. 15
    PROVE  /\ register_slot(f, reg) \in (0 .. 31) \ {CPSR}
           /\ read_register(f, reg) \in Word /\ arm_read_register(f, reg) \in Word
           /\ arm_read_usr_register(f, reg) \in Word
           /\ f[CPSR] \in Word /\ flag(f, C) \in {0, 1}
<1>1. register_slot(f, reg) \in (0 .. 31) \ {CPSR}
  BY DEF register_slot, banked, mode_offset, CPSR, FIQ, SVC, ABT, UND, IRQ
<1>2. read_register(f, reg) \in Word /\ f[reg] \in Word /\ f[CPSR] \in Word
  BY <1>1 DEF read_register, RegisterFile, Slot, CPSR
<1>3. flag(f, C) \in {0, 1}
  <2>1. f[CPSR] \in Nat
    BY <1>2, WordAssumption DEF Word
  <2> QED
    BY <2>1, Weights DEF flag, Bit, read_cpsr
<1>4. ASSUME NEW x \in Word PROVE ClearBit1(Wrap(x + 4)) \in Word
  BY PcArithmetic DEF PcValue
<1>5. arm_read_register(f, reg) \in Word
  BY <1>2, <1>4 DEF arm_read_register
<1>6. arm_read_usr_register(f, reg) \in Word
  BY <1>2, <1>4 DEF arm_read_usr_register, read_usr_register
<1> QED
  BY <1>1, <1>2, <1>3, <1>5, <1>6

\* The operands that the shifter computes are words.
LEMMA ShifterTyped ==
    ASSUME NEW f \in RegisterFile, NEW o, ShiftedFields(o)
    PROVE  shifter_operand(f, o).value \in Word
<1> DEFINE Rm == arm_read_register(f, o.rm)
           shift == shift_amount(f, o)
<1>1. Rm \in Word
  BY ReadTyped DEF ShiftedFields
<1>2. shift \in Nat
  <2>1. CASE o.R = 1
    <3>1. arm_read_register(f, o.amount) \in Nat
      BY <2>1, ReadTyped, WordAssumption DEF ShiftedFields, Word
    <3> QED
      BY <2>1, <3>1, SomeBits DEF shift_amount
  <2>2. CASE o.R # 1
    BY <2>2 DEF shift_amount, ShiftedFields
  <2> QED
    BY <2>1, <2>2
<1> HIDE DEF Rm, shift
<1>3. shift \in Int /\ shift - 1 \in Int
  BY <1>2
<1>4. /\ ShiftLeft(Rm, shift) \in Word /\ ShiftRight(Rm, shift) \in Word
      /\ asr(Rm, shift - 1) \in Word /\ ror(Rm, shift) \in Word
  BY <1>1, <1>3, BitsTyped
<1>5. Or(ShiftRight(Rm, 1), flag(f, C) * N) \in Word
  BY WordOfOnes DEF Or
<1>6. CASE o.type = "LSL"
  BY <1>4, <1>6 DEF shifter_operand, Rm, shift
<1>7. CASE o.type = "LSR"
  BY <1>4, <1>7 DEF shifter_operand, Rm, shift
<1>8. CASE o.type = "ASR"
  BY <1>4, <1>8 DEF shifter_operand, Rm, shift
<1>9. CASE o.type = "ROR" /\ shift # 0
  BY <1>4, <1>9 DEF shifter_operand, Rm, shift
<1>10. CASE o.type = "ROR" /\ shift = 0
  BY <1>5, <1>10 DEF shifter_operand, Rm, shift
<1> QED
  BY <1>6, <1>7, <1>8, <1>9, <1>10 DEF ShiftedFields

\* The result of every opcode is a word.
LEMMA OperationTyped ==
    ASSUME NEW opcode \in Opcodes, NEW a \in Word, NEW b \in Word, NEW c \in {0, 1}
    PROVE  operation(opcode, a, b, c) \in Word
<1>1. /\ a - b \in Int /\ b - a \in Int /\ a + b \in Int /\ a + b + c \in Int
      /\ a - b - (1 - c) \in Int /\ b - a - (1 - c) \in Int
  BY WordAssumption DEF Word
<1>2. \A x, y : And(x, y) \in Word /\ Or(x, y) \in Word /\ Xor(x, y) \in Word
  BY WordOfOnes DEF And, Or, Xor
<1>3. Complement(b) \in Word
  BY WordAssumption DEF Complement, Word
<1>4. /\ Wrap(a - b) \in Word /\ Wrap(b - a) \in Word /\ Wrap(a + b) \in Word
      /\ Wrap(a + b + c) \in Word /\ Wrap(a - b - (1 - c)) \in Word /\ Wrap(b - a - (1 - c)) \in Word
  BY <1>1, WrapTyped
<1> QED
  BY <1>2, <1>3, <1>4 DEF operation, Opcodes, Comparisons, Arithmetic, Subtractions

\* A data processing instruction leaves words in the registers.
LEMMA DataTyped ==
    ASSUME NEW f \in RegisterFile, NEW ins \in DataInstructions
    PROVE  arm_data_processing(f, ins) \in RegisterFile
<1> DEFINE a == arm_read_register(f, ins.rn)
           operand == second_operand(f, ins.operand)
           res == operation(ins.opcode, a, operand.value, flag(f, C))
           f1 == IF ins.opcode \notin Comparisons THEN write_register(f, ins.rd, res)
                 ELSE IF ins.S = 0 THEN arm_miscellaneous(f, ins.opcode, ins.rd) ELSE f
           x == new_cpsr(f1, ins.opcode, a, operand, res)
<1>1. ins.opcode \in Opcodes /\ ins.rd \in 0 .. 15 /\ ins.rn \in 0 .. 15
  BY FieldsAssumption
<1>2. a \in Word /\ flag(f, C) \in {0, 1} /\ f[CPSR] \in Word
  BY <1>1, ReadTyped
<1>3. operand.value \in Word
  <2>1. CASE ins.operand.I = 1
    <3>1. ins.operand.value \in Word /\ ins.operand.rotate * 2 \in Int
      BY <2>1, FieldsAssumption
    <3>2. ror(ins.operand.value, ins.operand.rotate * 2) \in Word
      BY <3>1, BitsTyped
    <3> QED
      BY <2>1, <3>2 DEF second_operand
  <2>2. CASE ins.operand.I # 1
    <3>1. ShiftedFields(ins.operand)
      BY <2>2, FieldsAssumption
    <3> QED
      BY <2>2, <3>1, ShifterTyped DEF second_operand
  <2> QED
    BY <2>1, <2>2
<1>4. res \in Word
  <2> HIDE DEF a, operand
  <2> QED
    BY <1>1, <1>2, <1>3, OperationTyped
<1>5. ASSUME NEW h \in RegisterFile PROVE read_spsr(h) \in Word
  <2>1. spsr_slot(get_mode(h)) = -1 \/ spsr_slot(get_mode(h)) \in 32 .. 36
    BY DEF spsr_slot
  <2> QED
    BY <2>1, WordAssumption DEF read_spsr, RegisterFile, Slot, Word
<1>6. f1 \in RegisterFile
  <2>1. arm_miscellaneous(f, ins.opcode, ins.rd) \in RegisterFile
    BY <1>1, <1>2, <1>5, WritesKeepType DEF arm_miscellaneous, read_cpsr
  <2> HIDE DEF res
  <2>2. write_register(f, ins.rd, res) \in RegisterFile
    BY <1>1, <1>4, WritesKeepType
  <2> QED
    BY <2>1, <2>2
<1>7. arm_data_processing(f, ins)
        = IF ins.S = 0 THEN f1
          ELSE IF ins.rd = PC /\ current_mode_has_spsr(f1) THEN write_cpsr(f1, read_spsr(f1))
          ELSE write_cpsr(f1, x)
  BY DEF arm_data_processing
<1> HIDE DEF f1
<1>8. x \in Word
  <2> HIDE DEF a, operand, res
  <2>1. f1[CPSR] \in Word
    BY <1>6 DEF RegisterFile, Slot, CPSR
  <2> QED
    BY <2>1, FlagsOnly
<1> HIDE DEF x
<1>9. write_cpsr(f1, read_spsr(f1)) \in RegisterFile /\ write_cpsr(f1, x) \in RegisterFile
  BY <1>5, <1>6, <1>8 DEF write_cpsr, RegisterFile
<1> QED
  BY <1>6, <1>7, <1>9

----------------------------------------------------------------------------
(* Words and the bytes of memory.                                          *)

\* The values of a byte, and how many a half word has.
Bytes == 0 .. ByteMod - 1
Square == ByteMod * ByteMod

\* Words are pairs of half words, and half words pairs of bytes.
LEMMA Sizes ==
    /\ ByteMod \in Nat \ {0} /\ Square \in Nat \ {0}
    /\ WordMod = Square * Square /\ WordMod = ByteMod * (ByteMod * Square)
<1>1. ByteMod \in Nat \ {0} /\ WordMod = ByteMod * (ByteMod * (ByteMod * ByteMod))
  BY ByteAssumption
<1>2. Square \in Nat \ {0}
  BY <1>1 DEF Square
<1>3. ASSUME NEW x \in Nat PROVE x * (x * (x * x)) = (x * x) * (x * x)
  OBVIOUS
<1> QED
  BY <1>1, <1>2, <1>3 DEF Square

\* A number written with a digit of base d, and its part above that digit.
LEMMA Digits ==
    ASSUME NEW d \in Nat \ {0}, NEW e \in Nat \ {0}, NEW h \in 0 .. e - 1, NEW m \in 0 .. d - 1
    PROVE  d * h + m \in 0 .. d * e - 1
<1>1. h + 1 <= e /\ h \in Nat /\ m \in Nat /\ m < d
  OBVIOUS
<1>2. d * (h + 1) <= d * e
  BY <1>1
<1>3. d * (h + 1) = d * h + d /\ d * h \in Nat /\ d * e \in Nat
  BY <1>1
<1> QED
  BY <1>1, <1>2, <1>3

\* The low part of a word can be replaced by another: the bytes that a read of one
\* or two bytes writes.
LEMMA LowPart ==
    ASSUME NEW d \in Nat \ {0}, NEW e \in Nat \ {0}, NEW x \in 0 .. d * e - 1, NEW b \in 0 .. d - 1
    PROVE  (x - (x % d)) + b \in 0 .. d * e - 1
<1> DEFINE q == x \div d
           m == x % d
<1>1. q \in Nat /\ m \in 0 .. d - 1 /\ x = m + d * q
  <2>1. x \in Nat
    OBVIOUS
  <2> QED
    BY <2>1, Divided
<1> HIDE DEF q, m
<1>2. q \in 0 .. e - 1
  <2> SUFFICES ASSUME q >= e PROVE FALSE
    BY <1>1
  <2>1. d * q >= d * e /\ d * q \in Nat /\ d * e \in Nat
    BY <1>1
  <2> QED
    BY <1>1, <2>1
<1>3. d * q + b \in 0 .. d * e - 1
  BY <1>2, Digits
<1>4. x - m = d * q /\ d * q \in Int
  BY <1>1
<1> QED
  BY <1>3, <1>4 DEF m

\* The words and half words made of bytes.
LEMMA WordOfBytes ==
    ASSUME NEW b1 \in Bytes, NEW b2 \in Bytes, NEW b3 \in Bytes, NEW b4 \in Bytes
    PROVE  /\ word(<<b1, b2, b3, b4>>) \in Word
           /\ half(<<b1, b2>>) \in 0 .. Square - 1
<1> DEFINE h2 == ByteMod * b1 + b2
           h3 == ByteMod * h2 + b3
           cube == ByteMod * Square
<1>1. ByteMod \in Nat \ {0} /\ Square \in Nat \ {0} /\ cube \in Nat \ {0}
  BY Sizes
<1>2. h2 \in 0 .. Square - 1
  BY <1>1, Digits DEF Square, Bytes
<1> HIDE DEF h2
<1>3. h3 \in 0 .. cube - 1
  BY <1>1, <1>2, Digits DEF Bytes
<1> HIDE DEF h3, cube
<1>4. ByteMod * h3 + b4 \in 0 .. ByteMod * cube - 1
  BY <1>1, <1>3, Digits DEF Bytes
<1>5. ByteMod * h3 + b4 \in Word
  BY <1>4, Sizes DEF cube, Word
<1> QED
  BY <1>2, <1>5 DEF word, half, h2, h3

\* A word is that of its bytes.
LEMMA BytesOfWord ==
    ASSUME NEW x \in Word
    PROVE  /\ bytes(x) \in Bytes \X Bytes \X Bytes \X Bytes
           /\ word(bytes(x)) = x
<1> DEFINE r1 == x \div ByteMod
           r2 == r1 \div ByteMod
           r3 == r2 \div ByteMod
<1>1. ByteMod \in Nat \ {0} /\ x \in Nat /\ x < WordMod
  BY Sizes, WordAssumption DEF Word
<1>2. r1 \in Nat /\ x % ByteMod \in Bytes /\ x = (x % ByteMod) + ByteMod * r1
  BY <1>1, Divided DEF Bytes
<1> HIDE DEF r1
<1>3. r2 \in Nat /\ r1 % ByteMod \in Bytes /\ r1 = (r1 % ByteMod) + ByteMod * r2
  BY <1>1, <1>2, Divided DEF Bytes
<1> HIDE DEF r2
<1>4. r3 \in Nat /\ r2 % ByteMod \in Bytes /\ r2 = (r2 % ByteMod) + ByteMod * r3
  BY <1>1, <1>3, Divided DEF Bytes
<1> HIDE DEF r3
<1>5. r3 < ByteMod
  <2> SUFFICES ASSUME r3 >= ByteMod PROVE FALSE
    BY <1>1, <1>4
  <2>1. \A y \in Nat, z \in Nat, m \in Nat : z >= y => m + ByteMod * z >= ByteMod * y
    <3> SUFFICES ASSUME NEW y \in Nat, NEW z \in Nat, NEW m \in Nat, z >= y
                 PROVE  m + ByteMod * z >= ByteMod * y
      OBVIOUS
    <3>1. ByteMod * z >= ByteMod * y /\ ByteMod * z \in Nat /\ ByteMod * y \in Nat
      BY <1>1
    <3> QED
      BY <3>1
  <2>2. x % ByteMod \in Nat /\ r1 % ByteMod \in Nat /\ r2 % ByteMod \in Nat
    BY <1>1, <1>2, <1>3, <1>4 DEF Bytes
  <2>3. r2 >= ByteMod * ByteMod
    <3>1. (r2 % ByteMod) + ByteMod * r3 >= ByteMod * ByteMod
      BY <1>1, <1>4, <2>1, <2>2
    <3> QED
      BY <1>4, <3>1
  <2>4. ByteMod * ByteMod \in Nat /\ ByteMod * (ByteMod * ByteMod) \in Nat
    BY <1>1
  <2>5. r1 >= ByteMod * (ByteMod * ByteMod)
    BY <1>3, <2>1, <2>2, <2>3, <2>4
  <2>6. x >= ByteMod * (ByteMod * (ByteMod * ByteMod))
    BY <1>2, <2>1, <2>2, <2>4, <2>5
  <2>7. x >= WordMod
    BY <2>6, ByteAssumption
  <2> QED
    BY <1>1, <2>7, WordAssumption
<1>6. r3 % ByteMod = r3 /\ r3 \in Bytes
  BY <1>1, <1>4, <1>5 DEF Bytes
<1> DEFINE b1 == r3 % ByteMod
           b2 == r2 % ByteMod
           b3 == r1 % ByteMod
           b4 == x % ByteMod
<1>7. bytes(x) = <<b1, b2, b3, b4>>
  BY DEF bytes, r1, r2, r3
<1>8. b1 \in Bytes /\ b2 \in Bytes /\ b3 \in Bytes /\ b4 \in Bytes /\ b1 = r3
  BY <1>2, <1>3, <1>4, <1>6
<1> HIDE DEF b1, b2, b3, b4
<1>9. /\ r2 = ByteMod * b1 + b2 /\ r1 = ByteMod * r2 + b3 /\ x = ByteMod * r1 + b4
  <2>1. \A y \in Nat, b \in Bytes : b + ByteMod * y = ByteMod * y + b
    BY <1>1 DEF Bytes
  <2>2. r2 = b2 + ByteMod * b1 /\ r1 = b3 + ByteMod * r2 /\ x = b4 + ByteMod * r1
    BY <1>2, <1>3, <1>4, <1>8 DEF b2, b3, b4
  <2> QED
    BY <1>2, <1>3, <1>4, <1>8, <2>1, <2>2
<1>10. word(<<b1, b2, b3, b4>>) = x
  BY <1>9 DEF word
<1>11. <<b1, b2, b3, b4>> \in Bytes \X Bytes \X Bytes \X Bytes
  BY <1>8
<1> QED
  BY <1>7, <1>10, <1>11

\* The accesses that memory refuses and those it accepts.
LEMMA Results ==
    ASSUME NEW a \in Nat, NEW n \in {1, 2, 4}
    PROVE  /\ M!read_result(a) = 0 <=> a < MemSize
           /\ M!write_result(a, n) = 0 <=> a < MemSize /\ a % n = 0
           /\ MemSize \in Nat
           /\ M!write_result(a, n) = 0 => a + n <= MemSize
<1>1. MemSize \in Nat /\ MemSize % 4 = 0
  BY CoreAssumption, ByteAssumption, WordAssumption DEF Word
<1>2. M!read_result(a) = 0 <=> a < MemSize
  BY <1>1 DEF M!read_result, M!is_not_valid_address, M!DATA_ABORT
<1>3. M!write_result(a, n) = 0 <=> a < MemSize /\ a % n = 0
  BY <1>1 DEF M!write_result, M!is_not_valid_address, M!DATA_ABORT
<1>4. ASSUME a < MemSize, a % n = 0 PROVE a + n <= MemSize
  <2>1. CASE n = 1
    BY <1>1, <1>4, <2>1
  <2>2. CASE n = 2
    BY <1>1, <1>4, <2>2
  <2>3. CASE n = 4
    BY <1>1, <1>4, <2>3
  <2> QED
    BY <2>1, <2>2, <2>3
<1> QED
  BY <1>1, <1>2, <1>3, <1>4

\* A load leaves a word, whatever the size and the result of the access.
LEMMA ReadMemoryTyped ==
    ASSUME NEW m \in M!Contents, NEW a \in Word, NEW size \in {"byte", "half", "word"},
           NEW old \in Word, NEW g \in Word
    PROVE  arm_read(m, a, size, old, g) \in Word
<1>1. a \in Nat /\ old \in Nat /\ g \in Nat /\ MemSize \in Nat /\ ByteMod \in Nat \ {0}
  BY Sizes, CoreAssumption, WordAssumption DEF Word
<1>2. M!read_result(a) = 0 <=> a < MemSize
  BY <1>1, Results
<1>3. CASE a >= MemSize
  BY <1>1, <1>2, <1>3 DEF arm_read
<1>4. CASE a < MemSize
  <2>1. g % ByteMod \in Bytes
    BY <1>1 DEF Bytes
  <2>2. ASSUME NEW i \in 0 .. 3 PROVE M!at(m, past(g), a + i) \in Bytes
    <3>1. CASE a + i < MemSize
      <4>1. a + i \in 0 .. MemSize - 1
        BY <1>1, <3>1
      <4> QED
        BY <3>1, <4>1 DEF M!at, M!Contents, Bytes
    <3>2. CASE a + i >= MemSize
      <4>1. a + i \in MemSize .. MemSize + 2 /\ ~ (a + i < MemSize)
        BY <1>1, <1>4, <3>2
      <4> QED
        BY <2>1, <4>1 DEF M!at, past
    <3> QED
      BY <1>1, <3>1, <3>2
  <2> DEFINE at(i) == M!at(m, past(g), a + i)
  <2>3. /\ at(0) \in Bytes /\ at(1) \in Bytes /\ at(2) \in Bytes /\ at(3) \in Bytes
        /\ M!at(m, past(g), a) = at(0)
    <3>1. a + 0 = a
      BY <1>1
    <3> QED
      BY <2>2, <3>1
  <2> HIDE DEF at
  <2>4. CASE size = "byte"
    <3>1. m[a] \in Bytes
      BY <1>1, <1>4 DEF M!Contents, Bytes
    <3>2. (old - (old % ByteMod)) + m[a] \in Word
      <4> DEFINE e == ByteMod * Square
      <4>1. e \in Nat \ {0} /\ WordMod = ByteMod * e
        BY Sizes
      <4> HIDE DEF e
      <4> QED
        BY <1>1, <3>1, <4>1, LowPart DEF Word, Bytes
    <3> QED
      BY <1>2, <1>4, <2>4, <3>2 DEF arm_read, M!memory_read_byte
  <2>5. CASE size = "half"
    <3> DEFINE h == M!memory_read_half(m, is_big_endian, past(g), a)
    <3>1. \E b1, b2 \in Bytes : h = <<b1, b2>>
      BY <2>3 DEF M!memory_read_half, at
    <3>2. half(h) \in 0 .. Square - 1
      <4> HIDE DEF h
      <4> QED
        BY <3>1, WordOfBytes
    <3> HIDE DEF h
    <3>3. (old - (old % Square)) + half(h) \in Word
      BY <3>2, Sizes, LowPart DEF Word
    <3> QED
      BY <1>2, <1>4, <2>5, <3>3 DEF arm_read, Square, h
  <2>6. CASE size = "word"
    <3> DEFINE w == M!memory_read_word(m, is_big_endian, past(g), a)
    <3>1. \E b1, b2, b3, b4 \in Bytes : w = <<b1, b2, b3, b4>>
      BY <2>3 DEF M!memory_read_word, at
    <3>2. word(w) \in Word
      <4> HIDE DEF w
      <4> QED
        BY <3>1, WordOfBytes
    <3> QED
      BY <1>2, <1>4, <2>6, <3>2 DEF arm_read
  <2> QED
    BY <2>4, <2>5, <2>6
<1> QED
  BY <1>1, <1>3, <1>4

\* A store leaves bytes in memory, whatever its size and result.
LEMMA WriteMemoryTyped ==
    ASSUME NEW m \in M!Contents, NEW a \in Word, NEW size \in {"byte", "half", "word"}, NEW v \in Word
    PROVE  arm_write(m, a, size, v) \in M!Contents
<1>1. a \in Nat /\ MemSize \in Nat
  BY CoreAssumption, WordAssumption DEF Word
<1> DEFINE b == bytes(v)
<1>2. b[1] \in Bytes /\ b[2] \in Bytes /\ b[3] \in Bytes /\ b[4] \in Bytes
  BY BytesOfWord
<1> HIDE DEF b
<1>3. CASE size = "byte" /\ M!write_result(a, 1) = 0
  <2>1. [m EXCEPT ![a] = b[4]] \in M!Contents
    BY <1>2 DEF M!Contents, Bytes
  <2> QED
    BY <1>3, <2>1 DEF arm_write, M!memory_write_byte, b
<1>4. CASE size = "half" /\ M!write_result(a, 2) = 0
  <2>1. M!memory_write_half(m, is_big_endian, a, <<b[3], b[4]>>) \in M!Contents
    BY <1>2 DEF M!Contents, Bytes, M!memory_write_half
  <2> QED
    BY <1>4, <2>1 DEF arm_write, b
<1>5. CASE size = "word" /\ M!write_result(a, 4) = 0
  <2>1. M!memory_write_word(m, is_big_endian, a, b) \in M!Contents
    BY <1>2 DEF M!Contents, Bytes, M!memory_write_word
  <2> QED
    BY <1>5, <2>1 DEF arm_write, b
<1>6. CASE /\ ~ (size = "byte" /\ M!write_result(a, 1) = 0)
           /\ ~ (size = "half" /\ M!write_result(a, 2) = 0)
           /\ ~ (size = "word" /\ M!write_result(a, 4) = 0)
  BY <1>6 DEF arm_write
<1> QED
  BY <1>3, <1>4, <1>5, <1>6

----------------------------------------------------------------------------
(* Single and block transfers.                                             *)

\* h is a register file that differs from f in general registers of the current
\* mode or of the user mode.
GeneralOnly(f, h) ==
    /\ h \in RegisterFile /\ h[CPSR] = f[CPSR]
    /\ \A s \in Slot \ {CPSR} :
         h[s] # f[s] => s \in 0 .. 15 \/ \E reg \in 0 .. 15 : s = register_slot(f, reg)

\* The slots of the current mode depend on the CPSR alone.
LEMMA SameSlots ==
    ASSUME NEW f, NEW h, h[CPSR] = f[CPSR]
    PROVE  \A reg : register_slot(h, reg) = register_slot(f, reg)
BY DEF register_slot, banked, get_mode, read_cpsr

\* Handlers write general registers one after the other.
LEMMA GeneralWrites ==
    ASSUME NEW f \in RegisterFile, NEW h, GeneralOnly(f, h), NEW reg \in 0 .. 15, NEW v \in Word
    PROVE  /\ GeneralOnly(f, f)
           /\ GeneralOnly(f, write_register(h, reg, v))
           /\ GeneralOnly(f, write_usr_register(h, reg, v))
<1>1. h \in RegisterFile /\ h[CPSR] = f[CPSR]
  BY DEF GeneralOnly
<1>2. ASSUME NEW slot \in (0 .. 31) \ {CPSR}, slot \in 0 .. 15 \/ slot = register_slot(f, reg)
      PROVE  GeneralOnly(f, [h EXCEPT ![slot] = v])
  <2> DEFINE h2 == [h EXCEPT ![slot] = v]
  <2>1. h2 \in RegisterFile /\ \A s \in Slot : h2[s] = IF s = slot THEN v ELSE h[s]
    BY <1>1 DEF RegisterFile
  <2>2. CPSR \in Slot /\ CPSR # slot
    BY DEF CPSR, Slot
  <2> HIDE DEF h2
  <2>3. h2[CPSR] = f[CPSR]
    BY <1>1, <2>1, <2>2
  <2>4. GeneralOnly(f, h2)
    BY <1>2, <2>1, <2>3 DEF GeneralOnly
  <2> QED
    BY <2>4 DEF h2
<1>3. register_slot(h, reg) = register_slot(f, reg) /\ register_slot(f, reg) \in (0 .. 31) \ {CPSR}
  BY <1>1, SameSlots, ReadTyped
<1>4. reg \in (0 .. 31) \ {CPSR}
  BY DEF CPSR
<1> QED
  BY <1>2, <1>3, <1>4 DEF GeneralOnly, write_register, write_usr_register

\* The offset of a single transfer is a word.
LEMMA OffsetTyped ==
    ASSUME NEW f \in RegisterFile, NEW ins, ins.class = "single", Fields(ins)
    PROVE  addressing_mode(f, ins) \in Word
<1> DEFINE res == CASE ins.offset.kind = "immediate" -> ins.offset.value
                    [] ins.offset.kind = "register" -> arm_read_register(f, ins.offset.rm)
                    [] ins.offset.kind = "shifted" -> shifter_operand(f, ins.offset).value
<1>1. \/ ins.offset.kind = "immediate" /\ ins.offset.value \in Word
      \/ ins.offset.kind = "register" /\ ins.offset.rm \in 0 .. 15
      \/ ins.offset.kind = "shifted" /\ ShiftedFields(ins.offset)
  BY DEF Fields
<1>2. res \in Word
  <2>1. CASE ins.offset.kind = "immediate" /\ ins.offset.value \in Word
    BY <2>1
  <2>2. CASE ins.offset.kind = "register" /\ ins.offset.rm \in 0 .. 15
    <3>1. arm_read_register(f, ins.offset.rm) \in Word
      BY <2>2, ReadTyped
    <3> QED
      BY <2>2, <3>1
  <2>3. CASE ins.offset.kind = "shifted" /\ ShiftedFields(ins.offset)
    <3>1. shifter_operand(f, ins.offset).value \in Word
      BY <2>3, ShifterTyped
    <3> QED
      BY <2>3, <3>1
  <2> QED
    BY <1>1, <2>1, <2>2, <2>3
<1>3. addressing_mode(f, ins) = IF ins.U = 1 THEN res ELSE Wrap(- res)
  BY DEF addressing_mode
<1> HIDE DEF res
<1>4. Wrap(- res) \in Word
  <2>1. - res \in Int
    BY <1>2, WordAssumption DEF Word
  <2> QED
    BY <2>1, WrapTyped
<1> QED
  BY <1>2, <1>3, <1>4

\* The low bit of a word that is loaded into the pc is cleared.
LEMMA ClearedTyped ==
    ASSUME NEW x \in Word PROVE ClearBit0(x) \in Word
BY WordAssumption DEF ClearBit0, Word

\* A single transfer writes general registers or bytes of memory.
LEMMA TransferTyped ==
    ASSUME NEW f \in RegisterFile, NEW m \in M!Contents, NEW ins, ins.class = "single", Fields(ins),
           NEW address \in Word, NEW g \in Word
    PROVE  LET s == transfer(f, m, ins, address, g)
           IN  GeneralOnly(f, s.r) /\ s.mem \in M!Contents
<1> DEFINE user == ins.P = 0 /\ ins.W = 1
           size == IF is_half(ins) THEN "half" ELSE ins.size
           val == arm_read(m, address, size, g, g)
           loaded == IF ins.rd = PC THEN ClearBit0(val) ELSE val
           stored == IF user THEN arm_read_usr_register(f, ins.rd) ELSE arm_read_register(f, ins.rd)
           s == transfer(f, m, ins, address, g)
<1>1. ins.rd \in 0 .. 15 /\ size \in {"byte", "half", "word"}
  BY DEF Fields
<1>2. s = IF ins.L = 0 THEN State(f, arm_write(m, address, size, stored))
          ELSE IF user THEN State(write_usr_register(f, ins.rd, loaded), m)
          ELSE State(write_register(f, ins.rd, loaded), m)
  BY DEF transfer
<1>3. stored \in Word
  BY <1>1, ReadTyped
<1> HIDE DEF size, user
<1>4. val \in Word
  BY <1>1, ReadMemoryTyped
<1> HIDE DEF val
<1>5. loaded \in Word
  BY <1>4, ClearedTyped
<1> HIDE DEF loaded, stored
<1>6. arm_write(m, address, size, stored) \in M!Contents
  BY <1>1, <1>3, WriteMemoryTyped
<1>7. GeneralOnly(f, f)
  BY DEF GeneralOnly
<1>8. GeneralOnly(f, write_usr_register(f, ins.rd, loaded)) /\ GeneralOnly(f, write_register(f, ins.rd, loaded))
  BY <1>1, <1>5, <1>7, GeneralWrites
<1>9. s \in {State(f, arm_write(m, address, size, stored)),
             State(write_usr_register(f, ins.rd, loaded), m),
             State(write_register(f, ins.rd, loaded), m)}
  BY <1>2
<1> HIDE DEF s
<1>10. GeneralOnly(f, s.r) /\ s.mem \in M!Contents
  BY <1>6, <1>7, <1>8, <1>9 DEF State
<1> QED
  BY <1>10 DEF s

\* So does the whole handler, which writes the base last.
LEMMA SingleTyped ==
    ASSUME NEW f \in RegisterFile, NEW m \in M!Contents, NEW ins, ins.class = "single", Fields(ins),
           NEW g \in Word
    PROVE  LET s == arm_load_store(f, m, ins, g)
           IN  GeneralOnly(f, s.r) /\ s.mem \in M!Contents
<1> DEFINE base == arm_read_register(f, ins.rn)
           first == IF ins.P = 1 THEN Wrap(base + addressing_mode(f, ins)) ELSE base
           t == transfer(f, m, ins, first, g)
           last == IF ins.P = 1 THEN first ELSE Wrap(first + addressing_mode(t.r, ins))
           s == arm_load_store(f, m, ins, g)
<1>1. ins.rn \in 0 .. 15
  BY DEF Fields
<1>2. base \in Word /\ addressing_mode(f, ins) \in Word
  BY <1>1, ReadTyped, OffsetTyped
<1>3. s = IF ins.P = 0 \/ ins.W = 1 THEN State(write_register(t.r, ins.rn, last), t.mem) ELSE t
  BY DEF arm_load_store
<1> HIDE DEF base
<1>4. first \in Word
  <2>1. base + addressing_mode(f, ins) \in Int
    BY <1>2, WordAssumption DEF Word
  <2> QED
    BY <1>2, <2>1, WrapTyped
<1> HIDE DEF first
<1>5. GeneralOnly(f, t.r) /\ t.mem \in M!Contents
  BY <1>4, TransferTyped
<1> HIDE DEF t
<1>6. last \in Word
  <2>1. t.r \in RegisterFile
    BY <1>5 DEF GeneralOnly
  <2>2. addressing_mode(t.r, ins) \in Word
    BY <2>1, OffsetTyped
  <2>3. first + addressing_mode(t.r, ins) \in Int
    BY <1>4, <2>2, WordAssumption DEF Word
  <2> QED
    BY <1>4, <2>3, WrapTyped
<1> HIDE DEF last, s
<1>7. GeneralOnly(f, write_register(t.r, ins.rn, last))
  BY <1>1, <1>5, <1>6, GeneralWrites
<1>8. GeneralOnly(f, s.r) /\ s.mem \in M!Contents
  BY <1>3, <1>5, <1>7 DEF State
<1> QED
  BY <1>8 DEF s

\* The states of the loop over the registers of a block.
LoopStates == [r : RegisterFile, mem : M!Contents, address : Word, val : Word]

\* A turn of it leaves such a state.
LEMMA TurnTyped ==
    ASSUME NEW s \in LoopStates, NEW ins, NEW Ri \in 0 .. 15, NEW g \in Word
    PROVE  transfer_register(s, ins, Ri, g) \in LoopStates
<1>1. s.r \in RegisterFile /\ s.mem \in M!Contents /\ s.address \in Word /\ s.val \in Word
  BY DEF LoopStates
<1> DEFINE read == arm_read(s.mem, s.address, "word", s.val, g)
           loaded == IF Ri = PC THEN ClearBit0(read) ELSE read
           stored == arm_read_register(s.r, Ri)
           next == Wrap(s.address + 4)
           h == write_register(s.r, Ri, loaded)
           w == arm_write(s.mem, s.address, "word", stored)
<1>2. transfer_register(s, ins, Ri, g)
        = IF Ri \notin ins.list THEN s
          ELSE IF ins.L = 1 THEN [r |-> h, mem |-> s.mem, address |-> next, val |-> loaded]
          ELSE [r |-> s.r, mem |-> w, address |-> next, val |-> stored]
  BY DEF transfer_register
<1>3. read \in Word
  BY <1>1, ReadMemoryTyped
<1>4. stored \in Word
  BY <1>1, ReadTyped
<1>5. next \in Word
  <2>1. s.address + 4 \in Int
    BY <1>1, WordAssumption DEF Word
  <2> QED
    BY <2>1, WrapTyped
<1> HIDE DEF read
<1>6. loaded \in Word
  BY <1>3, ClearedTyped
<1> HIDE DEF loaded, stored, next
<1>7. h \in RegisterFile
  BY <1>1, <1>6, WritesKeepType
<1>8. w \in M!Contents
  BY <1>1, <1>4, WriteMemoryTyped
<1> HIDE DEF h, w
<1> QED
  BY <1>1, <1>2, <1>4, <1>5, <1>6, <1>7, <1>8 DEF LoopStates

\* The loop over the registers: its turns follow one another in well-typed states.
LEMMA BlockStates ==
    ASSUME NEW f \in RegisterFile, NEW m \in M!Contents, NEW ins, NEW address \in Word, NEW g \in Word
    PROVE  LET b == block(f, m, ins, address, g)
           IN  /\ b \in [0 .. 16 -> LoopStates]
               /\ b[0] = [r |-> f, mem |-> m, address |-> address, val |-> g]
               /\ \A n \in 0 .. 15 : b[n + 1] = transfer_register(b[n], ins, n, g)
<1> DEFINE x == [r |-> f, mem |-> m, address |-> address, val |-> g]
           T(n, s) == transfer_register(s, ins, n, g)
           F == [n \in 1 .. 16 |-> [s \in LoopStates |-> T(n - 1, s)]]
           Step(h) == [n \in 0 .. 16 |-> IF n = 0 THEN x ELSE T(n - 1, h[n - 1])]
           b == block(f, m, ins, address, g)
<1>1. x \in LoopStates
  BY DEF LoopStates
<1>2. b = CHOOSE h : h = Step(h)
  BY DEF block
<1>3. \A n \in 1 .. 16, s \in LoopStates : T(n - 1, s) \in LoopStates
  <2>1. \A n \in 1 .. 16 : n - 1 \in 0 .. 15
    OBVIOUS
  <2> QED
    BY <2>1, TurnTyped
<1> HIDE DEF x, T
<1>4. F \in [1 .. 16 -> [LoopStates -> LoopStates]] /\ \A n \in 1 .. 16, s \in LoopStates : F[n][s] = T(n - 1, s)
  BY <1>3
<1> HIDE DEF F
<1>5. PICK c : States(c, 16, LoopStates, x, F)
  BY <1>1, <1>4, LoopHasStates
<1>6. c = Step(c)
  <2>1. ASSUME NEW n \in 0 .. 16 PROVE c[n] = IF n = 0 THEN x ELSE T(n - 1, c[n - 1])
    <3>1. CASE n = 0
      BY <3>1, <1>5 DEF States
    <3>2. CASE n # 0
      <4>1. n \in 1 .. 16 /\ n - 1 \in 0 .. 16
        BY <3>2
      <4>2. c[n - 1] \in LoopStates /\ c[n] = F[n][c[n - 1]]
        BY <4>1, <1>5 DEF States
      <4> QED
        BY <3>2, <4>1, <4>2, <1>4
    <3> QED
      BY <3>1, <3>2
  <2> QED
    BY <2>1, <1>5 DEF States
<1>7. b = Step(b)
  <2> HIDE DEF Step, b
  <2> QED
    BY <1>2, <1>6
<1> HIDE DEF b
<1>8. DOMAIN b = 0 .. 16 /\ b = [n \in DOMAIN b |-> b[n]] /\ b[0] = x
  BY <1>7
<1>9. \A n \in 1 .. 16 : b[n] = T(n - 1, b[n - 1])
  <2> SUFFICES ASSUME NEW n \in 1 .. 16 PROVE b[n] = T(n - 1, b[n - 1])
    OBVIOUS
  <2>1. n \in 0 .. 16 /\ n # 0
    OBVIOUS
  <2> QED
    BY <1>7, <2>1
<1>10. \A n \in 1 .. 16 : b[n - 1] \in LoopStates => b[n] = F[n][b[n - 1]]
  BY <1>4, <1>9
<1>11. States(b, 16, LoopStates, x, F)
  BY <1>1, <1>4, <1>8, <1>10, LoopStays
<1>12. \A n \in 0 .. 15 : b[n + 1] = T(n, b[n])
  <2> SUFFICES ASSUME NEW n \in 0 .. 15 PROVE b[n + 1] = T(n, b[n])
    OBVIOUS
  <2>1. n + 1 \in 1 .. 16 /\ (n + 1) - 1 = n
    OBVIOUS
  <2> QED
    BY <1>9, <2>1
<1> QED
  BY <1>8, <1>11, <1>12 DEF States, b, x, T

----------------------------------------------------------------------------
(* Steps of the machine.                                                   *)

\* The registers of a list can be counted.
LEMMA ListFinite == IsFiniteSet(0 .. 15)
<1>1. 0 \in Int /\ 15 \in Int
  OBVIOUS
<1> QED
  BY <1>1, FS_Interval, Zenon

\* A block transfer writes general registers or bytes of memory.
LEMMA BlockTyped ==
    ASSUME NEW f \in RegisterFile, NEW m \in M!Contents, NEW ins, ins.rn \in 0 .. 15,
           ins.list \subseteq 0 .. 15, NEW g \in Word
    PROVE  LET s == arm_load_store_multiple(f, m, ins, g)
           IN  GeneralOnly(f, s.r) /\ s.mem \in M!Contents
<1> DEFINE start == arm_read_register(f, ins.rn)
           card == Cardinality(ins.list)
           first == first_address(start, ins)
           b == block(f, m, ins, first, g)
           t == b[16]
           last == Wrap(IF ins.U = 1 THEN start + 4 * card ELSE start - 4 * card)
           s == arm_load_store_multiple(f, m, ins, g)
<1>1. start \in Word /\ start \in Int
  BY ReadTyped, WordAssumption DEF Word
<1>2. card \in Nat
  <2>1. IsFiniteSet(0 .. 15)
    BY ListFinite
  <2> QED
    BY <2>1, FS_Subset, FS_CardinalityType
<1>3. s = IF ins.W = 0 THEN State(t.r, t.mem) ELSE State(write_register(t.r, ins.rn, last), t.mem)
  BY DEF arm_load_store_multiple
<1>4. first = Wrap(IF ins.U = ins.P THEN (IF ins.U = 1 THEN start ELSE start - 4 * card) + 4
                   ELSE (IF ins.U = 1 THEN start ELSE start - 4 * card))
  BY DEF first_address
<1> HIDE DEF start, card
<1>5. first \in Word /\ last \in Word
  <2>1. /\ start + 4 * card \in Int /\ start - 4 * card \in Int
        /\ (start - 4 * card) + 4 \in Int /\ start + 4 \in Int
    BY <1>1, <1>2
  <2> QED
    BY <1>1, <1>4, <2>1, WrapTyped
<1> HIDE DEF first, last
<1>6. /\ b \in [0 .. 16 -> LoopStates] /\ b[0] = [r |-> f, mem |-> m, address |-> first, val |-> g]
      /\ \A n \in 0 .. 15 : b[n + 1] = transfer_register(b[n], ins, n, g)
  BY <1>5, BlockStates
<1> HIDE DEF b
<1> DEFINE P == {n \in Nat : n <= 16 => GeneralOnly(f, b[n].r)}
<1>7. 0 \in P
  BY <1>6 DEF GeneralOnly
<1>8. \A n \in Nat : n \in P => n + 1 \in P
  <2> SUFFICES ASSUME NEW n \in Nat, GeneralOnly(f, b[n].r), n + 1 <= 16
               PROVE  GeneralOnly(f, b[n + 1].r)
    OBVIOUS
  <2>1. n \in 0 .. 15 /\ n \in 0 .. 16
    OBVIOUS
  <2> DEFINE v == LET read == arm_read(b[n].mem, b[n].address, "word", b[n].val, g)
                  IN  IF n = PC THEN ClearBit0(read) ELSE read
  <2>2. b[n + 1].r = b[n].r \/ b[n + 1].r = write_register(b[n].r, n, v)
    BY <1>6, <2>1 DEF transfer_register
  <2>3. v \in Word
    <3> DEFINE a == arm_read(b[n].mem, b[n].address, "word", b[n].val, g)
    <3>1. b[n].mem \in M!Contents /\ b[n].address \in Word /\ b[n].val \in Word
      BY <1>6, <2>1 DEF LoopStates
    <3>2. a \in Word
      BY <3>1, ReadMemoryTyped
    <3> HIDE DEF a
    <3>3. ClearBit0(a) \in Word
      BY <3>2, ClearedTyped
    <3> QED
      BY <3>2, <3>3 DEF a
  <2> HIDE DEF v
  <2> QED
    BY <2>1, <2>2, <2>3, GeneralWrites
<1>9. Nat \subseteq P
  <2> HIDE DEF P
  <2> QED
    BY <1>7, <1>8, Induction
<1>10. GeneralOnly(f, t.r) /\ t.mem \in M!Contents
  BY <1>6, <1>9 DEF LoopStates
<1> HIDE DEF t, s
<1>11. GeneralOnly(f, write_register(t.r, ins.rn, last))
  BY <1>5, <1>10, GeneralWrites
<1>12. GeneralOnly(f, s.r) /\ s.mem \in M!Contents
  BY <1>3, <1>10, <1>11 DEF State
<1> QED
  BY <1>12 DEF s

\* Words have more bits than the field of a branch leaves out.
LEMMA OffsetSize ==
    /\ WordBits \in Nat /\ OffsetBits \in 1 .. WordBits - 1
    /\ pow2[OffsetBits] \in Nat \ {0} /\ WordMod = 256 * pow2[OffsetBits]
    /\ pow2[OffsetBits - 1] \in Nat \ {0} /\ pow2[OffsetBits] = 2 * pow2[OffsetBits - 1]
<1>1. WordBits \in Nat /\ WordMod = pow2[WordBits] /\ WordMod > 2048
  BY BitsAssumption, WordAssumption
<1>2. ASSUME NEW k \in 0 .. 7, k + 1 <= WordBits PROVE pow2[k + 1] = 2 * pow2[k]
  BY <1>2, NextBit
<1>3. pow2[0] = 1
  BY Pow2
<1>4. WordBits > 8
  <2> SUFFICES ASSUME WordBits <= 8 PROVE FALSE
    BY <1>1
  <2>1. /\ 1 <= WordBits => pow2[1] = 2 /\ (2 <= WordBits => pow2[2] = 4)
        /\ 3 <= WordBits => pow2[3] = 8
        /\ 4 <= WordBits => pow2[4] = 16
        /\ 5 <= WordBits => pow2[5] = 32
        /\ 6 <= WordBits => pow2[6] = 64
        /\ 7 <= WordBits => pow2[7] = 128
        /\ 8 <= WordBits => pow2[8] = 256
    <3>1. 1 <= WordBits => pow2[1] = 2
      BY <1>2, <1>3
    <3>2. 2 <= WordBits => pow2[2] = 4
      BY <1>1, <1>2, <3>1
    <3>3. 3 <= WordBits => pow2[3] = 8
      BY <1>1, <1>2, <3>2
    <3>4. 4 <= WordBits => pow2[4] = 16
      BY <1>1, <1>2, <3>3
    <3>5. 5 <= WordBits => pow2[5] = 32
      BY <1>1, <1>2, <3>4
    <3>6. 6 <= WordBits => pow2[6] = 64
      BY <1>1, <1>2, <3>5
    <3>7. 7 <= WordBits => pow2[7] = 128
      BY <1>1, <1>2, <3>6
    <3>8. 8 <= WordBits => pow2[8] = 256
      BY <1>1, <1>2, <3>7
    <3> QED
      BY <3>1, <3>2, <3>3, <3>4, <3>5, <3>6, <3>7, <3>8
  <2>2. WordBits \in 0 .. 8
    BY <1>1
  <2> QED
    BY <1>1, <1>3, <2>1, <2>2
<1>5. /\ pow2[1] = 2 /\ pow2[2] = 4 /\ pow2[3] = 8 /\ pow2[4] = 16 /\ pow2[5] = 32
      /\ pow2[6] = 64 /\ pow2[7] = 128 /\ pow2[8] = 256
  <2>1. pow2[1] = 2
    BY <1>1, <1>2, <1>3, <1>4
  <2>2. pow2[2] = 4
    BY <1>1, <1>2, <1>4, <2>1
  <2>3. pow2[3] = 8
    BY <1>1, <1>2, <1>4, <2>2
  <2>4. pow2[4] = 16
    BY <1>1, <1>2, <1>4, <2>3
  <2>5. pow2[5] = 32
    BY <1>1, <1>2, <1>4, <2>4
  <2>6. pow2[6] = 64
    BY <1>1, <1>2, <1>4, <2>5
  <2>7. pow2[7] = 128
    BY <1>1, <1>2, <1>4, <2>6
  <2>8. pow2[8] = 256
    BY <1>1, <1>2, <1>4, <2>7
  <2> QED
    BY <2>1, <2>2, <2>3, <2>4, <2>5, <2>6, <2>7, <2>8
<1> DEFINE k == OffsetBits
<1>6. k = WordBits - 8 /\ k \in Nat /\ 8 + k <= WordBits /\ 8 + k = WordBits /\ k \in 1 .. WordBits - 1
  BY <1>1, <1>4 DEF OffsetBits
<1> HIDE DEF k
<1>7. WordMod = 256 * pow2[k]
  <2>1. 8 \in Nat
    OBVIOUS
  <2>2. pow2[8 + k] = pow2[8] * pow2[k]
    BY <1>6, <2>1, PowSum
  <2> QED
    BY <1>1, <1>5, <1>6, <2>2
<1>8. pow2[k] \in Nat \ {0} /\ pow2[k - 1] \in Nat \ {0} /\ pow2[k] = 2 * pow2[k - 1]
  <2>1. k \in 0 .. WordBits - 1 /\ k - 1 \in 0 .. WordBits - 1 /\ k \in 1 .. WordBits
    BY <1>1, <1>6
  <2> QED
    BY <2>1, PowTyped, Pow2
<1> QED
  BY <1>1, <1>6, <1>7, <1>8 DEF k

\* A branch writes the pc, after the link register.
LEMMA BranchTyped ==
    ASSUME NEW f \in RegisterFile, NEW ins, ins.offset \in 0 .. pow2[OffsetBits] - 1
    PROVE  GeneralOnly(f, arm_branch(f, ins))
<1> DEFINE link == Wrap(arm_read_register(f, PC) - 4)
           f1 == IF ins.L = 1 THEN write_register(f, LR, link) ELSE f
           to == Wrap(arm_read_register(f1, PC) + 4 * sign_extending(ins.offset))
<1>1. PC \in 0 .. 15 /\ LR \in 0 .. 15 /\ GeneralOnly(f, f)
  BY DEF PC, LR, GeneralOnly
<1>2. link \in Word
  <2>1. arm_read_register(f, PC) - 4 \in Int
    BY <1>1, ReadTyped, WordAssumption DEF Word
  <2> QED
    BY <2>1, WrapTyped
<1>3. arm_branch(f, ins) = write_register(f1, PC, to)
  BY DEF arm_branch
<1> HIDE DEF link
<1>4. GeneralOnly(f, f1)
  BY <1>1, <1>2, GeneralWrites
<1> HIDE DEF f1
<1>5. to \in Word
  <2>1. arm_read_register(f1, PC) \in Int
    BY <1>1, <1>4, ReadTyped, WordAssumption DEF Word, GeneralOnly
  <2>2. sign_extending(ins.offset) \in Int
    BY OffsetSize DEF sign_extending
  <2>3. arm_read_register(f1, PC) + 4 * sign_extending(ins.offset) \in Int
    BY <2>1, <2>2
  <2> QED
    BY <2>3, WrapTyped
<1> HIDE DEF to
<1> QED
  BY <1>1, <1>3, <1>4, <1>5, GeneralWrites

\* What executing an instruction leaves: words and bytes, and the registers within
\* what module ArmCore allows.
LEMMA ExecuteTyped ==
    ASSUME NEW f \in RegisterFile, NEW m \in M!Contents, NEW ins \in Instructions,
           ins.class # "coprocessor", NEW g \in Word
    PROVE  LET s == execute(f, m, ins, g)
           IN  s.r \in RegisterFile /\ WithinEffect(f, s.r) /\ s.mem \in M!Contents
<1>1. Fields(ins)
  BY FormatAssumption
<1>2. ins.class \in {"data", "single", "block", "branch", "swi"}
  BY <1>1 DEF Fields
<1> DEFINE s == execute(f, m, ins, g)
<1>3. ASSUME NEW h, GeneralOnly(f, h) PROVE h \in RegisterFile /\ WithinEffect(f, h)
  BY <1>3 DEF GeneralOnly, WithinEffect, SameControl, read_cpsr
<1>4. CASE ins.class = "data"
  <2> DEFINE h == arm_data_processing(f, ins)
  <2>1. s = State(h, m)
    BY <1>4 DEF execute
  <2>2. ins \in DataInstructions
    BY <1>1, <1>4 DEF Fields, DataInstructions
  <2>3. h \in RegisterFile
    BY <2>2, DataTyped
  <2>4. ins.rd \in 0 .. 15 /\ StatusTyped(f)
    BY <2>2, FieldsAssumption DEF StatusTyped, RegisterFile, Slot, CPSR
  <2>5. /\ \/ SameControl(h[CPSR], f[CPSR])
           \/ ins.rd = PC /\ current_mode_has_spsr(f) /\ h[CPSR] = read_spsr(f)
        /\ \A slot \in Slot \ {CPSR} : h[slot] # f[slot] => slot = register_slot(f, ins.rd)
    BY <2>4, HandlerKeepsMode
  <2> HIDE DEF h
  <2>6. register_slot(f, PC) = PC
    BY DEF register_slot, banked, PC
  <2>7. WithinEffect(f, h)
    BY <2>4, <2>5, <2>6 DEF WithinEffect, read_cpsr
  <2> QED
    BY <2>1, <2>3, <2>7 DEF State
<1>5. CASE ins.class = "single"
  <2>1. s = arm_load_store(f, m, ins, g)
    BY <1>5 DEF execute
  <2>2. GeneralOnly(f, s.r) /\ s.mem \in M!Contents
    BY <1>1, <1>5, <2>1, SingleTyped
  <2> QED
    BY <1>3, <2>2
<1>6. CASE ins.class = "block"
  <2>1. s = arm_load_store_multiple(f, m, ins, g)
    BY <1>6 DEF execute
  <2>2. ins.rn \in 0 .. 15 /\ ins.list \subseteq 0 .. 15
    BY <1>1, <1>6 DEF Fields
  <2>3. GeneralOnly(f, s.r) /\ s.mem \in M!Contents
    BY <2>1, <2>2, BlockTyped
  <2> QED
    BY <1>3, <2>3
<1>7. CASE ins.class = "branch"
  <2>1. s = State(arm_branch(f, ins), m)
    BY <1>7 DEF execute
  <2>2. ins.offset \in 0 .. pow2[OffsetBits] - 1
    BY <1>1, <1>7 DEF Fields
  <2>3. GeneralOnly(f, s.r) /\ s.mem \in M!Contents
    BY <2>1, <2>2, BranchTyped DEF State
  <2> QED
    BY <1>3, <2>3
<1>8. CASE ins.class = "swi"
  <2>1. s = State(f, m)
    BY <1>8 DEF execute, arm_coprocessor_others_swi
  <2>2. GeneralOnly(f, s.r) /\ s.mem \in M!Contents
    BY <2>1 DEF State, GeneralOnly
  <2> QED
    BY <1>3, <2>2
<1> QED
  BY <1>2, <1>4, <1>5, <1>6, <1>7, <1>8

\* The registers r, as a step from the registers f allows them.
StepAllowed(f, h) ==
    \/ fetch_ok(f) /\ WithinEffect(arm_fetch(f), h)
    \/ ~ fetch_ok(f) /\ h = arm_exception(arm_fetch(f), DATA_ABORT)
    \/ fetch_ok(f) /\ h = arm_exception(arm_fetch(f), UNDEFINED_INSTRUCTION)

\* One step of the machine keeps the type of the registers and of memory and is one
\* of those of module ArmCore.
LEMMA MachineStep ==
    ASSUME MachineTypeOK, StepMachine
    PROVE  MachineTypeOK' /\ StepAllowed(r, r')
<1>1. PICK ins \in Instructions, g \in Garbage :
          /\ r' = arm_step(r, mem, ins, g).r /\ mem' = arm_step(r, mem, ins, g).mem
          /\ is_big_endian' = is_big_endian
  BY DEF StepMachine
<1> DEFINE f == arm_fetch(r)
           s == arm_step(r, mem, ins, g)
<1>2. /\ r \in RegisterFile /\ f \in RegisterFile /\ mem \in M!Contents /\ is_big_endian \in {0, 1}
      /\ g \in Word
  BY FetchPc, ByteAssumption DEF MachineTypeOK, RegTypeOK
<1>3. \/ ~ fetch_ok(r) /\ s = State(arm_exception(f, DATA_ABORT), mem)
      \/ fetch_ok(r) /\ s = State(f, mem)
      \/ fetch_ok(r) /\ s = State(arm_exception(f, UNDEFINED_INSTRUCTION), mem)
      \/ fetch_ok(r) /\ ins.class # "coprocessor" /\ s = execute(f, mem, ins, g)
  BY DEF arm_step
<1> HIDE DEF f, s
<1>4. s.r \in RegisterFile /\ s.mem \in M!Contents /\ StepAllowed(r, s.r)
  <2>1. CASE ~ fetch_ok(r) /\ s = State(arm_exception(f, DATA_ABORT), mem)
    BY <1>2, <2>1, ExceptionType DEF State, StepAllowed, f, Exceptions, DATA_ABORT
  <2>2. CASE fetch_ok(r) /\ s = State(f, mem)
    <3>1. WithinEffect(f, f)
      BY DEF WithinEffect, SameControl
    <3> QED
      BY <1>2, <2>2, <3>1 DEF State, StepAllowed, f
  <2>3. CASE fetch_ok(r) /\ s = State(arm_exception(f, UNDEFINED_INSTRUCTION), mem)
    BY <1>2, <2>3, ExceptionType DEF State, StepAllowed, f, Exceptions, UNDEFINED_INSTRUCTION
  <2>4. CASE fetch_ok(r) /\ ins.class # "coprocessor" /\ s = execute(f, mem, ins, g)
    <3>1. s.r \in RegisterFile /\ WithinEffect(f, s.r) /\ s.mem \in M!Contents
      BY <1>2, <2>4, ExecuteTyped
    <3> QED
      BY <2>4, <3>1 DEF StepAllowed, f
  <2> QED
    BY <1>3, <2>1, <2>2, <2>3, <2>4
<1>5. r' = s.r /\ mem' = s.mem /\ is_big_endian' = is_big_endian
  BY <1>1 DEF s
<1>6. MachineTypeOK'
  BY <1>2, <1>4, <1>5 DEF MachineTypeOK, RegTypeOK, M!Contents
<1> QED
  BY <1>4, <1>5, <1>6

\* Registers hold words and memory holds bytes, whatever the program, its loads of
\* uninitialised words and its accesses across the end of memory.
THEOREM MachineTyped == MachineSpec => []MachineTypeOK
<1>1. MachineTypeOK /\ [StepMachine]_machine => MachineTypeOK'
  <2> SUFFICES ASSUME MachineTypeOK, [StepMachine]_machine PROVE MachineTypeOK'
    OBVIOUS
  <2>1. CASE StepMachine
    BY <2>1, MachineStep
  <2>2. CASE UNCHANGED machine
    BY <2>2 DEF machine, MachineTypeOK, RegTypeOK, M!Contents
  <2> QED
    BY <2>1, <2>2
<1> QED
  BY <1>1, PTL DEF MachineSpec

\* Every step of the machine is one that module ArmCore allows: what is proved
\* there of all effects holds of the instructions.
THEOREM StepsAlwaysWithinEffect == MachineSpec => StepsWithinEffect
<1>1. MachineTypeOK /\ [StepMachine]_machine
        => [ \/ fetch_ok(r) /\ WithinEffect(arm_fetch(r), r')
             \/ ~ fetch_ok(r) /\ r' = arm_exception(arm_fetch(r), DATA_ABORT)
             \/ fetch_ok(r) /\ r' = arm_exception(arm_fetch(r), UNDEFINED_INSTRUCTION) ]_machine
  BY MachineStep DEF StepAllowed
<1> QED
  BY <1>1, MachineTyped, PTL DEF MachineSpec, StepsWithinEffect

----------------------------------------------------------------------------
(* Indexed loads.                                                          *)

\* Sums of sums wrap around once.
LEMMA WrapTwice ==
    ASSUME NEW x \in Int, NEW y \in Int
    PROVE  Wrap(Wrap(x) + y) = Wrap(x + y) /\ Wrap(y + Wrap(x)) = Wrap(y + x)
<1> DEFINE m == x % WordMod
           q == x \div WordMod
           n == (m + y) % WordMod
           p == (m + y) \div WordMod
<1>1. WordMod \in Nat \ {0}
  BY WordAssumption
<1>2. q \in Int /\ m \in 0 .. WordMod - 1 /\ x = m + WordMod * q
  BY <1>1
<1> HIDE DEF q, m
<1>3. m + y \in Int
  BY <1>2
<1>4. p \in Int /\ n \in 0 .. WordMod - 1 /\ m + y = n + WordMod * p
  BY <1>1, <1>3
<1> HIDE DEF p
<1>5. n \in Int
  BY <1>1, <1>4
<1>6. x + y = n + WordMod * (p + q)
  <2>1. WordMod * (p + q) = WordMod * p + WordMod * q
    BY <1>1, <1>2, <1>4
  <2>2. WordMod * p \in Int /\ WordMod * q \in Int
    BY <1>1, <1>2, <1>4
  <2> HIDE DEF n
  <2> QED
    BY <1>2, <1>3, <1>4, <1>5, <2>1, <2>2
<1> HIDE DEF n
<1>7. (n + WordMod * (p + q)) % WordMod = n
  <2>1. p + q \in Int
    BY <1>2, <1>4
  <2> QED
    BY <1>1, <1>4, <2>1, Division
<1>8. (x + y) % WordMod = (m + y) % WordMod
  BY <1>6, <1>7 DEF n
<1>9. y + m = m + y /\ y + x = x + y
  BY <1>2
<1> QED
  BY <1>8, <1>9 DEF Wrap, m

\* Registers 4 and 13 are different slots in every mode.
LEMMA TwoWrites ==
    ASSUME NEW f \in RegisterFile, NEW v \in Word, NEW x \in Word
    PROVE  /\ write_register(f, 4, v) \in RegisterFile /\ write_register(f, SP, x) \in RegisterFile
           /\ read_register(write_register(f, SP, x), SP) = x
           /\ read_register(write_register(f, 4, v), SP) = read_register(f, SP)
           /\ write_register(write_register(f, 4, v), SP, x)
                = write_register(write_register(f, SP, x), 4, v)
<1> DEFINE sp == register_slot(f, SP)
           f4 == [f EXCEPT ![4] = v]
           fs == [f EXCEPT ![sp] = x]
<1>1. sp \in Slot \ {CPSR} /\ sp # 4 /\ 4 \in Slot \ {CPSR}
  <2>1. sp \in (0 .. 31) \ {CPSR}
    BY ReadTyped DEF SP
  <2>2. sp >= 13
    BY DEF register_slot, banked, mode_offset, SP, FIQ, SVC, ABT, UND, IRQ
  <2> QED
    BY <2>1, <2>2 DEF Slot, CPSR
<1>2. register_slot(f, 4) = 4 /\ register_slot(f4, 4) = 4 /\ register_slot(fs, 4) = 4
  BY DEF register_slot, banked
<1> HIDE DEF sp
<1>3. /\ f4 \in RegisterFile /\ fs \in RegisterFile
      /\ f4[CPSR] = f[CPSR] /\ fs[CPSR] = f[CPSR] /\ fs[sp] = x /\ f4[sp] = f[sp]
  BY <1>1 DEF RegisterFile, CPSR, Slot
<1>4. [f4 EXCEPT ![sp] = x] = [fs EXCEPT ![4] = v]
  BY <1>1 DEF RegisterFile
<1> HIDE DEF f4, fs
<1>5. register_slot(f4, SP) = sp /\ register_slot(fs, SP) = sp
  BY <1>3, SameSlots DEF sp
<1>6. write_register(f, 4, v) = f4 /\ write_register(f, SP, x) = fs
  BY <1>2 DEF write_register, f4, fs, sp
<1>7. /\ write_register(f4, SP, x) = [f4 EXCEPT ![sp] = x]
      /\ write_register(fs, 4, v) = [fs EXCEPT ![4] = v]
      /\ read_register(f4, SP) = f4[sp] /\ read_register(fs, SP) = fs[sp]
      /\ read_register(f, SP) = f[sp]
  BY <1>2, <1>5 DEF write_register, read_register, sp
<1> QED
  BY <1>3, <1>4, <1>6, <1>7

\* What the loads of IndexedIsTwoSteps do.
LEMMA IndexedLoad ==
    ASSUME NEW f \in RegisterFile, NEW m \in M!Contents, NEW size \in {"word", "half", "byte"},
           NEW o \in Word, NEW U \in {0, 1}, NEW g \in Word,
           NEW P \in {0, 1}, NEW W \in {0, 1}, P = 1 \/ W = 0
    PROVE  LET base == read_register(f, SP)
               moved == Wrap(base + (IF U = 1 THEN o ELSE - o))
               s == write_register(f, 4, arm_read(m, IF P = 1 THEN moved ELSE base, Transferred(size, o), g, g))
           IN  /\ base \in Word /\ moved \in Word
               /\ arm_load_store(f, m, Single(1, size, P, W, U, 4, SP, Immediate(o)), g)
                    = State(IF P = 0 \/ W = 1 THEN write_register(s, SP, moved) ELSE s, m)
<1> DEFINE ins == Single(1, size, P, W, U, 4, SP, Immediate(o))
           base == read_register(f, SP)
           moved == Wrap(base + (IF U = 1 THEN o ELSE - o))
           offset == IF U = 1 THEN o ELSE Wrap(- o)
           first == IF P = 1 THEN moved ELSE base
           v == arm_read(m, first, Transferred(size, o), g, g)
           s == write_register(f, 4, v)
<1>1. /\ ins.L = 1 /\ ins.size = size /\ ins.P = P /\ ins.W = W /\ ins.U = U /\ ins.rd = 4
      /\ ins.rn = SP /\ ins.offset.kind = "immediate" /\ ins.offset.value = o
  BY DEF Single, Immediate
<1> HIDE DEF ins
<1>2. o \in Int /\ - o \in Int /\ base \in Int /\ base \in Word
  BY ReadTyped, WordAssumption DEF Word, SP
<1>3. moved \in Word
  BY <1>2, WrapTyped
<1>4. Wrap(base + offset) = moved
  BY <1>2, WrapTwice
<1>5. ASSUME NEW h PROVE addressing_mode(h, ins) = offset
  BY <1>1 DEF addressing_mode
<1>6. (IF is_half(ins) THEN "half" ELSE ins.size) = Transferred(size, o)
  BY <1>1 DEF is_half, Transferred
<1>7. arm_read_register(f, ins.rn) = base
  BY <1>1 DEF arm_read_register, SP, PC
<1> HIDE DEF base, moved, offset
<1>8. transfer(f, m, ins, first, g) = State(s, m)
  BY <1>1, <1>6 DEF transfer, PC
<1>9. (IF ins.P = 1 THEN Wrap(base + addressing_mode(f, ins)) ELSE base) = first
  BY <1>1, <1>4, <1>5
<1>10. (IF ins.P = 1 THEN first ELSE Wrap(first + addressing_mode(State(s, m).r, ins))) = moved
  BY <1>1, <1>4, <1>5
<1> HIDE DEF first, s
<1>11. State(s, m).r = s /\ State(s, m).mem = m
  BY DEF State
<1>12. arm_load_store(f, m, ins, g)
         = IF ins.P = 0 \/ ins.W = 1 THEN State(write_register(State(s, m).r, ins.rn, moved), State(s, m).mem)
                                     ELSE State(s, m)
  BY <1>7, <1>8, <1>9, <1>10 DEF arm_load_store
<1>13. arm_load_store(f, m, ins, g)
         = State(IF P = 0 \/ W = 1 THEN write_register(s, SP, moved) ELSE s, m)
  BY <1>1, <1>11, <1>12
<1> QED
  BY <1>2, <1>3, <1>13 DEF s, first, base, moved, ins

\* The addressing modes of a load always mean what the assembler writes, for every
\* offset of a word, up to the half word that bits 7 and 4 of the offset select.
THEOREM IndexedIsAlwaysTwoSteps == MachineSpec => []IndexedIsTwoSteps
<1>1. MachineTypeOK => IndexedIsTwoSteps
  <2> SUFFICES ASSUME MachineTypeOK,
                      NEW size \in {"word", "half", "byte"}, NEW o \in Indexes, NEW U \in {0, 1},
                      NEW g \in Garbage
               PROVE  LET sum(f) == read_register(f, SP) + (IF U = 1 THEN o ELSE -o)
                          moved(f) == write_register(f, SP, Wrap(sum(f)))
                          plain(f) == arm_load_store(f, mem, Single(1, Transferred(size, o), 1, 0, 1, 4, SP, Immediate(0)), g)
                      IN  /\ arm_load_store(r, mem, Single(1, size, 1, 1, U, 4, SP, Immediate(o)), g)
                               = plain(moved(r))
                          /\ arm_load_store(r, mem, Single(1, size, 0, 0, U, 4, SP, Immediate(o)), g)
                               = State(moved(plain(r).r), mem)
    BY DEF IndexedIsTwoSteps
  <2> DEFINE step(f) == read_register(f, SP) + (IF U = 1 THEN o ELSE - o)
             real == Transferred(size, o)
             plain(f) == arm_load_store(f, mem, Single(1, real, 1, 0, 1, 4, SP, Immediate(0)), g)
             value(a) == arm_read(mem, a, real, g, g)
             base == read_register(r, SP)
             x == Wrap(step(r))
             fs == write_register(r, SP, x)
             f4 == write_register(r, 4, value(base))
  <2>1. /\ r \in RegisterFile /\ mem \in M!Contents /\ g \in Word
        /\ o \in Word /\ real \in {"word", "half", "byte"}
    BY ByteAssumption, ProgramAssumption DEF MachineTypeOK, RegTypeOK, Transferred
  <2>2. 0 \in Word /\ Transferred(real, 0) = real
    <3>1. 7 % WordBits \in 0 .. WordBits - 1
      BY SomeBits
    <3>2. pow2[7 % WordBits] \in Nat \ {0}
      BY <3>1, PowTyped
    <3>3. 0 \div pow2[7 % WordBits] = 0
      BY <3>2
    <3> QED
      BY <3>3, WordAssumption DEF get_bit, Word, Transferred
  <2>3. ASSUME NEW f \in RegisterFile
        PROVE  /\ read_register(f, SP) \in Word
               /\ plain(f) = State(write_register(f, 4, value(read_register(f, SP))), mem)
    <3>1. /\ read_register(f, SP) \in Word
          /\ plain(f) = State(write_register(f, 4, value(Wrap(read_register(f, SP) + 0))), mem)
      <4> HIDE DEF real
      <4> QED
        BY <2>1, <2>2, IndexedLoad
    <3>2. Wrap(read_register(f, SP) + 0) = read_register(f, SP)
      BY <3>1, WordAssumption DEF Wrap, Word
    <3> QED
      BY <3>1, <3>2
  <2>4. base \in Word /\ x \in Word
    BY <2>1, IndexedLoad
  <2>5. \A a \in Word : value(a) \in Word
    BY <2>1, ReadMemoryTyped
  <2>6. arm_load_store(r, mem, Single(1, size, 1, 1, U, 4, SP, Immediate(o)), g)
          = State(write_register(write_register(r, 4, value(x)), SP, x), mem)
    BY <2>1, IndexedLoad
  <2>7. arm_load_store(r, mem, Single(1, size, 0, 0, U, 4, SP, Immediate(o)), g)
          = State(write_register(f4, SP, x), mem)
    BY <2>1, IndexedLoad
  <2>8. /\ fs \in RegisterFile /\ read_register(fs, SP) = x
        /\ write_register(write_register(r, 4, value(x)), SP, x) = write_register(fs, 4, value(x))
        /\ f4 \in RegisterFile /\ read_register(f4, SP) = base
    <3>1. value(x) \in Word /\ value(base) \in Word
      BY <2>4, <2>5
    <3> HIDE DEF value, x, base
    <3>2. read_register(f4, SP) = read_register(r, SP) /\ f4 \in RegisterFile
      BY <2>1, <2>4, <3>1, TwoWrites
    <3> QED
      BY <2>1, <2>4, <3>1, <3>2, TwoWrites DEF base
  <2>9. plain(fs) = State(write_register(fs, 4, value(x)), mem)
    BY <2>3, <2>8
  <2>10. plain(r) = State(f4, mem) /\ plain(r).r = f4
    BY <2>1, <2>3 DEF State
  <2>11. step(f4) = step(r)
    BY <2>8
  <2> HIDE DEF plain, step, value
  <2>12. /\ State(write_register(write_register(r, 4, value(x)), SP, x), mem) = plain(fs)
         /\ State(write_register(f4, SP, x), mem)
              = State(write_register(plain(r).r, SP, Wrap(step(plain(r).r))), mem)
    BY <2>8, <2>9, <2>10, <2>11
  <2> QED
    BY <2>6, <2>7, <2>12 DEF plain, step
<1> QED
  BY <1>1, MachineTyped, PTL

----------------------------------------------------------------------------
(* Calls.                                                                  *)

\* Arithmetic on words keeps multiples of four.
LEMMA WrapAligned == ASSUME NEW x \in Int, x % 4 = 0 PROVE Wrap(x) % 4 = 0
<1> DEFINE k == WordMod \div 16
           q == x \div WordMod
           m == x % WordMod
           j == k * q
<1>1. WordMod \in Nat \ {0} /\ k \in Nat /\ WordMod = 16 * k
  BY WordAssumption, CoreAssumption
<1>2. q \in Int /\ m \in Int /\ x = m + WordMod * q
  BY <1>1
<1> HIDE DEF k, q, m
<1>3. WordMod * q = 16 * j /\ j \in Int
  BY <1>1, <1>2
<1> HIDE DEF j
<1>4. x = m + 16 * j
  BY <1>2, <1>3
<1>5. m % 4 = 0
  BY <1>2, <1>3, <1>4
<1> QED
  BY <1>5 DEF m, Wrap

\* The address fetched after a write of a multiple of four to the pc.
LEMMA FetchedAddress ==
    ASSUME NEW t \in Word, t % 4 = 0
    PROVE  PcValue(t) = Wrap(t + 4) /\ Wrap(PcValue(t) - 4) = t
<1> DEFINE y == Wrap(t + 4)
<1>1. t \in Int /\ t + 4 \in Int /\ (t + 4) % 4 = 0
  BY WordAssumption DEF Word
<1>2. y \in Word /\ y % 4 = 0
  BY <1>1, WrapTyped, WrapAligned
<1>3. Wrap(y - 4) = t
  <2>1. Wrap(y + (-4)) = Wrap((t + 4) + (-4))
    BY <1>1, WrapTwice
  <2>2. (t + 4) + (-4) = t /\ Wrap(t) = t
    BY <1>1, WordAssumption DEF Wrap, Word
  <2>3. y \in Int
    BY <1>2, WordAssumption DEF Word
  <2>4. y + (-4) = y - 4
    BY <2>3
  <2> QED
    BY <2>1, <2>2, <2>4
<1> HIDE DEF y
<1>4. ClearBit1(y) = y
  <2>1. y \in Nat
    BY <1>2, WordAssumption DEF Word
  <2>2. (y \div 2) % 2 = 0
    BY <1>2, <2>1
  <2> QED
    BY <2>1, <2>2 DEF ClearBit1, Bit
<1> QED
  BY <1>3, <1>4 DEF PcValue, y

\* The field of a branch is a signed number of words, up to a multiple of the
\* modulus once it is shifted.
LEMMA SignedOffset ==
    ASSUME NEW offset \in 0 .. pow2[OffsetBits] - 1
    PROVE  LET words == IF offset < pow2[OffsetBits - 1] THEN offset ELSE offset - pow2[OffsetBits]
           IN  /\ words \in Int /\ sign_extending(offset) \in Int
               /\ \/ 4 * sign_extending(offset) = 4 * words
                  \/ 4 * sign_extending(offset) = 4 * words + WordMod
<1> DEFINE h == pow2[OffsetBits - 1]
           p == pow2[OffsetBits]
<1>1. h \in Nat \ {0} /\ p = 2 * h /\ WordMod = 256 * p /\ offset \in Nat /\ offset < p
  BY OffsetSize
<1>2. get_bit(offset, OffsetBits - 1) = (offset \div h) % 2
  <2>1. OffsetBits - 1 \in 0 .. WordBits - 1 /\ OffsetBits - 1 \in Int
    BY OffsetSize
  <2> QED
    BY <1>1, <2>1, GetBit
<1>3. sign_extending(offset) = IF (offset \div h) % 2 = 1 THEN offset + 63 * p ELSE offset
  BY <1>2 DEF sign_extending
<1> HIDE DEF h, p
<1>4. CASE offset < h
  <2>1. offset \in 0 .. h - 1 /\ offset = offset + h * 0
    BY <1>1, <1>4
  <2>2. offset \div h = 0
    BY <1>1, <2>1, Division
  <2>3. sign_extending(offset) = offset
    BY <1>3, <2>2
  <2> QED
    BY <1>1, <1>4, <2>3 DEF h, p
<1>5. CASE offset >= h
  <2>1. offset - h \in 0 .. h - 1 /\ offset = (offset - h) + h * 1
    BY <1>1, <1>5
  <2>2. offset \div h = 1
    BY <1>1, <2>1, Division
  <2>3. sign_extending(offset) = offset + 63 * p
    BY <1>3, <2>2
  <2>4. 4 * (offset + 63 * p) = 4 * (offset - p) + WordMod
    BY <1>1
  <2>5. offset + 63 * p \in Int /\ offset - p \in Int /\ ~ (offset < h)
    BY <1>1, <1>5
  <2> QED
    BY <2>3, <2>4, <2>5 DEF h, p
<1> QED
  BY <1>1, <1>4, <1>5

\* Where a branch goes.
LEMMA BranchTarget ==
    ASSUME NEW here \in Word, here % 4 = 0, NEW offset \in 0 .. pow2[OffsetBits] - 1
    PROVE  LET words == IF offset < pow2[OffsetBits - 1] THEN offset ELSE offset - pow2[OffsetBits]
               t == Wrap(Wrap(here + 8) + 4 * sign_extending(offset))
           IN  t = Wrap(here + 8 + 4 * words) /\ t \in Word /\ t % 4 = 0
<1> DEFINE words == IF offset < pow2[OffsetBits - 1] THEN offset ELSE offset - pow2[OffsetBits]
           se == sign_extending(offset)
           x == here + 8 + 4 * words
<1>1. words \in Int /\ se \in Int /\ (4 * se = 4 * words \/ 4 * se = 4 * words + WordMod)
  BY SignedOffset
<1> HIDE DEF words, se
<1>2. here \in Int /\ here + 8 \in Int /\ 4 * se \in Int /\ WordMod \in Nat \ {0} /\ x \in Int
  BY <1>1, WordAssumption DEF Word
<1>3. Wrap(Wrap(here + 8) + 4 * se) = Wrap((here + 8) + 4 * se)
  BY <1>2, WrapTwice
<1>4. Wrap((here + 8) + 4 * se) = Wrap(x)
  <2>1. CASE 4 * se = 4 * words
    BY <2>1
  <2>2. CASE 4 * se = 4 * words + WordMod
    <3>1. (here + 8) + 4 * se = x + WordMod
      BY <1>1, <1>2, <2>2
    <3>2. Wrap(WordMod + x) = Wrap(Wrap(WordMod) + x)
      BY <1>2, WrapTwice
    <3>3. Wrap(WordMod) = 0
      BY <1>2 DEF Wrap
    <3>4. WordMod + x = x + WordMod /\ 0 + x = x
      BY <1>2
    <3> QED
      BY <3>1, <3>2, <3>3, <3>4
  <2> QED
    BY <1>1, <2>1, <2>2
<1>5. x % 4 = 0
  BY <1>1, <1>2
<1>6. Wrap(x) \in Word /\ Wrap(x) % 4 = 0
  BY <1>2, <1>5, WrapTyped, WrapAligned
<1> QED
  BY <1>3, <1>4, <1>6 DEF words, se

\* MOV pc, lr.
LEMMA Return ==
    ASSUME NEW f \in RegisterFile
    PROVE  LET back == arm_data_processing(f, Instruction("MOV", 0, PC, 0, Register(LR)))
           IN  back = [f EXCEPT ![15] = read_register(f, LR)]
<1> DEFINE v == read_register(f, LR)
           ins == Instruction("MOV", 0, PC, 0, Register(LR))
           operand == second_operand(f, ins.operand)
<1>1. v \in Word
  BY ReadTyped DEF LR
<1>2. WordBits \in Nat \ {0} /\ 0 % WordBits = 0 /\ pow2[0] = 1
  BY SomeBits, Pow2
<1>3. ShiftLeft(v, 0) = v
  <2>1. (v * 1) % WordMod = v
    BY <1>1, WordAssumption DEF Word
  <2> QED
    BY <1>2, <2>1 DEF ShiftLeft
<1>4. arm_read_register(f, LR) = v
  BY DEF arm_read_register, LR, PC
<1> HIDE DEF v
<1>5. /\ ins.opcode = "MOV" /\ ins.S = 0 /\ ins.rd = PC /\ ins.operand.I = 0
      /\ ins.operand.rm = LR /\ ins.operand.type = "LSL" /\ ins.operand.R = 0
      /\ ins.operand.amount = 0
  BY DEF Instruction, Register
<1> HIDE DEF ins
<1>6. shift_amount(f, ins.operand) = 0
  BY <1>5 DEF shift_amount
<1>7. operand.value = v
  <2>1. shifter_operand(f, ins.operand).value = v
    BY <1>3, <1>4, <1>5, <1>6 DEF shifter_operand
  <2> QED
    BY <1>5, <2>1 DEF second_operand
<1> HIDE DEF operand
<1>8. ASSUME NEW a, NEW c PROVE operation("MOV", a, v, c) = v
  BY DEF operation
<1>9. arm_data_processing(f, ins) = write_register(f, PC, v)
  BY <1>5, <1>7, <1>8 DEF arm_data_processing, Comparisons, operand
<1>10. register_slot(f, PC) = 15
  BY DEF register_slot, banked, PC
<1> QED
  BY <1>9, <1>10 DEF write_register, v, ins

\* Calls always return.
THEOREM CallAlwaysReturns == MachineSpec => []CallReturns
<1>1. MachineTypeOK => CallReturns
  <2> SUFFICES ASSUME MachineTypeOK, NEW offset \in Offsets, fetch_address(r) % 4 = 0
               PROVE  LET words == IF offset < pow2[OffsetBits - 1] THEN offset ELSE offset - pow2[OffsetBits]
                          called == arm_branch(arm_fetch(r), [L |-> 1, offset |-> offset])
                          back == arm_data_processing(arm_fetch(called), Instruction("MOV", 0, PC, 0, Register(LR)))
                      IN  /\ fetch_address(called) = Wrap(fetch_address(r) + 8 + 4 * words)
                          /\ fetch_address(back) = Wrap(fetch_address(r) + 4)
    BY DEF CallReturns
  <2> DEFINE words == IF offset < pow2[OffsetBits - 1] THEN offset ELSE offset - pow2[OffsetBits]
             here == fetch_address(r)
             a == PcValue(r[15])
             f == arm_fetch(r)
             lr == register_slot(f, LR)
             f1 == [f EXCEPT ![lr] = a]
             ins == [L |-> 1, offset |-> offset]
             t == Wrap(Wrap(here + 8) + 4 * sign_extending(offset))
             called == arm_branch(f, ins)
             f2 == arm_fetch(called)
             back == arm_data_processing(f2, Instruction("MOV", 0, PC, 0, Register(LR)))
  <2>1. r \in RegisterFile /\ r[15] \in Word /\ offset \in 0 .. pow2[OffsetBits] - 1
    BY ProgramAssumption DEF MachineTypeOK, RegTypeOK, RegisterFile, Slot
  <2>2. /\ here = Wrap(a - 4) /\ f = [r EXCEPT ![15] = a] /\ f \in RegisterFile
    BY <2>1, FetchPc
  <2>3. f[15] = a
    BY <2>1, <2>2 DEF RegisterFile, Slot
  <2>4. /\ a \in Word /\ here \in Word /\ Wrap(here + 4) = a /\ Wrap(a + 4) = Wrap(here + 8)
        /\ PcValue(a) = Wrap(a + 4) /\ Wrap(Wrap(a + 4) - 4) = a
    BY <2>1, <2>2, PcArithmetic
  <2> HIDE DEF a, f, here
  <2>5. arm_read_register(f, PC) = Wrap(a + 4)
    BY <2>2, <2>3, <2>4, FetchPc
  <2>6. lr \in (0 .. 31) \ {15, CPSR}
    <3>1. lr \in (0 .. 31) \ {CPSR}
      BY <2>2, ReadTyped DEF LR
    <3>2. lr # 15
      BY DEF register_slot, banked, mode_offset, LR, FIQ, SVC, ABT, UND, IRQ
    <3> QED
      BY <3>1, <3>2
  <2>7. write_register(f, LR, a) = f1
    BY DEF write_register
  <2> HIDE DEF lr
  <2>8. f1 \in RegisterFile /\ f1[15] = a /\ f1[lr] = a /\ f1[CPSR] = f[CPSR]
    BY <2>2, <2>3, <2>4, <2>6 DEF RegisterFile, Slot, CPSR
  <2> HIDE DEF f1
  <2>9. arm_read_register(f1, PC) = Wrap(a + 4)
    BY <2>4, <2>8, FetchPc
  <2>10. t = Wrap(here + 8 + 4 * words) /\ t \in Word /\ t % 4 = 0
    BY <2>1, <2>4, BranchTarget DEF here
  <2>11. called = [f1 EXCEPT ![15] = t]
    <3>1. ins.L = 1 /\ ins.offset = offset
      OBVIOUS
    <3> HIDE DEF ins
    <3>2. called = write_register(f1, PC, t)
      BY <2>4, <2>5, <2>7, <2>9, <3>1 DEF arm_branch
    <3>3. register_slot(f1, PC) = 15
      BY DEF register_slot, banked, PC
    <3> QED
      BY <3>2, <3>3 DEF write_register
  <2> HIDE DEF t, called, words
  <2>12. called \in RegisterFile /\ called[15] = t /\ called[lr] = a /\ called[CPSR] = f[CPSR]
    BY <2>6, <2>8, <2>10, <2>11 DEF RegisterFile, Slot, CPSR
  <2>13. fetch_address(called) = t
    BY <2>10, <2>12, FetchPc, FetchedAddress
  <2>14. f2 = [called EXCEPT ![15] = PcValue(t)] /\ f2 \in RegisterFile
    BY <2>12, FetchPc
  <2>15. f2[lr] = a /\ f2[CPSR] = f[CPSR]
    BY <2>6, <2>12, <2>14 DEF RegisterFile, Slot, CPSR
  <2> HIDE DEF f2
  <2>16. read_register(f2, LR) = a
    BY <2>15, SameSlots DEF read_register, lr
  <2>17. back = [f2 EXCEPT ![15] = a]
    BY <2>14, <2>16, Return
  <2> HIDE DEF back
  <2>18. back \in RegisterFile /\ back[15] = a
    BY <2>4, <2>14, <2>17 DEF RegisterFile, Slot
  <2>19. fetch_address(back) = a
    BY <2>4, <2>18, FetchPc
  <2> QED
    BY <2>4, <2>10, <2>13, <2>19 DEF words, here, called, back, f2, f
<1> QED
  BY <1>1, MachineTyped, PTL
=============================================================================
