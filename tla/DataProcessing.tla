--------------------------- MODULE DataProcessing ---------------------------
(***************************************************************************)
(* Conditions, the shifter operand (arm_instruction.c, util.c) and the     *)
(* data processing instructions with MRS (arm_data_processing.c,           *)
(* arm_branch_other.c), on the registers of module ArmCore.  An            *)
(* instruction is the record of its fields.  Words have WordBits bits, 32  *)
(* in the code; the flags N, Z, C, V are the four highest of the CPSR.     *)
(*                                                                         *)
(* The code shifts by counts outside 0..31 at several places.  C leaves    *)
(* this undefined; the processors the simulator is built for take the      *)
(* count modulo the number of bits, and so do the operators here.          *)
(***************************************************************************)
EXTENDS ArmCore, FiniteSetsExt

CONSTANTS
    WordBits,           \* bits of a word
    Instructions        \* instructions of a run

\* 1 << i, the weight of bit i.
pow2[i \in 0 .. WordBits] == IF i = 0 THEN 1 ELSE 2 * pow2[i - 1]

ASSUME BitsAssumption == WordBits \in Nat /\ WordMod = pow2[WordBits]

get_bit(x, i) == (x \div pow2[i % WordBits]) % 2

\* The weights of the flags in the CPSR; N is also that of the sign of a word.
N == WordMod \div 2
Z == WordMod \div 4
C == WordMod \div 8
V == WordMod \div 16

\* get_bit(x, 31).
msb(x) == Bit(x, N)

\* A word as the set of the bits that are 1, and the words C makes with & | ^.
Ones(x) == {i \in 0 .. WordBits - 1 : get_bit(x, i) = 1}
\* sums(S)[n] is the word whose ones are the bits of S below n.
sums(S) ==
    LET sum[n \in 0 .. WordBits] ==
            IF n = 0 THEN 0 ELSE sum[n - 1] + (IF n - 1 \in S THEN pow2[n - 1] ELSE 0)
    IN  sum
OfOnes(S) == sums(S)[WordBits]
And(a, b) == OfOnes(Ones(a) \cap Ones(b))
Or(a, b) == OfOnes(Ones(a) \cup Ones(b))
Xor(a, b) == OfOnes(SymDiff(Ones(a), Ones(b)))

ShiftLeft(x, n) == (x * pow2[n % WordBits]) % WordMod
ShiftRight(x, n) == x \div pow2[n % WordBits]
Complement(x) == WordMod - 1 - x

\* Mutant: the bits shifted out come back one place too low.
ror_short(value, n) == Or(ShiftRight(value, n), ShiftLeft(value, WordBits - n - 1))

asr(value, n) ==
    Or(ShiftRight(value, n), IF msb(value) = 1 THEN ShiftLeft(WordMod - 1, WordBits - n) ELSE 0)

ror(value, n) == Or(ShiftRight(value, n), ShiftLeft(value, WordBits - n))

flag(f, w) == Bit(read_cpsr(f), w)

----------------------------------------------------------------------------

\* NV is 0b1111, which arm_constants.h does not name.
Conditions == {"EQ", "NE", "CS", "CC", "MI", "PL", "VS", "VC",
               "HI", "LS", "GE", "LT", "GT", "LE", "AL", "NV"}

\* Mutant: HI forgets Z, GE and LE test N alone.
condition_n_alone(f, cond) ==
    LET n == flag(f, N)  z == flag(f, Z)  c == flag(f, C)
    IN  CASE cond \in {"CS", "HI"} -> c = 1
          [] cond \in {"CC", "LS"} -> c = 0
          [] cond \in {"PL", "GE", "GT"} -> n = 0
          [] cond \in {"MI", "LT", "LE"} -> n = 1
          [] cond = "EQ" -> z = 1
          [] cond = "NE" -> z = 0
          [] OTHER -> TRUE

\* Whether arm_execute_instruction goes on after its first switch, whose default
\* case, NV, passes like AL.
condition(f, cond) ==
    LET n == flag(f, N)  z == flag(f, Z)  c == flag(f, C)  v == flag(f, V)
    IN  CASE cond = "EQ" -> z = 1
          [] cond = "NE" -> z = 0
          [] cond = "CS" -> c = 1
          [] cond = "CC" -> c = 0
          [] cond = "MI" -> n = 1
          [] cond = "PL" -> n = 0
          [] cond = "VS" -> v = 1
          [] cond = "VC" -> v = 0
          [] cond = "HI" -> c = 1 /\ z = 0
          [] cond = "LS" -> c = 0 \/ z = 1
          [] cond = "GE" -> n = v
          [] cond = "LT" -> n # v
          [] cond = "GT" -> z = 0 /\ n = v
          [] cond = "LE" -> z = 1 \/ n # v
          [] cond \in {"AL", "NV"} -> TRUE

----------------------------------------------------------------------------
(* Addressing mode 1.  Operand o is [I |-> 1, value, rotate], or           *)
(* [I |-> 0, rm, type, R, amount] where R tells whether amount names a     *)
(* register.                                                               *)

shift_amount(f, o) ==
    LET shift == IF o.R = 1 THEN arm_read_register(f, o.amount) ELSE o.amount
    IN  IF shift = 0 /\ o.R = 1 /\ o.type \in {"ASR", "ROR"} THEN WordBits ELSE shift

\* An ASR shifts one place less than its amount; a ROR by 0 is RRX.
shifter_operand(f, o) ==
    LET Rm == arm_read_register(f, o.rm)
        shift == shift_amount(f, o)
    IN  CASE o.type = "LSL" ->
               [value |-> ShiftLeft(Rm, shift),
                carry |-> IF shift # 0 THEN get_bit(Rm, WordBits - shift) ELSE flag(f, C)]
          [] o.type = "LSR" ->
               [value |-> ShiftRight(Rm, shift),
                carry |-> IF shift # 0 THEN get_bit(Rm, shift - 1) ELSE flag(f, C)]
          [] o.type = "ASR" ->
               [value |-> asr(Rm, shift - 1), carry |-> get_bit(Rm, shift - 1)]
          [] o.type = "ROR" /\ shift # 0 ->
               [value |-> ror(Rm, shift), carry |-> get_bit(Rm, shift - 1)]
          [] o.type = "ROR" /\ shift = 0 ->
               [value |-> Or(ShiftRight(Rm, 1), flag(f, C) * N), carry |-> Rm % 2]

\* An immediate leaves the carry as it was.
second_operand(f, o) ==
    IF o.I = 1 THEN [value |-> ror(o.value, o.rotate * 2), carry |-> flag(f, C)]
               ELSE shifter_operand(f, o)

----------------------------------------------------------------------------

Comparisons == {"TST", "TEQ", "CMP", "CMN"}
Subtractions == {"SUB", "RSB", "SBC", "RSC", "CMP"}
Arithmetic == Subtractions \cup {"ADD", "ADC", "CMN"}
Opcodes == Comparisons \cup Arithmetic \cup {"AND", "EOR", "ORR", "MOV", "BIC", "MVN"}

\* Res from the first operand a, the second b, and the carry flag c.
operation(opcode, a, b, c) ==
    CASE opcode \in {"AND", "TST"} -> And(a, b)
      [] opcode \in {"EOR", "TEQ"} -> Xor(a, b)
      [] opcode \in {"SUB", "CMP"} -> Wrap(a - b)
      [] opcode = "RSB" -> Wrap(b - a)
      [] opcode \in {"ADD", "CMN"} -> Wrap(a + b)
      [] opcode = "ADC" -> Wrap(a + b + c)
      [] opcode = "SBC" -> Wrap(a - b - (1 - c))
      [] opcode = "RSC" -> Wrap(b - a - (1 - c))
      [] opcode = "ORR" -> Or(a, b)
      [] opcode = "MOV" -> b
      [] opcode = "BIC" -> And(a, Complement(b))
      [] opcode = "MVN" -> Complement(b)

\* Mutant: the carry is that of the shifter, whatever the opcode.
new_cpsr_shifter_carry(f, opcode, a, operand, res) ==
    LET sa == msb(a)
        sb == IF opcode \in Subtractions THEN 1 - msb(operand.value) ELSE msb(operand.value)
        sr == msb(res)
    IN  (read_cpsr(f) % V)
          + (IF sr = 1 THEN N ELSE 0) + (IF res = 0 THEN Z ELSE 0)
          + C * operand.carry + (IF sa = sb /\ sb # sr THEN V ELSE 0)

\* The CPSR an S instruction writes.  The sign of the second operand is inverted
\* for a subtraction, but only if the first operand is not zero, after the
\* operand has been adjusted for the carry; the carry of the shifter is or'ed in.
new_cpsr(f, opcode, a, operand, res) ==
    LET c == flag(f, C)
        adjusted == CASE opcode = "ADC" /\ c = 1 -> Wrap(operand.value + 1)
                      [] opcode \in {"SBC", "RSB"} /\ c = 0 -> Wrap(operand.value - 1)
                      [] OTHER -> operand.value
        sa == msb(a)
        sb == IF a # 0 /\ opcode \in Subtractions THEN 1 - msb(adjusted) ELSE msb(adjusted)
        sr == msb(res)
        carry == IF opcode \in Arithmetic
                 THEN operand.carry = 1 \/ (sa = 1 /\ sb = 1) \/ (sr = 0 /\ sa # sb)
                 ELSE operand.carry = 1
        overflow == IF opcode \in Arithmetic THEN sa = sb /\ sb # sr ELSE flag(f, V) = 1
    IN  (read_cpsr(f) % V)
          + (IF sr = 1 THEN N ELSE 0) + (IF res = 0 THEN Z ELSE 0)
          + (IF carry THEN C ELSE 0) + (IF overflow THEN V ELSE 0)

\* MRS is encoded as TST or CMP without S; MSR, as TEQ or CMN, does nothing.
arm_miscellaneous(f, opcode, rd) ==
    CASE opcode = "TST" -> write_register(f, rd, read_cpsr(f))
      [] opcode = "CMP" /\ current_mode_has_spsr(f) -> write_register(f, rd, read_spsr(f))
      [] OTHER -> f

\* Mutant: the CPSR is restored from the SPSR slot of SVC without asking whether
\* the current mode has one.
arm_data_processing_any_mode(f, ins) ==
    LET a == arm_read_register(f, ins.rn)
        operand == second_operand(f, ins.operand)
        res == operation(ins.opcode, a, operand.value, flag(f, C))
        f1 == IF ins.opcode \notin Comparisons THEN write_register(f, ins.rd, res) ELSE f
    IN  IF ins.S = 0 THEN f1
        ELSE IF ins.rd = PC THEN write_cpsr(f1, f1[spsr_slot(SVC)])
        ELSE write_cpsr(f1, new_cpsr(f1, ins.opcode, a, operand, res))

arm_data_processing(f, ins) ==
    LET a == arm_read_register(f, ins.rn)
        operand == second_operand(f, ins.operand)
        res == operation(ins.opcode, a, operand.value, flag(f, C))
        f1 == IF ins.opcode \notin Comparisons THEN write_register(f, ins.rd, res)
              ELSE IF ins.S = 0 THEN arm_miscellaneous(f, ins.opcode, ins.rd) ELSE f
    IN  IF ins.S = 0 THEN f1
        ELSE IF ins.rd = PC /\ current_mode_has_spsr(f1) THEN write_cpsr(f1, read_spsr(f1))
        ELSE write_cpsr(f1, new_cpsr(f1, ins.opcode, a, operand, res))

\* Those that have an opcode, and their fields: four bits for a register.
DataInstructions == {ins \in Instructions : "opcode" \in DOMAIN ins}

ShiftedFields(o) ==
    /\ o.rm \in 0 .. 15 /\ o.type \in {"LSL", "LSR", "ASR", "ROR"} /\ o.R \in {0, 1}
    /\ o.amount \in Nat /\ (o.R = 1 => o.amount \in 0 .. 15)

ASSUME FieldsAssumption ==
    \A ins \in DataInstructions :
        /\ ins.opcode \in Opcodes /\ ins.rd \in 0 .. 15 /\ ins.rn \in 0 .. 15
        /\ IF ins.operand.I = 1 THEN ins.operand.value \in Word /\ ins.operand.rotate \in Nat
                                ELSE ShiftedFields(ins.operand)

\* arm_step on a data processing instruction; the condition is tested on the CPSR
\* read before the fetch.
StepDataProcessing ==
    \E ins \in DataInstructions :
        /\ fetch_ok(r)
        /\ r' = IF condition(r, ins.cond) THEN arm_data_processing(arm_fetch(r), ins)
                                           ELSE arm_fetch(r)

\* A program of data processing instructions after reset.
DataSpec == arm_create /\ [][StepDataProcessing]_r

----------------------------------------------------------------------------
(* Properties.  The operands are those that registers 0 and 1 hold.        *)

Instruction(opcode, S, rd, rn, operand) ==
    [cond |-> "AL", opcode |-> opcode, S |-> S, rd |-> rd, rn |-> rn, operand |-> operand]

Register(rm) == [I |-> 0, rm |-> rm, type |-> "LSL", R |-> 0, amount |-> 0]

compared == arm_data_processing(r, Instruction("CMP", 1, 0, 0, Register(1)))

Signed(x) == IF x < WordMod \div 2 THEN x ELSE x - WordMod

SignedMeaning(a, b) ==
    /\ condition(compared, "EQ") <=> a = b
    /\ condition(compared, "NE") <=> a # b
    /\ condition(compared, "GE") <=> Signed(a) >= Signed(b)
    /\ condition(compared, "LT") <=> Signed(a) < Signed(b)
    /\ condition(compared, "GT") <=> Signed(a) > Signed(b)
    /\ condition(compared, "LE") <=> Signed(a) <= Signed(b)

UnsignedMeaning(a, b) ==
    /\ condition(compared, "CS") <=> a >= b
    /\ condition(compared, "CC") <=> a < b
    /\ condition(compared, "HI") <=> a > b
    /\ condition(compared, "LS") <=> a <= b

\* After the comparison of two registers, the first of which is not zero, the
\* signed conditions mean what their comments in arm_constants.h say, overflow
\* included, whatever the flags were before.
SignedComparison == r[0] # 0 => SignedMeaning(r[0], r[1])

\* The same for the unsigned conditions if the carry was clear before: a carry that
\* was set goes through the shifter into the result and no comparison clears it.
UnsignedComparison == r[0] # 0 /\ flag(r, C) = 0 => UnsignedMeaning(r[0], r[1])

\* The two-word sums and differences programs make of ADDS with ADC and of SUBS
\* with SBC are right if the carry was clear before, and, for the difference, if
\* the low word of the first operand is not zero: r1:r0 + r0:r1 and r1:r0 - r0:r1.
DoubleWord ==
    LET add == arm_data_processing(r, Instruction("ADD", 1, 2, 0, Register(1)))
        adc == arm_data_processing(add, Instruction("ADC", 0, 3, 1, Register(0)))
        sub == arm_data_processing(r, Instruction("SUB", 1, 2, 0, Register(1)))
        sbc == arm_data_processing(sub, Instruction("SBC", 0, 3, 1, Register(0)))
        x == r[0] + WordMod * r[1]
        y == r[1] + WordMod * r[0]
    IN  flag(r, C) = 0 =>
            /\ adc[2] + WordMod * adc[3] = (x + y) % (WordMod * WordMod)
            /\ r[0] # 0 => sbc[2] + WordMod * sbc[3] = (x - y) % (WordMod * WordMod)

\* A shift of register 0 by n places, LSL, LSR or ROR, is n shifts by one place,
\* in its value and in the carry it leaves, for immediate and register amounts.
ShiftsCompose ==
    \A type \in {"LSL", "LSR", "ROR"}, n \in 2 .. WordBits - 1, R \in {0, 1} :
        LET f(v, k) == [r EXCEPT ![0] = v, ![1] = k]
            by(v, k) == shifter_operand(f(v, k), [I |-> 0, rm |-> 0, type |-> type, R |-> R,
                                                  amount |-> IF R = 1 THEN 1 ELSE k])
        IN  by(r[0], n) = by(by(r[0], n - 1).value, 1)

\* A data processing instruction leaves the user mode only by an exception: it
\* changes the control bits of the CPSR only by restoring the SPSR that the
\* current mode has; and it writes no register of another mode.
ModeKept ==
    [][ /\ \/ SameControl(read_cpsr(r'), read_cpsr(r))
           \/ current_mode_has_spsr(r) /\ read_cpsr(r') = read_spsr(r)
        /\ \A s \in Slot \ {CPSR} :
             r'[s] # r[s] => \E reg \in 0 .. 15 : s = register_slot(r, reg) ]_r

\* "Signed greater than" and the other comments of arm_constants.h on the signed
\* conditions, for every pair of operands.
SignedComments == SignedMeaning(r[0], r[1])
=============================================================================
