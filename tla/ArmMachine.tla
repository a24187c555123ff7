----------------------------- MODULE ArmMachine -----------------------------
(***************************************************************************)
(* The whole of arm_step (arm_instruction.c): loads, stores and block      *)
(* transfers (arm_load_store.c), branches (arm_branch_other.c) and the     *)
(* dispatch, with the data processing instructions of DataProcessing and   *)
(* the accesses of module Memory.  A byte has ByteMod values and a word is *)
(* four bytes.  The instruction that a fetch returns is any member of      *)
(* Instructions, a record of its fields.                                   *)
(*                                                                         *)
(* Loads leave *value unwritten when memory refuses the access, and write  *)
(* one or two bytes of an uninitialised word otherwise: the low ones, on   *)
(* the little endian hosts the simulator is built for.  The rest is g.     *)
(***************************************************************************)
EXTENDS DataProcessing, Sequences

CONSTANTS
    ByteMod,        \* number of values of a byte: 256 in the code
    Garbage,        \* contents of an uninitialised word
    Lists,          \* lists of registers that programs push and pop
    Indexes,        \* offsets of indexed loads
    Offsets         \* offsets of calls, as the instruction encodes them

\* A word is four bytes, and so are the units that main allocates memory in.
ASSUME ByteAssumption ==
    /\ ByteMod \in Nat \ {0}
    /\ WordMod = ByteMod * (ByteMod * (ByteMod * ByteMod))
    /\ MemSize % 4 = 0
    /\ Garbage \subseteq Word

\* Bits of the offset of a branch: 24 in the code, whose words have 32.
OffsetBits == WordBits - 8

ASSUME ProgramAssumption ==
    /\ Lists \subseteq SUBSET ((0 .. 14) \ {SP})
    /\ Indexes \subseteq Word
    /\ Offsets \subseteq 0 .. pow2[OffsetBits] - 1

VARIABLES mem, is_big_endian

M == INSTANCE Memory WITH Size <- MemSize, Byte <- 0 .. ByteMod - 1, Addresses <- Word, result <- 0

machine == <<r, mem, is_big_endian>>

\* The bytes of a word, most significant first, and the words made of two bytes
\* and of four.
bytes(x) ==
    LET rest1 == x \div ByteMod
        rest2 == rest1 \div ByteMod
        rest3 == rest2 \div ByteMod
    IN  <<rest3 % ByteMod, rest2 % ByteMod, rest1 % ByteMod, x % ByteMod>>
half(b) == ByteMod * b[1] + b[2]
word(b) == ByteMod * (ByteMod * (ByteMod * b[1] + b[2]) + b[3]) + b[4]

\* Bytes that an access starting on the last bytes of memory finds past its end.
past(g) == [a \in MemSize .. MemSize + 2 |-> g % ByteMod]

\* val after arm_read_byte, arm_read_half or arm_read_word on &val, where val held
\* old; g is past the end of memory.
arm_read(m, a, size, old, g) ==
    CASE M!read_result(a) # 0 -> old
      [] M!read_result(a) = 0 /\ size = "byte" -> (old - (old % ByteMod)) + M!memory_read_byte(m, a)
      [] M!read_result(a) = 0 /\ size = "half" ->
           (old - (old % (ByteMod * ByteMod))) + half(M!memory_read_half(m, is_big_endian, past(g), a))
      [] M!read_result(a) = 0 /\ size = "word" ->
           word(M!memory_read_word(m, is_big_endian, past(g), a))

\* Memory after arm_write_byte, arm_write_half or arm_write_word.
arm_write(m, a, size, val) ==
    LET b == bytes(val)
    IN  CASE size = "byte" /\ M!write_result(a, 1) = 0 -> M!memory_write_byte(m, a, b[4])
          [] size = "half" /\ M!write_result(a, 2) = 0 ->
               M!memory_write_half(m, is_big_endian, a, <<b[3], b[4]>>)
          [] size = "word" /\ M!write_result(a, 4) = 0 -> M!memory_write_word(m, is_big_endian, a, b)
          [] OTHER -> m

\* The pc, which all modes share, reads ahead here too.
arm_read_usr_register(f, reg) ==
    IF reg = PC THEN ClearBit1(Wrap(read_usr_register(f, PC) + 4)) ELSE read_usr_register(f, reg)

ClearBit0(x) == x - (x % 2)

State(f, m) == [r |-> f, mem |-> m]

----------------------------------------------------------------------------
(* Addressing modes 2 and 3, single transfers.                             *)

\* The offset is an immediate, a register (half words) or a shifted register.
addressing_mode(f, ins) ==
    LET res == CASE ins.offset.kind = "immediate" -> ins.offset.value
                 [] ins.offset.kind = "register" -> arm_read_register(f, ins.offset.rm)
                 [] ins.offset.kind = "shifted" -> shifter_operand(f, ins.offset).value
    IN  IF ins.U = 1 THEN res ELSE Wrap(- res)

\* Bits 7 and 4, set in LDRH and STRH, select a half word.  In other transfers with
\* an immediate offset they are bits of the offset.
is_half(ins) ==
    \/ ins.size = "half"
    \/ /\ ins.offset.kind = "immediate"
       /\ get_bit(ins.offset.value, 7) = 1 /\ get_bit(ins.offset.value, 4) = 1

\* The transfer itself.  P = 0 with W = 1 selects the user registers.
transfer(f, m, ins, address, g) ==
    LET user == ins.P = 0 /\ ins.W = 1
        size == IF is_half(ins) THEN "half" ELSE ins.size
        val == arm_read(m, address, size, g, g)
        loaded == IF ins.rd = PC THEN ClearBit0(val) ELSE val
        stored == IF user THEN arm_read_usr_register(f, ins.rd) ELSE arm_read_register(f, ins.rd)
    IN  IF ins.L = 0 THEN State(f, arm_write(m, address, size, stored))
        ELSE IF user THEN State(write_usr_register(f, ins.rd, loaded), m)
        ELSE State(write_register(f, ins.rd, loaded), m)

\* Mutant: a post-indexed transfer writes its base back only if W is set.
arm_load_store_no_post(f, m, ins, g) ==
    LET base == arm_read_register(f, ins.rn)
        first == IF ins.P = 1 THEN Wrap(base + addressing_mode(f, ins)) ELSE base
        s == transfer(f, m, ins, first, g)
        last == IF ins.P = 1 THEN first ELSE Wrap(first + addressing_mode(s.r, ins))
    IN  IF ins.W = 1 THEN State(write_register(s.r, ins.rn, last), s.mem) ELSE s

\* The offset of a post-indexed transfer is computed after the transfer, from
\* the registers it leaves; the base is written last.
arm_load_store(f, m, ins, g) ==
    LET base == arm_read_register(f, ins.rn)
        first == IF ins.P = 1 THEN Wrap(base + addressing_mode(f, ins)) ELSE base
        s == transfer(f, m, ins, first, g)
        last == IF ins.P = 1 THEN first ELSE Wrap(first + addressing_mode(s.r, ins))
    IN  IF ins.P = 0 \/ ins.W = 1 THEN State(write_register(s.r, ins.rn, last), s.mem) ELSE s

----------------------------------------------------------------------------
(* Block transfers.                                                        *)

\* Mutant: the first address moved for every "before" transfer.
first_address_before(start, ins) ==
    LET low == IF ins.U = 1 THEN start ELSE start - 4 * Cardinality(ins.list)
    IN  Wrap(IF ins.P = 1 THEN low + 4 ELSE low)

\* The address of the lowest register: U is is_incr and P is is_before.
first_address(start, ins) ==
    LET low == IF ins.U = 1 THEN start ELSE start - 4 * Cardinality(ins.list)
    IN  Wrap(IF ins.U = ins.P THEN low + 4 ELSE low)

\* A turn of the loop over Ri.  A load that memory refuses leaves val as it was.
transfer_register(s, ins, Ri, g) ==
    LET read == arm_read(s.mem, s.address, "word", s.val, g)
        loaded == IF Ri = PC THEN ClearBit0(read) ELSE read
        stored == arm_read_register(s.r, Ri)
    IN  IF Ri \notin ins.list THEN s
        ELSE IF ins.L = 1
        THEN [r |-> write_register(s.r, Ri, loaded), mem |-> s.mem,
              address |-> Wrap(s.address + 4), val |-> loaded]
        ELSE [r |-> s.r, mem |-> arm_write(s.mem, s.address, "word", stored),
              address |-> Wrap(s.address + 4), val |-> stored]

\* The states of the loop after 0 .. 16 turns, from address on.
block(f, m, ins, address, g) ==
    LET after[n \in 0 .. 16] ==
            IF n = 0 THEN [r |-> f, mem |-> m, address |-> address, val |-> g]
            ELSE transfer_register(after[n - 1], ins, n - 1, g)
    IN  after

arm_load_store_multiple(f, m, ins, g) ==
    LET start == arm_read_register(f, ins.rn)
        s == block(f, m, ins, first_address(start, ins), g)[16]
        n == 4 * Cardinality(ins.list)
    IN  IF ins.W = 0 THEN State(s.r, s.mem)
        ELSE State(write_register(s.r, ins.rn, Wrap(IF ins.U = 1 THEN start + n ELSE start - n)),
                   s.mem)

----------------------------------------------------------------------------
(* Branches, dispatch and step.                                            *)

\* x | 0x3F000000 if the offset is negative.
sign_extending(x) == IF get_bit(x, OffsetBits - 1) = 1 THEN x + 63 * pow2[OffsetBits] ELSE x

\* Mutant: the link register is the pc as instructions read it.
arm_branch_link_ahead(f, ins) ==
    LET f1 == IF ins.L = 1 THEN write_register(f, LR, arm_read_register(f, PC)) ELSE f
    IN  write_register(f1, PC, Wrap(arm_read_register(f1, PC) + 4 * sign_extending(ins.offset)))

arm_branch(f, ins) ==
    LET f1 == IF ins.L = 1 THEN write_register(f, LR, Wrap(arm_read_register(f, PC) - 4)) ELSE f
    IN  write_register(f1, PC, Wrap(arm_read_register(f1, PC) + 4 * sign_extending(ins.offset)))

\* SWI and other coprocessor instructions return an exception, which is dropped.
\* The SWI that ends the process is in module Simulator.
arm_coprocessor_others_swi(f) == f

\* The dispatch to the handlers, whose results are dropped.
execute(f, m, ins, g) ==
    CASE ins.class = "data" -> State(arm_data_processing(f, ins), m)
      [] ins.class = "single" -> arm_load_store(f, m, ins, g)
      [] ins.class = "block" -> arm_load_store_multiple(f, m, ins, g)
      [] ins.class = "branch" -> State(arm_branch(f, ins), m)
      [] ins.class = "swi" -> State(arm_coprocessor_others_swi(f), m)

\* Coprocessor transfers are the one class without a handler.
arm_step(f, m, ins, g) ==
    LET f1 == arm_fetch(f)
    IN  CASE ~ fetch_ok(f) -> State(arm_exception(f1, DATA_ABORT), m)
          [] fetch_ok(f) /\ ~ condition(f, ins.cond) -> State(f1, m)
          [] fetch_ok(f) /\ condition(f, ins.cond) /\ ins.class = "coprocessor" ->
               State(arm_exception(f1, UNDEFINED_INSTRUCTION), m)
          [] OTHER -> execute(f1, m, ins, g)

\* The fields of each class.
Fields(ins) ==
    CASE ins.class = "data" -> "opcode" \in DOMAIN ins
      [] ins.class = "single" ->
           /\ ins.rd \in 0 .. 15 /\ ins.rn \in 0 .. 15 /\ ins.size \in {"byte", "half", "word"}
           /\ \/ ins.offset.kind = "immediate" /\ ins.offset.value \in Word
              \/ ins.offset.kind = "register" /\ ins.offset.rm \in 0 .. 15
              \/ ins.offset.kind = "shifted" /\ ShiftedFields(ins.offset)
      [] ins.class = "block" -> ins.rn \in 0 .. 15 /\ ins.list \subseteq 0 .. 15
      [] ins.class = "branch" -> ins.offset \in 0 .. pow2[OffsetBits] - 1
      [] OTHER -> ins.class \in {"swi", "coprocessor"}

ASSUME FormatAssumption == \A ins \in Instructions : Fields(ins)

StepMachine ==
    \E ins \in Instructions, g \in Garbage :
        LET s == arm_step(r, mem, ins, g)
        IN  r' = s.r /\ mem' = s.mem /\ UNCHANGED is_big_endian

MachineTypeOK == RegTypeOK /\ mem \in M!Contents /\ is_big_endian \in {0, 1}

\* A program that runs from any registers and memory: gdb may have written both.
MachineSpec == MachineTypeOK /\ [][StepMachine]_machine

----------------------------------------------------------------------------
(* Properties.                                                             *)

Single(L, size, P, W, U, rd, rn, offset) ==
    [class |-> "single", cond |-> "AL", L |-> L, size |-> size, P |-> P, W |-> W, U |-> U,
     rd |-> rd, rn |-> rn, offset |-> offset]

Block(L, U, P, W, rn, list) ==
    [class |-> "block", cond |-> "AL", L |-> L, U |-> U, P |-> P, W |-> W, rn |-> rn,
     list |-> list]

Immediate(n) == [kind |-> "immediate", value |-> n]

Inside(a, n) == a % 4 = 0 /\ a + n <= MemSize

\* Programs save registers with STMDB SP! and restore them with LDMIA SP! (the
\* examples do).  For each of the four kinds of stack, if the block lies in memory,
\* a push, changes to the registers pushed, and the matching pop give back the
\* registers and the stack pointer, and memory outside the block is untouched.
StackRestores ==
    \A U \in {0, 1}, P \in {0, 1}, list \in Lists :
        LET n == 4 * Cardinality(list)
            sp == read_register(r, SP)
            low == first_address(sp, Block(0, U, P, 1, SP, list))
            pushed == arm_load_store_multiple(r, mem, Block(0, U, P, 1, SP, list), 0)
            dirty == [s \in Slot |-> IF \E reg \in list : s = register_slot(r, reg)
                                     THEN 0 ELSE pushed.r[s]]
            popped == arm_load_store_multiple(dirty, pushed.mem,
                                              Block(1, 1 - U, 1 - P, 1, SP, list), 0)
        IN  Inside(low, n) =>
                /\ popped.r = r
                /\ \A a \in 0 .. MemSize - 1 : mem[a] # pushed.mem[a] => a \in low .. low + n - 1

\* What a load of the given size with offset o transfers: arm_load_store tests bits 7
\* and 4 of the instruction whatever its class, and they may be bits of o.
Transferred(size, o) == IF get_bit(o, 7) = 1 /\ get_bit(o, 4) = 1 THEN "half" ELSE size

\* The addressing modes of a load from [rn] mean what the assembler writes: [rn, #o]!
\* is an addition to rn before the load and [rn], #o one after it, for every offset,
\* whatever is loaded and whether or not memory refuses it.  The load is that of
\* the size written, but of a half word where the offset has bits 7 and 4 set.
IndexedIsTwoSteps ==
    \A size \in {"word", "half", "byte"}, o \in Indexes, U \in {0, 1}, g \in Garbage :
        LET sum(f) == read_register(f, SP) + (IF U = 1 THEN o ELSE -o)
            moved(f) == write_register(f, SP, Wrap(sum(f)))
            plain(f) == arm_load_store(f, mem, Single(1, Transferred(size, o), 1, 0, 1, 4, SP, Immediate(0)), g)
        IN  /\ arm_load_store(r, mem, Single(1, size, 1, 1, U, 4, SP, Immediate(o)), g)
                 = plain(moved(r))
            /\ arm_load_store(r, mem, Single(1, size, 0, 0, U, 4, SP, Immediate(o)), g)
                 = State(moved(plain(r).r), mem)

\* A call returns: BL to any offset, forward or backward, goes that many words from
\* its own address plus 8, and MOV pc, lr at its target comes back to the
\* instruction that follows the BL.
CallReturns ==
    \A offset \in Offsets :
        LET here == fetch_address(r)
            words == IF offset < pow2[OffsetBits - 1] THEN offset ELSE offset - pow2[OffsetBits]
            called == arm_branch(arm_fetch(r), [L |-> 1, offset |-> offset])
            back == arm_data_processing(arm_fetch(called), Instruction("MOV", 0, PC, 0, Register(LR)))
        IN  here % 4 = 0 =>
                /\ fetch_address(called) = Wrap(here + 8 + 4 * words)
                /\ fetch_address(back) = Wrap(here + 4)

\* f may become h by one of the effects that module ArmCore allows instructions.
WithinEffect(f, h) ==
    \/ /\ SameControl(read_cpsr(h), read_cpsr(f))
       /\ \A s \in Slot \ {CPSR} :
            h[s] # f[s] => s \in 0 .. 15 \/ \E reg \in 0 .. 15 : s = register_slot(f, reg)
    \/ /\ current_mode_has_spsr(f) /\ read_cpsr(h) = read_spsr(f)
       /\ \A s \in Slot \ {CPSR, PC} : h[s] = f[s]

\* The machine does nothing that ArmCore, about which the theorems are proved, leaves
\* out: each step is a fetch followed by an effect of an instruction, or a fault.
StepsWithinEffect ==
    [][ \/ fetch_ok(r) /\ WithinEffect(arm_fetch(r), r')
        \/ ~ fetch_ok(r) /\ r' = arm_exception(arm_fetch(r), DATA_ABORT)
        \/ fetch_ok(r) /\ r' = arm_exception(arm_fetch(r), UNDEFINED_INSTRUCTION) ]_machine
============================================================================
