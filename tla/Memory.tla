------------------------------- MODULE Memory -------------------------------
(***************************************************************************)
(* The simulated memory (memory.c): an array of bytes read and written by  *)
(* byte, half word and word in one of two byte orders.  A half word or a   *)
(* word is the sequence of its bytes, most significant first: a shift by a *)
(* multiple of eight and a truncation to eight bits select one of them.    *)
(* The operators take the array m and the byte order be, and return what   *)
(* the call stores in *value, or the array after the call.                 *)
(***************************************************************************)
EXTENDS Integers, Sequences

CONSTANTS
    Size,           \* bytes of memory
    Byte,           \* contents of a byte, 0..255 in the code
    Addresses       \* addresses that the callers use

\* main creates a memory of 0x20000 bytes.
ASSUME MemoryAssumption ==
    /\ Size \in Nat /\ Size % 4 = 0
    /\ Addresses \subseteq Nat

VARIABLES
    mem,            \* mem->m
    is_big_endian,  \* byte order of the memory: 1 or 0
    result          \* what the last write returned

mvars == <<mem, is_big_endian, result>>

DATA_ABORT == 5

Half == Byte \X Byte
Word == Byte \X Byte \X Byte \X Byte
Contents == [0 .. Size - 1 -> Byte]

is_not_valid_address(address) == address >= Size

\* What the array access m[a] gives.  Past the end of the array, which an access
\* that starts on its last bytes reaches, it is any byte: the function after.
at(m, after, a) == IF a < Size THEN m[a] ELSE after[a]

\* The reads, when the address is valid.
memory_read_byte(m, a) == m[a]

memory_read_half(m, be, after, a) ==
    IF be = 1 THEN <<at(m, after, a), at(m, after, a + 1)>>
              ELSE <<at(m, after, a + 1), at(m, after, a)>>

\* Mutant: the bytes of each half swapped in a big endian read.
memory_read_word_swapped(m, be, after, a) ==
    IF be = 1
    THEN <<at(m, after, a + 1), at(m, after, a), at(m, after, a + 3), at(m, after, a + 2)>>
    ELSE <<at(m, after, a + 3), at(m, after, a + 2), at(m, after, a + 1), at(m, after, a)>>

memory_read_word(m, be, after, a) ==
    IF be = 1
    THEN <<at(m, after, a), at(m, after, a + 1), at(m, after, a + 2), at(m, after, a + 3)>>
    ELSE <<at(m, after, a + 3), at(m, after, a + 2), at(m, after, a + 1), at(m, after, a)>>

\* What a read returns: reads may be unaligned.
read_result(a) == IF is_not_valid_address(a) THEN DATA_ABORT ELSE 0

\* Mutant: no test of the alignment.
write_result_unaligned(a, align) == IF is_not_valid_address(a) THEN DATA_ABORT ELSE 0

\* What a write returns; align is 1, 2 or 4.
write_result(a, align) ==
    IF is_not_valid_address(a) \/ a % align # 0 THEN DATA_ABORT ELSE 0

\* The writes, when they return 0.
memory_write_byte(m, a, v) == [m EXCEPT ![a] = v]

memory_write_half(m, be, a, v) ==
    IF be = 1 THEN [m EXCEPT ![a] = v[1], ![a + 1] = v[2]]
              ELSE [m EXCEPT ![a] = v[2], ![a + 1] = v[1]]

memory_write_word(m, be, a, v) ==
    IF be = 1
    THEN [m EXCEPT ![a] = v[1], ![a + 1] = v[2], ![a + 2] = v[3], ![a + 3] = v[4]]
    ELSE [m EXCEPT ![a] = v[4], ![a + 1] = v[3], ![a + 2] = v[2], ![a + 3] = v[1]]

----------------------------------------------------------------------------

\* memory_create leaves the array as malloc returns it.
memory_create == mem \in Contents /\ is_big_endian \in {0, 1} /\ result = 0

WriteByte ==
    \E a \in Addresses, v \in Byte :
        /\ result' = write_result(a, 1)
        /\ mem' = IF result' = 0 THEN memory_write_byte(mem, a, v) ELSE mem
        /\ UNCHANGED is_big_endian

WriteHalf ==
    \E a \in Addresses, v \in Half :
        /\ result' = write_result(a, 2)
        /\ mem' = IF result' = 0 THEN memory_write_half(mem, is_big_endian, a, v) ELSE mem
        /\ UNCHANGED is_big_endian

WriteWord ==
    \E a \in Addresses, v \in Word :
        /\ result' = write_result(a, 4)
        /\ mem' = IF result' = 0 THEN memory_write_word(mem, is_big_endian, a, v) ELSE mem
        /\ UNCHANGED is_big_endian

MemNext == WriteByte \/ WriteHalf \/ WriteWord

----------------------------------------------------------------------------

MemTypeOK == mem \in Contents /\ is_big_endian \in {0, 1} /\ result \in {0, DATA_ABORT}

\* The bytes that the array may hold past its end.
After == [Size .. Size + 2 -> Byte]

\* A word written at an address is read back from it, and the bytes and half
\* words inside it are found where the byte order puts them, as memory_test.c
\* expects for both orders.
WordReadBack ==
    \A a \in Addresses, v \in Word, after \in After :
        write_result(a, 4) = 0 =>
            LET m == memory_write_word(mem, is_big_endian, a, v)
                high == IF is_big_endian = 1 THEN a ELSE a + 2
                low  == IF is_big_endian = 1 THEN a + 2 ELSE a
                first == IF is_big_endian = 1 THEN v[1] ELSE v[4]
            IN  /\ memory_read_word(m, is_big_endian, after, a) = v
                /\ memory_read_half(m, is_big_endian, after, high) = <<v[1], v[2]>>
                /\ memory_read_half(m, is_big_endian, after, low) = <<v[3], v[4]>>
                /\ memory_read_byte(m, a) = first

\* A write that returns 0 stays inside the array: the last byte of an aligned
\* access is valid when its first one is.
WritesInside ==
    \A a \in Addresses, n \in {1, 2, 4} :
        write_result(a, n) = 0 => ~ is_not_valid_address(a + n - 1)

WithinWord(base) == \A i \in 0 .. Size - 1 : mem'[i] # mem[i] => base <= i /\ i < base + 4

ChangesOneWord ==
    /\ result' # 0 => mem' = mem
    /\ \E base \in 0 .. Size : base % 4 = 0 /\ WithinWord(base)

\* No write of the processor changes anything outside one aligned word of memory, and
\* a write that fails changes nothing.
OneWordChanges == [][MemNext => ChangesOneWord]_mvars
============================================================================
