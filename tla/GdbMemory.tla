----------------------------- MODULE GdbMemory -----------------------------
(***************************************************************************)
(* The two commands by which gdb reads and writes the simulated memory     *)
(* (read_memory and write_memory_binary of gdb_protocol.c) on top of the   *)
(* bytes of module Memory.  The content of an X packet is binary: gdb      *)
(* writes the bytes that would end the packet, and the escape itself, as   *)
(* the escape followed by the byte with bit 5 inverted.                    *)
(***************************************************************************)
EXTENDS Memory, SequencesExt

CONSTANT MaxLength      \* bytes that one command names at most

\* A byte is a uint8_t.
ASSUME GdbMemoryAssumption == Byte \subseteq 0 .. 255 /\ MaxLength \in Nat

ESCAPE == 125           \* 0x7d
Special == {35, 36, ESCAPE}

\* b ^ 0x20
invert(b) == IF (b \div 32) % 2 = 1 THEN b - 32 ELSE b + 32

Data == UNION {[1 .. n -> Byte] : n \in 0 .. MaxLength}

\* What gdb sends for data (external): for each byte in turn, the byte or its escape.
code(b) == IF b \in Special THEN <<ESCAPE, invert(b)>> ELSE <<b>>
codes(data) ==
    LET sent[n \in 0 .. Len(data)] == IF n = 0 THEN <<>> ELSE sent[n - 1] \o code(data[n])
    IN  sent
escaped(data) == codes(data)[Len(data)]

\* Mutant: the byte after an escape is taken as it is.
next_value_raw(content, i) == IF content[i] = ESCAPE THEN content[i + 1] ELSE content[i]

\* The byte that starts at position i of the content, and where the next one does.
next_value(content, i) == IF content[i] = ESCAPE THEN invert(content[i + 1]) ELSE content[i]
next_position(content, i) == IF content[i] = ESCAPE THEN i + 2 ELSE i + 1

\* A turn of the loop of write_memory_binary, which ends at the first byte that
\* memory_write_byte refuses; next is where the following byte starts.
write_byte(s, address, content) ==
    LET ok == write_result(address, 1) = 0
    IN  IF ~ s.write_ok THEN s
        ELSE [mem |-> IF ok THEN memory_write_byte(s.mem, address, next_value(content, s.next))
                            ELSE s.mem,
              next |-> next_position(content, s.next),
              write_ok |-> ok]

\* The states of the loop after 0 .. size turns.
write_bytes(m, address, content, size, write_ok) ==
    LET after[i \in 0 .. size] ==
            IF i = 0 THEN [mem |-> m, next |-> 1, write_ok |-> write_ok]
            ELSE write_byte(after[i - 1], address + (i - 1), content)
    IN  after

\* Mutant: the first address is not tested before the loop.
write_memory_binary_untested(m, address, content, size) ==
    write_bytes(m, address, content, size, TRUE)[size]

write_memory_binary(m, address, content, size) ==
    write_bytes(m, address, content, size, address < Size)[size]

\* The loop of read_memory, a turn for each byte until a read returns -1.  A read that
\* fails otherwise leaves value as it was: the last byte of memory, or nothing
\* that was ever assigned when the first address is invalid.
turns(address, size) == {n \in 1 .. size : \A i \in 1 .. n : read_result(address + i - 1) # -1}

read_memory(m, address, size, value) ==
    [i \in turns(address, size) |->
        CASE read_result(address + i - 1) = 0 -> m[address + i - 1]
          [] read_result(address + i - 1) # 0 /\ address < Size -> m[Size - 1]
          [] OTHER -> value]

----------------------------------------------------------------------------

\* An X packet, answered OK or E02.  An m packet changes nothing; its answer is
\* read_memory.
WritePacket ==
    \E a \in Addresses, data \in Data :
        LET done == write_memory_binary(mem, a, escaped(data), Len(data))
        IN  /\ mem' = done.mem
            /\ result' = IF done.write_ok THEN 0 ELSE DATA_ABORT
            /\ UNCHANGED is_big_endian

\* Packets between the stores of the simulated program.
GNext == MemNext \/ WritePacket

GSpec == memory_create /\ [][GNext]_mvars

----------------------------------------------------------------------------

Fits(a, n) == a + n <= Size

Packet(a, data) == write_memory_binary(mem, a, escaped(data), Len(data))

\* "load" in a gdb session: an X packet answered OK has stored every byte, with
\* the escapes undone, where m packets find it (this is what load compares) and
\* where the processor fetches it, in its byte order.
LoadedIsRead ==
    \A a \in Addresses, data \in Data :
        LET done == Packet(a, data)
            n == Len(data)
            fetched(after) == memory_read_word(done.mem, is_big_endian, after, a)
        IN  done.write_ok =>
                /\ Fits(a, n)
                /\ \A v \in Byte : read_memory(done.mem, a, n, v) = data
                /\ n = 4 => \A after \in After :
                              fetched(after) = IF is_big_endian = 1 THEN data ELSE Reverse(data)

\* An X packet that does not fit is refused, and one that is refused has stored
\* the bytes that fit and no others.
RefusedStoresPrefix ==
    \A a \in Addresses, data \in Data :
        LET done == Packet(a, data)
        IN  /\ done.write_ok <=> a < Size /\ Fits(a, Len(data))
            /\ \A i \in 0 .. Size - 1 :
                 done.mem[i] = IF a <= i /\ i < a + Len(data) THEN data[i - a + 1] ELSE mem[i]

\* "The return value indicates a succes (0) or a failure (-1)" (memory.h), on
\* which the loop of read_memory relies: an m packet is answered with the bytes
\* of memory it names and with nothing else.
ReadStopsAtEnd ==
    \A a \in Addresses, n \in 1 .. MaxLength, v \in Byte :
        LET answered == Len(read_memory(mem, a, n, v)) IN answered = 0 \/ Fits(a, answered)
============================================================================
