---------------------------- MODULE GdbRegisters ----------------------------
(***************************************************************************)
(* The packets of gdb_protocol.c that read and write registers: g and G    *)
(* (all of them at once), p and P (one of them).  A word travels as four   *)
(* bytes in the byte order of the simulated processor, whatever the order  *)
(* of the host.  Registers are the 37 words of module Registers; a packet  *)
(* names those of the mode that is current when it arrives.                *)
(*                                                                         *)
(* The operators take the register file as a value, so that the properties *)
(* can speak of any packet in any reachable state of module ArmCore.  The  *)
(* floating point words of g and G, which are placeholders, are left out.  *)
(***************************************************************************)
EXTENDS ArmCore

CONSTANTS
    ByteMod,        \* number of values of a byte: 256 in the code
    Packets         \* contents of the G packets of a run

ASSUME ByteAssumption ==
    /\ ByteMod \in Nat \ {0}
    /\ WordMod = ByteMod * (ByteMod * (ByteMod * ByteMod))

\* What g answers: the pc of ARM code has bit 1 clear.
ASSUME PacketAssumption ==
    Packets \subseteq {packet \in [0 .. CPSR -> Word] : Bit(packet[PC], 2) = 0}

Orders == {0, 1}    \* little and big endian, of the host and of the target

\* The four bytes of value, the least significant first.
Bytes(value) ==
    LET rest1 == value \div ByteMod
        rest2 == rest1 \div ByteMod
        rest3 == rest2 \div ByteMod
    IN  [i \in 0 .. 3 |-> CASE i = 0 -> value % ByteMod
                            [] i = 1 -> rest1 % ByteMod
                            [] i = 2 -> rest2 % ByteMod
                            [] i = 3 -> rest3]

\* The word whose bytes are b.
Integer(b) == b[0] + ByteMod * (b[1] + ByteMod * (b[2] + ByteMod * b[3]))

\* The union of read_uint32 and write_uint32: byte i in the memory of the host.
host_bytes(host, b) == [i \in 0 .. 3 |-> IF host = 0 THEN b[i] ELSE b[3 - i]]

\* The loop of both: the byte of the union at position k of the packet.
position(host, target, k) == IF host = target THEN k ELSE 3 - k

\* Mutant: the bytes are sent in the order of the host.
write_uint32_host(host, target, value) == host_bytes(host, Bytes(value))

write_uint32(host, target, value) ==
    LET mem == host_bytes(host, Bytes(value))
    IN  [k \in 0 .. 3 |-> mem[position(host, target, k)]]

read_uint32(host, target, data) ==
    Integer(host_bytes(host, [i \in 0 .. 3 |-> data[position(host, target, i)]]))

\* Mutant: the pc is sent as an instruction reads it.
sent_register_ahead(f, reg) == arm_read_register(f, reg)

\* The value g and p send: the pc is one instruction in advance.
sent_register(f, reg) ==
    IF reg = PC THEN Wrap(arm_read_register(f, PC) - 4) ELSE arm_read_register(f, reg)

\* The answer to g: r0 to r15, then the CPSR as word 16.
read_general_registers(f) ==
    [n \in 0 .. CPSR |-> IF n = CPSR THEN read_cpsr(f) ELSE sent_register(f, n)]

\* The number, below 16, whose register in the current mode is slot s.
register_at(f, s) == CHOOSE n \in 0 .. 15 : register_slot(f, n) = s

\* A G packet: r0 to r15 in the current mode, then the CPSR.  The sixteen writes
\* are to different slots, so that their order does not matter.
write_general_registers(f, packet) ==
    write_cpsr(write_some(f, [s \in {register_slot(f, n) : n \in 0 .. 15} |->
                                packet[register_at(f, s)]]),
               packet[CPSR])

\* What atoi and sscanf("%x") make of a number below 32 that gdb has written in
\* hexadecimal.  atoi stops at the first character that is not a decimal digit.
atoi(n) ==
    LET units == n % 16
    IN  CASE n < 10 -> n
          [] n \in 10 .. 15 -> 0
          [] n > 15 -> IF units < 10 THEN 10 + units ELSE 1

sscanf_x(n) == n

\* Mutant: the number of a P packet read as that of a p packet.
gdb_write_register_decimal(f, n, value) == write_register(f, atoi(n), value)

\* The p and P packets (read_register and write_register of gdb_protocol.c), for
\* the numbers with which their assertion holds.
gdb_read_register(f, n) == sent_register(f, atoi(n))
gdb_write_register(f, n, value) == write_register(f, sscanf_x(n), value)

----------------------------------------------------------------------------

\* A word packed and unpacked by the client, which only knows the target's order.
Packed(target, value) ==
    [i \in 0 .. 3 |-> IF target = 0 THEN Bytes(value)[i] ELSE Bytes(value)[3 - i]]

Unpacked(target, data) ==
    Integer([i \in 0 .. 3 |-> IF target = 0 THEN data[i] ELSE data[3 - i]])

\* "in local byte order" (gdb_protocol.c): on a host of either order and for a
\* target of either order, the client and the simulator give the same value to a
\* word that travels between them.
WordsTravel ==
    \A host, target \in Orders, v \in {r[PC], r[CPSR]} :
        /\ Unpacked(target, write_uint32(host, target, v)) = v
        /\ read_uint32(host, target, Packed(target, v)) = v

\* gdb saves the registers with g before it calls a function of the program and
\* restores them with G afterwards.  Whatever has happened between the two (r is
\* any state at which the G packet can arrive), the next g answers what was saved,
\* except for the registers that the mode saved keeps in a bank of its own when
\* another mode is current at the restore; and registers of no third mode change.
SavedIsRestored ==
    \A packet \in Packets :
        LET back == write_general_registers(r, packet)
            shown == read_general_registers(back)
            written == {register_slot(r, n) : n \in 0 .. 15}
        IN  /\ \A n \in 0 .. CPSR :
                 \/ shown[n] = packet[n]
                 \/ n < 15 /\ register_slot(back, n) # register_slot(r, n)
            /\ \A s \in Slot \ {CPSR} : s \in written \/ back[s] = r[s]

\* "set $sp = v" in a gdb session: a P packet that names register n is seen by the
\* next g as a change of register n to v and of nothing else; and p, which reads
\* the number in decimal, agrees with g for the registers of one decimal digit.
WriteIsShown ==
    LET before == read_general_registers(r)
    IN  \A n \in 0 .. 15, v \in {v \in RegValues : Bit(v, 2) = 0} :
          LET after == gdb_write_register(r, n, v)
          IN  /\ read_general_registers(after) = [before EXCEPT ![n] = v]
              /\ n < 10 => gdb_read_register(after, n) = v
============================================================================
