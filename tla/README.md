# A TLA+ model of the ARM simulator

`src/arm_simulator-1.4` is a simulator of an ARMv5 processor that acts as a gdb
server. This directory holds TLA+ modules for its parts, TLC runs that check
them on small instances, and TLAPS proofs for every value of the constants.
File names below are relative to `src/arm_simulator-1.4`.

## The system

| part | state | operations |
|---|---|---|
| `registers.c` | an array of 37 words with the registers of all modes | read and write a register, a user register, CPSR, SPSR |
| `arm_core.c` | registers, memory, cycle count | create, register accesses (the pc reads 4 ahead), fetch, data accesses |
| `arm_exception.c` | - | reset, entry into an exception |
| `arm_instruction.c` | - | step: fetch, condition, dispatch; shifter operand |
| `arm_data_processing.c`, `arm_load_store.c`, `arm_branch_other.c` | - | the instructions |
| `memory.c` | an array of bytes, its byte order | read and write a byte, a half word, a word |
| `scanner.l` | the invalid characters met so far | one rule for `+`, `-`, a packet, any other character, end of file |
| `gdb_protocol.c` | last packet sent, last exception | acknowledge, dispatch, one handler per command |
| `trace.c` | enabled flag, stack of locations, selected lines, output file | push, pop, disable, enable, output |
| `debug.c`, `debug.h` | the sorted table of files to report on, a cached flag | add a file, look one up |
| `arm_simulator.c` | options, a mutex, two servers | option parsing, the main, gdb and irq threads |
| `send_irq.c` | - | connect, send one byte, close |

`main` reads the options, initialises the parts and starts two threads, each of
which creates its server. The gdb thread accepts one client and runs the scanner on its connection. The
scanner calls `gdb_packet_analysis`, which takes the mutex, calls the handler of
the command and releases the mutex. The irq thread accepts one sender after the
other and calls `arm_exception` under the same mutex for each byte it reads. The
main thread then waits for the gdb thread, frees the core and the memory, and returns.

What is hard to get right here: the threads share the processor and the trace
state; `cont` tests a word and executes it in two steps; a packet may have to be
sent again on either side; the registers of seven modes are packed in one array
whose layout depends on one of its elements; an exception changes the mode while
it saves the state of the old one; flags are computed from sign bits; memory
accesses are checked by their first byte; the words of a register packet depend
on the byte order of host and target. `PROJECT.json` lists these hazards with
the line where each one bites and the properties that watch it.

## Modules

| module | models | kept apart in it |
|---|---|---|
| `Registers` | `registers.c` | the array `r`; one operator per function, one action per write |
| `BankedRegisters` | what the architecture promises | one register per owner mode; the abstract specification of `Registers` |
| `ArmCore` | `arm_core.c`, `arm_exception.c`, `arm_step` | extends `Registers`; a step executes or faults, interrupts and debugger writes come between steps |
| `DataProcessing` | `arm_data_processing.c`, conditions, shifter operand, MRS | extends `ArmCore`; an instruction is the record of its fields |
| `ArmMachine` | `arm_load_store.c`, branches, the dispatch: all of `arm_step` | extends `DataProcessing` and uses `Memory`; processor and memory together |
| `Memory` | `memory.c` | a word is the sequence of its bytes |
| `GdbMemory` | commands `m` and `X` | extends `Memory`; escapes in binary data |
| `GdbRegisters` | commands `g`, `G`, `p`, `P` | extends `ArmCore`; byte orders of host and target, decimal and hexadecimal register numbers |
| `Trace` | register accessors of `arm_core.c`, `trace_register` | extends `ArmCore`; a line of the trace is a record |
| `GdbSession` | what the link promises | requests made, executed, answered; the abstract specification of `GdbLink` |
| `GdbLink` | `scanner.l`, acknowledgement and retransmission | both directions of the connection; one action per scanner rule |
| `Options` | option parsing and start in `main`, `debug.c`, flags and output of `trace.c` | one action per option and per step of the start |
| `Simulator` | threads and servers of `arm_simulator.c`, locking and run control of `gdb_protocol.c`, flag and stack of `trace.c` | one program counter per thread |

`MC...` modules give the constants of the runs; `...Proofs` modules hold theorems.

Some choices:

* Words have `WordMod` values, 2^32 in the code. The proofs leave it open; TLC
  uses 8192, the least power of two above the constants of `arm_exception` with
  room for the four flags, and 65536 where a word is also four bytes, of 4 bits
  each (`ArmMachine`, `GdbRegisters`). A branch offset has 8 bits less than a word.
* In `ArmCore` what an instruction computes is left open. `Effect` is the set of
  register files its handlers may leave; `ArmMachine`, which has the handlers, is
  proved to stay within it, so that what is proved of `ArmCore` holds of the machine.
* The instruction that `ArmMachine` fetches is any of a set of records of fields,
  whatever memory holds: programs that write their own code need no more.
* Bitwise operations in `DataProcessing` are defined by the set of positions at
  which a word has a one, and that word by the sum of its weights, a recursive
  function: the proofs reason about both by induction on the positions. The loop of
  a block transfer is the function of its states after 0 to 16 turns.
* The ASSUMEs on instructions (`FieldsAssumption`, `FormatAssumption`) say which
  fields each class has and how many values each can hold, as the masks of the code
  cut them out of a word: a register number is below 16, a branch offset has 24 bits
  of 32. A word is four bytes (`ByteAssumption`), and `main` allocates memory in
  whole words.
* `MachineSpec` starts from any registers and memory of the right type, which gdb may
  have written; the run of TLC starts from the states of `MCArmMachine`.
* `GdbRegisters` and `Trace` change no state of their own: their operators take the
  register file as a value, and their properties speak of every packet and every
  access in each reachable state of the processor.
* In `Simulator` the processor is a word address and a kind of instruction per
  word: runs on, loops, undefined, exits, breakpoint.
* Undefined behaviour is a choice: the uninitialised `instruction` of `cont`, a
  read past the end of memory, a new register array, the bytes of `val` that LDRB
  and LDRH do not write and all of it when the load is refused, the core used after
  `arm_destroy`, and in `Options` a name added to a full table, after which
  anything may follow. Shifts by the word size or more take the count modulo the word
  size, as the processors the simulator is built for do.
* The descriptors of sockets are counted over both threads: two servers, the gdb
  connection and each connection of a sender, none of which is closed but the gdb
  server. `create_server` may fail for want of one, or because the port asked for is
  held by the other thread or by another process; `Accept` fails for want of one.
* gdb is not part of the repository. `GdbLink` and `Simulator` assume a client
  that makes one request at a time, repeats what is refused, refuses an altered
  reply, may send Ctrl-C while it waits, and in `Simulator` may vanish at any time.
  When its user quits it sends `k`, waits for the acknowledgement and closes.
* A handler may send no reply: `k` shuts the output side of the connection down, and
  `cont` may not return (`ServeSilently`). A write after `k` raises SIGPIPE, and one
  after the client has closed may (`StubSigpipe`, and `Transmit` of `Simulator`).
* The text of a port is the number it starts with, or none; `atoi` takes it, 0 for
  none, and the assignment to `in_port_t` keeps it modulo 65536.
  `Packets`, the contents of `G`, are answers to `g`, in which bit 1 of the pc is
  clear.
* `debug.h` caches its flag only if built with `CACHE_DEBUG_FLAG`, which
  `Makefile.am` has commented out; `CacheAgrees` says that both builds report alike.

## Runs

Runs that pass:

| run | checks | bounds |
|---|---|---|
| `registers` | the array implements the banked registers; every read and every write is about the register it names, and its trace line tells which | r12 and r13 stand for the registers banked for FIQ alone and for every exception mode; all modes |
| `arm_core` | pc reads ahead, vectors, masking, what an entry may overwrite; words travel in every byte order, `G` restores what `g` showed, `P` changes what it names | 3 steps after reset: an exception, a write, an exception in another mode; 10 words of memory, so that fetches fail; `G` packets saved in user and FIQ mode arrive in any state |
| `simulator` | mutual exclusion, breakpoints, stops, trace, lifetime of the core, the reason `?` repeats, the inductive invariant; a packet that was sent is handled to its end, the process ends after the client has gone, interrupts are delivered | 8 words, the size of the vector; a second sender can wait while one is served; 5 descriptors, which run out at the third sender while gdb is connected; servers on different ports and on one |
| `gdb_link` | `GdbLink` implements `GdbSession`; every request is answered, unless it is the `k` that ends the session or a handler does not return; the buffer of the scanner does not overflow | 4 requests, 3 altered packets, so one packet can be altered several times in a row; 4 Ctrl-C and a buffer of 3, which fills up and starts again |
| `gdb_memory` | words read back; one word changes at most; what is loaded is read and fetched; a refused packet stores the bytes that fit | two words, every address in them and the first past the end, packets of up to 4 bytes, escaped or not; both byte orders |
| `options` | every option takes effect before the threads start; the debug table answers for the files named; the cached flag is right | all command lines of up to 3 options, and of up to 5 files for a table of 4; ports of 1, 65535 and 65536, and a text without a number |
| `machine` | push and pop restore registers in all four kinds of stack; indexed transfers are two steps; a call returns; every step is within `Effect` | 2 instructions of any class; 8 words of memory; lists of one to three registers, offsets with bits 0, 7, and both 7 and 4 set, calls to the nearest and farthest words in both directions; stack pointers inside, unaligned, at the end, outside and where an offset wraps around into memory; USR, SVC and FIQ; both byte orders |
| `data_processing` | conditions after a comparison, two-word arithmetic, shifts, mode | 13-bit words at the boundaries of sign and wrap around |

Runs in which the code disagrees with what the repository says of it; the
findings in `PROJECT.json` quote the lines:

| run | what TLC shows |
|---|---|
| `arm_core_saved` | SPSR and LR are saved in the interrupted mode, before the mode changes |
| `simulator_running` | `cont` keeps the mutex: a running program is not interrupted, even with a strongly fair mutex |
| `gdb_memory_end` | `m` past the end of memory is answered with copies of the last byte |
| `data_processing_signed` | comparing 0 with 3 makes GT true |

The conditions in `SignedComparison`, `UnsignedComparison` and `DoubleWord` (first
operand not zero, carry clear) are those outside which the code computes other
flags: the first by `data_processing_signed`; the second because the carry of the
shifter, which for an unshifted operand is the old carry, is or'ed into the new.

`GdbSession` promises less after a Ctrl-C. The scanner reports the character by a
`-` when the next token arrives; gdb may take this `-` for the refusal of a packet
that the stub executes, and send it again, so that it is executed twice. Together
with an altered packet it can make gdb repeat the wrong request, so that one is
skipped. What remains is that requests are executed in order.

`SavedIsRestored` excepts banked registers: `G` writes r0 to r15 in the current
mode and then the CPSR, so a restore that changes the mode writes r8 to r14 of the
mode left. `WriteIsShown` makes `p` agree with `g` for one-digit numbers only: `p`
reads its number with `atoi`, so that `pd` shows r0. `DebugLookup` says nothing of
the names that do not fit into the table, except that none is invented.

`arm_load_store` recognises LDRH and STRH by bits 7 and 4 of the instruction, which
in other transfers belong to the offset: LDR with offset 0x90 loads a half word.
`IndexedIsTwoSteps` is about every offset and says so: the addition is that of the
offset written, and the load that of a half word for these offsets. It is about loads
into another register than the base. `ShiftsCompose` is about LSL, LSR and ROR by
fewer places than a word has bits; ASR, and longer shifts, which the code makes
differently from the architecture, are in the model and in no property.

`StartsAsAsked` asks for the port that was given if it is a port number; a number
above 65535 or a text without one is converted as the code does.

**Fairness.** `Simulator` assumes weak fairness of each thread, which any
preemptive scheduler gives, and nothing of client, senders or mutex. So
`InterruptDelivered` excepts behaviours in which the gdb thread takes the mutex
again and again, and `ClosedSessionEnds` and `RequestServed` those in which the
program runs for ever inside `cont`. What ends the process before a packet is handled
(SIGPIPE, a failing server, `Accept` or `Read`, the assertion of `p` and `P`, the exit
of the program) is accepted by `RequestServed`; the return of `main` is not.
`GdbLink` assumes that both ends read what has arrived, the stub unless a handler
keeps it; its client makes requests or Ctrl-C as it likes.

**Deadlock** is not checked where a run may stop: `ArmCore`, `DataProcessing` and
`ArmMachine` after their bounded number of steps, `GdbLink` after its last
request or when the stub has died, `Options` once the threads run or `main` has ended.

## Proofs

All theorems hold for every value of the constants that the ASSUMEs allow. Type
correctness of registers, memory and threads is proved and has no run of its own;
`IInv`, which a run does check, contains that of the threads.

* `ArmCoreProofs`, registers: `ReadsAlwaysAgree`, `WritesAlwaysAgree`, and
  `RegistersImplementBanked`, the refinement, which alone would take a write to
  the wrong bank for a user-register write: the table of `registers.h` is injective
  (`LayoutInjective`) and each access uses the slot the table gives to the current
  mode (`RegisterSlot`, `SpsrSlot`), so a write changes one banked register.
* `ArmCoreProofs`, core: type correctness, then pc, vector, masking and context, each
  a consequence of the type invariant by arithmetic on the CPSR and on the pc.
* `SimulatorProofs`, options: the loop of the binary search keeps the position of the
  name, if it is in the table, between its bounds, and the distance of the bounds
  shrinks (`DebugAlwaysLookedUp`); `add_debug_to` keeps the table sorted and adds one
  name to its entries. `AlwaysStartsAsAsked` and `CacheAlwaysAgrees` need an invariant
  that ties each setting to the options consumed so far.
* `SimulatorProofs`, threads: `IInv` is inductive. None of the safety properties is so
  alone: mutual exclusion needs the holder of the mutex to follow from where the
  threads are; breakpoints need the word tested to be the one at the pc, which
  needs mutual exclusion; the trace needs to know who may have it off; the
  lifetime of the core needs main to wait; the reason `?` repeats needs every step
  to be followed by a report before the mutex is released; that descriptors are not
  counted below zero needs the gdb thread to close only what it has opened. The proof
  has one step per action.
* `MemoryProofs`: an aligned access that starts inside a memory whose size is a
  multiple of 4 ends inside, from which `WordAlwaysReadBack` and `OnlyOneWordChanges`
  follow. For `X` packets of any length the loop of `write_memory_binary` is followed
  byte by byte: after n bytes the position in the packet is past the n-th value,
  escaped or not, and the n bytes are in memory or the first that did not fit has
  stopped it (`LoadedIsAlwaysRead`, `RefusedAlwaysStoresPrefix`).
* `DebuggerProofs`, registers: `WordsAlwaysTravel` by arithmetic on four bytes;
  `SavedIsAlwaysRestored` and `WriteIsAlwaysShown` because the sixteen registers of
  a mode have sixteen different slots; `TraceAlwaysReplays` because the slot a line
  names is the one the accessor uses. All rest on the type of the register file.
* `DebuggerProofs`, link: the buffer of invalid characters, for every size of at
  least 2, and `LinkImplementsSession`. Its invariant has two parts. `LineInv` holds always:
  requests and replies are in order in the connection, and an acknowledgement
  separates the replies before it from newer ones, so that a client that waits for an
  acknowledgement and then for a reply takes no reply twice. It does not count the
  packets under way, which Ctrl-C and altered packets leave unbounded. `Quiet` holds
  until Ctrl-C is typed: the exchange is in one of seven phases, with one packet under
  way. Without it the exactly-once half of the promise cannot be shown.
* `DataProcessingProofs`: the flags of a comparison are written out from the sign
  bits of operands and result, and the conditions decided by cases on them
  (`SignedComparisonHolds`, `UnsignedComparisonHolds`); `DoubleWordHolds` adds the
  carry between the words. `ModeAlwaysKept` is about every program of data
  processing instructions; its invariant is that CPSR and SPSRs are words, and
  the step needs that changing a flag leaves the control bits. For
  `ShiftsAlwaysCompose` the operators on sets of bits are first shown to be those of
  arithmetic: the sum of the weights of a set has exactly these bits (`SumBits`), a
  word is the sum of its bits, and an or of words without common bits is their sum
  (`OrAdds`), so that a rotation is a quotient plus a shifted remainder.
* `ArmMachineProofs`: `MachineTyped` and, from the same analysis of each class of
  instruction, `StepsAlwaysWithinEffect`, the action property. `IndexedIsAlwaysTwoSteps`,
  for every offset of a word, and `CallAlwaysReturns` are arithmetic modulo the word size, the latter with the
  sign extension of the offset.
* `StackProofs`: `StackAlwaysRestores` follows the two loops of a push
  and a pop. After n turns the push has written the registers of the list below n to
  consecutive words, starting at the lowest address, and nothing else; after n turns
  the pop has given them back (`Below`, `Holds`, `Partly`). Both use the same block,
  because the pop of each kind of stack starts where the push ended.

`Induction` holds what the proofs about loops share: induction over the natural
numbers in the form of a set of numbers, and that a recursive function exists and
that its values stay in an invariant of its turns. The induction theorems of the
library are about an operator, which the provers cannot instantiate; these are
derived from the existence of least elements.

Only model-checked: the liveness properties (`EveryRequestAnswered`,
`RequestServed`, `ClosedSessionEnds`, `InterruptDelivered`), which are beyond the provers, and the
violations. The fairness they assume is the one stated above.

## Not modelled

* The decoding of instructions from memory: a word of 32 bits is beyond TLC's
  integers, and the fields of a smaller one would not be those of the code. An
  instruction is a record of its fields instead. `arm_coprocessor_load_store` is
  never called.
* What `q` and `H` packets answer, constants; `Simulator` has their locking. `p` and
  `P` with a number of 16 or more are not in `GdbRegisters`: the assertion of the
  handler ends the process, which is an action of `Simulator` (`GdbAssertion`).
* The table of interrupt names in `send_irq.c`; its byte is an input of `Simulator`.
* `csapp.c` beyond the wrappers the threads call; `trace_memory`, `arm_print_state`,
  the wording of messages; `arm.c`, whose `arm_init` is empty: no effect on the
  simulated machine. The order in which C evaluates the sum in the macros of
  `trace_location.h` only changes the position that a trace line shows.
