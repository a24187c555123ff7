----------------------------- MODULE Simulator -----------------------------
(***************************************************************************)
(* The running simulator (arm_simulator.c with the command handlers of     *)
(* gdb_protocol.c): the main thread that waits for the end of the gdb      *)
(* session and then frees everything, the gdb thread that serves one       *)
(* client, and the irq thread that turns each byte it receives into an     *)
(* exception.  The last two share the processor and the trace state under  *)
(* one mutex.  Accesses to shared state are split where another thread     *)
(* could come in between if the mutex did not prevent it.                  *)
(*                                                                         *)
(* The processor is reduced to what the threads tell apart: the pc as a    *)
(* word address, and for each word of memory the kind of instruction it    *)
(* holds.  Packets are well formed here; the link is module GdbLink.       *)
(***************************************************************************)
EXTENDS Integers

CONSTANTS
    TextSize,       \* words of memory; the address TextSize stands for "outside"
    Programs,       \* initial contents of memory
    Requests,       \* exceptions that send_irq asks for
    PokeAddrs,      \* words that X packets write
    PcTargets,      \* values that P and G packets give to the pc
    Ports,          \* pairs of --gdb-port and --irq-port; 0 asks for any free port
    MaxPending,     \* connections that wait to be accepted (Listen backlog)
    MaxFds          \* descriptors of sockets the process may hold

\* "next" runs on to the following word, "loop" branches to itself, "undef" is a
\* coprocessor access, "exit" is the SWI that ends the program, "bkpt" is the
\* word gdb plants at a breakpoint.
Kinds == {"next", "loop", "undef", "exit", "bkpt"}
Addr == 0 .. TextSize - 1
Outside == TextSize
Pc == 0 .. TextSize

ASSUME SimAssumption ==
    /\ TextSize \in Nat /\ TextSize >= 8
    /\ Programs \subseteq [Addr -> Kinds]
    /\ Requests \subseteq 1 .. 8
    /\ PokeAddrs \subseteq Addr
    /\ PcTargets \subseteq Pc
    /\ Ports \subseteq Nat \X Nat
    /\ MaxPending \in Nat /\ MaxFds \in Nat

VARIABLES
    proc,               \* "running", or how the process ended
    main, gdb, irq,     \* where each thread is
    ports,              \* shared.gdb_port and shared.irq_port
    heap,               \* which of the two shared structures are allocated
    lock,               \* holder of the mutex
    client, cmd, rep,   \* the gdb client, its packet and the reply in the socket
    shut,               \* output side of the gdb connection shut down
    pc, text,           \* the processor
    target_exception,   \* result of the last arm_step of the gdb thread
    reported,           \* the last stop reply (history)
    r15, instruction,   \* locals of cont
    enabled, top,       \* trace.c: enabled, depth of the location stack
    pending, conn,      \* irq connections waiting, state of the accepted one
    latch, fds          \* exception byte read, descriptors held by both threads

system == <<main, heap, ports>>
link == <<client, rep, shut>>
core == <<pc, text, target_exception, reported>>
locals == <<r15, instruction>>
trace == <<enabled, top>>
irqs == <<irq, pending, conn, latch, fds>>
vars == <<proc, gdb, lock, cmd, system, link, core, locals, trace, irqs>>

\* c, s, ?, k; g and p; G and P; p and P with a number above 15; X; m, q and H; a
\* letter without handler.
Commands == {"c", "s", "?", "k", "regs", "setpc", "badreg", "poke", "query", "unknown"}
Replies == {"", "data", "S04", "S05", "S10"}
GdbStates == {"create", "accept", "scan", "lock", "enter", "cont_pc", "cont_word", "exec", "step",
              "access", "stopped", "unlock", "close", "done"}
IrqStates == {"create", "accept", "read", "lock", "enter", "vector", "unlock"}
Ends == {"server_error", "exit_call", "returned", "sigpipe", "accept_error", "read_error",
         "assertion", "crash"}

UNDEFINED_INSTRUCTION == 2
DATA_ABORT == 5

Vector(e) == e - 1

Running == proc = "running"

\* The state when main has created the core and both threads.
Init ==
    /\ proc = "running" /\ main = "join" /\ gdb = "create" /\ irq = "create"
    /\ ports \in Ports
    /\ heap = {"arm", "mem"} /\ lock = "free"
    /\ client = "absent" /\ cmd = "none" /\ rep = "none" /\ shut = 0
    /\ pc = 0 /\ text \in Programs /\ target_exception = 0 /\ reported = "S05"
    /\ r15 = 0 /\ instruction = "next"
    /\ enabled = 1 /\ top = 0
    /\ pending = 0 /\ conn = "none" /\ latch = 0 /\ fds = 0

----------------------------------------------------------------------------
(* The trace.  A location is pushed and popped around each access to the   *)
(* core, and neither happens while the trace is off.                       *)

trace_disable == enabled' = 0
trace_enable == enabled' = 1
trace_start_location == top' = IF enabled = 1 THEN top + 1 ELSE top
trace_end_location == top' = IF enabled = 1 THEN top - 1 ELSE top

----------------------------------------------------------------------------
(* create_server.  Socket fails when no descriptor is left.  A port that is *)
(* asked for may be held by another process.  Two sockets may be bound to  *)
(* one port but not listen on it: the thread that comes second fails in    *)
(* Bind or in Listen.                                                      *)

SamePort == ports[1] = ports[2] /\ ports[1] # 0

GdbCreate ==
    /\ Running
    /\ gdb = "create"
    /\ \/ fds < MaxFds /\ ~ (SamePort /\ irq # "create")
            /\ gdb' = "accept" /\ fds' = fds + 1 /\ UNCHANGED proc
       \/ (fds = MaxFds \/ ports[1] # 0) /\ proc' = "server_error" /\ UNCHANGED <<gdb, fds>>
    /\ UNCHANGED <<lock, cmd, system, link, core, locals, trace, irq, pending, conn, latch>>

\* The gdb thread closes its socket before it ends.
IrqCreate ==
    /\ Running
    /\ irq = "create"
    /\ \/ fds < MaxFds /\ ~ (SamePort /\ gdb \notin {"create", "done"})
            /\ irq' = "accept" /\ fds' = fds + 1 /\ UNCHANGED proc
       \/ (fds = MaxFds \/ ports[2] # 0) /\ proc' = "server_error" /\ UNCHANGED <<irq, fds>>
    /\ UNCHANGED <<gdb, lock, cmd, system, link, core, locals, trace, pending, conn, latch>>

----------------------------------------------------------------------------
(* The gdb client (external): one request at a time, may vanish at any time. *)

ClientConnect ==
    /\ Running
    /\ gdb # "create" /\ client = "absent" /\ client' = "idle"
    /\ UNCHANGED <<proc, gdb, lock, cmd, rep, shut, system, core, locals, trace, irqs>>

ClientSend ==
    /\ Running
    /\ client = "idle" /\ cmd = "none"
    /\ cmd' \in Commands /\ client' = "waiting"
    /\ UNCHANGED <<proc, gdb, lock, rep, shut, system, core, locals, trace, irqs>>

ClientReceive ==
    /\ Running
    /\ client = "waiting" /\ rep # "none"
    /\ rep' = "none" /\ client' = "idle"
    /\ UNCHANGED <<proc, gdb, lock, cmd, shut, system, core, locals, trace, irqs>>

ClientClose ==
    /\ Running
    /\ client \in {"idle", "waiting"} /\ client' = "closed" /\ rep' = "none"
    /\ UNCHANGED <<proc, gdb, lock, cmd, shut, system, core, locals, trace, irqs>>

----------------------------------------------------------------------------
(* Writes to the client.  After the peer has closed, a write may still be  *)
(* accepted or may raise SIGPIPE, which nothing catches; after the output  *)
(* side is shut down it always raises it.                                  *)

Transmit(data) ==
    \/ shut = 0 /\ client # "closed" /\ rep' = data /\ UNCHANGED proc
    \/ shut = 0 /\ client = "closed" /\ UNCHANGED <<rep, proc>>
    \/ (shut = 1 \/ client = "closed") /\ proc' = "sigpipe" /\ UNCHANGED rep

gdb_send_ack ==
    \/ shut = 0 /\ UNCHANGED proc
    \/ (shut = 1 \/ client = "closed") /\ proc' = "sigpipe"

stop_reply ==
    CASE target_exception = UNDEFINED_INSTRUCTION -> "S04"
      [] target_exception = DATA_ABORT -> "S10"
      [] OTHER -> "S05"

gdb_send_stop_reason == Transmit(stop_reply) /\ reported' = stop_reply

\* arm_step on the current instruction.  A breakpoint word executed as an
\* instruction decodes as a load with write back that may write the pc.
arm_step ==
    \/ pc = Outside /\ pc' = Vector(DATA_ABORT) /\ target_exception' = DATA_ABORT
         /\ UNCHANGED proc
    \/ pc # Outside /\ text[pc] = "undef" /\ pc' = Vector(UNDEFINED_INSTRUCTION)
         /\ target_exception' = UNDEFINED_INSTRUCTION /\ UNCHANGED proc
    \/ pc # Outside /\ text[pc] = "exit" /\ proc' = "exit_call"
         /\ UNCHANGED <<pc, target_exception>>
    \/ pc # Outside /\ text[pc] = "next" /\ pc' = pc + 1 /\ target_exception' = 0
         /\ UNCHANGED proc
    \/ pc # Outside /\ text[pc] = "loop" /\ target_exception' = 0 /\ UNCHANGED <<pc, proc>>
    \/ pc # Outside /\ text[pc] = "bkpt" /\ pc' \in Pc /\ target_exception' = 0
         /\ UNCHANGED proc
----------------------------------------------------------------------------
(* The gdb thread: gdb_listener, gdb_packet_analysis and the handlers.     *)

\* Accept needs a descriptor, which the irq thread may have used up.
GdbAccept ==
    /\ Running
    /\ gdb = "accept" /\ client # "absent"
    /\ \/ fds < MaxFds /\ fds' = fds + 1 /\ gdb' = "scan" /\ UNCHANGED proc
       \/ fds = MaxFds /\ proc' = "accept_error" /\ UNCHANGED <<fds, gdb>>
    /\ UNCHANGED <<lock, cmd, system, link, core, locals, trace, irq, pending, conn, latch>>

\* A packet arrives: acknowledged, then answered at once if it has no handler.
GdbPacket ==
    /\ Running
    /\ gdb = "scan" /\ cmd # "none" /\ cmd # "unknown"
    /\ gdb_send_ack /\ gdb' = "lock"
    /\ UNCHANGED <<lock, cmd, system, link, core, locals, trace, irqs>>

GdbUnsupported ==
    /\ Running
    /\ gdb = "scan" /\ cmd = "unknown"
    /\ Transmit("") /\ cmd' = "none"
    /\ UNCHANGED <<gdb, lock, client, shut, system, core, locals, trace, irqs>>

\* Mutant: the thread ends when the client has gone, whatever is left to read.
GdbEof_early ==
    /\ Running
    /\ gdb = "scan" /\ client = "closed" /\ gdb' = "close"
    /\ UNCHANGED <<proc, lock, cmd, system, link, core, locals, trace, irqs>>

\* The scanner meets the end of the input behind the last packet.
GdbEof ==
    /\ Running
    /\ gdb = "scan" /\ cmd = "none" /\ client = "closed" /\ gdb' = "close"
    /\ UNCHANGED <<proc, lock, cmd, system, link, core, locals, trace, irqs>>

\* shutdown of the connection, which stays open, close of the server, end of the
\* thread.
GdbClose ==
    /\ Running
    /\ gdb = "close" /\ gdb' = "done" /\ fds' = fds - 1
    /\ UNCHANGED <<proc, lock, cmd, system, link, core, locals, trace, irq, pending, conn, latch>>

GdbLock ==
    /\ Running
    /\ gdb = "lock" /\ lock = "free" /\ lock' = "gdb" /\ gdb' = "enter"
    /\ UNCHANGED <<proc, cmd, system, link, core, locals, trace, irqs>>

\* The call handler[index]: cont starts with an uninitialised instruction, the
\* register handlers turn the trace off, k shuts the output side down.
GdbEnter ==
    /\ Running
    /\ gdb = "enter" /\ cmd # "badreg"
    /\ gdb' = CASE cmd = "c" -> "cont_pc" [] cmd = "s" -> "step" [] cmd = "?" -> "stopped"
                [] cmd = "k" -> "unlock" [] OTHER -> "access"
    /\ IF cmd = "c" THEN instruction' \in Kinds ELSE UNCHANGED instruction
    /\ shut' = IF cmd = "k" THEN 1 ELSE shut
    /\ IF cmd \in {"regs", "setpc"} THEN trace_disable ELSE UNCHANGED enabled
    /\ UNCHANGED <<proc, lock, cmd, client, rep, system, core, r15, top, irqs>>

\* p and P assert that the number is below 16, with the mutex held and the trace on.
GdbAssertion ==
    /\ Running
    /\ gdb = "enter" /\ cmd = "badreg" /\ proc' = "assertion"
    /\ UNCHANGED <<gdb, lock, cmd, system, link, core, locals, trace, irqs>>

ContReadPc ==
    /\ Running
    /\ gdb = "cont_pc" /\ gdb' = "cont_word"
    /\ trace_disable /\ r15' = pc
    /\ UNCHANGED <<proc, lock, cmd, system, link, core, instruction, top, irqs>>

\* Mutant: the test for the breakpoint forgotten.
ContReadWord_no_test ==
    /\ Running
    /\ gdb = "cont_word"
    /\ instruction' = IF r15 # Outside THEN text[r15] ELSE instruction
    /\ trace_enable /\ gdb' = "exec"
    /\ UNCHANGED <<proc, lock, cmd, system, link, core, r15, top, irqs>>

\* The result of the read is ignored: outside memory instruction keeps its value.
ContReadWord ==
    /\ Running
    /\ gdb = "cont_word"
    /\ instruction' = IF r15 # Outside THEN text[r15] ELSE instruction
    /\ trace_enable
    /\ gdb' = IF instruction' = "bkpt" THEN "stopped" ELSE "exec"
    /\ UNCHANGED <<proc, lock, cmd, system, link, core, r15, top, irqs>>

\* Exceptions do not end the loop.
ContStep ==
    /\ Running
    /\ gdb = "exec" /\ arm_step /\ gdb' = "cont_pc"
    /\ UNCHANGED <<lock, cmd, text, reported, system, link, locals, trace, irqs>>

Step ==
    /\ Running
    /\ gdb = "step" /\ arm_step /\ gdb' = "stopped"
    /\ UNCHANGED <<lock, cmd, text, reported, system, link, locals, trace, irqs>>

\* Mutant: cont reports the breakpoint whatever the last step ended with.
SendStopReason_breakpoint ==
    /\ Running
    /\ gdb = "stopped" /\ gdb' = "unlock"
    /\ IF cmd = "c" THEN Transmit("S05") /\ reported' = "S05" ELSE gdb_send_stop_reason
    /\ UNCHANGED <<lock, cmd, client, shut, pc, text, target_exception, system, locals, trace, irqs>>

SendStopReason ==
    /\ Running
    /\ gdb = "stopped" /\ gdb_send_stop_reason /\ gdb' = "unlock"
    /\ UNCHANGED <<lock, cmd, client, shut, pc, text, target_exception, system, locals, trace, irqs>>

\* What the handlers that do not run the processor read, write and answer.
AccessBody ==
    /\ Running
    /\ gdb = "access" /\ gdb' = "unlock"
    /\ IF cmd = "setpc" THEN pc' \in PcTargets ELSE UNCHANGED pc
    /\ IF cmd = "poke"
       THEN \E a \in PokeAddrs, k \in {"next", "bkpt"} : text' = [text EXCEPT ![a] = k]
       ELSE UNCHANGED text
    /\ Transmit("data")
    /\ UNCHANGED <<lock, cmd, client, shut, target_exception, reported, system, locals, top, irqs>>

\* Mutant: the handler returns without turning the trace on again.
Access_trace_off == AccessBody /\ UNCHANGED enabled

\* Only the register handlers have turned the trace off.
Access == AccessBody /\ IF cmd \in {"regs", "setpc"} THEN trace_enable ELSE UNCHANGED enabled

\* The handler has returned: its locals are gone with its frame.
HandlerReturn ==
    /\ Running
    /\ gdb = "unlock" /\ gdb' = "scan" /\ cmd' = "none"
    /\ r15' = 0 /\ instruction' = "next"
    /\ UNCHANGED <<proc, system, link, core, trace, irqs>>

\* Mutant: the mutex stays locked.
GdbUnlock_forgotten == HandlerReturn /\ UNCHANGED lock

GdbUnlock == HandlerReturn /\ lock' = "free"

GdbThread ==
    \/ GdbCreate \/ GdbAccept \/ GdbPacket \/ GdbUnsupported \/ GdbEof \/ GdbClose \/ GdbLock \/ GdbEnter
    \/ GdbAssertion \/ ContReadPc \/ ContReadWord \/ ContStep \/ Step \/ SendStopReason \/ Access \/ GdbUnlock

----------------------------------------------------------------------------
(* The irq thread.  A sender connects, writes one byte and closes (send_irq), *)
(* or fails before or after the byte.                                         *)

SenderConnect ==
    /\ Running
    /\ irq # "create" /\ pending < MaxPending /\ pending' = pending + 1
    /\ UNCHANGED <<proc, gdb, lock, cmd, system, link, core, locals, trace, irq, conn, latch, fds>>

\* No accepted connection is ever closed, so its descriptor stays in use; when
\* none is left Accept ends the process.
IrqAccept ==
    /\ Running
    /\ irq = "accept" /\ pending > 0 /\ pending' = pending - 1
    /\ \/ fds < MaxFds /\ fds' = fds + 1 /\ conn' \in {"byte", "eof", "reset"} /\ irq' = "read"
         /\ UNCHANGED proc
       \/ fds = MaxFds /\ proc' = "accept_error" /\ UNCHANGED <<fds, conn, irq>>
    /\ UNCHANGED <<gdb, lock, cmd, system, link, core, locals, trace, latch>>

\* Read returns 1, 0, or ends the process.
IrqRead ==
    /\ Running
    /\ irq = "read"
    /\ \/ conn = "byte" /\ latch' \in Requests /\ conn' \in {"eof", "reset"} /\ irq' = "lock"
         /\ UNCHANGED proc
       \/ conn = "eof" /\ irq' = "accept" /\ conn' = "none" /\ UNCHANGED <<latch, proc>>
       \/ conn = "reset" /\ proc' = "read_error" /\ UNCHANGED <<latch, conn, irq>>
    /\ UNCHANGED <<gdb, lock, cmd, system, link, core, locals, trace, pending, fds>>

IrqLockStep ==
    /\ Running
    /\ irq = "lock" /\ irq' = "enter"
    /\ UNCHANGED <<proc, gdb, cmd, system, link, core, locals, trace, pending, conn, latch, fds>>

\* Mutant: arm_exception called without the mutex.
IrqLock_none == IrqLockStep /\ UNCHANGED lock

IrqLock == IrqLockStep /\ lock = "free" /\ lock' = "irq"

\* arm_exception, first part: the status and the link register are written.
\* Once main has freed the core this is undefined behaviour.
IrqEnter ==
    /\ Running
    /\ irq = "enter" /\ irq' = "vector"
    /\ trace_start_location
    /\ IF "arm" \in heap THEN UNCHANGED proc ELSE proc' \in {"running", "crash"}
    /\ UNCHANGED <<gdb, lock, cmd, system, link, core, locals, enabled, pending, conn, latch, fds>>

\* arm_exception, last part: the pc is written.
IrqVector ==
    /\ Running
    /\ irq = "vector" /\ irq' = "unlock"
    /\ pc' = Vector(latch)
    /\ trace_end_location
    /\ IF "arm" \in heap THEN UNCHANGED proc ELSE proc' \in {"running", "crash"}
    /\ UNCHANGED <<gdb, lock, cmd, text, target_exception, reported, system, link, locals, enabled,
                   pending, conn, latch, fds>>

\* Mutant: the mutex stays locked.
IrqUnlock_forgotten ==
    /\ Running
    /\ irq = "unlock" /\ irq' = "read" /\ latch' = 0
    /\ UNCHANGED <<proc, gdb, lock, cmd, system, link, core, locals, trace, pending, conn, fds>>

IrqUnlock ==
    /\ Running
    /\ irq = "unlock" /\ irq' = "read" /\ lock' = "free" /\ latch' = 0
    /\ UNCHANGED <<proc, gdb, cmd, system, link, core, locals, trace, pending, conn, fds>>

IrqThread == IrqCreate \/ IrqAccept \/ IrqRead \/ IrqLock \/ IrqEnter \/ IrqVector \/ IrqUnlock

----------------------------------------------------------------------------
(* The main thread.                                                        *)

\* Mutant: main does not wait for the gdb thread.
MainJoin_none ==
    /\ Running
    /\ main = "join" /\ main' = "arm"
    /\ UNCHANGED <<proc, gdb, lock, cmd, heap, ports, link, core, locals, trace, irqs>>

MainJoin ==
    /\ Running
    /\ main = "join" /\ gdb = "done" /\ main' = "arm"
    /\ UNCHANGED <<proc, gdb, lock, cmd, heap, ports, link, core, locals, trace, irqs>>

\* arm_destroy and memory_destroy, without the mutex.
MainFree ==
    /\ Running
    /\ \/ main = "arm" /\ main' = "mem" /\ heap' = heap \ {"arm"}
       \/ main = "mem" /\ main' = "return" /\ heap' = heap \ {"mem"}
    /\ UNCHANGED <<proc, gdb, lock, cmd, ports, link, core, locals, trace, irqs>>

\* The return of main ends the process with whatever threads remain.
MainReturn ==
    /\ Running
    /\ main = "return" /\ proc' = "returned"
    /\ UNCHANGED <<gdb, lock, cmd, system, link, core, locals, trace, irqs>>

MainThread == MainJoin \/ MainFree \/ MainReturn

----------------------------------------------------------------------------

Environment == ClientConnect \/ ClientSend \/ ClientReceive \/ ClientClose \/ SenderConnect

Ended == ~ Running /\ UNCHANGED vars

Next == Environment \/ GdbThread \/ IrqThread \/ MainThread \/ Ended

Spec == Init /\ [][Next]_vars

\* Every thread that can run does; nothing is assumed of the client, of the
\* senders, or of which thread gets the mutex.
Fairness ==
    /\ WF_vars(GdbThread)
    /\ WF_vars(IrqThread)
    /\ WF_vars(MainThread)

LiveSpec == Spec /\ Fairness

----------------------------------------------------------------------------

TypeOK ==
    /\ proc \in {"running"} \cup Ends
    /\ main \in {"join", "arm", "mem", "return"} /\ gdb \in GdbStates /\ irq \in IrqStates
    /\ ports \in Ports /\ heap \subseteq {"arm", "mem"} /\ lock \in {"free", "gdb", "irq"}
    /\ client \in {"absent", "idle", "waiting", "closed"}
    /\ cmd \in Commands \cup {"none"} /\ rep \in Replies \cup {"none"} /\ shut \in 0 .. 1
    /\ pc \in Pc /\ text \in [Addr -> Kinds]
    /\ target_exception \in {0, UNDEFINED_INSTRUCTION, DATA_ABORT} /\ reported \in Replies
    /\ r15 \in Pc /\ instruction \in Kinds
    /\ enabled \in 0 .. 1 /\ top \in -1 .. 1
    /\ pending \in 0 .. MaxPending /\ conn \in {"none", "byte", "eof", "reset"}
    /\ latch \in Requests \cup {0} /\ fds \in 0 .. MaxFds

\* The states of a thread in which it uses the processor or the trace.
GdbInCore == gdb \in {"enter", "cont_pc", "cont_word", "exec", "step", "access", "stopped"}
IrqInCore == irq \in {"enter", "vector"}

\* The mutex works: the gdb thread is never inside a handler while the irq thread
\* is inside arm_exception.
OneInCore == ~ (GdbInCore /\ IrqInCore)

\* cont never executes a breakpoint word.  The test is made on a word read before
\* arm_step fetches again; the two agree only if nothing writes the pc in between.
BreakpointsNotExecuted ==
    gdb = "exec" =>
        /\ r15 = pc
        /\ pc # Outside => text[pc] = instruction /\ text[pc] # "bkpt"

\* When cont reports a stop the processor stands on a breakpoint word, unless the
\* pc is outside memory, where the test was made on an uninitialised word.
ReportsWhereItStopped ==
    gdb = "stopped" /\ cmd = "c" => pc = Outside \/ text[pc] = "bkpt"

\* The location stack of trace.c is balanced and the trace is on whenever no
\* thread holds the mutex: no push is popped while the trace is off, or the
\* other way round.
TraceBalanced == lock = "free" => enabled = 1 /\ top = 0

\* The gdb thread never uses the core or the memory after main has freed them.
GdbUsesLiveCore == GdbInCore => heap = {"arm", "mem"}

\* A ? packet is answered with the stop that was last reported, whatever interrupts
\* and commands came in between: nothing but arm_step in a c or s command, each of
\* which ends with a report, changes target_exception.
ReasonRepeated == gdb = "stopped" /\ cmd = "?" => stop_reply = reported

\* cont is in its loop.
InCont == gdb \in {"cont_pc", "cont_word", "exec"}

\* The inductive invariant.  Who holds the mutex follows from where the threads
\* are; the trace is off only inside two steps of the gdb thread and the location
\* stack is not empty only inside arm_exception; the word cont has tested is the
\* one at the pc; the stop reported is the one stored unless a command is running;
\* nothing is freed before the gdb thread has ended, and it closes what it opened.
GdbHolds == GdbInCore \/ gdb = "unlock"
IrqHolds == IrqInCore \/ irq = "unlock"

LockInv == (lock = "gdb" <=> GdbHolds) /\ (lock = "irq" <=> IrqHolds)

TraceInv ==
    /\ enabled = 0 => gdb = "cont_word" \/ (gdb = "access" /\ cmd \in {"regs", "setpc"})
    /\ top = IF irq = "vector" THEN 1 ELSE 0

LatchInv == irq \in {"lock", "enter", "vector"} => latch \in Requests

ContInv ==
    /\ gdb = "lock" \/ GdbHolds => cmd # "none"
    /\ gdb = "step" => cmd = "s"
    /\ InCont => cmd = "c"
    /\ gdb = "cont_word" => r15 = pc
    /\ BreakpointsNotExecuted
    /\ ReportsWhereItStopped
    /\ InCont \/ (gdb = "stopped" /\ cmd # "?") \/ stop_reply = reported

HeapInv ==
    /\ main # "join" => gdb = "done"
    /\ heap = CASE main = "join" -> {"arm", "mem"} [] main = "arm" -> {"arm", "mem"}
                [] main = "mem" -> {"mem"} [] main = "return" -> {}

\* The descriptors of the gdb thread: its server, then the connection, which it never
\* closes.
FdsInv == fds >= CASE gdb = "create" -> 0 [] gdb \in {"accept", "done"} -> 1 [] OTHER -> 2

IInv == TypeOK /\ LockInv /\ TraceInv /\ LatchInv /\ ContInv /\ HeapInv /\ FdsInv

\* Unless the simulated program runs for ever, a packet that the client sent is handled
\* to its end, also when the client goes away at once and whatever interrupts arrive:
\* its thread does not wait for the mutex for ever, and main does not return before.
\* What else ends the process, such as SIGPIPE, may come first.
RequestServed ==
    <>[]InCont \/ (cmd # "none" ~> (cmd = "none" \/ proc \in Ends \ {"returned", "crash"}))

\* Unless the simulated program runs for ever, the process ends once the client
\* has closed the connection: EOF, end of the gdb thread, join, return.
ClosedSessionEnds == <>[]InCont \/ (client = "closed" ~> ~ Running)

\* An interrupt that has been read is delivered, unless the gdb thread takes the
\* mutex again and again or keeps it for ever.
InterruptDelivered == []<>(lock = "gdb") \/ (irq = "lock" ~> (irq # "lock" \/ ~ Running))

\* "send_irq : small command to send exception to a running simulator" (README):
\* an interrupt that the simulator has read is delivered, whatever the simulated
\* program does in the meantime.
RunningSimulatorInterrupted == irq = "lock" ~> (irq # "lock" \/ ~ Running)

\* Strong fairness on the mutex, the most a scheduler could give.
FairLockSpec ==
    LiveSpec /\ SF_vars(IrqLock) /\ SF_vars(GdbLock)
============================================================================
