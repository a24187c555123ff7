------------------------------ MODULE GdbLink ------------------------------
(***************************************************************************)
(* The packet link between gdb and the simulator: the rules of scanner.l,  *)
(* the acknowledgements of gdb_packet_analysis and the retransmission of   *)
(* the last packet.  The connection delivers bytes in order; a packet may  *)
(* arrive altered, which its checksum shows.  A packet is its number, the  *)
(* number of the request for a request and of the execution for a reply,   *)
(* and whether its checksum holds.  The client is gdb, which is not part   *)
(* of the repository: it waits for the acknowledgement of its packet, then *)
(* for the reply, repeats what is refused, and refuses an altered reply.   *)
(* When its user quits it sends k, waits for the acknowledgement only, and *)
(* closes the connection; what the stub wrote before is still delivered.   *)
(***************************************************************************)
EXTENDS Integers, Sequences

CONSTANTS
    MaxRequests,        \* requests the client makes
    MaxNoise,           \* packets altered on the way
    MaxInterrupts,      \* times the user types Ctrl-C
    MAX_ERROR_SIZE      \* size of the buffer for invalid characters

ASSUME LinkAssumption ==
    /\ MaxRequests \in Nat /\ MaxNoise \in Nat /\ MaxInterrupts \in Nat
    /\ MAX_ERROR_SIZE \in Nat /\ MAX_ERROR_SIZE >= 2

VARIABLES
    toStub, toGdb,      \* what is in the connection, in each direction
    client,             \* "idle", "ack" or "reply": what the client waits for; or "closed"
    kill,               \* the number of the request k, 0 before it is made
    sent, answers,      \* requests made, execution reported by each answer
    noise, interrupts,  \* packets altered and Ctrl-C typed so far
    len,                \* invalid characters in the buffer of the scanner
    stub,               \* "scan"; "stuck" in a handler that does not return; "shut" when
                        \* its output side is shut down; "dead" after SIGPIPE
    last,               \* the packet in gdb->packet, 0 before the first
    log                 \* requests whose handler has been called, in order

cvars == <<client, sent, kill, answers, interrupts>>
svars == <<stub, len, last, log>>
vars == <<toStub, toGdb, cvars, noise, svars>>

Packet(n, good) == [n |-> n, good |-> good]
Ack == [n |-> 0, good |-> TRUE]
Nak == [n |-> 0, good |-> FALSE]
Junk == [n |-> -1, good |-> FALSE]      \* a character outside any packet
IsPacket(s) == s.n > 0

Init ==
    /\ toStub = <<>> /\ toGdb = <<>>
    /\ client = "idle" /\ sent = 0 /\ kill = 0 /\ answers = <<>> /\ noise = 0 /\ interrupts = 0
    /\ stub = "scan" /\ len = 0 /\ last = 0 /\ log = <<>>

----------------------------------------------------------------------------
(* The client and the line (external).                                     *)

\* Packet n written at the end of q, altered or not on its way.
Put(q, q2, n) ==
    \/ q2 = Append(q, Packet(n, TRUE)) /\ UNCHANGED noise
    \/ noise < MaxNoise /\ noise' = noise + 1 /\ q2 = Append(q, Packet(n, FALSE))

\* A request, which may be the k that ends the session.
ClientRequest ==
    /\ client = "idle" /\ sent < MaxRequests
    /\ sent' = sent + 1 /\ client' = "ack" /\ Put(toStub, toStub', sent + 1)
    /\ kill' \in {0, sent + 1}
    /\ UNCHANGED <<toGdb, answers, interrupts, svars>>

\* Waiting for the acknowledgement: a packet met there is an old reply, which is
\* acknowledged and dropped; a refused request is sent again.
ClientAck ==
    /\ client = "ack" /\ toGdb # <<>> /\ toGdb' = Tail(toGdb)
    /\ \/ Head(toGdb) = Ack /\ client' = (IF sent = kill THEN "closed" ELSE "reply")
            /\ UNCHANGED <<toStub, noise>>
       \/ Head(toGdb) = Nak /\ Put(toStub, toStub', sent) /\ UNCHANGED client
       \/ IsPacket(Head(toGdb)) /\ toStub' = Append(toStub, Ack) /\ UNCHANGED <<client, noise>>
    /\ UNCHANGED <<sent, kill, answers, interrupts, svars>>

\* Waiting for the reply: anything but a packet is skipped.
ClientReply ==
    /\ client = "reply" /\ toGdb # <<>> /\ toGdb' = Tail(toGdb)
    /\ LET s == Head(toGdb) IN
       \/ ~ IsPacket(s) /\ UNCHANGED <<toStub, client, answers>>
       \/ IsPacket(s) /\ s.good /\ toStub' = Append(toStub, Ack) /\ client' = "idle"
            /\ answers' = Append(answers, s.n)
       \/ IsPacket(s) /\ ~ s.good /\ toStub' = Append(toStub, Nak) /\ UNCHANGED <<client, answers>>
    /\ UNCHANGED <<sent, kill, noise, interrupts, svars>>

\* The user types Ctrl-C while the target runs: gdb sends the character 3.
ClientInterrupt ==
    /\ client = "reply" /\ interrupts < MaxInterrupts
    /\ interrupts' = interrupts + 1 /\ toStub' = Append(toStub, Junk)
    /\ UNCHANGED <<toGdb, client, sent, kill, answers, noise, svars>>

----------------------------------------------------------------------------
(* The stub.  Each rule of scanner.l is one action on the next token.      *)

\* handle_error: what is sent, and the length of the buffer after it.
error_reply == IF len > 0 THEN <<Nak>> ELSE <<>>

\* Handling the token s makes the stub write to the connection.
Writes(s) ==
    \/ s = Ack /\ len > 0
    \/ s = Nak /\ (len > 0 \/ last > 0)
    \/ IsPacket(s)
    \/ s = Junk /\ len > MAX_ERROR_SIZE - 2

Read(s) == toStub # <<>> /\ s = Head(toStub) /\ toStub' = Tail(toStub)

\* The stub reads s and handles it.
Token(s) == Read(s) /\ (stub = "scan" \/ (stub = "shut" /\ ~ Writes(s)))

\* A write raises SIGPIPE after the output side was shut down, and may raise it after
\* the client has closed the connection.
StubSigpipe ==
    /\ stub = "shut" \/ (stub = "scan" /\ client = "closed")
    /\ toStub # <<>> /\ Read(Head(toStub)) /\ Writes(Head(toStub))
    /\ stub' = "dead"
    /\ UNCHANGED <<toGdb, cvars, noise, len, last, log>>

RuleAck ==
    /\ Token(Ack)
    /\ toGdb' = toGdb \o error_reply /\ len' = 0
    /\ UNCHANGED <<cvars, noise, stub, last, log>>

\* Mutant: a refused packet is not sent again.
RuleNak_deaf ==
    /\ Token(Nak)
    /\ toGdb' = toGdb \o error_reply /\ len' = 0
    /\ UNCHANGED <<cvars, noise, stub, last, log>>

\* gdb_transmit_packet sends gdb->packet again, of length 0 before the first.
RuleNak ==
    /\ Token(Nak)
    /\ IF last = 0 THEN toGdb' = toGdb \o error_reply /\ UNCHANGED noise
                   ELSE Put(toGdb \o error_reply, toGdb', last)
    /\ len' = 0
    /\ UNCHANGED <<cvars, stub, last, log>>

\* Mutant: the handler is called whatever the checksum says.
RulePacket_unchecked ==
    /\ \E n \in 1 .. MaxRequests, good \in BOOLEAN :
        /\ Token(Packet(n, good))
        /\ log' = Append(log, n) /\ last' = Len(log')
        /\ Put((toGdb \o error_reply) \o <<IF good THEN Ack ELSE Nak>>, toGdb', last')
    /\ len' = 0
    /\ UNCHANGED <<cvars, stub>>

\* The checksum does not hold.
Refuse(n) ==
    /\ Token(Packet(n, FALSE))
    /\ toGdb' = (toGdb \o error_reply) \o <<Nak>>
    /\ UNCHANGED <<noise, stub, last, log>>

\* The packet is acknowledged and its handler answers.
Serve(n) ==
    /\ Token(Packet(n, TRUE)) /\ n # kill
    /\ log' = Append(log, n) /\ last' = Len(log')
    /\ Put((toGdb \o error_reply) \o <<Ack>>, toGdb', last')
    /\ UNCHANGED stub

\* The packet is acknowledged and its handler sends no reply, so that gdb->packet
\* stays as it is: kill_request shuts the output side down; another may not return,
\* such as cont in a program that meets no breakpoint or that exits.
ServeSilently(n) ==
    /\ Token(Packet(n, TRUE))
    /\ log' = Append(log, n)
    /\ toGdb' = (toGdb \o error_reply) \o <<Ack>>
    /\ stub' = IF n = kill THEN "shut" ELSE "stuck"
    /\ UNCHANGED <<noise, last>>

\* gdb_packet_analysis.
RulePacket ==
    /\ \E n \in 1 .. MaxRequests : Refuse(n) \/ Serve(n) \/ ServeSilently(n)
    /\ len' = 0
    /\ UNCHANGED cvars

\* Mutant: the test for a full buffer is one late.
RuleOther_late ==
    /\ Token(Junk)
    /\ IF len > MAX_ERROR_SIZE - 1 THEN toGdb' = toGdb \o error_reply /\ len' = 1
                                   ELSE len' = len + 1 /\ UNCHANGED toGdb
    /\ UNCHANGED <<cvars, noise, stub, last, log>>

\* add_character_to_error: a full buffer is reported first.
RuleOther ==
    /\ Token(Junk)
    /\ IF len > MAX_ERROR_SIZE - 2 THEN toGdb' = toGdb \o error_reply /\ len' = 1
                                   ELSE len' = len + 1 /\ UNCHANGED toGdb
    /\ UNCHANGED <<cvars, noise, stub, last, log>>

Stub == RuleAck \/ RuleNak \/ RulePacket \/ RuleOther \/ StubSigpipe

Client == ClientRequest \/ ClientAck \/ ClientReply

Next == Client \/ ClientInterrupt \/ Stub

Spec == Init /\ [][Next]_vars

\* The gdb thread reads on unless a handler keeps it, and the client does the same; the
\* user need not type anything.
LiveSpec == Spec /\ WF_vars(Stub) /\ WF_vars(ClientAck) /\ WF_vars(ClientReply)

----------------------------------------------------------------------------

Session == INSTANCE GdbSession

\* The link is reliable for the handlers of gdb_protocol.c: however many packets are
\* altered on the way, in either direction, no request is executed twice or out of
\* order or answered with the reply of another, until Ctrl-C is typed; after that
\* requests are still executed in order and no reply is taken twice.
ImplementsSession == Session!SSpec

\* Neither side waits for the other for ever, whatever is altered on the way and
\* whenever Ctrl-C is typed: every request is answered, or is a k whose acknowledgement
\* lets gdb close, unless the handler of a request does not return.
EveryRequestAnswered ==
    \A n \in 1 .. MaxRequests :
        sent = n ~> (Len(answers) >= n \/ (n = kill /\ client = "closed") \/ stub = "stuck")

\* The index that add_character_to_error and handle_error write, len, is inside
\* the buffer, however many invalid characters arrive in a row.
ErrorBufferFits == len < MAX_ERROR_SIZE
============================================================================
