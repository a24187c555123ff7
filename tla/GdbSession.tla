----------------------------- MODULE GdbSession -----------------------------
(****************************************************************************)
(* What a gdb session promises its user.  Requests are numbered from 1.  As *)
(* long as the user has not typed Ctrl-C they are executed in the order     *)
(* they are made, none of them twice, and an answer is that of the request  *)
(* it is for.  After a Ctrl-C less is promised: requests are still executed *)
(* in order, but one may be repeated or skipped, and an answer may be that  *)
(* of another execution, though never of one that was already reported.     *)
(****************************************************************************)
EXTENDS Integers, Sequences

CONSTANT MaxRequests

VARIABLES
    sent,       \* requests made so far
    log,        \* requests executed, in order
    answers,    \* for each answer received, the execution it reports
    interrupts  \* times Ctrl-C was typed

svars == <<sent, log, answers, interrupts>>

Newest(s) == IF s = <<>> THEN 0 ELSE s[Len(s)]

SInit == sent = 0 /\ log = <<>> /\ answers = <<>> /\ interrupts = 0

Issue ==
    /\ sent < MaxRequests /\ Len(answers) = sent /\ sent' = sent + 1
    /\ UNCHANGED <<log, answers, interrupts>>

Execute ==
    /\ Newest(log) < sent /\ log' = Append(log, Newest(log) + 1)
    /\ UNCHANGED <<sent, answers, interrupts>>

ExecuteOutOfStep ==
    /\ interrupts > 0
    /\ \E k \in Newest(log) .. sent : k > 0 /\ log' = Append(log, k)
    /\ UNCHANGED <<sent, answers, interrupts>>

Answer ==
    /\ Len(answers) < sent
    /\ \E k \in Newest(answers) + 1 .. Len(log) :
        /\ interrupts = 0 => k = Len(answers) + 1
        /\ answers' = Append(answers, k)
    /\ UNCHANGED <<sent, log, interrupts>>

Interrupt == interrupts' = interrupts + 1 /\ UNCHANGED <<sent, log, answers>>

SNext == Issue \/ Execute \/ ExecuteOutOfStep \/ Answer \/ Interrupt

SSpec == SInit /\ [][SNext]_svars
============================================================================
