------------------------------ MODULE Options ------------------------------
(***************************************************************************)
(* The start of the simulator: main reads its options (arm_simulator.c),   *)
(* with the trace flags (trace.c) and the sorted table of the source files *)
(* whose debug messages are wanted (debug.c), then initialises the parts   *)
(* of the program in order and starts the threads of module Simulator.     *)
(*                                                                         *)
(* A name is a number and strcmp the order of numbers; a table entry not   *)
(* yet written is NULL.  The text given as a port is <<n>> when it starts  *)
(* with the number n, and <<>> when it starts with none.  A write past the *)
(* table has no defined effect: stage "undefined" stands for anything that *)
(* may follow.                                                             *)
(***************************************************************************)
EXTENDS Integers, Sequences, FiniteSets, FiniteSetsExt

CONSTANTS
    CommandLines,       \* sequences of options, each a pair <<option, argument>>
    Names,              \* names of source files, positive numbers
    Own,                \* the name of gdb_protocol.c
    MAX_FILES_NUMBER    \* entries of the table, 64 in the code

NULL == 0
no_file == "NULL"
stdout == "stdout"

\* The arguments of d are names, those of g and i texts, and no file is called like
\* the missing one.
ASSUME OptionsAssumption ==
    /\ MAX_FILES_NUMBER \in Nat /\ Names \subseteq Nat \ {NULL} /\ Own \in Names
    /\ \A line \in CommandLines :
         /\ Len(line) \in Nat
         /\ \A k \in 1 .. Len(line) : /\ line[k][1] = "d" => line[k][2] \in Names
                                      /\ line[k][1] \in {"g", "i"} => line[k][2] \in Seq(Int)
                                      /\ line[k][1] = "t" => line[k][2] # no_file

VARIABLES
    argv, optind,                   \* the command line and what getopt_long has consumed
    stage,                          \* where main stands
    gdb_port, irq_port, trace_file, trace_flags,
    output,                         \* where trace.c writes
    debugged_files, nb_debugged_files,
    is_debugged_first, is_debugged_result   \* the flag that debug.h may cache, for Own

table == <<debugged_files, nb_debugged_files>>
cache == <<is_debugged_first, is_debugged_result>>
settings == <<gdb_port, irq_port, trace_file, trace_flags>>
ovars == <<argv, optind, stage, settings, output, table, cache>>

OInit ==
    /\ argv \in CommandLines /\ optind = 1 /\ stage = "options"
    /\ gdb_port = 0 /\ irq_port = 0 /\ trace_file = stdout /\ trace_flags = {}
    /\ output = no_file
    /\ debugged_files = [i \in 0 .. MAX_FILES_NUMBER - 1 |-> NULL] /\ nb_debugged_files = 0
    /\ is_debugged_first = 1 /\ is_debugged_result = 0

\* A turn of the loop of __is_debugged with s = <<from, to>>.  Where the code returns
\* 1 the loop ends on middle, which the test after the loop finds equal.
turn(s, name) ==
    LET from == s[1]
        to == s[2]
        middle == (from + to) \div 2
    IN  CASE from >= to -> s
          [] from < to /\ debugged_files[middle] < name -> <<middle + 1, to>>
          [] from < to /\ debugged_files[middle] > name -> <<from, middle - 1>>
          [] from < to /\ debugged_files[middle] = name -> <<middle, middle>>

\* The states of the loop: each turn drops an entry, and there are nb_debugged_files.
turns(name) ==
    LET after[n \in 0 .. nb_debugged_files] ==
            IF n = 0 THEN <<0, nb_debugged_files - 1>> ELSE turn(after[n - 1], name)
    IN  after

__is_debugged(name) ==
    LET s == turns(name)[nb_debugged_files]
    IN  IF s[1] = s[2] /\ debugged_files[s[1]] = name THEN 1 ELSE 0

\* A call of debug in gdb_protocol.c, where the result of the first is cached.
debug ==
    /\ is_debugged_first' = 0
    /\ is_debugged_result' = IF is_debugged_first = 1 THEN __is_debugged(Own)
                             ELSE is_debugged_result

----------------------------------------------------------------------------

\* The place of name in the table: the first entry that is free or not smaller.
place(name) ==
    Min({MAX_FILES_NUMBER, nb_debugged_files}
          \cup {i \in 0 .. MAX_FILES_NUMBER - 1 : i < nb_debugged_files /\ debugged_files[i] >= name})

\* Mutant: entries after the new one are not moved.
add_debug_to_over(name) ==
    /\ place(name) < MAX_FILES_NUMBER
    /\ debugged_files' = [debugged_files EXCEPT ![place(name)] = name]
    /\ nb_debugged_files' = nb_debugged_files + 1
    /\ stage' = stage

\* Entries from the place on move up by one.  In a full table a name greater than
\* all is dropped, and any other moves the last entry out of the table.
add_debug_to(name) ==
    LET i == place(name)
    IN  \/ i >= MAX_FILES_NUMBER /\ UNCHANGED <<table, stage>>
        \/ /\ i < MAX_FILES_NUMBER /\ nb_debugged_files = MAX_FILES_NUMBER
           /\ stage' = "undefined" /\ UNCHANGED table
        \/ /\ i < MAX_FILES_NUMBER /\ nb_debugged_files < MAX_FILES_NUMBER
           /\ debugged_files' = [j \in DOMAIN debugged_files |->
                  CASE j < i \/ j > nb_debugged_files -> debugged_files[j]
                    [] j = i -> name
                    [] OTHER -> debugged_files[j - 1]]
           /\ nb_debugged_files' = nb_debugged_files + 1
           /\ stage' = stage

----------------------------------------------------------------------------

\* getopt_long returns the next option.
Option(opt) == stage = "options" /\ optind <= Len(argv) /\ argv[optind][1] = opt
optarg == argv[optind][2]

\* Mutant: a debug message for every option.
Consumed_debug == optind' = optind + 1 /\ debug /\ UNCHANGED <<argv, output>>

Consumed == optind' = optind + 1 /\ UNCHANGED <<argv, output, cache>>

\* atoi of the text given as a port, and its conversion to the 16 bits of in_port_t.
atoi(arg) == IF arg = <<>> THEN 0 ELSE arg[1]
in_port_t(n) == n % 65536

Port ==
    /\ Consumed /\ UNCHANGED <<stage, table, trace_file, trace_flags>>
    /\ \/ Option("g") /\ gdb_port' = in_port_t(atoi(optarg)) /\ UNCHANGED irq_port
       \/ Option("i") /\ irq_port' = in_port_t(atoi(optarg)) /\ UNCHANGED gdb_port

\* fopen may fail, which ends the program.
TraceFile ==
    /\ Option("t") /\ Consumed /\ UNCHANGED <<gdb_port, irq_port, trace_flags, table>>
    /\ \/ trace_file' = optarg /\ UNCHANGED stage
       \/ trace_file' = no_file /\ stage' = "exit"

\* r, m, s and p select REGISTERS, MEMORY, STATE and POSITION.
trace_add ==
    \E flag \in {"r", "m", "s", "p"} :
        /\ Option(flag) /\ Consumed
        /\ trace_flags' = trace_flags \cup {flag}
        /\ UNCHANGED <<stage, gdb_port, irq_port, trace_file, table>>

Debug == Option("d") /\ Consumed /\ add_debug_to(optarg) /\ UNCHANGED settings

\* h, or an option the program does not know.
UsageAndExit ==
    /\ Option("h") \/ Option("?")
    /\ Consumed /\ stage' = "exit" /\ UNCHANGED <<settings, table>>

\* Nothing left: gdb_init, which issues the first debug message, and arm_init.
InitParts ==
    /\ stage = "options" /\ optind > Len(argv)
    /\ debug
    /\ stage' = "initialised" /\ UNCHANGED <<argv, optind, settings, output, table>>

\* Mutant: the trace file is set only when one was named.
set_trace_file_named ==
    /\ stage = "initialised" /\ stage' = "output_set"
    /\ output' = IF trace_file = stdout THEN output ELSE trace_file
    /\ UNCHANGED <<argv, optind, settings, table, cache>>

set_trace_file ==
    /\ stage = "initialised" /\ stage' = "output_set"
    /\ output' = trace_file
    /\ UNCHANGED <<argv, optind, settings, table, cache>>

\* memory_create, and arm_create, whose reset writes registers: a traced write
\* needs a file to print to.
Create ==
    /\ stage = "output_set"
    /\ stage' = IF "r" \in trace_flags /\ output = no_file THEN "crashed" ELSE "created"
    /\ UNCHANGED <<argv, optind, settings, output, table, cache>>

\* pthread_create twice: what follows is module Simulator.
StartThreads ==
    /\ stage = "created" /\ stage' = "threads"
    /\ UNCHANGED <<argv, optind, settings, output, table, cache>>

ONext ==
    Port \/ TraceFile \/ trace_add \/ Debug \/ UsageAndExit
      \/ InitParts \/ set_trace_file \/ Create \/ StartThreads

OSpec == OInit /\ [][ONext]_ovars

----------------------------------------------------------------------------

\* The options with letter o that main has consumed, by their place.
Given(o) == {k \in 1 .. optind - 1 : argv[k][1] = o}
Arguments(o) == {argv[k][2] : k \in Given(o)}
LastArgument(o, default) == IF Given(o) = {} THEN default ELSE argv[Max(Given(o))][2]

\* "The debug switch enable selective reporting of debug messages on a per source
\* file basis" (usage of arm_simulator.c): the table answers for exactly the files
\* named so far, in whatever order and however often, as long as they are no more
\* than the table holds; a full table never answers for a file that was not named;
\* and nothing is written past the table before it is full.
DebugLookup ==
    /\ stage = "undefined" => Cardinality(Given("d")) > MAX_FILES_NUMBER
    /\ stage # "undefined" => \A name \in Names :
         /\ __is_debugged(name) = 1 => name \in Arguments("d")
         /\ name \in Arguments("d") /\ Cardinality(Given("d")) <= MAX_FILES_NUMBER
              => __is_debugged(name) = 1

\* The port is the one asked for with arg, if that is a port number.
IsPort(arg, port) == arg # <<>> /\ arg[1] >= 0 /\ arg[1] < 65536 => port = arg[1]

PortAsked(o, port) == IsPort(LastArgument(o, <<0>>), port)

\* When the threads start every option has taken effect, the last one of those
\* that exclude each other, and the trace goes where it was asked to go; and the
\* processor is not created, which traces its reset, before that is settled.
StartsAsAsked ==
    /\ stage # "crashed"
    /\ stage = "threads" =>
         /\ optind > Len(argv) /\ Given("h") = {} /\ Given("?") = {}
         /\ PortAsked("g", gdb_port) /\ PortAsked("i", irq_port)
         /\ output = LastArgument("t", stdout)
         /\ trace_flags = {o \in {"r", "m", "s", "p"} : Given(o) # {}}

\* "issuing calls to debug functions during options parsing might result in debug
\* flag incorrectly set to 0 for some files" (debug.h): main issues none, so that
\* a program built with the cached flag reports what one built without reports.
CacheAgrees ==
    is_debugged_first = 0 /\ stage # "undefined" => is_debugged_result = __is_debugged(Own)
============================================================================
