---------------------------- MODULE MCSimulator ----------------------------
(***************************************************************************)
(* Two programs in the eight words of the exception vector: one that loops *)
(* in its interrupt handler, one that has an undefined instruction, runs   *)
(* off the end of memory and exits from its data abort handler.            *)
(***************************************************************************)
EXTENDS Simulator

MCPrograms ==
    { [a \in Addr |-> IF a = 6 THEN "loop" ELSE "next"],
      [a \in Addr |-> CASE a = 2 -> "undef" [] a = 4 -> "exit" [] OTHER -> "next"] }

\* Ports chosen by the system, and one port asked for twice.
MCPorts == {<<0, 0>>, <<1, 1>>}
============================================================================
