---------------------------- MODULE MCGdbMemory ----------------------------
(***************************************************************************)
(* Two words of memory, every aligned and unaligned address in them and    *)
(* the first address past the end.  A byte is the escape or what the       *)
(* escape becomes.                                                         *)
(***************************************************************************)
EXTENDS GdbMemory

MCByte == {ESCAPE, 93}
MCAddresses == 0 .. Size
============================================================================
