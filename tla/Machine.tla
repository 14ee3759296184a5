------------------------------- MODULE Machine -------------------------------
(***************************************************************************)
(* What random_machine.h and abstract_machine.h have in common: the names  *)
(* of their registers and flags.  A machine is a record with a field for   *)
(* each of them, its memory, and exit, its earlyExit.                      *)
(***************************************************************************)
EXTENDS Integers, TLC

Register == {"a", "x", "y", "sp"}
Flag     == {"S", "V", "I", "D", "C", "Z"}
Tag      == 65536           \* 0x10000, added to the target of a jump

\* What is left of a C++ integer in a uint8_t and in a uint16_t.
Low(n)  == n % 256
Wrap(n) == n % 65536
=============================================================================
