---------------------------- MODULE MCVanityGrind ----------------------------
(***************************************************************************)
(* A small instance of VanityGrind for TLC: characters of two bits, a word *)
(* of five and keys of six, so that three characters no longer fit a word. *)
(***************************************************************************)
EXTENDS VanityGrind

\* 42 = 10 10 10 and 45 = 10 11 01: the first character and one bit in common.
MCKeys == {42, 45}
MCWanted == {<<>>, <<1>>, <<2, 3>>, <<2, 3, 1>>}
=============================================================================
