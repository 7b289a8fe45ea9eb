--------------------------- MODULE MCPhoneRestore ---------------------------
(***************************************************************************)
(* A small instance of PhoneRestore for TLC.                               *)
(***************************************************************************)
EXTENDS PhoneRestore, TLC

CONSTANTS f1, f2

MCFriends == {f1, f2}

MCSymmetry == Permutations(MCFriends)
=============================================================================
