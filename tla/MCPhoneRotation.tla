--------------------------- MODULE MCPhoneRotation ---------------------------
(***************************************************************************)
(* Small instances of PhoneRotation for TLC.                               *)
(***************************************************************************)
EXTENDS PhoneRotation

CONSTANTS f1, f2

MCOne == {f1}
MCTwo == {f1, f2}
MCNone == {}
MCLimits == {0, 1}
=============================================================================
