------------------------- MODULE MCPolicyActivation -------------------------
(***************************************************************************)
(* Small instances of PolicyActivation for TLC.                            *)
(***************************************************************************)
EXTENDS PolicyActivation

CONSTANTS e1, e2, none, other

MCLimits == {0, 1}
MCTwo == {e1, e2}
=============================================================================
