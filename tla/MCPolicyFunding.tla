--------------------------- MODULE MCPolicyFunding ---------------------------
(***************************************************************************)
(* Small instances of PolicyFunding for TLC: the proportions of the code   *)
(* (dust < connector, fees below both) at a scale where every input total  *)
(* around every threshold can be tried.                                    *)
(***************************************************************************)
EXTENDS PolicyFunding

MCTotals == 1 .. 75
MCBaseFees == {1, 4}
\* 60 overflows at the third step.
MCMonthly == (0 .. 10) \cup {60}
\* 125 and 127 overflow in the staging value and in the reserve.
MCEmergency == (0 .. 9) \cup {125, 127}
=============================================================================
