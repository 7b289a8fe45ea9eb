---------------------------- MODULE ActivePolicy ----------------------------
(***************************************************************************)
(* What activation promises its callers: one current epoch at a time, only *)
(* ever one whose rollover the network took, and no way back to an epoch   *)
(* that has been left.  How many files that takes, and where a crash may   *)
(* fall between them, is not visible here.                                 *)
(***************************************************************************)
CONSTANTS Epochs, None

VARIABLES current,  \* the epoch the phone acts on, None before the first
          known,    \* epochs whose rollover the network has accepted
          left      \* epochs that were current and are no longer

vars == <<current, known, left>>

Init ==
  /\ current \in Epochs \cup {None}
  /\ known = {current} \ {None}
  /\ left = {}

Accept(e) ==
  /\ known' = known \cup {e}
  /\ UNCHANGED <<current, left>>

Switch(e) ==
  /\ e \in known \ left
  /\ e # current
  /\ current' = e
  /\ left' = left \cup ({current} \ {None})
  /\ UNCHANGED known

Next == \E e \in Epochs : Accept(e) \/ Switch(e)

Spec == Init /\ [][Next]_vars
=============================================================================
