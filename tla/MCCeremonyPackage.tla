-------------------------- MODULE MCCeremonyPackage --------------------------
(***************************************************************************)
(* A small instance of CeremonyPackage for TLC: a proposal, the same again *)
(* with newly reserved addresses, one for other limits that renews a       *)
(* connector, one whose chain is empty, and one for the vault before a     *)
(* rotation of the phone key.                                              *)
(***************************************************************************)
EXTENDS CeremonyPackage

New == 2
Old == 1

Coin(v) == [txid |-> v, out |-> Out(VaultScript(v), 60)]
OldConnector(v) == [txid |-> 10 + v, out |-> Out(ControllerScript(v), Connector)]

MCProposals ==
  {[vault |-> New, monthly |-> 4, count |-> 2, emergency |-> 3,
    coins |-> <<Coin(New)>>, connectors |-> <<>>,
    hots |-> <<1, 2>>, emergencyHot |-> 3],
   [vault |-> New, monthly |-> 4, count |-> 2, emergency |-> 3,
    coins |-> <<Coin(New)>>, connectors |-> <<>>,
    hots |-> <<4, 5>>, emergencyHot |-> 6],
   [vault |-> New, monthly |-> 4, count |-> 1, emergency |-> 6,
    coins |-> <<Coin(New)>>, connectors |-> <<OldConnector(New)>>,
    hots |-> <<7>>, emergencyHot |-> 8],
   [vault |-> New, monthly |-> 50, count |-> 0, emergency |-> 0,
    coins |-> <<Coin(New)>>, connectors |-> <<OldConnector(New)>>,
    hots |-> <<>>, emergencyHot |-> 9],
   [vault |-> Old, monthly |-> 4, count |-> 2, emergency |-> 3,
    coins |-> <<Coin(Old)>>, connectors |-> <<>>,
    hots |-> <<1, 2>>, emergencyHot |-> 3]}
=============================================================================
