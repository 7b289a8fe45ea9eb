-------------------------- MODULE CeremonyPackage --------------------------
(***************************************************************************)
(* The hand-off of a policy proposal: the phone signs the transactions of  *)
(* a proposal and packs them with their manifest, the HWW materializes the *)
(* package, validates the whole batch, verifies and signs transaction by   *)
(* transaction and packs the result, and the phone validates what comes    *)
(* back before it funds it (core/ceremony.rs, cold_wallet/mod.rs,          *)
(* core/transactions.rs).                                                  *)
(*                                                                         *)
(* Packages are files that people carry.  What arrives may be put together *)
(* from two packages, may hold a PSBT that was used in the meantime, and   *)
(* any command may be interrupted.                                         *)
(*                                                                         *)
(* A txid is a small digest of the transaction without collisions among   *)
(* those considered.  Indexes start at 1.  Version, network, fee rate and  *)
(* the fixed constants are the same in every package, and paths are well   *)
(* formed; PolicyFunding has the choice of the amounts.                    *)
(***************************************************************************)
EXTENDS Naturals, Sequences, SequencesExt, FiniteSetsExt, Functions

CONSTANTS
  Proposals,     \* what the phone was asked for and the coins it scanned
  Vault,         \* the configured vault
  Months,        \* MONTHS_PER_ROLLOVER
  Connector,     \* CONNECTOR_VALUE_SATS
  Dust,          \* minimal_non_dust
  Mixing,        \* bound: parts of a package that come from another one
  MaxApprovals   \* bound: packages that the HWW approves

ASSUME PackageAssumption ==
  /\ \A n \in {Months, Connector, Dust, Mixing, MaxApprovals} : n \in Nat
  /\ \A p \in Proposals :
       /\ p.count \in 0 .. Months /\ p.count = Len(p.hots)
       /\ p.emergency \in Nat
       /\ p.coins \in Seq(ToSet(p.coins)) /\ p.connectors \in Seq(ToSet(p.connectors))

VARIABLES
  packages,   \* packages that were written
  device,     \* who runs a command
  stage,      \* what it does next
  workspace,  \* its batch directory
  position,   \* transaction it signs next
  accepted    \* batches the phone has accepted for funding

vars == <<packages, device, stage, workspace, position, accepted>>

----------------------------------------------------------------------------
(* Transactions *)

VaultScript(v) == <<1, v>>
ControllerScript(v) == <<2, v>>
HotScript(a) == <<3, a>>

\* Sequences of inputs.
Final == 9
Rbf == 8
Monthly == 7
Emergency == 6

Out(script, value) == [script |-> script, value |-> value]
In(txid, vout, sequence) == [txid |-> txid, vout |-> vout, sequence |-> sequence]

Digest(hash, numbers) == FoldLeft(LAMBDA h, x : (h * 31 + x) % 99991, hash, numbers)

DigestOuts(hash, outs) ==
  FoldLeft(LAMBDA h, out : Digest(h, out.script \o <<out.value>>), hash, outs)

\* compute_txid.
Txid(ins, outs) ==
  DigestOuts(FoldLeft(LAMBDA h, in : Digest(h, <<in.txid, in.vout, in.sequence>>),
                      Len(ins), ins),
             outs)

\* Transactions are never edited, so the txid is a field of theirs.
Tx(ins, outs) == [ins |-> ins, outs |-> outs, txid |-> Txid(ins, outs)]

\* checked_input_sum and the sum of psbt_role_input_sum.
InputSum(utxos, indexes) == FoldFunction(+, 0, [i \in indexes |-> utxos[i].value])

OutputSum(outs) == InputSum(outs, DOMAIN outs)

\* estimate_policy_vsize at 1 sat/vB.
Fee(tx) == Len(tx.ins) + Len(tx.outs)

\* A vault and a connector input with three outputs, or with one.
ContinuingFee == 5
FinalFee == 3

If(condition, sequence) == IF condition THEN sequence ELSE <<>>

----------------------------------------------------------------------------
(* PSBTs *)

\* The default signature hash commits to the transaction and all its prevouts.
NewPsbt(tx, utxos) ==
  [tx |-> tx, utxos |-> utxos, hash |-> DigestOuts(tx.txid, utxos),
   sigs |-> {}, sighash |-> "default"]

Signature(psbt, key, i) ==
  [key |-> key, input |-> i, hash |-> psbt.hash]

\* sign_vault_psbt_inputs and sign_controller_psbt_inputs.
Sign(psbt, key, indexes) ==
  [psbt EXCEPT !.sigs = @ \cup {Signature(psbt, key, i) : i \in indexes}]

\* verify_vault_psbt_signatures and verify_controller_psbt_signatures.
Verified(psbt, key, indexes) ==
  /\ psbt.sighash = "default"
  /\ \A i \in indexes : i \in DOMAIN psbt.tx.ins /\ Signature(psbt, key, i) \in psbt.sigs

----------------------------------------------------------------------------
(* build_policy_proposal *)

\* What step i of the chain spends: the steps from i on, and what the last one
\* takes from its connector.
ChainValue(p, i) ==
  (p.count - i + 1) * p.monthly + (p.count - i) * ContinuingFee + FinalFee - Connector

Rollover(p) ==
  LET utxos == p.coins \o p.connectors
      ins   == [i \in DOMAIN utxos |->
                  In(utxos[i].txid, 1, IF i <= Len(p.coins) THEN Final ELSE Rbf)]
      outs  == [i \in DOMAIN utxos |-> utxos[i].out]
      chain == If(p.count > 0, <<Out(VaultScript(p.vault), ChainValue(p, 1))>>)
      connector  == <<Out(ControllerScript(p.vault), Connector)>>
      connectors == If(p.count > 0, connector) \o If(p.emergency > 0, connector)
      fee   == Len(ins) + Len(chain) + 1 + Len(connectors)
      total == InputSum(outs, 1 .. Len(p.coins))
               + InputSum(outs, Len(p.coins) + 1 .. Len(outs))
      remainder == total - OutputSum(chain \o connectors) - fee
  IN NewPsbt(Tx(ins, chain \o <<Out(VaultScript(p.vault), remainder)>> \o connectors), outs)

RemainderVout(p) == IF p.count > 0 THEN 2 ELSE 1

\* A transaction that spends a vault output and a connector of another one.
Child(source, vault, connector, sequence, outs) ==
  NewPsbt(Tx(<<In(source.txid, vault, sequence), In(source.txid, connector, Rbf)>>, outs),
          <<source.outs[vault], source.outs[connector]>>)

\* The authorization of step n spends the chain and the connector of source.
Authorization(p, n, source) ==
  Child(source, IF n = 1 THEN 1 ELSE 2, 3, Monthly,
        <<Out(HotScript(p.hots[n]), p.monthly)>>
        \o If(n < p.count,
              <<Out(VaultScript(p.vault), ChainValue(p, n + 1)),
                Out(ControllerScript(p.vault), Connector)>>))

\* Step n spends what step n - 1 or the rollover created.
Authorizations(p) ==
  LET source[n \in 1 .. p.count] ==
        IF n = 1 THEN Rollover(p).tx ELSE Authorization(p, n - 1, source[n - 1]).tx
  IN [n \in 1 .. p.count |-> Authorization(p, n, source[n])]

StagingValue(p) == p.emergency + FinalFee - Connector

Trigger(p) ==
  LET rollover == Rollover(p).tx
      change == rollover.outs[RemainderVout(p)].value - StagingValue(p) - ContinuingFee
  IN Child(rollover, RemainderVout(p), Len(rollover.outs), Final,
           <<Out(VaultScript(p.vault), StagingValue(p)),
             Out(VaultScript(p.vault), change),
             Out(ControllerScript(p.vault), Connector)>>)

Withdrawal(p) ==
  Child(Trigger(p).tx, 1, 3, Emergency, <<Out(HotScript(p.emergencyHot), p.emergency)>>)

\* What build_policy_proposal bails out of is no proposal: inputs of other
\* scripts, amounts below zero and dust in the vault.
ASSUME FundedAssumption ==
  \A p \in Proposals :
    /\ p.coins # <<>>
    /\ \A i \in DOMAIN p.coins :
         p.coins[i].out.script = VaultScript(p.vault) /\ p.coins[i].out.value \in Nat
    /\ \A i \in DOMAIN p.connectors :
         p.connectors[i].out.script = ControllerScript(p.vault)
         /\ p.connectors[i].out.value \in Nat
    /\ p.monthly \in Nat /\ (p.count > 0 => p.monthly > 0)
    /\ \A n \in 1 .. p.count : ChainValue(p, n) \in Nat /\ (n > 1 => ChainValue(p, n) >= Dust)
    /\ Rollover(p).tx.outs[RemainderVout(p)].value >= Dust
    /\ p.emergency > 0 => StagingValue(p) \in Nat /\ Trigger(p).tx.outs[2].value >= Dust

----------------------------------------------------------------------------
(* Manifests and packages *)

RolloverFile == <<"rollover", 0>>
AllowanceFile(i) == <<"allowance", i>>
TriggerFile == <<"trigger", 0>>
WithdrawalFile == <<"withdrawal", 0>>
Files == {RolloverFile, TriggerFile, WithdrawalFile} \cup {AllowanceFile(i) : i \in 1 .. Months}

\* BatchTransaction.
Entry(file, tx, vault, controller) ==
  [file |-> file, txid |-> tx.txid, fee |-> Fee(tx), vault |-> vault, controller |-> controller]

ChildEntry(file, psbt) == Entry(file, psbt.tx, {1}, {2})

\* BatchManifest; an absent vout is 0.
Manifest(p) ==
  LET rollover == Rollover(p).tx
      n == Len(p.coins)
      remainder == RemainderVout(p)
      auths == Authorizations(p)
  IN [vault |-> p.vault,
      monthly |-> p.monthly,
      emergency |-> p.emergency,
      count |-> p.count,
      rollover |-> Entry(RolloverFile, rollover, 1 .. n, n + 1 .. Len(rollover.ins)),
      outputs |->
        [vaultInputs |-> InputSum(Rollover(p).utxos, 1 .. n),
         controllerInputs |-> InputSum(Rollover(p).utxos, n + 1 .. Len(rollover.ins)),
         allowanceVout |-> IF p.count > 0 THEN 1 ELSE 0,
         allowanceValue |-> IF p.count > 0 THEN ChainValue(p, 1) ELSE 0,
         remainderVout |-> remainder,
         remainderValue |-> rollover.outs[remainder].value,
         monthlyVout |-> IF p.count > 0 THEN remainder + 1 ELSE 0,
         emergencyVout |-> IF p.emergency > 0 THEN Len(rollover.outs) ELSE 0],
      allowances |->
        [i \in 1 .. p.count |->
           [step |-> i, hot |-> p.hots[i], value |-> ChainValue(p, i),
            connector |-> <<(IF i = 1 THEN rollover ELSE auths[i - 1].tx).txid, 3>>,
            next |-> If(i < p.count, <<auths[i].tx.txid, 3>>),
            authorization |-> ChildEntry(AllowanceFile(i), auths[i])]],
      access |->
        If(p.emergency > 0,
           <<[amount |-> p.emergency, hot |-> p.emergencyHot,
              staging |-> StagingValue(p), change |-> Trigger(p).tx.outs[2].value,
              connector |-> <<rollover.txid, Len(rollover.outs)>>,
              next |-> <<Trigger(p).tx.txid, 3>>,
              trigger |-> ChildEntry(TriggerFile, Trigger(p)),
              withdrawal |-> ChildEntry(WithdrawalFile, Withdrawal(p))]>>),
      approved |-> [phone |-> TRUE, hww |-> FALSE]]

\* manifest_transactions.
Transactions(m) ==
  <<m.rollover>> \o [i \in DOMAIN m.allowances |-> m.allowances[i].authorization]
  \o If(m.access # <<>>, <<m.access[1].trigger, m.access[1].withdrawal>>)

FilesOf(m) == {Transactions(m)[i].file : i \in DOMAIN Transactions(m)}

\* phone_set_policy: the phone signs the vault inputs of every transaction and
\* the old connectors that the rollover spends, and no new connector.
PhonePsbt(p, file) ==
  CASE file = RolloverFile   -> Sign(Rollover(p), "phone", DOMAIN Rollover(p).tx.ins)
    [] file = TriggerFile    -> Sign(Trigger(p), "phone", {1})
    [] file = WithdrawalFile -> Sign(Withdrawal(p), "phone", {1})
    [] OTHER                 -> Sign(Authorizations(p)[file[2]], "phone", {1})

NewPackage(p) ==
  [manifest |-> Manifest(p),
   psbts |-> [f \in FilesOf(Manifest(p)) |-> PhonePsbt(p, f)]]

Proposed == {NewPackage(p) : p \in Proposals}

AllPsbts == UNION {{w.psbts[f] : f \in DOMAIN w.psbts} : w \in Proposed}

\* Neither digest collides, and an outpoint names one output.
ASSUME NoCollision ==
  \A a, b \in AllPsbts :
    a.hash = b.hash \/ a.tx.txid = b.tx.txid => a.tx = b.tx /\ a.utxos = b.utxos

----------------------------------------------------------------------------
(* validate_batch *)

Psbt(w, entry) == w.psbts[entry.file]

ConnectorOut(w) == Out(ControllerScript(w.manifest.vault), Connector)

\* validate_connector_child, and what its callers check of the two inputs and
\* of the fee.
ValidChild(w, entry, source, vault, connector, sequence) ==
  LET psbt == Psbt(w, entry)
      tx   == psbt.tx
  IN /\ entry.vault = {1} /\ entry.controller = {2}
     /\ tx.txid = entry.txid
     /\ Len(tx.ins) = 2
     /\ tx.ins[1] = In(source.txid, vault, sequence)
     /\ tx.ins[2] = In(source.txid, connector, Rbf)
     /\ psbt.utxos[1] = source.outs[vault]
     /\ psbt.utxos[2] = ConnectorOut(w)
     /\ \A s \in psbt.sigs : s.input # 2
     /\ OutputSum(tx.outs) + entry.fee = source.outs[vault].value + Connector
     /\ entry.fee = Fee(tx)

\* Both roles have an input.
PartitionOfBoth(n, vault, controller) ==
  /\ vault \cap controller = {} /\ vault \cup controller = 1 .. n
  /\ vault # {} /\ controller # {}

\* validate_input_partition.
Partition(n, vault, controller) ==
  vault \cap controller = {} /\ vault \cup controller = 1 .. n

\* psbt_role_input_sum.
RoleSum(psbt, indexes, script, sum) ==
  /\ \A i \in indexes : psbt.utxos[i].script = script
  /\ InputSum(psbt.utxos, indexes) = sum

ValidRollover(w) ==
  LET m    == w.manifest
      e    == m.rollover
      o    == m.outputs
      psbt == Psbt(w, e)
      tx   == psbt.tx
      chain     == m.count > 0
      remainder == IF chain THEN 2 ELSE 1
      monthly   == IF chain THEN remainder + 1 ELSE 0
      access    == IF m.emergency > 0 THEN (IF chain THEN 4 ELSE 2) ELSE 0
  IN /\ Partition(Len(tx.ins), e.vault, e.controller)
     /\ tx.txid = e.txid
     /\ tx.ins # <<>>
     /\ Len(tx.outs) = (IF chain THEN 3 ELSE 1) + (IF m.emergency > 0 THEN 1 ELSE 0)
     /\ \A i \in e.vault : tx.ins[i].sequence = Final
     /\ \A i \in e.controller : tx.ins[i].sequence = Rbf
     /\ RoleSum(psbt, e.vault, VaultScript(m.vault), o.vaultInputs)
     /\ RoleSum(psbt, e.controller, ControllerScript(m.vault), o.controllerInputs)
     /\ OutputSum(tx.outs) + e.fee = o.vaultInputs + o.controllerInputs
     /\ e.fee = Fee(tx)
     /\ o.allowanceVout = (IF chain THEN 1 ELSE 0)
     /\ o.remainderVout = remainder
     /\ o.monthlyVout = monthly
     /\ o.emergencyVout = access
     /\ IF chain THEN tx.outs[1] = Out(VaultScript(m.vault), o.allowanceValue)
                 ELSE o.allowanceValue = 0
     /\ tx.outs[remainder] = Out(VaultScript(m.vault), o.remainderValue)
     /\ o.remainderValue >= Dust
     /\ \A v \in {monthly, access} \ {0} : tx.outs[v] = ConnectorOut(w)

\* One iteration of validate_allowances: the step spends what the rollover or
\* the step before it created.
ValidAllowance(w, i) ==
  LET m == w.manifest
      a == m.allowances[i]
      tx     == Psbt(w, a.authorization).tx
      source == IF i = 1 THEN Psbt(w, m.rollover).tx
                         ELSE Psbt(w, m.allowances[i - 1].authorization).tx
      hop    == IF i = 1 THEN 1 ELSE 2
      left   == source.outs[hop].value
  IN /\ a.step = i
     /\ a.value = left
     /\ a.connector = <<source.txid, 3>>
     /\ ValidChild(w, a.authorization, source, hop, 3, Monthly)
     /\ Len(tx.outs) = IF i < m.count THEN 3 ELSE 1
     /\ tx.outs[1] = Out(HotScript(a.hot), m.monthly)
     /\ IF i < m.count
        THEN /\ tx.outs[2].script = VaultScript(m.vault)
             /\ tx.outs[2].value + m.monthly + a.authorization.fee = left
             /\ tx.outs[2].value >= Dust
             /\ tx.outs[3] = ConnectorOut(w)
             /\ a.next = <<tx.txid, 3>>
        ELSE /\ left + Connector = m.monthly + a.authorization.fee
             /\ a.next = <<>>

\* validate_connector_emergency.
ValidEmergency(w) ==
  LET m == w.manifest
      e == m.access[1]
      rollover == Psbt(w, m.rollover).tx
      trigger  == Psbt(w, e.trigger).tx
      withdrawal == Psbt(w, e.withdrawal).tx
  IN IF m.emergency = 0 THEN m.access = <<>>
     ELSE
     /\ m.access # <<>>
     /\ e.amount = m.emergency
     /\ e.connector = <<rollover.txid, m.outputs.emergencyVout>>
     /\ ValidChild(w, e.trigger, rollover, m.outputs.remainderVout,
                   m.outputs.emergencyVout, Final)
     /\ trigger.outs = <<Out(VaultScript(m.vault), e.staging),
                         Out(VaultScript(m.vault), e.change), ConnectorOut(w)>>
     /\ e.change >= Dust
     /\ e.next = <<trigger.txid, 3>>
     /\ ValidChild(w, e.withdrawal, trigger, 1, 3, Emergency)
     /\ withdrawal.outs = <<Out(HotScript(e.hot), m.emergency)>>
     /\ e.staging + Connector = m.emergency + e.withdrawal.fee

\* The vault is not compared with the configuration.
ValidBatchAnyVault(w) ==
  LET m == w.manifest
  IN /\ \A f \in FilesOf(m) : w.psbts[f].sighash = "default"
     /\ m.monthly = 0 => m.count = 0
     /\ m.count <= Months
     /\ m.count = Len(m.allowances)
     /\ ValidRollover(w)
     /\ \A i \in 1 .. m.count : ValidAllowance(w, i)
     /\ ValidEmergency(w)

ValidBatch(w) ==
  LET m == w.manifest
  IN /\ \A f \in FilesOf(m) : w.psbts[f].sighash = "default"
     /\ m.vault = Vault
     /\ m.monthly = 0 => m.count = 0
     /\ m.count <= Months
     /\ m.count = Len(m.allowances)
     /\ ValidRollover(w)
     /\ \A i \in 1 .. m.count : ValidAllowance(w, i)
     /\ ValidEmergency(w)

\* The phone checks its own signatures only.
ValidApprovedPhone(w) ==
  LET m == w.manifest
  IN /\ m.approved.phone /\ m.approved.hww
     /\ ValidBatch(w)
     /\ \A e \in ToSet(Transactions(m)) : Verified(Psbt(w, e), "phone", e.vault)

\* validate_approved_batch.
ValidApproved(w) ==
  LET m == w.manifest
  IN /\ m.approved.phone /\ m.approved.hww
     /\ ValidBatch(w)
     /\ \A e \in ToSet(Transactions(m)) :
          /\ \A key \in {"phone", "hww"} : Verified(Psbt(w, e), key, e.vault)
          /\ e.file = m.rollover.file =>
               \A i \in e.controller :
                 \E key \in {"phone", "hww"} : Verified(Psbt(w, e), key, {i})

----------------------------------------------------------------------------
(* What arrives *)

\* Parts of package a are replaced by those of package b.
Mixed(a, b, parts, files) ==
  [manifest |-> [x \in DOMAIN a.manifest |->
                   IF x \in parts THEN b.manifest[x] ELSE a.manifest[x]],
   psbts |-> [f \in (DOMAIN a.psbts \ files) \cup (DOMAIN b.psbts \cap files) |->
                IF f \in files THEN b.psbts[f] ELSE a.psbts[f]]]

\* A PSBT comes back with its connector signed, as one that was executed has,
\* without its signatures, or with another signature hash type.
Used(a, f, how) ==
  [a EXCEPT !.psbts[f] = CASE how = "executed" -> Sign(@, "phone", {2})
                           [] how = "unsigned" -> [@ EXCEPT !.sigs = {}]
                           [] OTHER            -> [@ EXCEPT !.sighash = "other"]]

\* materialize_policy_package.
Materializes(w) == DOMAIN w.psbts = FilesOf(w.manifest)

----------------------------------------------------------------------------
(* Commands *)

NoBatch == [manifest |-> <<>>, psbts |-> <<>>]

Fields == {"vault", "monthly", "emergency", "count", "rollover", "outputs",
           "allowances", "access", "approved"}

Init ==
  /\ packages = Proposed
  /\ device = "none"
  /\ stage = "idle"
  /\ workspace = NoBatch
  /\ position = 1
  /\ accepted = {}

\* hww_confirm_policy or phone_activate_policy reads a file: the workspace is
\* reset and filled.
Read(d, w) ==
  /\ device' = d
  /\ workspace' = w
  /\ stage' = IF Materializes(w) THEN "arrived" ELSE "refused"
  /\ position' = 1
  /\ UNCHANGED <<packages, accepted>>

ReadMixed(d) ==
  \E a, b \in packages, n \in 0 .. Mixing :
  \E k \in 0 .. n :
  \E parts \in kSubset(k, Fields), files \in kSubset(n - k, Files) :
    Read(d, Mixed(a, b, parts, files))

ReadUsed(d) ==
  \E a \in packages, how \in {"executed", "unsigned", "sighash"} :
  \E f \in DOMAIN a.psbts \ {RolloverFile} : Read(d, Used(a, f, how))

\* The command ends; the next one resets the workspace.
End ==
  /\ device' = "none"
  /\ stage' = "idle"
  /\ workspace' = NoBatch
  /\ position' = 1

Dismiss ==
  /\ stage = "refused"
  /\ End
  /\ UNCHANGED <<packages, accepted>>

Refuse ==
  /\ stage' = "refused"
  /\ UNCHANGED <<packages, device, workspace, position, accepted>>

\* approve_policy: the whole batch is validated before anything is signed.
Review ==
  /\ device = "hww" /\ stage = "arrived"
  /\ ValidBatch(workspace)
  /\ stage' = "sign"
  /\ UNCHANGED <<packages, device, workspace, position, accepted>>

RefuseReview ==
  /\ device = "hww" /\ stage = "arrived"
  /\ ~ValidBatch(workspace)
  /\ Refuse

Signing == device = "hww" /\ stage = "sign" /\ position <= Len(Transactions(workspace.manifest))

Current == Transactions(workspace.manifest)[position]

PhoneSigned(w, e) ==
  /\ Verified(Psbt(w, e), "phone", e.vault)
  /\ e.file = w.manifest.rollover.file => Verified(Psbt(w, e), "phone", e.controller)

SignNext ==
  /\ Signing
  /\ PhoneSigned(workspace, Current)
  /\ workspace' = [workspace EXCEPT !.psbts[Current.file] = Sign(@, "hww", Current.vault)]
  /\ position' = position + 1
  /\ UNCHANGED <<packages, device, stage, accepted>>

RefuseSignature ==
  /\ Signing
  /\ ~PhoneSigned(workspace, Current)
  /\ Refuse

\* package_from_batch packs the files that the manifest names.
Packed(w) == [w EXCEPT !.psbts = [f \in FilesOf(w.manifest) |-> w.psbts[f]]]

ApproveLastUnsigned ==
  /\ device = "hww" /\ stage = "sign"
  /\ position >= Len(Transactions(workspace.manifest))
  /\ packages' = packages \cup {Packed([workspace EXCEPT !.manifest.approved.hww = TRUE])}
  /\ End
  /\ UNCHANGED accepted

\* hww_approved is set after the last signature and the package is written.
Approve ==
  /\ device = "hww" /\ stage = "sign"
  /\ position > Len(Transactions(workspace.manifest))
  /\ packages' = packages \cup {Packed([workspace EXCEPT !.manifest.approved.hww = TRUE])}
  /\ End
  /\ UNCHANGED accepted

\* activate_policy goes on to fund the batch (PolicyActivation).
Accept ==
  /\ device = "phone" /\ stage = "arrived"
  /\ ValidApproved(workspace)
  /\ accepted' = {workspace}
  /\ End
  /\ UNCHANGED packages

RefuseActivation ==
  /\ device = "phone" /\ stage = "arrived"
  /\ ~ValidApproved(workspace)
  /\ Refuse

Interrupt ==
  /\ stage \in {"arrived", "sign"}
  /\ End
  /\ UNCHANGED <<packages, accepted>>

Next ==
  \/ \E d \in {"phone", "hww"} :
       /\ stage = "idle" /\ accepted = {}
       /\ d = "hww" => Cardinality(packages) < Cardinality(Proposed) + MaxApprovals
       /\ ReadMixed(d) \/ ReadUsed(d)
  \/ Review \/ RefuseReview
  \/ SignNext \/ RefuseSignature \/ Approve
  \/ Accept \/ RefuseActivation
  \/ Interrupt \/ Dismiss

Spec == Init /\ [][Next]_vars

----------------------------------------------------------------------------
(* Properties *)

Manifests == {Manifest(p) : p \in {q \in Proposals : q.vault = Vault}}

\* The manifest m describes one graph that the phone built for the configured
\* vault.  Two proposals over the same coins can share their rollover and
\* differ in the emergency transactions only: then these may be from the other
\* proposal, as long as the limit shown is theirs.  Nothing binds the monthly
\* limit of a batch without allowances.
OneGraph(m) ==
  \E a, b \in Manifests :
    /\ a.rollover = b.rollover
    /\ \A x \in {"vault", "count", "rollover", "outputs", "allowances"} : m[x] = a[x]
    /\ m.count > 0 => m.monthly = a.monthly
    /\ \A x \in {"emergency", "access"} : m[x] = b[x]

\* The HWW signs nothing but transactions of a graph that belongs together and
\* carries out the limits and addresses on its screen: a transaction of
\* another proposal, an edited manifest or one from before a rotation never
\* gets its signature, whatever was mixed up on the way (validate_batch before
\* the signing loop in approve_policy).
SignsOnlyShown ==
  [][position' > position =>
       /\ OneGraph(workspace.manifest)
       /\ Psbt(workspace, Current).tx.txid = Current.txid]_vars

SignedByBoth(w) ==
  \A e \in ToSet(Transactions(w.manifest)) :
    /\ Psbt(w, e).tx.txid = e.txid
    /\ \A key \in {"phone", "hww"}, i \in e.vault :
         Signature(Psbt(w, e), key, i) \in Psbt(w, e).sigs
    /\ e.file # RolloverFile => \A s \in Psbt(w, e).sigs : s.input \in e.vault

\* A package marked as approved carries both signatures on every vault input
\* of every transaction and none on a new connector: an interrupted signing
\* loop leaves no such package (approve_policy).
ApprovedIsSigned ==
  \A w \in packages : w.manifest.approved.hww => SignedByBoth(w)

\* The phone funds only one complete graph, shown to and signed by the HWW,
\* that it can execute later, with the connector signatures still to be made
\* (validate_approved_batch).
FundedIsApproved ==
  \A w \in accepted :
    /\ OneGraph(w.manifest)
    /\ SignedByBoth(w)

WithoutHww(w) ==
  [manifest |-> [w.manifest EXCEPT !.approved.hww = FALSE],
   psbts |-> [f \in DOMAIN w.psbts |->
                [w.psbts[f] EXCEPT !.sigs = {s \in @ : s.key # "hww"}]]]

\* Neither device refuses a package of the configured vault that arrives as it
\* was written: what the phone builds the HWW validates, for every shape of
\* the policy, also when it comes a second time, and what the HWW approves the
\* phone accepts.
HonestNotRefused ==
  stage = "refused" =>
    ~ /\ workspace.manifest.vault = Vault
      /\ WithoutHww(workspace) \in Proposed
      /\ device = "phone" => workspace \in packages /\ workspace.manifest.approved.hww
=============================================================================
