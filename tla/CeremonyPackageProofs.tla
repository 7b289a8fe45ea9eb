----------------------- MODULE CeremonyPackageProofs -----------------------
(***************************************************************************)
(* Proofs about CeremonyPackage: whatever is mixed up, used or interrupted *)
(* on the way, the HWW signs and the phone funds only transactions of one  *)
(* graph that the phone built for the configured vault, and what is marked *)
(* as approved carries both signatures on every vault input and none on a  *)
(* new connector.  And neither device refuses a package of that vault that *)
(* arrives as it was written.                                              *)
(*                                                                         *)
(* The argument is about one package at a time.  `Shaped` holds of every   *)
(* package and survives every way in which packages are mixed and used:    *)
(* each part of it is what the phone built for some proposal.  The lemma   *)
(* ValidIsOneGraph shows that validate_batch makes these proposals one:    *)
(* txids do not collide, every transaction names the txid of the one it    *)
(* spends, and the rollover determines the rest.  `Checked` is what        *)
(* validate_batch adds for each transaction, and `SignedBefore` grows with *)
(* the signing loop and covers the batch when the loop ends.               *)
(*                                                                         *)
(* For the other direction, `Honest` says that a batch is what the phone   *)
(* packed, perhaps with signatures of the HWW.  RolloverBuilt, StepBuilt,  *)
(* TriggerBuilt and WithdrawalBuilt show that what build_policy_proposal   *)
(* makes balances and spends what it says; HonestValid and HonestApproved  *)
(* put this together.                                                      *)
(***************************************************************************)
EXTENDS CeremonyPackage, SequenceTheorems, InductionLemmas, TLAPS

----------------------------------------------------------------------------
(* The inductive invariant *)

\* A PSBT with its five fields.
IsPsbt(psbt) ==
  psbt = [tx |-> psbt.tx, utxos |-> psbt.utxos, hash |-> psbt.hash,
          sigs |-> psbt.sigs, sighash |-> psbt.sighash]

\* The fields of a manifest, each entry under the file name of its role.
ShapedManifest(m) ==
  /\ m = [x \in Fields |-> m[x]]
  /\ m.approved = [phone |-> m.approved.phone, hww |-> m.approved.hww]
  /\ m.rollover.file = RolloverFile
  /\ Len(m.allowances) \in Nat /\ DOMAIN m.allowances = 1 .. Len(m.allowances)
  /\ \A i \in DOMAIN m.allowances : m.allowances[i].authorization.file = AllowanceFile(i)
  /\ \/ m.access = <<>>
     \/ /\ m.access = <<m.access[1]>>
        /\ m.access[1].trigger.file = TriggerFile
        /\ m.access[1].withdrawal.file = WithdrawalFile

\* Every part of a package but the approval is what the phone once built for
\* some proposal.
FromProposals(w) ==
  /\ \A x \in Fields \ {"approved"} : \E p \in Proposals : w.manifest[x] = Manifest(p)[x]
  /\ \A f \in DOMAIN w.psbts : \E p \in Proposals :
       /\ f \in FilesOf(Manifest(p))
       /\ w.psbts[f].tx = PhonePsbt(p, f).tx
       /\ w.psbts[f].utxos = PhonePsbt(p, f).utxos

\* The signatures of a transaction after the rollover are for its vault input,
\* or made by the phone when it executed the transaction.
ChildSigs(psbt) == \A s \in psbt.sigs : s.input = 1 \/ (s.input = 2 /\ s.key = "phone")

\* What every package is, in which other packages may have been mixed.
Shaped(w) ==
  /\ w = [manifest |-> w.manifest, psbts |-> w.psbts]
  /\ ShapedManifest(w.manifest)
  /\ w.psbts = [f \in DOMAIN w.psbts |-> w.psbts[f]]
  /\ \A f \in DOMAIN w.psbts :
       /\ IsPsbt(w.psbts[f])
       /\ f # RolloverFile => ChildSigs(w.psbts[f])
  /\ FromProposals(w)

\* What validate_batch establishes of every transaction of a batch.
Checked(w) ==
  \A e \in ToSet(Transactions(w.manifest)) :
    /\ Psbt(w, e).tx.txid = e.txid
    /\ e.file # RolloverFile => /\ e.vault = {1}
                                /\ \A s \in Psbt(w, e).sigs : s.input # 2

\* Both devices have signed the transactions that the loop has passed.
SignedBefore(w, n) ==
  \A i \in DOMAIN Transactions(w.manifest) :
    i < n => \A key \in {"phone", "hww"}, j \in Transactions(w.manifest)[i].vault :
               LET psbt == Psbt(w, Transactions(w.manifest)[i])
               IN Signature(psbt, key, j) \in psbt.sigs

PackagesInv ==
  /\ \A w \in packages : Shaped(w)
  /\ ApprovedIsSigned

WorkspaceInv ==
  /\ stage \in {"arrived", "sign"} => Shaped(workspace) /\ Materializes(workspace)
  /\ stage = "sign" => /\ OneGraph(workspace.manifest)
                       /\ Checked(workspace)
                       /\ SignedBefore(workspace, position)
  /\ stage = "arrived" => position = 1
  /\ position \in Nat \ {0}

Inv == PackagesInv /\ WorkspaceInv /\ FundedIsApproved

----------------------------------------------------------------------------
(* manifest_transactions *)

\* The transactions of a manifest: the rollover, an authorization for each
\* allowance and the two emergency transactions.
LEMMA TransactionsOf ==
  ASSUME NEW m, ShapedManifest(m)
  PROVE  /\ Transactions(m) \in Seq(ToSet(Transactions(m)))
         /\ ToSet(Transactions(m)) =
              {m.rollover}
              \cup {m.allowances[i].authorization : i \in DOMAIN m.allowances}
              \cup (IF m.access = <<>> THEN {}
                    ELSE {m.access[1].trigger, m.access[1].withdrawal})
         /\ FilesOf(m) = {e.file : e \in ToSet(Transactions(m))}
PROOF
  <1> DEFINE auths == [i \in DOMAIN m.allowances |-> m.allowances[i].authorization]
             access == If(m.access # <<>>, <<m.access[1].trigger, m.access[1].withdrawal>>)
             S == {m.rollover}
                  \cup {m.allowances[i].authorization : i \in DOMAIN m.allowances}
                  \cup {m.access[1].trigger, m.access[1].withdrawal}
  <1>1. PICK n \in Nat : DOMAIN m.allowances = 1 .. n
    BY DEF ShapedManifest
  <1>2. /\ <<m.rollover>> \in Seq(S) /\ Len(<<m.rollover>>) = 1
        /\ <<m.rollover>>[1] = m.rollover
    OBVIOUS
  <1>3. /\ auths \in Seq(S) /\ Len(auths) = n
        /\ \A i \in 1 .. n : auths[i] = m.allowances[i].authorization
    BY <1>1
  <1>4. /\ access \in Seq(S)
        /\ ToSet(access) = IF m.access = <<>> THEN {}
                           ELSE {m.access[1].trigger, m.access[1].withdrawal}
    <2>1. CASE m.access = <<>>
      BY <2>1 DEF If, ToSet
    <2>2. CASE m.access # <<>>
      <3> DEFINE a == m.access[1]
      <3>1. access = <<a.trigger, a.withdrawal>>
        BY <2>2 DEF If
      <3> HIDE DEF access
      <3>2. access \in Seq(S)
        BY <3>1
      <3>3. access[1] = a.trigger /\ access[2] = a.withdrawal /\ DOMAIN access = {1, 2}
        BY <3>1
      <3> QED
        BY <2>2, <3>2, <3>3 DEF ToSet
    <2> QED
      BY <2>1, <2>2
  <1> DEFINE u == <<m.rollover>> \o auths
             t == u \o access
  <1>5. Transactions(m) = t
    BY DEF Transactions
  <1> HIDE DEF auths, access, S
  <1>6. /\ u \in Seq(S) /\ Len(u) = 1 + n
        /\ u[1] = m.rollover
        /\ \A i \in 1 .. n : u[1 + i] = auths[i]
    BY <1>2, <1>3
  <1> HIDE DEF u
  <1>7. /\ t \in Seq(S) /\ Len(t) = 1 + n + Len(access)
        /\ t[1] = m.rollover
        /\ \A i \in 1 .. n : t[1 + i] = auths[i]
        /\ \A i \in 1 .. Len(access) : t[1 + n + i] = access[i]
    BY <1>6, <1>4
  <1> HIDE DEF t
  <1>8. DOMAIN t = 1 .. Len(t) /\ Len(access) \in Nat /\ DOMAIN access = 1 .. Len(access)
    BY <1>7, <1>4
  <1>9. ToSet(t) = {m.rollover} \cup {auths[i] : i \in 1 .. n} \cup ToSet(access)
    <2>1. ASSUME NEW i \in DOMAIN t
          PROVE  t[i] \in {m.rollover} \cup {auths[j] : j \in 1 .. n} \cup ToSet(access)
      <3>1. CASE i = 1
        BY <3>1, <1>7
      <3>2. CASE i \in 2 .. n + 1
        <4>1. i - 1 \in 1 .. n /\ i = 1 + (i - 1)
          BY <3>2
        <4> QED
          BY <4>1, <1>7
      <3>3. CASE i \in n + 2 .. Len(t)
        <4>1. i - n - 1 \in 1 .. Len(access) /\ i = 1 + n + (i - n - 1)
          BY <3>3, <1>7, <1>8
        <4>2. t[i] = access[i - n - 1]
          BY <4>1, <1>7
        <4> QED
          BY <4>1, <4>2, <1>8 DEF ToSet
      <3> QED
        BY <2>1, <3>1, <3>2, <3>3, <1>8
    <2>2. 1 \in DOMAIN t /\ \A i \in 1 .. n : 1 + i \in DOMAIN t
      BY <1>7, <1>8
    <2>3. \A i \in 1 .. Len(access) : 1 + n + i \in DOMAIN t
      BY <1>7, <1>8
    <2>4. {m.rollover} \cup {auths[i] : i \in 1 .. n} \subseteq ToSet(t)
      BY <1>7, <2>2 DEF ToSet
    <2>5. ToSet(access) \subseteq ToSet(t)
      BY <1>7, <1>8, <2>3 DEF ToSet
    <2> QED
      BY <2>1, <2>4, <2>5 DEF ToSet
  <1>10. {auths[i] : i \in 1 .. n} = {m.allowances[i].authorization : i \in DOMAIN m.allowances}
    BY <1>1, <1>3
  <1>11. t \in Seq(ToSet(t))
    BY <1>7, <1>8 DEF ToSet
  <1>12. FilesOf(m) = {e.file : e \in ToSet(Transactions(m))}
    BY DEF FilesOf, ToSet
  <1> QED
    BY <1>4, <1>5, <1>9, <1>10, <1>11, <1>12

\* Every file of a package that materializes is there.
LEMMA FileOf ==
  ASSUME NEW w, Shaped(w), Materializes(w), NEW e \in ToSet(Transactions(w.manifest))
  PROVE  e.file \in DOMAIN w.psbts /\ IsPsbt(Psbt(w, e))
PROOF
  <1>1. e.file \in FilesOf(w.manifest)
    BY TransactionsOf DEF Shaped
  <1> QED
    BY <1>1 DEF Materializes, Shaped, Psbt

----------------------------------------------------------------------------
(* Packages that arrive *)

\* Sign adds signatures and leaves the rest of a PSBT alone.
LEMMA SignAdds ==
  ASSUME NEW psbt, IsPsbt(psbt), NEW key, NEW indexes
  PROVE  /\ IsPsbt(Sign(psbt, key, indexes))
         /\ Sign(psbt, key, indexes).tx = psbt.tx
         /\ Sign(psbt, key, indexes).utxos = psbt.utxos
         /\ Sign(psbt, key, indexes).hash = psbt.hash
         /\ Sign(psbt, key, indexes).sighash = psbt.sighash
         /\ Sign(psbt, key, indexes).sigs =
              psbt.sigs \cup {Signature(psbt, key, i) : i \in indexes}
PROOF
  <1> DEFINE added == psbt.sigs \cup {Signature(psbt, key, i) : i \in indexes}
  <1>1. Sign(psbt, key, indexes) = [psbt EXCEPT !.sigs = added]
    BY DEF Sign
  <1> HIDE DEF added
  <1>2. /\ [psbt EXCEPT !.sigs = added] =
             [tx |-> psbt.tx, utxos |-> psbt.utxos, hash |-> psbt.hash,
              sigs |-> added, sighash |-> psbt.sighash]
    BY DEF IsPsbt
  <1> QED
    BY <1>1, <1>2 DEF IsPsbt, added

\* What the phone packs is shaped.
LEMMA ProposedShaped ==
  ASSUME NEW w \in Proposed
  PROVE  Shaped(w) /\ ~w.manifest.approved.hww
PROOF
  <1>1. PICK p \in Proposals : w = NewPackage(p)
    BY DEF Proposed
  <1>2. p.count \in Nat
    BY PackageAssumption
  <1> DEFINE m == Manifest(p)
  <1>3. w.manifest = m /\ w.psbts = [f \in FilesOf(m) |-> PhonePsbt(p, f)]
    BY <1>1 DEF NewPackage
  <1>4. m = [x \in Fields |-> m[x]]
    BY Zenon DEF Manifest, Fields
  <1>5. m.approved = [phone |-> TRUE, hww |-> FALSE]
    BY DEF Manifest
  <1>6. m.rollover.file = RolloverFile
    BY DEF Manifest, Entry
  <1>7. /\ DOMAIN m.allowances = 1 .. p.count /\ Len(m.allowances) = p.count
        /\ \A i \in 1 .. p.count : m.allowances[i].authorization.file = AllowanceFile(i)
    BY <1>2 DEF Manifest, ChildEntry, Entry
  <1>8. \/ m.access = <<>>
        \/ /\ m.access = <<m.access[1]>>
           /\ m.access[1].trigger.file = TriggerFile
           /\ m.access[1].withdrawal.file = WithdrawalFile
    BY DEF Manifest, ChildEntry, Entry, If
  <1> HIDE DEF m
  <1>9. ShapedManifest(m)
    BY <1>2, <1>4, <1>5, <1>6, <1>7, <1>8 DEF ShapedManifest
  <1>10. ASSUME NEW f \in FilesOf(m)
         PROVE  /\ IsPsbt(PhonePsbt(p, f))
                /\ f # RolloverFile => ChildSigs(PhonePsbt(p, f))
    <2>1. ASSUME NEW tx, NEW utxos, NEW S
          PROVE  /\ IsPsbt(Sign(NewPsbt(tx, utxos), "phone", S))
                 /\ \A s \in Sign(NewPsbt(tx, utxos), "phone", S).sigs :
                      s.input \in S /\ s.key = "phone"
      <3>1. IsPsbt(NewPsbt(tx, utxos)) /\ NewPsbt(tx, utxos).sigs = {}
        BY DEF IsPsbt, NewPsbt
      <3> QED
        BY <3>1, SignAdds DEF Signature
    <2>2. /\ RolloverFile # TriggerFile /\ RolloverFile # WithdrawalFile
          /\ TriggerFile # WithdrawalFile
      BY DEF RolloverFile, TriggerFile, WithdrawalFile
    <2>3. CASE f = RolloverFile
      <3>1. \E tx, utxos : Rollover(p) = NewPsbt(tx, utxos)
        BY DEF Rollover
      <3>2. PhonePsbt(p, f) = Sign(Rollover(p), "phone", DOMAIN Rollover(p).tx.ins)
        BY <2>3, <2>2 DEF PhonePsbt
      <3> QED
        BY <2>1, <2>3, <3>1, <3>2
    <2>4. CASE f = TriggerFile
      <3>1. \E tx, utxos : Trigger(p) = NewPsbt(tx, utxos)
        BY DEF Trigger, Child
      <3>2. PhonePsbt(p, f) = Sign(Trigger(p), "phone", {1})
        BY <2>4, <2>2 DEF PhonePsbt
      <3> QED
        BY <2>1, <3>1, <3>2 DEF ChildSigs
    <2>5. CASE f = WithdrawalFile
      <3>1. \E tx, utxos : Withdrawal(p) = NewPsbt(tx, utxos)
        BY DEF Withdrawal, Child
      <3>2. PhonePsbt(p, f) = Sign(Withdrawal(p), "phone", {1})
        BY <2>5, <2>2 DEF PhonePsbt
      <3> QED
        BY <2>1, <3>1, <3>2 DEF ChildSigs
    <2>6. ASSUME f \notin {RolloverFile, TriggerFile, WithdrawalFile}
          PROVE  /\ IsPsbt(PhonePsbt(p, f))
                 /\ ChildSigs(PhonePsbt(p, f))
      <3>1. PICK e \in ToSet(Transactions(m)) : f = e.file
        BY <1>9, TransactionsOf
      <3>2. PICK i \in DOMAIN m.allowances : e = m.allowances[i].authorization
        BY <2>6, <3>1, <1>6, <1>8, <1>9, TransactionsOf
      <3>3. i \in 1 .. p.count /\ f = AllowanceFile(i)
        BY <3>1, <3>2, <1>7
      <3>4. PhonePsbt(p, f) = Sign(Authorizations(p)[i], "phone", {1})
        BY <2>6, <3>3 DEF PhonePsbt, AllowanceFile
      <3>5. \E source : Authorizations(p)[i] = Authorization(p, i, source)
        BY <3>3 DEF Authorizations
      <3>6. \E tx, utxos : Authorizations(p)[i] = NewPsbt(tx, utxos)
        BY <3>5 DEF Authorization, Child
      <3> QED
        BY <2>1, <3>4, <3>6 DEF ChildSigs
    <2> QED
      BY <2>3, <2>4, <2>5, <2>6
  <1>11. FromProposals(w)
    <2>1. \A x \in Fields : w.manifest[x] = Manifest(p)[x]
      BY <1>3 DEF m
    <2>2. \A f \in DOMAIN w.psbts : f \in FilesOf(Manifest(p)) /\ w.psbts[f] = PhonePsbt(p, f)
      BY <1>3 DEF m
    <2> QED
      BY <2>1, <2>2 DEF FromProposals
  <1> QED
    BY <1>1, <1>3, <1>5, <1>9, <1>10, <1>11 DEF Shaped, NewPackage

\* Parts of two shaped packages make a shaped package.
LEMMA MixedShaped ==
  ASSUME NEW a, NEW b, Shaped(a), Shaped(b), NEW parts, NEW files
  PROVE  Shaped(Mixed(a, b, parts, files))
PROOF
  <1> DEFINE w == Mixed(a, b, parts, files)
             m == w.manifest
  <1>1. /\ w = [manifest |-> w.manifest, psbts |-> w.psbts]
        /\ m = [x \in DOMAIN a.manifest |->
                  IF x \in parts THEN b.manifest[x] ELSE a.manifest[x]]
        /\ w.psbts = [f \in (DOMAIN a.psbts \ files) \cup (DOMAIN b.psbts \cap files) |->
                        IF f \in files THEN b.psbts[f] ELSE a.psbts[f]]
    BY DEF Mixed
  <1> HIDE DEF w
  <1>2. DOMAIN a.manifest = Fields
    BY Zenon DEF Shaped, ShapedManifest
  <1>3. \A x \in Fields : m[x] = a.manifest[x] \/ m[x] = b.manifest[x]
    BY <1>1, <1>2
  <1>4. /\ m.approved = a.manifest.approved \/ m.approved = b.manifest.approved
        /\ m.rollover = a.manifest.rollover \/ m.rollover = b.manifest.rollover
        /\ m.allowances = a.manifest.allowances \/ m.allowances = b.manifest.allowances
        /\ m.access = a.manifest.access \/ m.access = b.manifest.access
    BY <1>3 DEF Fields
  <1>5. m = [x \in Fields |-> m[x]]
    BY <1>1, <1>2
  <1> HIDE DEF m
  <1>6. ShapedManifest(m)
    <2>1. ShapedManifest(a.manifest) /\ ShapedManifest(b.manifest)
      BY DEF Shaped
    <2>2. m.approved = [phone |-> m.approved.phone, hww |-> m.approved.hww]
      BY <2>1, <1>4, Zenon DEF ShapedManifest
    <2>3. m.rollover.file = RolloverFile
      BY <2>1, <1>4, Zenon DEF ShapedManifest
    <2>4. /\ Len(m.allowances) \in Nat /\ DOMAIN m.allowances = 1 .. Len(m.allowances)
          /\ \A i \in DOMAIN m.allowances :
               m.allowances[i].authorization.file = AllowanceFile(i)
      BY <2>1, <1>4, Zenon DEF ShapedManifest
    <2>5. \/ m.access = <<>>
          \/ /\ m.access = <<m.access[1]>>
             /\ m.access[1].trigger.file = TriggerFile
             /\ m.access[1].withdrawal.file = WithdrawalFile
      BY <2>1, <1>4, Zenon DEF ShapedManifest
    <2> QED
      BY <1>5, <2>2, <2>3, <2>4, <2>5 DEF ShapedManifest
  <1>7. \A f \in DOMAIN w.psbts : \/ f \in DOMAIN a.psbts /\ w.psbts[f] = a.psbts[f]
                                  \/ f \in DOMAIN b.psbts /\ w.psbts[f] = b.psbts[f]
    BY <1>1
  <1>8. \A f \in DOMAIN w.psbts :
          /\ IsPsbt(w.psbts[f])
          /\ f # RolloverFile => ChildSigs(w.psbts[f])
    BY <1>7 DEF Shaped
  <1>9. w.psbts = [f \in DOMAIN w.psbts |-> w.psbts[f]]
    BY <1>1
  <1>10. FromProposals(w)
    <2>1. FromProposals(a) /\ FromProposals(b)
      BY DEF Shaped
    <2>2. \A x \in Fields \ {"approved"} : \E p \in Proposals : w.manifest[x] = Manifest(p)[x]
      BY <2>1, <1>3 DEF FromProposals, m
    <2>3. \A f \in DOMAIN w.psbts : \E p \in Proposals :
            /\ f \in FilesOf(Manifest(p))
            /\ w.psbts[f].tx = PhonePsbt(p, f).tx
            /\ w.psbts[f].utxos = PhonePsbt(p, f).utxos
      BY <2>1, <1>7 DEF FromProposals
    <2> QED
      BY <2>2, <2>3 DEF FromProposals
  <1> QED
    BY <1>1, <1>6, <1>8, <1>9, <1>10 DEF Shaped, m, w

\* Another PSBT with the same transaction keeps the shape.
LEMMA ReplacedShaped ==
  ASSUME NEW w, Shaped(w), NEW f \in DOMAIN w.psbts, NEW psbt, IsPsbt(psbt),
         psbt.tx = w.psbts[f].tx, psbt.utxos = w.psbts[f].utxos,
         f # RolloverFile => ChildSigs(psbt)
  PROVE  /\ Shaped([w EXCEPT !.psbts[f] = psbt])
         /\ [w EXCEPT !.psbts[f] = psbt].manifest = w.manifest
         /\ [w EXCEPT !.psbts[f] = psbt].psbts = [w.psbts EXCEPT ![f] = psbt]
PROOF
  <1> DEFINE v == [w EXCEPT !.psbts[f] = psbt]
  <1>1. v = [manifest |-> w.manifest, psbts |-> [w.psbts EXCEPT ![f] = psbt]]
    BY DEF Shaped
  <1> HIDE DEF v
  <1>2. v.manifest = w.manifest /\ v.psbts = [w.psbts EXCEPT ![f] = psbt]
    BY <1>1
  <1>3. DOMAIN v.psbts = DOMAIN w.psbts
    BY <1>2
  <1>4. \A g \in DOMAIN w.psbts : v.psbts[g] = IF g = f THEN psbt ELSE w.psbts[g]
    BY <1>2 DEF Shaped
  <1>5. v.psbts = [g \in DOMAIN v.psbts |-> v.psbts[g]]
    BY <1>2
  <1>6. FromProposals(v)
    <2>1. FromProposals(w)
      BY DEF Shaped
    <2>2. \A g \in DOMAIN w.psbts : /\ v.psbts[g].tx = w.psbts[g].tx
                                    /\ v.psbts[g].utxos = w.psbts[g].utxos
      BY <1>4
    <2> QED
      BY <1>2, <1>3, <2>1, <2>2 DEF FromProposals
  <1>7. Shaped(v)
    BY <1>1, <1>2, <1>3, <1>4, <1>5, <1>6 DEF Shaped
  <1> QED
    BY <1>2, <1>7 DEF v

\* A PSBT that was used in the meantime keeps the shape.
LEMMA UsedShaped ==
  ASSUME NEW a, Shaped(a), NEW f \in DOMAIN a.psbts \ {RolloverFile}, NEW how
  PROVE  Shaped(Used(a, f, how))
PROOF
  <1> DEFINE psbt == CASE how = "executed" -> Sign(a.psbts[f], "phone", {2})
                       [] how = "unsigned" -> [a.psbts[f] EXCEPT !.sigs = {}]
                       [] OTHER            -> [a.psbts[f] EXCEPT !.sighash = "other"]
  <1>1. Used(a, f, how) = [a EXCEPT !.psbts[f] = psbt]
    BY DEF Used
  <1>2. IsPsbt(a.psbts[f]) /\ ChildSigs(a.psbts[f])
    BY DEF Shaped
  <1>3. /\ IsPsbt(psbt) /\ ChildSigs(psbt)
        /\ psbt.tx = a.psbts[f].tx /\ psbt.utxos = a.psbts[f].utxos
    <2>1. CASE how = "executed"
      BY <2>1, <1>2, SignAdds DEF Signature, ChildSigs
    <2>2. CASE how = "unsigned"
      BY <2>2, <1>2 DEF IsPsbt, ChildSigs
    <2>3. CASE how \notin {"executed", "unsigned"}
      BY <2>3, <1>2 DEF IsPsbt, ChildSigs
    <2> QED
      BY <2>1, <2>2, <2>3
  <1> HIDE DEF psbt
  <1> QED
    BY <1>1, <1>3, ReplacedShaped

\* Whatever the files of two packages are made into, what a command reads is
\* shaped.
LEMMA ReadShaped ==
  ASSUME \A w \in packages : Shaped(w), NEW d, ReadMixed(d) \/ ReadUsed(d)
  PROVE  \E w : Shaped(w) /\ Read(d, w)
PROOF
  <1>1. CASE ReadMixed(d)
    <2>1. PICK a \in packages, b \in packages :
            \E parts, files : Read(d, Mixed(a, b, parts, files))
      BY <1>1 DEF ReadMixed
    <2> QED
      BY <2>1, MixedShaped
  <1>2. CASE ReadUsed(d)
    <2>1. PICK a \in packages, how \in {"executed", "unsigned", "sighash"} :
            \E f \in DOMAIN a.psbts \ {RolloverFile} : Read(d, Used(a, f, how))
      BY <1>2 DEF ReadUsed
    <2> QED
      BY <2>1, UsedShaped
  <1> QED
    BY <1>1, <1>2

----------------------------------------------------------------------------
(* validate_batch *)

\* A batch that passes validate_batch names the transactions it holds, spends
\* one vault input in each transaction after the rollover, and has no
\* signature on a new connector.
LEMMA ValidIsChecked ==
  ASSUME NEW w, Shaped(w), ValidBatch(w)
  PROVE  Checked(w)
PROOF
  <1> DEFINE m == w.manifest
  <1>1. ShapedManifest(m)
    BY DEF Shaped
  <1> SUFFICES ASSUME NEW e \in ToSet(Transactions(m))
               PROVE  /\ Psbt(w, e).tx.txid = e.txid
                      /\ e.file # RolloverFile => /\ e.vault = {1}
                                                  /\ \A s \in Psbt(w, e).sigs : s.input # 2
    BY DEF Checked
  <1>2. CASE e = m.rollover
    BY <1>1, <1>2, Zenon DEF ValidBatch, ValidRollover, ShapedManifest
  <1>3. ASSUME NEW i \in DOMAIN m.allowances, e = m.allowances[i].authorization
        PROVE  /\ Psbt(w, e).tx.txid = e.txid /\ e.vault = {1}
               /\ \A s \in Psbt(w, e).sigs : s.input # 2
    <2>1. i \in 1 .. m.count
      BY <1>1, <1>3 DEF ShapedManifest, ValidBatch
    <2>2. ValidAllowance(w, i)
      BY <2>1 DEF ValidBatch
    <2> QED
      BY <2>2, <1>3, Zenon DEF ValidAllowance, ValidChild
  <1>4. ASSUME m.access # <<>>, e \in {m.access[1].trigger, m.access[1].withdrawal}
        PROVE  /\ Psbt(w, e).tx.txid = e.txid /\ e.vault = {1}
               /\ \A s \in Psbt(w, e).sigs : s.input # 2
    <2>1. ValidEmergency(w) /\ m.emergency # 0
      BY <1>4 DEF ValidBatch, ValidEmergency
    <2> QED
      BY <2>1, <1>4, Zenon DEF ValidEmergency, ValidChild
  <1> QED
    BY <1>1, <1>2, <1>3, <1>4, TransactionsOf

\* Signatures of both devices on every vault input of a checked batch are all
\* that SignedByBoth asks for.
LEMMA CheckedIsSigned ==
  ASSUME NEW w, Shaped(w), Materializes(w), Checked(w),
         \A e \in ToSet(Transactions(w.manifest)) :
           \A key \in {"phone", "hww"}, j \in e.vault :
             Signature(Psbt(w, e), key, j) \in Psbt(w, e).sigs
  PROVE  SignedByBoth(w)
PROOF
  <1> SUFFICES ASSUME NEW e \in ToSet(Transactions(w.manifest)), e.file # RolloverFile,
                      NEW s \in Psbt(w, e).sigs
               PROVE  s.input \in e.vault
    BY DEF SignedByBoth, Checked
  <1>1. e.file \in DOMAIN w.psbts
    BY FileOf
  <1>2. s.input = 1 \/ s.input = 2
    BY <1>1 DEF Shaped, Psbt, ChildSigs
  <1> QED
    BY <1>2 DEF Checked

----------------------------------------------------------------------------
(* One graph *)

\* Numbers of a proposal and of its rollover.
Coins(p) == Len(p.coins)
Connectors(p) == Len(p.connectors)
Inputs(p) == Len(Rollover(p).tx.ins)
Outputs(p) == Len(Rollover(p).tx.outs)

\* What the rollover of a proposal looks like: vault inputs before connector
\* inputs, told apart by their sequence, and outputs whose number and order
\* follow from the limits.
LEMMA RolloverShape ==
  ASSUME NEW p \in Proposals
  PROVE  /\ Coins(p) \in Nat /\ Connectors(p) \in Nat
         /\ Inputs(p) = Coins(p) + Connectors(p)
         /\ \A i \in 1 .. Inputs(p) :
              Rollover(p).tx.ins[i].sequence = IF i <= Coins(p) THEN Final ELSE Rbf
         /\ Outputs(p) = (IF p.count > 0 THEN 3 ELSE 1) + (IF p.emergency > 0 THEN 1 ELSE 0)
         /\ Rollover(p).tx.outs[RemainderVout(p)].script = VaultScript(p.vault)
         /\ p.count > 0 =>
              Rollover(p).tx.outs[1] = Out(VaultScript(p.vault), ChainValue(p, 1))
PROOF
  <1> DEFINE utxos == p.coins \o p.connectors
             ins   == [i \in DOMAIN utxos |->
                         In(utxos[i].txid, 1, IF i <= Len(p.coins) THEN Final ELSE Rbf)]
             outs  == [i \in DOMAIN utxos |-> utxos[i].out]
             chain == If(p.count > 0, <<Out(VaultScript(p.vault), ChainValue(p, 1))>>)
             connector  == <<Out(ControllerScript(p.vault), Connector)>>
             connectors == If(p.count > 0, connector) \o If(p.emergency > 0, connector)
             fee  == Len(ins) + Len(chain) + 1 + Len(connectors)
             total == InputSum(outs, 1 .. Len(p.coins))
                      + InputSum(outs, Len(p.coins) + 1 .. Len(outs))
             remainder == total - OutputSum(chain \o connectors) - fee
             txouts == chain \o <<Out(VaultScript(p.vault), remainder)>> \o connectors
  <1>1. Rollover(p).tx.ins = ins /\ Rollover(p).tx.outs = txouts
    BY DEF Rollover, NewPsbt, Tx
  <1>2. /\ p.coins \in Seq(ToSet(p.coins)) /\ p.connectors \in Seq(ToSet(p.connectors))
        /\ p.count \in Nat /\ p.emergency \in Nat
    BY PackageAssumption
  <1>3. /\ Coins(p) \in Nat /\ Connectors(p) \in Nat
        /\ DOMAIN utxos = 1 .. Coins(p) + Connectors(p)
    <2> DEFINE S == ToSet(p.coins) \cup ToSet(p.connectors)
    <2>1. p.coins \in Seq(S) /\ p.connectors \in Seq(S)
      BY <1>2
    <2>2. utxos \in Seq(S) /\ Len(utxos) = Coins(p) + Connectors(p)
      BY <2>1 DEF Coins, Connectors
    <2>3. Coins(p) \in Nat /\ Connectors(p) \in Nat
      BY <2>1 DEF Coins, Connectors
    <2> HIDE DEF S, utxos
    <2> QED
      BY <2>2, <2>3
  <1> HIDE DEF utxos
  <1>4. Len(ins) = Coins(p) + Connectors(p)
    BY <1>3
  <1>5. \A i \in 1 .. Len(ins) : ins[i].sequence = IF i <= Coins(p) THEN Final ELSE Rbf
    BY <1>3, <1>4 DEF In, Coins
  <1> HIDE DEF remainder, ins
  <1>6. /\ Len(txouts) = (IF p.count > 0 THEN 3 ELSE 1) + (IF p.emergency > 0 THEN 1 ELSE 0)
        /\ txouts[RemainderVout(p)] = Out(VaultScript(p.vault), remainder)
        /\ p.count > 0 => txouts[1] = Out(VaultScript(p.vault), ChainValue(p, 1))
    <2>1. CASE p.count > 0 /\ p.emergency > 0
      BY <2>1 DEF If, RemainderVout
    <2>2. CASE p.count > 0 /\ ~(p.emergency > 0)
      BY <2>2 DEF If, RemainderVout
    <2>3. CASE ~(p.count > 0) /\ p.emergency > 0
      BY <2>3 DEF If, RemainderVout
    <2>4. CASE ~(p.count > 0) /\ ~(p.emergency > 0)
      BY <2>4 DEF If, RemainderVout
    <2> QED
      BY <2>1, <2>2, <2>3, <2>4
  <1> HIDE DEF txouts
  <1> QED
    BY <1>1, <1>3, <1>4, <1>5, <1>6 DEF Inputs, Outputs, Out

\* Two proposals with the same rollover transaction describe it alike: its
\* roles, its outputs, its vault, and whether it has a chain and an emergency
\* output.
LEMMA SameRollover ==
  ASSUME NEW p \in Proposals, NEW q \in Proposals,
         Rollover(p).tx = Rollover(q).tx, Rollover(p).utxos = Rollover(q).utxos
  PROVE  /\ Manifest(p).rollover = Manifest(q).rollover
         /\ Manifest(p).outputs = Manifest(q).outputs
         /\ p.vault = q.vault
         /\ p.count > 0 <=> q.count > 0
         /\ p.emergency > 0 <=> q.emergency > 0
PROOF
  <1> DEFINE tx == Rollover(p).tx
  <1>1. /\ p.count \in Nat /\ p.emergency \in Nat /\ q.count \in Nat /\ q.emergency \in Nat
    BY PackageAssumption
  <1>2. /\ p.count > 0 <=> q.count > 0
        /\ p.emergency > 0 <=> q.emergency > 0
    <2>1. Outputs(p) = Outputs(q)
      BY DEF Outputs
    <2> QED
      BY <1>1, <2>1, RolloverShape
  <1>3. RemainderVout(p) = RemainderVout(q)
    BY <1>1, <1>2 DEF RemainderVout
  <1>4. p.vault = q.vault
    <2>1. VaultScript(p.vault) = VaultScript(q.vault)
      BY <1>3, RolloverShape
    <2> QED
      BY <2>1 DEF VaultScript
  <1>5. Coins(p) = Coins(q)
    <2>1. ASSUME NEW a \in Proposals, NEW b \in Proposals, Rollover(a).tx = Rollover(b).tx,
                 Coins(a) < Coins(b)
          PROVE  FALSE
      <3>1. /\ Coins(a) \in Nat /\ Coins(b) \in Nat /\ Connectors(b) \in Nat
            /\ Inputs(b) = Coins(b) + Connectors(b) /\ Inputs(a) = Inputs(b)
        BY <2>1, RolloverShape DEF Inputs
      <3>2. Coins(b) \in 1 .. Inputs(b)
        BY <2>1, <3>1
      <3>3. Rollover(b).tx.ins[Coins(b)].sequence = Final
        BY <3>1, <3>2, RolloverShape
      <3>4. Rollover(a).tx.ins[Coins(b)].sequence = Rbf
        BY <2>1, <3>1, <3>2, RolloverShape
      <3> QED
        BY <2>1, <3>3, <3>4 DEF Final, Rbf
    <2>2. Coins(p) \in Nat /\ Coins(q) \in Nat
      BY RolloverShape
    <2> QED
      BY <2>1, <2>2
  <1>6. Manifest(p).rollover = Manifest(q).rollover
    BY <1>5 DEF Manifest, Coins
  <1>7. p.count > 0 => ChainValue(p, 1) = ChainValue(q, 1)
    <2>1. ASSUME p.count > 0 PROVE Out(VaultScript(p.vault), ChainValue(p, 1)).value
                                     = Out(VaultScript(q.vault), ChainValue(q, 1)).value
      BY <2>1, <1>2, RolloverShape
    <2> QED
      BY <2>1 DEF Out
  <1>8. Manifest(p).outputs = Manifest(q).outputs
    BY <1>2, <1>3, <1>5, <1>7 DEF Manifest, Coins
  <1> QED
    BY <1>2, <1>4, <1>6, <1>8

\* The rollover and the authorizations that phone_set_policy signs are those of
\* the proposal.
LEMMA PhonePsbtOf ==
  ASSUME NEW p \in Proposals
  PROVE  /\ RolloverFile \in FilesOf(Manifest(p))
         /\ PhonePsbt(p, RolloverFile).tx = Rollover(p).tx
         /\ PhonePsbt(p, RolloverFile).utxos = Rollover(p).utxos
         /\ \A i \in 1 .. p.count :
              /\ AllowanceFile(i) \in FilesOf(Manifest(p))
              /\ PhonePsbt(p, AllowanceFile(i)).tx = Authorizations(p)[i].tx
PROOF
  <1> DEFINE m == Manifest(p)
  <1>1. NewPackage(p) \in Proposed /\ NewPackage(p).manifest = m
    BY DEF Proposed, NewPackage
  <1>2. ShapedManifest(m)
    BY <1>1, ProposedShaped DEF Shaped
  <1>3. /\ m.rollover.file = RolloverFile
        /\ DOMAIN m.allowances = 1 .. p.count
        /\ \A i \in 1 .. p.count : m.allowances[i].authorization.file = AllowanceFile(i)
    BY DEF Manifest, Entry, ChildEntry
  <1> HIDE DEF m
  <1>4. /\ FilesOf(m) = {e.file : e \in ToSet(Transactions(m))}
        /\ m.rollover \in ToSet(Transactions(m))
        /\ \A i \in 1 .. p.count : m.allowances[i].authorization \in ToSet(Transactions(m))
    <2>1. FilesOf(m) = {e.file : e \in ToSet(Transactions(m))}
      BY <1>2, TransactionsOf
    <2>2. {m.rollover} \cup {m.allowances[i].authorization : i \in DOMAIN m.allowances}
            \subseteq ToSet(Transactions(m))
      BY <1>2, TransactionsOf
    <2> QED
      BY <2>1, <2>2, <1>3
  <1>5. RolloverFile \in FilesOf(m) /\ \A i \in 1 .. p.count : AllowanceFile(i) \in FilesOf(m)
    BY <1>3, <1>4
  <1>6. /\ RolloverFile # TriggerFile /\ RolloverFile # WithdrawalFile
        /\ \A i : AllowanceFile(i) \notin {RolloverFile, TriggerFile, WithdrawalFile}
    BY DEF RolloverFile, TriggerFile, WithdrawalFile, AllowanceFile
  <1>7. ASSUME NEW tx, NEW utxos, NEW S
        PROVE  /\ Sign(NewPsbt(tx, utxos), "phone", S).tx = NewPsbt(tx, utxos).tx
               /\ Sign(NewPsbt(tx, utxos), "phone", S).utxos = NewPsbt(tx, utxos).utxos
    BY DEF Sign, NewPsbt
  <1>8. PhonePsbt(p, RolloverFile).tx = Rollover(p).tx
        /\ PhonePsbt(p, RolloverFile).utxos = Rollover(p).utxos
    <2>1. PhonePsbt(p, RolloverFile) = Sign(Rollover(p), "phone", DOMAIN Rollover(p).tx.ins)
      BY <1>6 DEF PhonePsbt
    <2>2. \E tx, utxos : Rollover(p) = NewPsbt(tx, utxos)
      BY DEF Rollover
    <2> QED
      BY <2>1, <2>2, <1>7
  <1>9. ASSUME NEW i \in 1 .. p.count
        PROVE  PhonePsbt(p, AllowanceFile(i)).tx = Authorizations(p)[i].tx
    <2>1. PhonePsbt(p, AllowanceFile(i)) = Sign(Authorizations(p)[i], "phone", {1})
      <3>1. AllowanceFile(i)[2] = i
        BY DEF AllowanceFile
      <3> QED
        BY <1>6, <3>1 DEF PhonePsbt
    <2>2. \E source : Authorizations(p)[i] = Authorization(p, i, source)
      BY DEF Authorizations
    <2>3. \E tx, utxos : Authorizations(p)[i] = NewPsbt(tx, utxos)
      BY <2>2 DEF Authorization, Child
    <2> QED
      BY <2>1, <2>3, <1>7
  <1> QED
    BY <1>5, <1>8, <1>9 DEF m

\* Transactions that the phone built under the same txid are the same.
LEMMA SameTxid ==
  ASSUME NEW p \in Proposals, NEW q \in Proposals,
         NEW f \in FilesOf(Manifest(p)), NEW g \in FilesOf(Manifest(q)),
         PhonePsbt(p, f).tx.txid = PhonePsbt(q, g).tx.txid
  PROVE  /\ PhonePsbt(p, f).tx = PhonePsbt(q, g).tx
         /\ PhonePsbt(p, f).utxos = PhonePsbt(q, g).utxos
PROOF
  <1>1. ASSUME NEW a \in Proposals, NEW h \in FilesOf(Manifest(a))
        PROVE  PhonePsbt(a, h) \in AllPsbts
    <2>1. /\ NewPackage(a) \in Proposed
          /\ h \in DOMAIN NewPackage(a).psbts /\ NewPackage(a).psbts[h] = PhonePsbt(a, h)
      BY DEF Proposed, NewPackage
    <2> HIDE DEF NewPackage
    <2> QED
      BY <2>1 DEF AllPsbts
  <1>2. PhonePsbt(p, f) \in AllPsbts /\ PhonePsbt(q, g) \in AllPsbts
    BY <1>1
  <1> QED
    BY <1>2, NoCollision

\* In particular rollovers.
LEMMA SameRolloverTxid ==
  ASSUME NEW p \in Proposals, NEW q \in Proposals,
         Rollover(p).tx.txid = Rollover(q).tx.txid
  PROVE  Rollover(p).tx = Rollover(q).tx /\ Rollover(p).utxos = Rollover(q).utxos
  BY PhonePsbtOf, SameTxid

\* What the manifest of a proposal says.
LEMMA ManifestOf ==
  ASSUME NEW p \in Proposals
  PROVE  /\ Manifest(p).vault = p.vault /\ Manifest(p).monthly = p.monthly
         /\ Manifest(p).emergency = p.emergency /\ Manifest(p).count = p.count
         /\ Manifest(p).rollover.txid = Rollover(p).tx.txid
         /\ Manifest(p).rollover.vault = 1 .. Coins(p)
         /\ Manifest(p).rollover.controller = Coins(p) + 1 .. Inputs(p)
         /\ Manifest(p).allowances = [i \in 1 .. p.count |-> Manifest(p).allowances[i]]
         /\ Len(Manifest(p).allowances) = p.count
         /\ p.count > 0 => Manifest(p).allowances[1].connector = <<Rollover(p).tx.txid, 3>>
         /\ \A i \in 1 .. p.count :
              Manifest(p).allowances[i].authorization.txid = Authorizations(p)[i].tx.txid
         /\ p.emergency > 0 =>
              /\ Manifest(p).access[1].amount = p.emergency
              /\ Manifest(p).access[1].connector[1] = Rollover(p).tx.txid
         /\ ~(p.emergency > 0) => Manifest(p).access = <<>>
PROOF
  <1>1. p.count \in Nat
    BY PackageAssumption
  <1>2. /\ Manifest(p).vault = p.vault /\ Manifest(p).monthly = p.monthly
        /\ Manifest(p).emergency = p.emergency /\ Manifest(p).count = p.count
    BY DEF Manifest
  <1>3. /\ Manifest(p).rollover.txid = Rollover(p).tx.txid
        /\ Manifest(p).rollover.vault = 1 .. Coins(p)
        /\ Manifest(p).rollover.controller = Coins(p) + 1 .. Inputs(p)
    BY DEF Manifest, Entry, Coins, Inputs
  <1>4. /\ Manifest(p).allowances = [i \in 1 .. p.count |-> Manifest(p).allowances[i]]
        /\ Len(Manifest(p).allowances) = p.count
    BY <1>1 DEF Manifest
  <1>5. p.count > 0 => Manifest(p).allowances[1].connector = <<Rollover(p).tx.txid, 3>>
    BY <1>1 DEF Manifest
  <1>6. \A i \in 1 .. p.count :
          Manifest(p).allowances[i].authorization.txid = Authorizations(p)[i].tx.txid
    BY DEF Manifest, ChildEntry, Entry
  <1>7. /\ p.emergency > 0 =>
             /\ Manifest(p).access[1].amount = p.emergency
             /\ Manifest(p).access[1].connector[1] = Rollover(p).tx.txid
        /\ ~(p.emergency > 0) => Manifest(p).access = <<>>
    BY DEF Manifest, If
  <1> QED
    BY <1>2, <1>3, <1>4, <1>5, <1>6, <1>7

\* The eight fields of the outputs of a manifest.
LEMMA OutputsOf ==
  ASSUME NEW p \in Proposals
  PROVE  Manifest(p).outputs =
           [vaultInputs |-> InputSum(Rollover(p).utxos, 1 .. Coins(p)),
            controllerInputs |-> InputSum(Rollover(p).utxos, Coins(p) + 1 .. Inputs(p)),
            allowanceVout |-> IF p.count > 0 THEN 1 ELSE 0,
            allowanceValue |-> IF p.count > 0 THEN ChainValue(p, 1) ELSE 0,
            remainderVout |-> RemainderVout(p),
            remainderValue |-> Rollover(p).tx.outs[RemainderVout(p)].value,
            monthlyVout |-> IF p.count > 0 THEN RemainderVout(p) + 1 ELSE 0,
            emergencyVout |-> IF p.emergency > 0 THEN Outputs(p) ELSE 0]
  BY DEF Manifest, Coins, Inputs, Outputs

\* validate_batch binds the manifest: a batch put together from what the phone
\* built for several proposals passes only if it is one graph.
LEMMA ValidIsOneGraph ==
  ASSUME NEW w, Shaped(w), Materializes(w), ValidBatch(w)
  PROVE  OneGraph(w.manifest)
PROOF
  <1> DEFINE m == w.manifest
             R == Psbt(w, m.rollover)
  <1>1. ShapedManifest(m) /\ m.rollover.file = RolloverFile
    BY DEF Shaped, ShapedManifest
  <1>2. FromProposals(w)
    BY DEF Shaped
  <1>3. /\ RolloverFile \in DOMAIN w.psbts
        /\ \A i \in DOMAIN m.allowances : AllowanceFile(i) \in DOMAIN w.psbts
    <2>1. {m.rollover} \cup {m.allowances[i].authorization : i \in DOMAIN m.allowances}
            \subseteq ToSet(Transactions(m))
      BY <1>1, TransactionsOf
    <2> QED
      BY <2>1, <1>1, FileOf DEF ShapedManifest
  <1>4. PICK r \in Proposals : m.rollover = Manifest(r).rollover
    BY <1>2 DEF FromProposals, Fields
  <1>5. PICK o \in Proposals : m.outputs = Manifest(o).outputs
    BY <1>2 DEF FromProposals, Fields
  <1>6. PICK l \in Proposals : m.allowances = Manifest(l).allowances
    BY <1>2 DEF FromProposals, Fields
  <1>7. PICK c \in Proposals : m.access = Manifest(c).access
    BY <1>2 DEF FromProposals, Fields
  <1>8. m.count \in Nat /\ m.emergency \in Nat
    <2>1. PICK k \in Proposals : m.count = Manifest(k).count
      BY <1>2 DEF FromProposals, Fields
    <2>2. PICK g \in Proposals : m.emergency = Manifest(g).emergency
      BY <1>2 DEF FromProposals, Fields
    <2>3. m.count = k.count /\ m.emergency = g.emergency
      BY <2>1, <2>2, ManifestOf
    <2>4. k.count \in 0 .. Months /\ g.emergency \in Nat
      BY PackageAssumption, Zenon
    <2> QED
      BY <2>3, <2>4
  <1>9. /\ m.vault = Vault /\ m.count = Len(m.allowances)
        /\ ValidRollover(w) /\ ValidEmergency(w)
        /\ \A i \in 1 .. m.count : ValidAllowance(w, i)
    BY DEF ValidBatch
  <1>10. R.tx = Rollover(r).tx /\ R.utxos = Rollover(r).utxos
    <2>1. PICK d \in Proposals : R.tx = Rollover(d).tx /\ R.utxos = Rollover(d).utxos
      BY <1>2, <1>1, <1>3, PhonePsbtOf DEF FromProposals, Psbt
    <2>2. R.tx.txid = m.rollover.txid
      BY <1>9 DEF ValidRollover
    <2>3. Rollover(d).tx.txid = Rollover(r).tx.txid
      BY <2>1, <2>2, <1>4, ManifestOf
    <2> QED
      BY <2>1, <2>3, SameRolloverTxid
  <1> HIDE DEF R
  <1>11. r.count \in Nat /\ r.emergency \in Nat
    BY PackageAssumption
  <1>12. /\ m.count > 0 <=> r.count > 0
         /\ m.emergency > 0 <=> r.emergency > 0
    <2>1. Len(R.tx.outs) = (IF m.count > 0 THEN 3 ELSE 1) + (IF m.emergency > 0 THEN 1 ELSE 0)
      BY <1>9 DEF ValidRollover, R
    <2>2. Outputs(r) = (IF m.count > 0 THEN 3 ELSE 1) + (IF m.emergency > 0 THEN 1 ELSE 0)
      BY <2>1, <1>10 DEF Outputs
    <2> QED
      BY <2>2, <1>8, <1>11, RolloverShape
  <1>13. RemainderVout(r) = IF m.count > 0 THEN 2 ELSE 1
    BY <1>12 DEF RemainderVout
  <1>14. R.tx.outs[RemainderVout(r)] = Out(VaultScript(Vault), m.outputs.remainderValue)
    BY <1>9, <1>13 DEF ValidRollover, R
  <1>15. r.vault = Vault
    <2>1. VaultScript(r.vault) = VaultScript(Vault)
      <3>1. R.tx.outs[RemainderVout(r)].script = VaultScript(r.vault)
        BY <1>10, RolloverShape
      <3> QED
        BY <3>1, <1>14 DEF Out
    <2> QED
      BY <2>1 DEF VaultScript
  <1>16. m.outputs = Manifest(r).outputs
    <2>1. /\ InputSum(R.utxos, m.rollover.vault) = m.outputs.vaultInputs
          /\ InputSum(R.utxos, m.rollover.controller) = m.outputs.controllerInputs
      BY <1>9 DEF ValidRollover, RoleSum, R
    <2>2. /\ m.outputs.vaultInputs = InputSum(Rollover(r).utxos, 1 .. Coins(r))
          /\ m.outputs.controllerInputs
               = InputSum(Rollover(r).utxos, Coins(r) + 1 .. Inputs(r))
      BY <2>1, <1>4, <1>10, ManifestOf
    <2>3. m.outputs.allowanceVout = IF r.count > 0 THEN 1 ELSE 0
      BY <1>9, <1>12 DEF ValidRollover
    <2>4. m.outputs.remainderVout = RemainderVout(r)
      BY <1>9, <1>13 DEF ValidRollover
    <2>5. m.outputs.monthlyVout = IF r.count > 0 THEN RemainderVout(r) + 1 ELSE 0
      BY <1>9, <1>12, <1>13 DEF ValidRollover
    <2>6. m.outputs.emergencyVout = IF r.emergency > 0 THEN Outputs(r) ELSE 0
      <3>1. m.outputs.emergencyVout = IF m.emergency > 0 THEN (IF m.count > 0 THEN 4 ELSE 2) ELSE 0
        BY <1>9 DEF ValidRollover
      <3> QED
        BY <3>1, <1>12, RolloverShape
    <2>7. m.outputs.remainderValue = Rollover(r).tx.outs[RemainderVout(r)].value
      BY <1>10, <1>14 DEF Out
    <2>8. m.outputs.allowanceValue = IF r.count > 0 THEN ChainValue(r, 1) ELSE 0
      <3>1. CASE m.count > 0
        <4>1. R.tx.outs[1] = Out(VaultScript(m.vault), m.outputs.allowanceValue)
          BY <3>1, <1>9 DEF ValidRollover, R
        <4>2. R.tx.outs[1] = Out(VaultScript(r.vault), ChainValue(r, 1))
          BY <3>1, <1>10, <1>12, RolloverShape
        <4> QED
          BY <3>1, <4>1, <4>2, <1>12 DEF Out
      <3>2. CASE ~(m.count > 0)
        BY <3>2, <1>9, <1>12 DEF ValidRollover
      <3> QED
        BY <3>1, <3>2
    <2>9. \E a1, a2, a3, a4, a5, a6, a7, a8 : m.outputs =
            [vaultInputs |-> a1, controllerInputs |-> a2, allowanceVout |-> a3,
             allowanceValue |-> a4, remainderVout |-> a5, remainderValue |-> a6,
             monthlyVout |-> a7, emergencyVout |-> a8]
      BY <1>5, OutputsOf, Zenon
    <2> QED
      BY <2>2, <2>3, <2>4, <2>5, <2>6, <2>7, <2>8, <2>9, OutputsOf
  <1>17. /\ l.count = m.count /\ l.count \in Nat /\ DOMAIN m.allowances = 1 .. l.count
    <2>1. Len(Manifest(l).allowances) = l.count /\ DOMAIN Manifest(l).allowances = 1 .. l.count
      BY ManifestOf
    <2>2. l.count \in Nat
      BY PackageAssumption
    <2> QED
      BY <2>1, <2>2, <1>6, <1>9
  <1>18. PICK a \in Proposals :
           /\ Rollover(a).tx = Rollover(r).tx /\ Rollover(a).utxos = Rollover(r).utxos
           /\ m.count = a.count /\ m.allowances = Manifest(a).allowances
           /\ m.count > 0 => m.monthly = a.monthly
    <2>1. CASE m.count = 0
      <3>1. l.count = 0 /\ r.count = 0
        BY <2>1, <1>17, <1>11, <1>12
      <3>2. 1 .. 0 = {}
        OBVIOUS
      <3>3. Manifest(l).allowances = Manifest(r).allowances
        <4>1. /\ Manifest(l).allowances = [i \in {} |-> Manifest(l).allowances[i]]
              /\ Manifest(r).allowances = [i \in {} |-> Manifest(r).allowances[i]]
          BY <3>1, <3>2, ManifestOf
        <4> QED
          BY <4>1
      <3> QED
        BY <2>1, <3>1, <3>3, <1>6
    <2>2. CASE m.count > 0
      <3>1. l.count = m.count /\ 1 \in 1 .. m.count /\ 1 \in 1 .. l.count
        BY <2>2, <1>17
      <3>2. ValidAllowance(w, 1)
        BY <3>1, <1>9
      <3>3. /\ m.allowances[1].connector = <<R.tx.txid, 3>>
            /\ LET e == m.allowances[1].authorization
               IN /\ Psbt(w, e).tx.txid = e.txid
                  /\ Psbt(w, e).tx.outs[1] = Out(HotScript(m.allowances[1].hot), m.monthly)
        BY <3>2, Zenon DEF ValidAllowance, ValidChild, R
      <3>4. Rollover(l).tx.txid = Rollover(r).tx.txid
        <4>1. <<Rollover(l).tx.txid, 3>> = <<Rollover(r).tx.txid, 3>>
          BY <2>2, <3>1, <3>3, <1>6, <1>10, ManifestOf
        <4> QED
          BY <4>1
      <3>5. m.monthly = l.monthly
        <4> DEFINE e == m.allowances[1].authorization
                   f == AllowanceFile(1)
        <4>1. e.file = f /\ f \in DOMAIN w.psbts
          BY <3>1, <1>1, <1>3, <1>17 DEF ShapedManifest
        <4>2. PICK d \in Proposals :
                f \in FilesOf(Manifest(d)) /\ w.psbts[f].tx = PhonePsbt(d, f).tx
          BY <1>2, <4>1 DEF FromProposals
        <4>3. /\ f \in FilesOf(Manifest(l)) /\ PhonePsbt(l, f).tx = Authorizations(l)[1].tx
          BY <3>1, PhonePsbtOf
        <4>4. PhonePsbt(d, f).tx.txid = PhonePsbt(l, f).tx.txid
          <5>1. w.psbts[f].tx.txid = e.txid
            BY <3>3, <4>1 DEF Psbt
          <5>2. e.txid = Authorizations(l)[1].tx.txid
            <6>1. Manifest(l).allowances[1].authorization.txid = Authorizations(l)[1].tx.txid
              BY <3>1, ManifestOf
            <6> QED
              BY <6>1, <1>6
          <5> QED
            BY <5>1, <5>2, <4>2, <4>3
        <4>5. w.psbts[f].tx = Authorizations(l)[1].tx
          BY <4>2, <4>3, <4>4, SameTxid
        <4>6. Authorizations(l)[1].tx.outs[1] = Out(HotScript(l.hots[1]), l.monthly)
          <5>1. PICK source : Authorizations(l)[1] = Authorization(l, 1, source)
            BY <3>1 DEF Authorizations
          <5> DEFINE rest == If(1 < l.count,
                                <<Out(VaultScript(l.vault), ChainValue(l, 1 + 1)),
                                  Out(ControllerScript(l.vault), Connector)>>)
                     first == Out(HotScript(l.hots[1]), l.monthly)
          <5>2. Authorization(l, 1, source).tx.outs = <<first>> \o rest
            BY DEF Authorization, Child, NewPsbt, Tx
          <5>3. (<<first>> \o rest)[1] = first
            <6>1. CASE 1 < l.count
              BY <6>1 DEF If
            <6>2. CASE ~(1 < l.count)
              BY <6>2 DEF If
            <6> QED
              BY <6>1, <6>2
          <5> QED
            BY <5>1, <5>2, <5>3
        <4>7. Out(HotScript(m.allowances[1].hot), m.monthly) = Out(HotScript(l.hots[1]), l.monthly)
          BY <3>3, <4>1, <4>5, <4>6 DEF Psbt
        <4> QED
          BY <4>7 DEF Out
      <3> QED
        BY <3>1, <3>4, <3>5, <1>6, SameRolloverTxid
    <2> QED
      BY <2>1, <2>2, <1>8
  <1>19. /\ Manifest(a).rollover = m.rollover /\ Manifest(a).outputs = m.outputs
         /\ a.vault = Vault
         /\ a.emergency > 0 <=> m.emergency > 0
    BY <1>4, <1>12, <1>15, <1>16, <1>18, SameRollover
  <1>20. PICK b \in Proposals :
           /\ Rollover(b).tx = Rollover(r).tx /\ Rollover(b).utxos = Rollover(r).utxos
           /\ m.emergency = b.emergency /\ m.access = Manifest(b).access
    <2>1. CASE m.emergency = 0
      <3>1. m.access = <<>>
        BY <2>1, <1>9 DEF ValidEmergency
      <3>2. a.emergency = 0
        BY <2>1, <1>19, PackageAssumption
      <3>3. Manifest(a).access = <<>>
        <4>1. ~(a.emergency > 0)
          BY <3>2
        <4> QED
          BY <4>1, ManifestOf
      <3> QED
        BY <2>1, <3>1, <3>2, <3>3, <1>18
    <2>2. CASE m.emergency # 0
      <3>1. /\ m.access # <<>> /\ m.access[1].amount = m.emergency
            /\ m.access[1].connector = <<R.tx.txid, m.outputs.emergencyVout>>
        BY <2>2, <1>9, Zenon DEF ValidEmergency, R
      <3>2. c.emergency > 0
        BY <3>1, <1>7, ManifestOf
      <3>3. c.emergency = m.emergency
        BY <3>1, <3>2, <1>7, ManifestOf
      <3>4. Rollover(c).tx.txid = Rollover(r).tx.txid
        <4>1. m.access[1].connector[1] = R.tx.txid
          BY <3>1
        <4> QED
          BY <4>1, <3>2, <1>7, <1>10, ManifestOf
      <3>5. Rollover(c).tx = Rollover(r).tx /\ Rollover(c).utxos = Rollover(r).utxos
        BY <3>4, SameRolloverTxid
      <3> QED
        BY <3>3, <3>5, <1>7
    <2> QED
      BY <2>1, <2>2
  <1>21. Manifest(b).rollover = m.rollover /\ b.vault = Vault
    BY <1>4, <1>15, <1>20, SameRollover
  <1>22. Manifest(a) \in Manifests /\ Manifest(b) \in Manifests
    BY <1>19, <1>21 DEF Manifests
  <1>23. \A x \in {"vault", "count", "rollover", "outputs", "allowances"} : m[x] = Manifest(a)[x]
    BY <1>9, <1>18, <1>19, ManifestOf, Zenon
  <1>24. \A x \in {"emergency", "access"} : m[x] = Manifest(b)[x]
    BY <1>20, ManifestOf
  <1>25. m.count > 0 => m.monthly = Manifest(a).monthly
    BY <1>18, ManifestOf
  <1> QED
    BY <1>19, <1>21, <1>22, <1>23, <1>24, <1>25 DEF OneGraph
----------------------------------------------------------------------------
(* The signing loop of approve_policy *)

\* One iteration signs the current transaction and leaves the rest alone.
LEMMA SignNextKeeps ==
  ASSUME WorkspaceInv, SignNext
  PROVE  WorkspaceInv'
PROOF
  <1> DEFINE w == workspace
             m == workspace.manifest
             e == Current
             T == Transactions(m)
             signed == Sign(w.psbts[e.file], "hww", e.vault)
  <1>1. /\ stage = "sign" /\ stage' = "sign" /\ position' = position + 1
        /\ position \in Nat \ {0} /\ position <= Len(T)
        /\ Shaped(w) /\ Materializes(w) /\ OneGraph(m)
        /\ Checked(w) /\ SignedBefore(w, position)
    BY DEF SignNext, Signing, WorkspaceInv
  <1>2. ShapedManifest(m)
    BY <1>1 DEF Shaped
  <1>3. T \in Seq(ToSet(T)) /\ DOMAIN T = 1 .. Len(T) /\ Len(T) \in Nat
    BY <1>2, TransactionsOf
  <1>4. position \in DOMAIN T /\ e = T[position] /\ e \in ToSet(T)
    BY <1>1, <1>3 DEF Current, ToSet
  <1> HIDE DEF e, T
  <1>5. e.file \in DOMAIN w.psbts /\ IsPsbt(w.psbts[e.file])
    BY <1>1, <1>4, FileOf DEF Psbt, T
  <1>6. workspace' = [w EXCEPT !.psbts[e.file] = signed]
    BY DEF SignNext, e
  <1>7. /\ IsPsbt(signed) /\ signed.tx = w.psbts[e.file].tx
        /\ signed.utxos = w.psbts[e.file].utxos
        /\ signed.hash = w.psbts[e.file].hash
        /\ signed.sigs = w.psbts[e.file].sigs
                         \cup {Signature(w.psbts[e.file], "hww", i) : i \in e.vault}
    BY <1>5, SignAdds
  <1> HIDE DEF signed
  <1>8. e.file # RolloverFile => /\ e.vault = {1}
                                 /\ \A s \in signed.sigs : s.input = 1
    <2> SUFFICES ASSUME e.file # RolloverFile, NEW s \in signed.sigs
                 PROVE  e.vault = {1} /\ s.input = 1
      <3>1. e.file # RolloverFile => e.vault = {1}
        BY <1>1, <1>4 DEF Checked, T
      <3> QED
        BY <3>1
    <2>1. e.vault = {1} /\ \A x \in w.psbts[e.file].sigs : x.input # 2
      BY <1>1, <1>4 DEF Checked, Psbt, T
    <2>2. \A x \in w.psbts[e.file].sigs : x.input = 1 \/ x.input = 2
      BY <1>1, <1>5 DEF Shaped, ChildSigs
    <2> QED
      BY <1>7, <2>1, <2>2 DEF Signature
  <1>9. /\ Shaped(workspace')
        /\ workspace'.manifest = m
        /\ workspace'.psbts = [w.psbts EXCEPT ![e.file] = signed]
    <2>1. e.file # RolloverFile => ChildSigs(signed)
      BY <1>8 DEF ChildSigs
    <2> QED
      BY <1>1, <1>5, <1>6, <1>7, <2>1, ReplacedShaped
  <1>10. \A f \in DOMAIN w.psbts :
           workspace'.psbts[f] = IF f = e.file THEN signed ELSE w.psbts[f]
    BY <1>1, <1>9 DEF Shaped
  <1>11. Materializes(workspace')
    BY <1>1, <1>9 DEF Materializes
  <1>12. ASSUME NEW x \in ToSet(T)
         PROVE  /\ x.file \in DOMAIN w.psbts
                /\ Psbt(workspace', x).tx = Psbt(w, x).tx
                /\ Psbt(workspace', x).hash = Psbt(w, x).hash
                /\ Psbt(w, x).sigs \subseteq Psbt(workspace', x).sigs
                /\ \/ x.file # e.file /\ Psbt(workspace', x).sigs = Psbt(w, x).sigs
                   \/ x.file = e.file /\ Psbt(workspace', x).sigs = signed.sigs
    <2>1. x.file \in DOMAIN w.psbts
      BY <1>1, FileOf DEF T
    <2> QED
      BY <2>1, <1>7, <1>10 DEF Psbt
  <1>13. Checked(workspace')
    <2>1. ASSUME NEW x \in ToSet(T)
          PROVE  /\ Psbt(workspace', x).tx.txid = x.txid
                 /\ x.file # RolloverFile =>
                      /\ x.vault = {1}
                      /\ \A s \in Psbt(workspace', x).sigs : s.input # 2
      <3>1. /\ Psbt(w, x).tx.txid = x.txid
            /\ x.file # RolloverFile => /\ x.vault = {1}
                                        /\ \A s \in Psbt(w, x).sigs : s.input # 2
        BY <1>1 DEF Checked, T
      <3> QED
        BY <3>1, <1>8, <1>12
    <2> QED
      BY <2>1, <1>9 DEF Checked, T
  <1>14. SignedBefore(workspace', position + 1)
    <2> SUFFICES ASSUME NEW i \in DOMAIN T, i < position + 1,
                        NEW key \in {"phone", "hww"}, NEW j \in T[i].vault
                 PROVE  Signature(Psbt(workspace', T[i]), key, j)
                          \in Psbt(workspace', T[i]).sigs
      BY <1>9 DEF SignedBefore, T
    <2>1. T[i] \in ToSet(T)
      BY DEF ToSet
    <2>2. Signature(Psbt(workspace', T[i]), key, j) = Signature(Psbt(w, T[i]), key, j)
      BY <2>1, <1>12 DEF Signature
    <2>3. CASE i < position
      <3>1. Signature(Psbt(w, T[i]), key, j) \in Psbt(w, T[i]).sigs
        BY <1>1, <2>3 DEF SignedBefore, T
      <3> QED
        BY <2>1, <2>2, <3>1, <1>12
    <2>4. CASE i = position
      <3>1. T[i] = e /\ Psbt(w, e) = w.psbts[e.file]
        BY <2>4, <1>4 DEF Psbt
      <3>2. CASE key = "phone"
        <4>1. PhoneSigned(w, e)
          BY DEF SignNext, e
        <4>2. Signature(Psbt(w, e), key, j) \in Psbt(w, e).sigs
          BY <3>1, <3>2, <4>1 DEF PhoneSigned, Verified
        <4> QED
          BY <2>1, <2>2, <3>1, <4>2, <1>12
      <3>3. CASE key = "hww"
        <4>1. Signature(Psbt(w, e), key, j) \in signed.sigs
          BY <3>1, <3>3, <1>7
        <4> QED
          BY <2>1, <2>2, <3>1, <4>1, <1>12
      <3> QED
        BY <3>2, <3>3
    <2> QED
      BY <2>3, <2>4, <1>1, <1>3
  <1> QED
    BY <1>1, <1>9, <1>11, <1>13, <1>14 DEF WorkspaceInv

\* What package_from_batch packs after the loop is a shaped package with both
\* signatures everywhere.
LEMMA ApprovedKeeps ==
  ASSUME WorkspaceInv, Approve
  PROVE  \A w \in packages' \ packages : Shaped(w) /\ SignedByBoth(w)
PROOF
  <1> DEFINE w == workspace
             m == workspace.manifest
             v == Packed([w EXCEPT !.manifest.approved.hww = TRUE])
             T == Transactions(m)
  <1> SUFFICES Shaped(v) /\ SignedByBoth(v)
    BY DEF Approve
  <1>1. /\ position \in Nat \ {0} /\ position > Len(T)
        /\ Shaped(w) /\ Materializes(w) /\ OneGraph(m)
        /\ Checked(w) /\ SignedBefore(w, position)
    BY DEF Approve, WorkspaceInv
  <1>2. ShapedManifest(m)
    BY <1>1 DEF Shaped
  <1>3. T \in Seq(ToSet(T)) /\ DOMAIN T = 1 .. Len(T) /\ Len(T) \in Nat
    BY <1>2, TransactionsOf
  <1>4. SignedByBoth(w)
    <2>1. ASSUME NEW e \in ToSet(T), NEW key \in {"phone", "hww"}, NEW j \in e.vault
          PROVE  Signature(Psbt(w, e), key, j) \in Psbt(w, e).sigs
      <3>1. PICK i \in DOMAIN T : e = T[i]
        BY DEF ToSet
      <3>2. i < position
        BY <1>1, <1>3
      <3> QED
        BY <1>1, <2>1, <3>1, <3>2 DEF SignedBefore
    <2> QED
      BY <1>1, <2>1, CheckedIsSigned
  <1> DEFINE a == [m EXCEPT !.approved.hww = TRUE]
  <1>5. [w EXCEPT !.manifest.approved.hww = TRUE] = [manifest |-> a, psbts |-> w.psbts]
    <2>1. w = [manifest |-> m, psbts |-> w.psbts]
      BY <1>1 DEF Shaped
    <2>2. [w EXCEPT !.manifest.approved.hww = TRUE] = [w EXCEPT !.manifest = a]
      OBVIOUS
    <2> HIDE DEF a
    <2> QED
      BY <2>1, <2>2
  <1>6. /\ ShapedManifest(a)
        /\ \A x \in Fields \ {"approved"} : a[x] = m[x]
    <2>1. a = [x \in Fields |-> IF x = "approved" THEN [phone |-> m.approved.phone, hww |-> TRUE]
                                                  ELSE m[x]]
      <3> DEFINE b == [m.approved EXCEPT !.hww = TRUE]
      <3>1. b = [phone |-> m.approved.phone, hww |-> TRUE]
        <4>1. PICK x, y : m.approved = [phone |-> x, hww |-> y]
          BY <1>2 DEF ShapedManifest
        <4>2. b = [[phone |-> x, hww |-> y] EXCEPT !.hww = TRUE] /\ m.approved.phone = x
          BY <4>1
        <4>3. ASSUME NEW z
              PROVE  [[phone |-> x, hww |-> y] EXCEPT !.hww = z] = [phone |-> x, hww |-> z]
          OBVIOUS
        <4>4. [[phone |-> x, hww |-> y] EXCEPT !.hww = TRUE] = [phone |-> x, hww |-> TRUE]
          BY <4>3, Zenon
        <4> HIDE DEF b
        <4> QED
          BY <4>2, <4>4, Zenon
      <3>2. a = [m EXCEPT !["approved"] = b]
        OBVIOUS
      <3> HIDE DEF b
      <3>3. m = [x \in Fields |-> m[x]]
        BY <1>2 DEF ShapedManifest
      <3> QED
        BY <3>1, <3>2, <3>3
    <2> HIDE DEF a
    <2>2. /\ a.approved = [phone |-> m.approved.phone, hww |-> TRUE]
          /\ a.rollover = m.rollover /\ a.allowances = m.allowances /\ a.access = m.access
      BY <2>1 DEF Fields
    <2>3. a = [x \in Fields |-> a[x]]
      BY <2>1
    <2> QED
      BY <1>2, <2>1, <2>2, <2>3, Zenon DEF ShapedManifest
  <1> HIDE DEF a
  <1>7. a.rollover = m.rollover /\ a.allowances = m.allowances /\ a.access = m.access
    BY <1>6 DEF Fields
  <1>8. Transactions(a) = T /\ FilesOf(a) = DOMAIN w.psbts
    <2>1. Transactions(a) = T
      BY <1>7 DEF Transactions
    <2> QED
      BY <2>1, <1>1 DEF Materializes, FilesOf
  <1>9. v = [manifest |-> a, psbts |-> w.psbts]
    <2>1. w.psbts = [f \in DOMAIN w.psbts |-> w.psbts[f]]
      BY <1>1 DEF Shaped
    <2> QED
      BY <1>5, <1>8, <2>1 DEF Packed
  <1> HIDE DEF v, T
  <1>10. Shaped(v)
    <2>1. FromProposals(v)
      BY <1>1, <1>6, <1>9 DEF Shaped, FromProposals
    <2> QED
      BY <1>1, <1>6, <1>9, <2>1 DEF Shaped
  <1>11. v.manifest = a /\ \A e : Psbt(v, e) = Psbt(w, e)
    BY <1>9 DEF Psbt
  <1>12. SignedByBoth(v)
    BY <1>4, <1>8, <1>11 DEF SignedByBoth, T
  <1> QED
    BY <1>10, <1>12

----------------------------------------------------------------------------
(* The invariant *)

\* The proposals are the packages that exist at first.
LEMMA InitInv ==
  ASSUME Init
  PROVE  Inv
PROOF
  <1>1. PackagesInv
    BY ProposedShaped DEF Init, PackagesInv, ApprovedIsSigned
  <1>2. WorkspaceInv
    BY DEF Init, WorkspaceInv
  <1>3. FundedIsApproved
    BY DEF Init, FundedIsApproved
  <1> QED
    BY <1>1, <1>2, <1>3 DEF Inv

\* Every step of either device keeps the invariant.
LEMMA NextInv ==
  ASSUME Inv, [Next]_vars
  PROVE  Inv'
PROOF
  <1> USE DEF Inv
  <1>1. ASSUME NEW d \in {"phone", "hww"}, ReadMixed(d) \/ ReadUsed(d)
        PROVE  Inv'
    <2>1. PICK w : Shaped(w) /\ Read(d, w)
      BY <1>1, ReadShaped DEF PackagesInv
    <2>2. /\ packages' = packages /\ accepted' = accepted /\ workspace' = w
          /\ position' = 1
          /\ stage' = IF Materializes(w) THEN "arrived" ELSE "refused"
      BY <2>1 DEF Read
    <2>3. PackagesInv' /\ FundedIsApproved'
      BY <2>2 DEF PackagesInv, ApprovedIsSigned, FundedIsApproved
    <2>4. WorkspaceInv'
      BY <2>1, <2>2 DEF WorkspaceInv
    <2> QED
      BY <2>3, <2>4
  <1>2. CASE Review
    <2>1. PackagesInv' /\ FundedIsApproved'
      BY <1>2 DEF Review, PackagesInv, ApprovedIsSigned, FundedIsApproved
    <2>2. /\ stage = "arrived" /\ stage' = "sign" /\ workspace' = workspace
          /\ position' = position /\ ValidBatch(workspace)
      BY <1>2 DEF Review
    <2>3. Checked(workspace) /\ OneGraph(workspace.manifest)
      BY <2>2, ValidIsChecked, ValidIsOneGraph DEF WorkspaceInv
    <2>4. SignedBefore(workspace, position)
      <3>1. ShapedManifest(workspace.manifest) /\ position = 1
        BY <2>2 DEF WorkspaceInv, Shaped
      <3>2. DOMAIN Transactions(workspace.manifest) \subseteq Nat \ {0}
        BY <3>1, TransactionsOf
      <3> QED
        BY <3>1, <3>2 DEF SignedBefore
    <2> QED
      BY <2>1, <2>2, <2>3, <2>4 DEF WorkspaceInv
  <1>3. CASE RefuseReview \/ RefuseSignature \/ RefuseActivation
    <2>1. Refuse
      BY <1>3 DEF RefuseReview, RefuseSignature, RefuseActivation
    <2> QED
      BY <2>1 DEF Refuse, PackagesInv, ApprovedIsSigned, FundedIsApproved, WorkspaceInv
  <1>4. CASE SignNext
    <2>1. WorkspaceInv'
      BY <1>4, SignNextKeeps
    <2> QED
      BY <1>4, <2>1 DEF SignNext, PackagesInv, ApprovedIsSigned, FundedIsApproved
  <1>5. CASE Approve
    <2>1. \A w \in packages' : Shaped(w) /\ (w.manifest.approved.hww => SignedByBoth(w))
      BY <1>5, ApprovedKeeps DEF PackagesInv, ApprovedIsSigned
    <2>2. WorkspaceInv' /\ FundedIsApproved'
      BY <1>5 DEF Approve, End, WorkspaceInv, FundedIsApproved
    <2> QED
      BY <2>1, <2>2 DEF PackagesInv, ApprovedIsSigned
  <1>6. CASE Accept
    <2>1. Shaped(workspace) /\ Materializes(workspace) /\ ValidApproved(workspace)
      BY <1>6 DEF Accept, WorkspaceInv
    <2>2. Checked(workspace)
      BY <2>1, ValidIsChecked DEF ValidApproved
    <2>3. SignedByBoth(workspace)
      BY <2>1, <2>2, CheckedIsSigned DEF ValidApproved, Verified
    <2>4. OneGraph(workspace.manifest)
      BY <2>1, ValidIsOneGraph DEF ValidApproved
    <2>5. FundedIsApproved'
      BY <1>6, <2>3, <2>4 DEF Accept, FundedIsApproved
    <2> QED
      BY <1>6, <2>5 DEF Accept, End, PackagesInv, ApprovedIsSigned, WorkspaceInv
  <1>7. CASE Interrupt \/ Dismiss
    BY <1>7 DEF Interrupt, Dismiss, End, PackagesInv, ApprovedIsSigned, FundedIsApproved,
                WorkspaceInv
  <1>8. CASE UNCHANGED vars
    BY <1>8 DEF vars, PackagesInv, ApprovedIsSigned, FundedIsApproved, WorkspaceInv
  <1> QED
    BY <1>1, <1>2, <1>3, <1>4, <1>5, <1>6, <1>7, <1>8 DEF Next

\* The invariant holds in every state of the hand-off.
THEOREM Invariant == Spec => []Inv
  BY InitInv, NextInv, PTL DEF Spec

\* A package marked as approved carries both signatures on every vault input
\* of every transaction and none on a new connector, however often the signing
\* loop of approve_policy was interrupted and whatever was mixed before it.
THEOREM ApprovedSigned == Spec => []ApprovedIsSigned
PROOF
  <1>1. Inv => ApprovedIsSigned
    BY DEF Inv, PackagesInv
  <1> QED
    BY <1>1, Invariant, PTL

\* The phone accepts for funding only one graph of the configured vault, with
\* both signatures on every vault input and none on a new connector
\* (validate_approved_batch).
THEOREM FundedApproved == Spec => []FundedIsApproved
PROOF
  <1>1. Inv => FundedIsApproved
    BY DEF Inv
  <1> QED
    BY <1>1, Invariant, PTL

\* Whatever was mixed up on the way, each signature of the HWW is for a
\* transaction of one graph that belongs together, under the limits and
\* addresses on its screen, and with the txid that the manifest names.
THEOREM SignsShown == Spec => SignsOnlyShown
PROOF
  <1>1. ASSUME Inv, [Next]_vars
        PROVE  [position' > position =>
                  /\ OneGraph(workspace.manifest)
                  /\ Psbt(workspace, Current).tx.txid = Current.txid]_vars
    <2> SUFFICES ASSUME Next, position' > position
                 PROVE  /\ OneGraph(workspace.manifest)
                        /\ Psbt(workspace, Current).tx.txid = Current.txid
      BY <1>1
    <2>1. SignNext
      <3>1. position \in Nat \ {0}
        BY <1>1 DEF Inv, WorkspaceInv
      <3>2. position' = 1 \/ position' = position \/ SignNext
        BY DEF Next, ReadMixed, ReadUsed, Read, Review, RefuseReview, RefuseSignature, Refuse,
               Approve, Accept, RefuseActivation, Interrupt, Dismiss, End
      <3> QED
        BY <3>1, <3>2
    <2>2. /\ Shaped(workspace) /\ OneGraph(workspace.manifest) /\ Checked(workspace)
          /\ position \in Nat \ {0}
          /\ position <= Len(Transactions(workspace.manifest))
      BY <1>1, <2>1 DEF SignNext, Signing, Inv, WorkspaceInv
    <2>3. /\ DOMAIN Transactions(workspace.manifest)
               = 1 .. Len(Transactions(workspace.manifest))
          /\ Len(Transactions(workspace.manifest)) \in Nat
      BY <2>2, TransactionsOf DEF Shaped
    <2>4. Current \in ToSet(Transactions(workspace.manifest))
      BY <2>2, <2>3 DEF Current, ToSet
    <2> QED
      BY <2>2, <2>4 DEF Checked
  <1> QED
    BY <1>1, Invariant, PTL DEF Spec, SignsOnlyShown

----------------------------------------------------------------------------
(* Amounts of what the phone builds *)

\* The sum of a transaction's outputs.
LEMMA OutputSumOf ==
  ASSUME NEW outs, NEW n \in 0 .. 4, DOMAIN outs = 1 .. n,
         \A i \in 1 .. n : outs[i].value \in Nat
  PROVE  /\ n = 1 => OutputSum(outs) = outs[1].value
         /\ n = 2 => OutputSum(outs) = outs[1].value + outs[2].value
         /\ n = 3 => OutputSum(outs) = outs[1].value + outs[2].value + outs[3].value
         /\ n = 4 => OutputSum(outs) = outs[1].value + outs[2].value + outs[3].value
                                       + outs[4].value
         /\ n = 0 => OutputSum(outs) = 0
PROOF
  <1> DEFINE f == [i \in 1 .. n |-> outs[i].value]
  <1>1. f \in [1 .. n -> Nat] /\ \A i \in 1 .. n : f[i] = outs[i].value
    OBVIOUS
  <1>2. OutputSum(outs) = Total(f)
    BY DEF OutputSum, InputSum, Total
  <1> HIDE DEF f
  <1>3. /\ n = 1 => Total(f) = f[1]
        /\ n = 2 => Total(f) = f[1] + f[2]
        /\ n = 3 => Total(f) = f[1] + f[2] + f[3]
        /\ n = 4 => Total(f) = f[1] + f[2] + f[3] + f[4]
    BY <1>1, TotalUpToFour
  <1>4. n = 0 => Total(f) = 0
    <2>1. PICK D : D = 1 .. n
      OBVIOUS
    <2>2. IsFiniteSet(D) /\ f \in [D -> Nat]
      <3>1. IsFiniteSet(1 .. n)
        BY FS_Interval
      <3> QED
        BY <1>1, <2>1, <3>1
    <2>3. ASSUME n = 0 PROVE \A x \in D : f[x] = 0
      BY <2>1, <2>3
    <2> QED
      BY <2>2, <2>3, TotalZero
  <1> QED
    BY <1>1, <1>2, <1>3, <1>4

\* The sum of the inputs of a role.
LEMMA InputSumType ==
  ASSUME NEW utxos, NEW a \in Nat, NEW b \in Nat,
         \A i \in a .. b : utxos[i].value \in Nat
  PROVE  InputSum(utxos, a .. b) \in Nat
PROOF
  <1> DEFINE f == [i \in a .. b |-> utxos[i].value]
  <1>1. InputSum(utxos, a .. b) = Total(f)
    BY DEF InputSum, Total
  <1>2. PICK D : D = a .. b
    OBVIOUS
  <1>3. IsFiniteSet(D) /\ f \in [D -> Nat]
    <2>1. IsFiniteSet(a .. b)
      BY FS_Interval
    <2> QED
      BY <1>2, <2>1
  <1> HIDE DEF f
  <1> QED
    BY <1>1, <1>3, TotalType

\* The rollover of a proposal spends coins of the vault and old connectors,
\* creates the outputs that validate_batch expects, and balances.
LEMMA RolloverBuilt ==
  ASSUME NEW p \in Proposals
  PROVE  /\ Rollover(p).tx.ins # <<>> /\ DOMAIN Rollover(p).tx.ins = 1 .. Inputs(p)
         /\ \A i \in 1 .. Coins(p) : Rollover(p).utxos[i].script = VaultScript(p.vault)
         /\ \A i \in Coins(p) + 1 .. Inputs(p) :
              Rollover(p).utxos[i].script = ControllerScript(p.vault)
         /\ OutputSum(Rollover(p).tx.outs) + Fee(Rollover(p).tx)
              = InputSum(Rollover(p).utxos, 1 .. Coins(p))
                + InputSum(Rollover(p).utxos, Coins(p) + 1 .. Inputs(p))
         /\ p.count > 0 =>
              Rollover(p).tx.outs[3] = Out(ControllerScript(p.vault), Connector)
         /\ p.emergency > 0 =>
              Rollover(p).tx.outs[Outputs(p)] = Out(ControllerScript(p.vault), Connector)
         /\ Rollover(p).tx.outs[RemainderVout(p)]
              = Out(VaultScript(p.vault), Rollover(p).tx.outs[RemainderVout(p)].value)
         /\ Rollover(p).tx.outs[RemainderVout(p)].value \in Nat
PROOF
  <1> DEFINE utxos == p.coins \o p.connectors
             ins   == [i \in DOMAIN utxos |->
                         In(utxos[i].txid, 1, IF i <= Len(p.coins) THEN Final ELSE Rbf)]
             outs  == [i \in DOMAIN utxos |-> utxos[i].out]
             chain == If(p.count > 0, <<Out(VaultScript(p.vault), ChainValue(p, 1))>>)
             connector  == <<Out(ControllerScript(p.vault), Connector)>>
             connectors == If(p.count > 0, connector) \o If(p.emergency > 0, connector)
             fee   == Len(ins) + Len(chain) + 1 + Len(connectors)
             vault == InputSum(outs, 1 .. Len(p.coins))
             controller == InputSum(outs, Len(p.coins) + 1 .. Len(outs))
             total == vault + controller
             placed == OutputSum(chain \o connectors)
             remainder == total - placed - fee
             txouts == chain \o <<Out(VaultScript(p.vault), remainder)>> \o connectors
  <1>1. /\ Rollover(p).tx.ins = ins /\ Rollover(p).tx.outs = txouts
        /\ Rollover(p).utxos = outs
    BY DEF Rollover, NewPsbt, Tx
  <1>2. /\ p.coins \in Seq(ToSet(p.coins)) /\ p.connectors \in Seq(ToSet(p.connectors))
        /\ p.count \in Nat /\ p.emergency \in Nat /\ Connector \in Nat /\ Dust \in Nat
    BY PackageAssumption
  <1>3. p.count > 0 => ChainValue(p, 1) \in Nat
    BY <1>2, FundedAssumption
  <1>4. /\ Coins(p) \in Nat \ {0} /\ Connectors(p) \in Nat
        /\ Coins(p) = Len(p.coins)
        /\ DOMAIN utxos = 1 .. Coins(p) + Connectors(p)
        /\ \A i \in 1 .. Coins(p) : utxos[i] = p.coins[i]
        /\ \A i \in Coins(p) + 1 .. Coins(p) + Connectors(p) :
             utxos[i] = p.connectors[i - Coins(p)]
    <2> DEFINE S == ToSet(p.coins) \cup ToSet(p.connectors)
    <2>1. p.coins \in Seq(S) /\ p.connectors \in Seq(S)
      BY <1>2
    <2>2. utxos \in Seq(S) /\ Len(utxos) = Coins(p) + Connectors(p)
      BY <2>1 DEF Coins, Connectors
    <2>3. /\ \A i \in 1 .. Coins(p) : utxos[i] = p.coins[i]
          /\ \A i \in Coins(p) + 1 .. Coins(p) + Connectors(p) :
               utxos[i] = p.connectors[i - Coins(p)]
      <3>1. \A i \in 1 .. Len(p.coins) + Len(p.connectors) :
              utxos[i] = IF i <= Len(p.coins) THEN p.coins[i] ELSE p.connectors[i - Len(p.coins)]
        BY <2>1, ConcatProperties
      <3>2. PICK c \in Nat, k \in Nat : c = Len(p.coins) /\ k = Len(p.connectors)
        BY <2>1
      <3> HIDE DEF utxos
      <3>3. \A i \in 1 .. c + k : utxos[i] = IF i <= c THEN p.coins[i] ELSE p.connectors[i - c]
        BY <3>1, <3>2
      <3>4. \A i \in 1 .. c : utxos[i] = p.coins[i]
        BY <3>3
      <3>5. \A i \in c + 1 .. c + k : utxos[i] = p.connectors[i - c]
        BY <3>3
      <3> QED
        BY <3>2, <3>4, <3>5 DEF Coins, Connectors
    <2>4. Coins(p) \in Nat /\ Connectors(p) \in Nat
      BY <2>1 DEF Coins, Connectors
    <2>5. p.coins # <<>>
      BY FundedAssumption
    <2>6. Coins(p) # 0
      BY <1>2, <2>5, EmptySeq DEF Coins
    <2> HIDE DEF S, utxos
    <2> QED
      BY <2>2, <2>3, <2>4, <2>6 DEF Coins
  <1> HIDE DEF utxos
  <1>5. /\ Len(ins) = Coins(p) + Connectors(p) /\ Len(outs) = Len(ins)
        /\ DOMAIN ins = 1 .. Len(ins) /\ ins # <<>>
        /\ \A i \in 1 .. Coins(p) + Connectors(p) : outs[i] = utxos[i].out
    BY <1>4
  <1> HIDE DEF ins, outs
  <1>6. \A i \in 1 .. Coins(p) :
          outs[i].script = VaultScript(p.vault) /\ outs[i].value \in Nat
    <2>1. \A i \in 1 .. Coins(p) : i \in DOMAIN p.coins
      BY <1>2 DEF Coins
    <2>2. \A i \in 1 .. Coins(p) : outs[i] = p.coins[i].out
      BY <1>4, <1>5
    <2> QED
      BY <2>1, <2>2, FundedAssumption
  <1>7. \A i \in Coins(p) + 1 .. Coins(p) + Connectors(p) :
          outs[i].script = ControllerScript(p.vault) /\ outs[i].value \in Nat
    <2>1. \A i \in Coins(p) + 1 .. Coins(p) + Connectors(p) :
            i - Coins(p) \in DOMAIN p.connectors
      <3>1. DOMAIN p.connectors = 1 .. Connectors(p)
        BY <1>2 DEF Connectors
      <3> QED
        BY <1>4, <3>1
    <2>2. \A i \in Coins(p) + 1 .. Coins(p) + Connectors(p) :
            outs[i] = p.connectors[i - Coins(p)].out
      <3>1. PICK c, k : c = Coins(p) /\ k = Connectors(p)
        OBVIOUS
      <3>2. ASSUME NEW i \in c + 1 .. c + k
            PROVE  outs[i] = p.connectors[i - c].out
        <4>1. i \in 1 .. c + k /\ i \in c + 1 .. c + k
          BY <1>4, <3>1, <3>2
        <4>2. outs[i] = utxos[i].out
          BY <1>5, <3>1, <4>1
        <4>3. utxos[i] = p.connectors[i - c]
          BY <1>4, <3>1, <4>1
        <4> QED
          BY <4>2, <4>3
      <3> QED
        BY <3>1, <3>2
    <2> QED
      BY <2>1, <2>2, FundedAssumption
  <1>8. vault \in Nat /\ controller \in Nat
    <2>1. vault \in Nat
      BY <1>4, <1>6, InputSumType
    <2>2. controller \in Nat
      <3>1. PICK a, b : a = Coins(p) + 1 /\ b = Coins(p) + Connectors(p)
        OBVIOUS
      <3>2. a \in Nat /\ b \in Nat /\ \A i \in a .. b : outs[i].value \in Nat
        BY <1>4, <1>7, <3>1
      <3>3. InputSum(outs, a .. b) \in Nat
        BY <3>2, InputSumType
      <3> QED
        BY <1>4, <1>5, <3>1, <3>3
    <2> QED
      BY <2>1, <2>2
  <1> HIDE DEF vault, controller
  <1>9. /\ placed \in Nat
        /\ placed = (IF p.count > 0 THEN ChainValue(p, 1) + Connector ELSE 0)
                    + (IF p.emergency > 0 THEN Connector ELSE 0)
        /\ Len(chain) = (IF p.count > 0 THEN 1 ELSE 0)
        /\ Len(connectors) = (IF p.count > 0 THEN 1 ELSE 0) + (IF p.emergency > 0 THEN 1 ELSE 0)
    <2> DEFINE s == chain \o connectors
    <2>0. placed = OutputSum(s)
      OBVIOUS
    <2> HIDE DEF placed
    <2>1. CASE p.count > 0 /\ p.emergency > 0
      <3>1. /\ DOMAIN s = 1 .. 3 /\ s[1].value = ChainValue(p, 1)
            /\ s[2].value = Connector /\ s[3].value = Connector
            /\ Len(chain) = 1 /\ Len(connectors) = 2
        BY <2>1 DEF If, Out
      <3> HIDE DEF s
      <3>2. \A i \in 1 .. 3 : s[i].value \in Nat
        BY <3>1, <2>1, <1>2, <1>3
      <3>3. OutputSum(s) = s[1].value + s[2].value + s[3].value
        BY <3>1, <3>2, OutputSumOf
      <3> HIDE DEF chain, connectors
      <3> QED
        BY <2>0, <2>1, <3>1, <3>3, <1>2, <1>3
    <2>2. CASE p.count > 0 /\ ~(p.emergency > 0)
      <3>1. /\ DOMAIN s = 1 .. 2 /\ s[1].value = ChainValue(p, 1)
            /\ s[2].value = Connector
            /\ Len(chain) = 1 /\ Len(connectors) = 1
        BY <2>2 DEF If, Out
      <3> HIDE DEF s
      <3>2. \A i \in 1 .. 2 : s[i].value \in Nat
        BY <3>1, <2>2, <1>2, <1>3
      <3>3. OutputSum(s) = s[1].value + s[2].value
        BY <3>1, <3>2, OutputSumOf
      <3> HIDE DEF chain, connectors
      <3> QED
        BY <2>0, <2>2, <3>1, <3>3, <1>2, <1>3
    <2>3. CASE ~(p.count > 0) /\ p.emergency > 0
      <3>1. /\ DOMAIN s = 1 .. 1 /\ s[1].value = Connector
            /\ Len(chain) = 0 /\ Len(connectors) = 1
        BY <2>3 DEF If, Out
      <3> HIDE DEF s
      <3>2. \A i \in 1 .. 1 : s[i].value \in Nat
        BY <3>1, <2>3, <1>2
      <3>3. OutputSum(s) = s[1].value
        BY <3>1, <3>2, OutputSumOf
      <3> HIDE DEF chain, connectors
      <3> QED
        BY <2>0, <2>3, <3>1, <3>3, <1>2
    <2>4. CASE ~(p.count > 0) /\ ~(p.emergency > 0)
      <3>1. DOMAIN s = 1 .. 0 /\ Len(chain) = 0 /\ Len(connectors) = 0
        BY <2>4 DEF If
      <3> HIDE DEF s
      <3>2. OutputSum(s) = 0
        BY <3>1, OutputSumOf
      <3> HIDE DEF chain, connectors
      <3> QED
        BY <2>0, <2>4, <3>1, <3>2
    <2> QED
      BY <2>1, <2>2, <2>3, <2>4
  <1> HIDE DEF placed, chain, connectors
  <1>10. PICK r : r = remainder
    OBVIOUS
  <1>11. r \in Int /\ r + placed + fee = vault + controller /\ fee \in Nat
    <2>1. Len(chain) \in Nat /\ Len(connectors) \in Nat
      BY <1>9
    <2>2. PICK n \in Nat : n = Len(ins)
      BY <1>4, <1>5
    <2>3. fee \in Nat
      BY <2>1, <2>2
    <2> HIDE DEF fee
    <2> QED
      BY <1>8, <1>9, <1>10, <2>3
  <1> HIDE DEF remainder, fee
  <1>12. /\ txouts[RemainderVout(p)] = Out(VaultScript(p.vault), r)
         /\ p.count > 0 => txouts[3] = Out(ControllerScript(p.vault), Connector)
         /\ p.emergency > 0 =>
              txouts[Len(txouts)] = Out(ControllerScript(p.vault), Connector)
    <2>1. CASE p.count > 0 /\ p.emergency > 0
      BY <2>1, <1>10 DEF If, chain, connectors, RemainderVout
    <2>2. CASE p.count > 0 /\ ~(p.emergency > 0)
      BY <2>2, <1>10 DEF If, chain, connectors, RemainderVout
    <2>3. CASE ~(p.count > 0) /\ p.emergency > 0
      BY <2>3, <1>10 DEF If, chain, connectors, RemainderVout
    <2>4. CASE ~(p.count > 0) /\ ~(p.emergency > 0)
      BY <2>4, <1>10 DEF If, chain, connectors, RemainderVout
    <2> QED
      BY <2>1, <2>2, <2>3, <2>4
  <1>13. r \in Nat
    <2>1. r >= Dust
      <3>1. txouts[RemainderVout(p)].value >= Dust
        BY <1>1, FundedAssumption
      <3> HIDE DEF txouts
      <3> QED
        BY <3>1, <1>12 DEF Out
    <2> QED
      BY <2>1, <1>2, <1>11
  <1>14. /\ OutputSum(txouts) = placed + r
         /\ Len(txouts) = Len(chain) + 1 + Len(connectors)
    <2>1. CASE p.count > 0 /\ p.emergency > 0
      <3>1. /\ DOMAIN txouts = 1 .. 4 /\ txouts[1].value = ChainValue(p, 1)
            /\ txouts[2].value = r
            /\ txouts[3].value = Connector /\ txouts[4].value = Connector
            /\ Len(txouts) = 4
        BY <2>1, <1>10 DEF If, chain, connectors, Out
      <3> HIDE DEF txouts, chain, connectors
      <3>2. \A i \in 1 .. 4 : txouts[i].value \in Nat
        BY <3>1, <2>1, <1>2, <1>3, <1>13
      <3>3. OutputSum(txouts)
              = txouts[1].value + txouts[2].value + txouts[3].value + txouts[4].value
        BY <3>1, <3>2, OutputSumOf
      <3> QED
        BY <2>1, <3>1, <3>3, <1>2, <1>3, <1>9, <1>13
    <2>2. CASE p.count > 0 /\ ~(p.emergency > 0)
      <3>1. /\ DOMAIN txouts = 1 .. 3 /\ txouts[1].value = ChainValue(p, 1)
            /\ txouts[2].value = r /\ txouts[3].value = Connector
            /\ Len(txouts) = 3
        BY <2>2, <1>10 DEF If, chain, connectors, Out
      <3> HIDE DEF txouts, chain, connectors
      <3>2. \A i \in 1 .. 3 : txouts[i].value \in Nat
        BY <3>1, <2>2, <1>2, <1>3, <1>13
      <3>3. OutputSum(txouts) = txouts[1].value + txouts[2].value + txouts[3].value
        BY <3>1, <3>2, OutputSumOf
      <3> QED
        BY <2>2, <3>1, <3>3, <1>2, <1>3, <1>9, <1>13
    <2>3. CASE ~(p.count > 0) /\ p.emergency > 0
      <3>1. /\ DOMAIN txouts = 1 .. 2
            /\ txouts[1].value = r /\ txouts[2].value = Connector
            /\ Len(txouts) = 2
        BY <2>3, <1>10 DEF If, chain, connectors, Out
      <3> HIDE DEF txouts, chain, connectors
      <3>2. \A i \in 1 .. 2 : txouts[i].value \in Nat
        BY <3>1, <2>3, <1>2, <1>13
      <3>3. OutputSum(txouts) = txouts[1].value + txouts[2].value
        BY <3>1, <3>2, OutputSumOf
      <3> QED
        BY <2>3, <3>1, <3>3, <1>2, <1>9, <1>13
    <2>4. CASE ~(p.count > 0) /\ ~(p.emergency > 0)
      <3>1. DOMAIN txouts = 1 .. 1 /\ txouts[1].value = r /\ Len(txouts) = 1
        BY <2>4, <1>10 DEF If, chain, connectors, Out
      <3> HIDE DEF txouts, chain, connectors
      <3>2. \A i \in 1 .. 1 : txouts[i].value \in Nat
        BY <3>1, <2>4, <1>2, <1>13
      <3>3. OutputSum(txouts) = txouts[1].value
        BY <3>1, <3>2, OutputSumOf
      <3> QED
        BY <2>4, <3>1, <3>3, <1>2, <1>9, <1>13
    <2> QED
      BY <2>1, <2>2, <2>3, <2>4
  <1> HIDE DEF txouts
  <1>15. Inputs(p) = Len(ins) /\ Outputs(p) = Len(txouts) /\ Fee(Rollover(p).tx) = fee
    <2>1. Inputs(p) = Len(ins) /\ Outputs(p) = Len(txouts)
      BY <1>1 DEF Inputs, Outputs
    <2>2. Fee(Rollover(p).tx) = Len(ins) + Len(txouts)
      BY <1>1 DEF Fee
    <2>3. Len(chain) \in Nat /\ Len(connectors) \in Nat
      BY <1>9
    <2>4. PICK n \in Nat : n = Len(ins)
      BY <1>4, <1>5
    <2> QED
      BY <1>14, <2>1, <2>2, <2>3, <2>4 DEF fee
  <1>16. /\ InputSum(Rollover(p).utxos, 1 .. Coins(p)) = vault
         /\ InputSum(Rollover(p).utxos, Coins(p) + 1 .. Inputs(p)) = controller
    BY <1>1, <1>4, <1>5, <1>15 DEF vault, controller
  <1>17. OutputSum(Rollover(p).tx.outs) + Fee(Rollover(p).tx) = vault + controller
    BY <1>1, <1>8, <1>9, <1>11, <1>13, <1>14, <1>15
  <1>18. /\ Rollover(p).tx.outs[RemainderVout(p)].value = r
         /\ Rollover(p).tx.outs[RemainderVout(p)] = Out(VaultScript(p.vault), r)
    BY <1>1, <1>12 DEF Out
  <1> QED
    BY <1>1, <1>5, <1>6, <1>7, <1>12, <1>13, <1>15, <1>16, <1>17, <1>18

\* The transaction whose outputs step i of the chain spends.
Source(p, i) == IF i = 1 THEN Rollover(p).tx ELSE Authorizations(p)[i - 1].tx

\* The recursion of Authorizations defines a function: each step spends the
\* outputs of the step before it.
LEMMA AuthorizationsOf ==
  ASSUME NEW p \in Proposals, NEW i \in 1 .. p.count
  PROVE  Authorizations(p)[i] = Authorization(p, i, Source(p, i))
PROOF
  <1> DEFINE After(x, n) == Authorization(p, n - 1, x).tx
             R == Rollover(p).tx
             Upto(m) == \E v : v = [n \in 1 .. m |-> IF n = 1 THEN R ELSE After(v[n - 1], n)]
             S == {m \in 0 .. p.count : Upto(m)}
  <1>1. p.count \in Nat
    BY PackageAssumption
  <1> HIDE DEF After, R
  <1>2. 0 \in S
    <2> DEFINE v == [n \in 1 .. 0 |-> R]
    <2>1. v = [n \in 1 .. 0 |-> IF n = 1 THEN R ELSE After(v[n - 1], n)]
      OBVIOUS
    <2>2. Upto(0)
      <3> HIDE DEF v
      <3> QED
        BY <2>1
    <2>3. 0 \in 0 .. p.count
      BY <1>1
    <2> QED
      BY <2>2, <2>3
  <1>3. ASSUME NEW m \in 0 .. p.count - 1, m \in S PROVE m + 1 \in S
    <2>1. PICK v : v = [n \in 1 .. m |-> IF n = 1 THEN R ELSE After(v[n - 1], n)]
      BY <1>3
    <2> DEFINE last == IF m = 0 THEN R ELSE After(v[m], m + 1)
               u == [n \in 1 .. m + 1 |-> IF n = m + 1 THEN last ELSE v[n]]
    <2>2. \A n \in 1 .. m : u[n] = v[n]
      OBVIOUS
    <2>3. ASSUME NEW n \in 1 .. m + 1
          PROVE  u[n] = IF n = 1 THEN R ELSE After(u[n - 1], n)
      <3>1. CASE n = m + 1
        <4>1. u[n] = last
          BY <3>1
        <4>2. m # 0 => u[n - 1] = v[m] /\ n - 1 = m
          BY <2>2, <3>1
        <4> HIDE DEF u
        <4> QED
          BY <3>1, <4>1, <4>2
      <3>2. CASE n # m + 1
        <4>1. n \in 1 .. m
          BY <3>2
        <4>2. u[n] = v[n]
          BY <4>1, <2>2
        <4>3. v[n] = IF n = 1 THEN R ELSE After(v[n - 1], n)
          BY <2>1, <4>1
        <4>4. n # 1 => v[n - 1] = u[n - 1]
          BY <2>2, <4>1
        <4> HIDE DEF u
        <4> QED
          BY <4>2, <4>3, <4>4
      <3> QED
        BY <3>1, <3>2
    <2>4. u = [n \in 1 .. m + 1 |-> IF n = 1 THEN R ELSE After(u[n - 1], n)]
      <3>1. DOMAIN u = 1 .. m + 1 /\ u = [n \in 1 .. m + 1 |-> u[n]]
        OBVIOUS
      <3> HIDE DEF u
      <3> QED
        BY <2>3, <3>1
    <2>5. Upto(m + 1)
      <3> HIDE DEF u
      <3> QED
        BY <2>4
    <2>6. m + 1 \in 0 .. p.count
      BY <1>1
    <2> QED
      BY <2>5, <2>6
  <1>4. Upto(p.count)
    <2> HIDE DEF Upto
    <2>1. 0 .. p.count \subseteq S
      BY <1>1, <1>2, <1>3, Induction
    <2> QED
      BY <1>1, <2>1
  <1>5. PICK v : /\ v = [n \in 1 .. p.count |-> IF n = 1 THEN R ELSE After(v[n - 1], n)]
                 /\ Authorizations(p) = [n \in 1 .. p.count |-> Authorization(p, n, v[n])]
    BY <1>4, Zenon DEF Authorizations, After, R
  <1>6. \A n \in 1 .. p.count : Authorizations(p)[n] = Authorization(p, n, v[n])
    BY <1>5
  <1>7. CASE i = 1
    <2>1. v[i] = R
      BY <1>5, <1>7
    <2> QED
      BY <1>6, <1>7, <2>1 DEF Source, R
  <1>8. CASE i # 1
    <2>1. i - 1 \in 1 .. p.count
      BY <1>1, <1>8
    <2>2. v[i] = After(v[i - 1], i)
      BY <1>5, <1>8
    <2>3. Authorizations(p)[i - 1] = Authorization(p, i - 1, v[i - 1])
      BY <1>6, <2>1
    <2>4. v[i] = Authorizations(p)[i - 1].tx
      BY <2>2, <2>3 DEF After
    <2> QED
      BY <1>6, <1>8, <2>4 DEF Source
  <1> QED
    BY <1>7, <1>8

\* A transaction with a vault input and a connector, as Child makes it.
LEMMA ChildOf ==
  ASSUME NEW source, NEW vault, NEW connector, NEW sequence, NEW outs
  PROVE  LET child == Child(source, vault, connector, sequence, outs)
         IN /\ child = NewPsbt(child.tx, child.utxos)
            /\ child.tx.outs = outs
            /\ Len(child.tx.ins) = 2 /\ DOMAIN child.tx.ins = {1, 2}
            /\ child.tx.ins[1] = In(source.txid, vault, sequence)
            /\ child.tx.ins[2] = In(source.txid, connector, Rbf)
            /\ child.utxos[1] = source.outs[vault]
            /\ child.utxos[2] = source.outs[connector]
            /\ Fee(child.tx) = 2 + Len(outs)
PROOF
  <1> DEFINE ins == <<In(source.txid, vault, sequence), In(source.txid, connector, Rbf)>>
             utxos == <<source.outs[vault], source.outs[connector]>>
             child == NewPsbt(Tx(ins, outs), utxos)
  <1>1. Child(source, vault, connector, sequence, outs) = child
    BY DEF Child
  <1>2. child.tx = Tx(ins, outs) /\ child.utxos = utxos
    BY DEF NewPsbt
  <1>3. Tx(ins, outs).ins = ins /\ Tx(ins, outs).outs = outs
    BY DEF Tx
  <1> HIDE DEF child
  <1>4. child = NewPsbt(child.tx, child.utxos)
    BY <1>2 DEF child
  <1>5. /\ Len(ins) = 2 /\ DOMAIN ins = {1, 2}
        /\ ins[1] = In(source.txid, vault, sequence)
        /\ ins[2] = In(source.txid, connector, Rbf)
        /\ utxos[1] = source.outs[vault] /\ utxos[2] = source.outs[connector]
    OBVIOUS
  <1> HIDE DEF ins, utxos
  <1> QED
    BY <1>1, <1>2, <1>3, <1>4, <1>5 DEF Fee

\* What a chain is worth at each step: the monthly limit and the fee of the step,
\* and the rest of the chain, whose connector the step creates anew.
LEMMA ChainValues ==
  ASSUME NEW p \in Proposals, NEW i \in 1 .. p.count
  PROVE  /\ i < p.count =>
              ChainValue(p, i + 1) + p.monthly + ContinuingFee = ChainValue(p, i)
         /\ i = p.count => ChainValue(p, i) + Connector = p.monthly + FinalFee
PROOF
  <1>1. p.count \in Nat /\ p.monthly \in Nat /\ Connector \in Nat
    BY PackageAssumption, FundedAssumption
  <1>2. PICK a \in Nat : a = p.count - i
    BY <1>1
  <1>3. PICK m \in Nat : m = p.monthly
    BY <1>1
  <1>4. (a + 1) * m = a * m + m
    OBVIOUS
  <1>5. PICK q \in Nat : q = a * m
    OBVIOUS
  <1>6. p.count - i + 1 = a + 1 /\ p.count - (i + 1) + 1 = a /\ p.count - (i + 1) = a - 1
    BY <1>1, <1>2
  <1>7. ChainValue(p, i) = (a + 1) * m + a * ContinuingFee + FinalFee - Connector
    BY <1>2, <1>3, <1>6 DEF ChainValue
  <1>8. ChainValue(p, i + 1) = a * m + (a - 1) * ContinuingFee + FinalFee - Connector
    BY <1>2, <1>3, <1>6 DEF ChainValue
  <1>9. ChainValue(p, i) = q + m + a * 5 + 3 - Connector
    BY <1>4, <1>5, <1>7 DEF ContinuingFee, FinalFee
  <1>10. ChainValue(p, i + 1) = q + (a - 1) * 5 + 3 - Connector
    BY <1>5, <1>8 DEF ContinuingFee, FinalFee
  <1>11. i = p.count => a = 0 /\ q = 0
    BY <1>1, <1>2, <1>5
  <1> QED
    BY <1>1, <1>2, <1>3, <1>9, <1>10, <1>11 DEF ContinuingFee, FinalFee

\* The authorization of a step spends the vault output and the connector that
\* the step before it or the rollover created, and balances.
LEMMA StepBuilt ==
  ASSUME NEW p \in Proposals, NEW i \in 1 .. p.count
  PROVE  LET a == Authorizations(p)[i]
             hop == IF i = 1 THEN 1 ELSE 2
         IN /\ a = NewPsbt(a.tx, a.utxos)
            /\ Source(p, i).outs[hop] = Out(VaultScript(p.vault), ChainValue(p, i))
            /\ Source(p, i).outs[3] = Out(ControllerScript(p.vault), Connector)
            /\ Len(a.tx.ins) = 2 /\ DOMAIN a.tx.ins = {1, 2}
            /\ a.tx.ins[1] = In(Source(p, i).txid, hop, Monthly)
            /\ a.tx.ins[2] = In(Source(p, i).txid, 3, Rbf)
            /\ a.utxos[1] = Source(p, i).outs[hop] /\ a.utxos[2] = Source(p, i).outs[3]
            /\ Len(a.tx.outs) = IF i < p.count THEN 3 ELSE 1
            /\ a.tx.outs[1] = Out(HotScript(p.hots[i]), p.monthly)
            /\ i < p.count =>
                 /\ a.tx.outs[2] = Out(VaultScript(p.vault), ChainValue(p, i + 1))
                 /\ a.tx.outs[3] = Out(ControllerScript(p.vault), Connector)
            /\ Fee(a.tx) = IF i < p.count THEN ContinuingFee ELSE FinalFee
            /\ OutputSum(a.tx.outs) + Fee(a.tx) = ChainValue(p, i) + Connector
PROOF
  <1> DEFINE outs(n) == <<Out(HotScript(p.hots[n]), p.monthly)>>
                        \o If(n < p.count,
                              <<Out(VaultScript(p.vault), ChainValue(p, n + 1)),
                                Out(ControllerScript(p.vault), Connector)>>)
             hop(n) == IF n = 1 THEN 1 ELSE 2
             a(n) == Authorizations(p)[n]
  <1>1. /\ p.count \in Nat /\ Connector \in Nat /\ p.monthly \in Nat
        /\ \A n \in 1 .. p.count : ChainValue(p, n) \in Nat
    BY PackageAssumption, FundedAssumption
  <1>2. ASSUME NEW n \in 1 .. p.count
        PROVE  a(n) = Child(Source(p, n), hop(n), 3, Monthly, outs(n))
    BY <1>2, AuthorizationsOf DEF Authorization
  <1>3. ASSUME NEW n \in 1 .. p.count
        PROVE  /\ Len(outs(n)) = IF n < p.count THEN 3 ELSE 1
               /\ outs(n)[1] = Out(HotScript(p.hots[n]), p.monthly)
               /\ n < p.count =>
                    /\ outs(n)[2] = Out(VaultScript(p.vault), ChainValue(p, n + 1))
                    /\ outs(n)[3] = Out(ControllerScript(p.vault), Connector)
               /\ DOMAIN outs(n) = 1 .. Len(outs(n))
    <2>1. CASE n < p.count
      BY <2>1 DEF If
    <2>2. CASE ~(n < p.count)
      BY <2>2 DEF If
    <2> QED
      BY <2>1, <2>2
  <1> HIDE DEF outs, hop, a
  <1>4. ASSUME NEW n \in 1 .. p.count
        PROVE  /\ a(n) = NewPsbt(a(n).tx, a(n).utxos)
               /\ a(n).tx.outs = outs(n)
               /\ Len(a(n).tx.ins) = 2 /\ DOMAIN a(n).tx.ins = {1, 2}
               /\ a(n).tx.ins[1] = In(Source(p, n).txid, hop(n), Monthly)
               /\ a(n).tx.ins[2] = In(Source(p, n).txid, 3, Rbf)
               /\ a(n).utxos[1] = Source(p, n).outs[hop(n)]
               /\ a(n).utxos[2] = Source(p, n).outs[3]
               /\ Fee(a(n).tx) = 2 + Len(outs(n))
    BY <1>2, ChildOf
  <1>5. /\ Source(p, i).outs[hop(i)] = Out(VaultScript(p.vault), ChainValue(p, i))
        /\ Source(p, i).outs[3] = Out(ControllerScript(p.vault), Connector)
    <2>1. CASE i = 1
      <3>1. p.count > 0 /\ Source(p, i) = Rollover(p).tx /\ hop(i) = 1
        BY <1>1, <2>1 DEF Source, hop
      <3> QED
        BY <2>1, <3>1, RolloverShape, RolloverBuilt
    <2>2. CASE i # 1
      <3>1. /\ i - 1 \in 1 .. p.count /\ i - 1 < p.count /\ (i - 1) + 1 = i
            /\ Source(p, i) = a(i - 1).tx /\ hop(i) = 2
        BY <1>1, <2>2 DEF Source, hop, a
      <3>2. Source(p, i).outs = outs(i - 1)
        BY <3>1, <1>4
      <3> QED
        BY <3>1, <3>2, <1>3
    <2> QED
      BY <2>1, <2>2
  <1>6. Fee(a(i).tx) = IF i < p.count THEN ContinuingFee ELSE FinalFee
    <2>1. Fee(a(i).tx) = 2 + Len(outs(i)) /\ Len(outs(i)) = IF i < p.count THEN 3 ELSE 1
      BY <1>3, <1>4
    <2>2. CASE i < p.count
      BY <2>1, <2>2 DEF ContinuingFee
    <2>3. CASE ~(i < p.count)
      BY <2>1, <2>3 DEF FinalFee
    <2> QED
      BY <2>2, <2>3
  <1>7. OutputSum(outs(i)) + Fee(a(i).tx) = ChainValue(p, i) + Connector
    <2>0. /\ Len(outs(i)) = IF i < p.count THEN 3 ELSE 1
          /\ outs(i)[1] = Out(HotScript(p.hots[i]), p.monthly)
          /\ i < p.count =>
               /\ outs(i)[2] = Out(VaultScript(p.vault), ChainValue(p, i + 1))
               /\ outs(i)[3] = Out(ControllerScript(p.vault), Connector)
          /\ DOMAIN outs(i) = 1 .. Len(outs(i))
      BY <1>3
    <2>1. PICK s : s = outs(i)
      OBVIOUS
    <2>2. CASE i < p.count
      <3>1. i + 1 \in 1 .. p.count
        BY <1>1, <2>2
      <3>2. /\ DOMAIN s = 1 .. 3 /\ s[1].value = p.monthly
            /\ s[2].value = ChainValue(p, i + 1) /\ s[3].value = Connector
        BY <2>0, <2>1, <2>2 DEF Out
      <3>3. \A n \in 1 .. 3 : s[n].value \in Nat
        BY <1>1, <3>1, <3>2
      <3>4. OutputSum(s) = s[1].value + s[2].value + s[3].value
        BY <3>2, <3>3, OutputSumOf
      <3>5. ChainValue(p, i + 1) + p.monthly + ContinuingFee = ChainValue(p, i)
        BY <2>2, ChainValues
      <3> QED
        BY <1>1, <1>6, <2>1, <2>2, <3>1, <3>2, <3>4, <3>5 DEF ContinuingFee
    <2>3. CASE ~(i < p.count)
      <3>1. i = p.count
        BY <1>1, <2>3
      <3>2. DOMAIN s = 1 .. 1 /\ s[1].value = p.monthly
        BY <2>0, <2>1, <2>3 DEF Out
      <3>3. \A n \in 1 .. 1 : s[n].value \in Nat
        BY <1>1, <3>2
      <3>4. OutputSum(s) = s[1].value
        BY <3>2, <3>3, OutputSumOf
      <3>5. ChainValue(p, i) + Connector = p.monthly + FinalFee
        BY <3>1, ChainValues
      <3> QED
        BY <1>1, <1>6, <2>1, <2>3, <3>2, <3>4, <3>5 DEF FinalFee
    <2> QED
      BY <2>2, <2>3
  <1>8. /\ a(i) = NewPsbt(a(i).tx, a(i).utxos)
        /\ a(i).tx.outs = outs(i)
        /\ Len(a(i).tx.ins) = 2 /\ DOMAIN a(i).tx.ins = {1, 2}
        /\ a(i).tx.ins[1] = In(Source(p, i).txid, hop(i), Monthly)
        /\ a(i).tx.ins[2] = In(Source(p, i).txid, 3, Rbf)
        /\ a(i).utxos[1] = Source(p, i).outs[hop(i)]
        /\ a(i).utxos[2] = Source(p, i).outs[3]
    BY <1>4
  <1>9. /\ Len(a(i).tx.outs) = IF i < p.count THEN 3 ELSE 1
        /\ a(i).tx.outs[1] = Out(HotScript(p.hots[i]), p.monthly)
        /\ i < p.count =>
             /\ a(i).tx.outs[2] = Out(VaultScript(p.vault), ChainValue(p, i + 1))
             /\ a(i).tx.outs[3] = Out(ControllerScript(p.vault), Connector)
    BY <1>3, <1>8
  <1>10. OutputSum(a(i).tx.outs) + Fee(a(i).tx) = ChainValue(p, i) + Connector
    BY <1>7, <1>8
  <1> QED
    BY <1>5, <1>6, <1>8, <1>9, <1>10, Zenon DEF a, hop

\* The trigger spends the remainder and the emergency connector of the rollover
\* and balances.
LEMMA TriggerBuilt ==
  ASSUME NEW p \in Proposals, p.emergency > 0
  PROVE  LET t == Trigger(p)
             rollover == Rollover(p).tx
             remainder == RemainderVout(p)
         IN /\ t = NewPsbt(t.tx, t.utxos)
            /\ Len(t.tx.ins) = 2 /\ DOMAIN t.tx.ins = {1, 2}
            /\ t.tx.ins[1] = In(rollover.txid, remainder, Final)
            /\ t.tx.ins[2] = In(rollover.txid, Outputs(p), Rbf)
            /\ t.utxos[1] = rollover.outs[remainder]
            /\ t.utxos[2] = rollover.outs[Outputs(p)]
            /\ t.tx.outs = <<Out(VaultScript(p.vault), StagingValue(p)),
                             Out(VaultScript(p.vault), t.tx.outs[2].value),
                             Out(ControllerScript(p.vault), Connector)>>
            /\ OutputSum(t.tx.outs) + Fee(t.tx) = rollover.outs[remainder].value + Connector
PROOF
  <1> DEFINE t == Trigger(p)
             rollover == Rollover(p).tx
             remainder == RemainderVout(p)
             change == rollover.outs[remainder].value - StagingValue(p) - ContinuingFee
             outs == <<Out(VaultScript(p.vault), StagingValue(p)),
                       Out(VaultScript(p.vault), change),
                       Out(ControllerScript(p.vault), Connector)>>
  <1>1. Connector \in Nat /\ Dust \in Nat /\ StagingValue(p) \in Nat /\ t.tx.outs[2].value >= Dust
    BY PackageAssumption, FundedAssumption
  <1>2. PICK v \in Nat : v = rollover.outs[remainder].value
    BY RolloverBuilt
  <1>3. t = Child(rollover, remainder, Outputs(p), Final, outs)
    BY DEF Trigger, Outputs
  <1>4. PICK c : c = change
    OBVIOUS
  <1>5. c + StagingValue(p) + ContinuingFee = v /\ c \in Int
    BY <1>1, <1>2, <1>4 DEF ContinuingFee
  <1> HIDE DEF change
  <1>6. /\ DOMAIN outs = 1 .. 3 /\ Len(outs) = 3
        /\ outs[1].value = StagingValue(p) /\ outs[2].value = c /\ outs[3].value = Connector
    BY <1>4 DEF Out
  <1> HIDE DEF t, rollover, remainder, outs
  <1>7. /\ t = NewPsbt(t.tx, t.utxos)
        /\ t.tx.outs = outs
        /\ Len(t.tx.ins) = 2 /\ DOMAIN t.tx.ins = {1, 2}
        /\ t.tx.ins[1] = In(rollover.txid, remainder, Final)
        /\ t.tx.ins[2] = In(rollover.txid, Outputs(p), Rbf)
        /\ t.utxos[1] = rollover.outs[remainder]
        /\ t.utxos[2] = rollover.outs[Outputs(p)]
        /\ Fee(t.tx) = 2 + Len(outs)
    BY <1>3, ChildOf
  <1>8. c \in Nat
    BY <1>1, <1>5, <1>6, <1>7
  <1>9. OutputSum(outs) = StagingValue(p) + c + Connector
    <2>1. \A n \in 1 .. 3 : outs[n].value \in Nat
      BY <1>1, <1>6, <1>8
    <2>2. OutputSum(outs) = outs[1].value + outs[2].value + outs[3].value
      BY <1>6, <2>1, OutputSumOf
    <2> QED
      BY <1>6, <2>2
  <1>10. OutputSum(t.tx.outs) + Fee(t.tx) = rollover.outs[remainder].value + Connector
    BY <1>1, <1>2, <1>5, <1>6, <1>7, <1>8, <1>9 DEF ContinuingFee
  <1>11. t.tx.outs = <<Out(VaultScript(p.vault), StagingValue(p)),
                       Out(VaultScript(p.vault), t.tx.outs[2].value),
                       Out(ControllerScript(p.vault), Connector)>>
    <2>1. t.tx.outs[2].value = c /\ c = change
      BY <1>4, <1>6, <1>7
    <2> QED
      BY <1>7, <2>1 DEF outs
  <1> QED
    BY <1>7, <1>10, <1>11, Zenon DEF t, rollover, remainder

\* The withdrawal spends the staging output and the connector of the trigger
\* and balances.
LEMMA WithdrawalBuilt ==
  ASSUME NEW p \in Proposals, p.emergency > 0
  PROVE  LET u == Withdrawal(p)
             trigger == Trigger(p).tx
         IN /\ u = NewPsbt(u.tx, u.utxos)
            /\ Len(u.tx.ins) = 2 /\ DOMAIN u.tx.ins = {1, 2}
            /\ u.tx.ins[1] = In(trigger.txid, 1, Emergency)
            /\ u.tx.ins[2] = In(trigger.txid, 3, Rbf)
            /\ u.utxos[1] = trigger.outs[1] /\ u.utxos[2] = trigger.outs[3]
            /\ u.tx.outs = <<Out(HotScript(p.emergencyHot), p.emergency)>>
            /\ Fee(u.tx) = FinalFee
            /\ OutputSum(u.tx.outs) + Fee(u.tx) = StagingValue(p) + Connector
PROOF
  <1> DEFINE u == Withdrawal(p)
             trigger == Trigger(p).tx
             outs == <<Out(HotScript(p.emergencyHot), p.emergency)>>
  <1>1. Connector \in Nat /\ p.emergency \in Nat /\ StagingValue(p) \in Nat
    BY PackageAssumption, FundedAssumption
  <1>2. u = Child(trigger, 1, 3, Emergency, outs)
    BY DEF Withdrawal
  <1>3. DOMAIN outs = 1 .. 1 /\ Len(outs) = 1 /\ outs[1].value = p.emergency
    BY DEF Out
  <1> HIDE DEF u, trigger, outs
  <1>4. /\ u = NewPsbt(u.tx, u.utxos)
        /\ u.tx.outs = outs
        /\ Len(u.tx.ins) = 2 /\ DOMAIN u.tx.ins = {1, 2}
        /\ u.tx.ins[1] = In(trigger.txid, 1, Emergency)
        /\ u.tx.ins[2] = In(trigger.txid, 3, Rbf)
        /\ u.utxos[1] = trigger.outs[1] /\ u.utxos[2] = trigger.outs[3]
        /\ Fee(u.tx) = 2 + Len(outs)
    BY <1>2, ChildOf
  <1>5. OutputSum(outs) = p.emergency
    <2>1. \A n \in 1 .. 1 : outs[n].value \in Nat
      BY <1>1, <1>3
    <2> QED
      BY <1>3, <2>1, OutputSumOf
  <1>6. Fee(u.tx) = FinalFee
    BY <1>3, <1>4 DEF FinalFee
  <1>7. OutputSum(u.tx.outs) + Fee(u.tx) = StagingValue(p) + Connector
    BY <1>1, <1>4, <1>5, <1>6 DEF StagingValue, FinalFee
  <1> QED
    BY <1>4, <1>6, <1>7, Zenon DEF u, trigger, outs

\* What the phone says of the steps and of the emergency transactions.
LEMMA StepsOf ==
  ASSUME NEW p \in Proposals
  PROVE  /\ \A i \in 1 .. p.count :
              Manifest(p).allowances[i] =
                [step |-> i, hot |-> p.hots[i], value |-> ChainValue(p, i),
                 connector |-> <<Source(p, i).txid, 3>>,
                 next |-> If(i < p.count, <<Authorizations(p)[i].tx.txid, 3>>),
                 authorization |-> ChildEntry(AllowanceFile(i), Authorizations(p)[i])]
         /\ p.emergency > 0 =>
              /\ Manifest(p).access # <<>>
              /\ Manifest(p).access[1] =
                   [amount |-> p.emergency, hot |-> p.emergencyHot,
                    staging |-> StagingValue(p), change |-> Trigger(p).tx.outs[2].value,
                    connector |-> <<Rollover(p).tx.txid, Outputs(p)>>,
                    next |-> <<Trigger(p).tx.txid, 3>>,
                    trigger |-> ChildEntry(TriggerFile, Trigger(p)),
                    withdrawal |-> ChildEntry(WithdrawalFile, Withdrawal(p))]
         /\ Manifest(p).rollover.fee = Fee(Rollover(p).tx)
PROOF
  <1>1. \A i \in 1 .. p.count :
          Manifest(p).allowances[i] =
            [step |-> i, hot |-> p.hots[i], value |-> ChainValue(p, i),
             connector |-> <<(IF i = 1 THEN Rollover(p).tx
                                       ELSE Authorizations(p)[i - 1].tx).txid, 3>>,
             next |-> If(i < p.count, <<Authorizations(p)[i].tx.txid, 3>>),
             authorization |-> ChildEntry(AllowanceFile(i), Authorizations(p)[i])]
    BY DEF Manifest
  <1>2. p.emergency > 0 =>
          Manifest(p).access =
            <<[amount |-> p.emergency, hot |-> p.emergencyHot,
               staging |-> StagingValue(p), change |-> Trigger(p).tx.outs[2].value,
               connector |-> <<Rollover(p).tx.txid, Outputs(p)>>,
               next |-> <<Trigger(p).tx.txid, 3>>,
               trigger |-> ChildEntry(TriggerFile, Trigger(p)),
               withdrawal |-> ChildEntry(WithdrawalFile, Withdrawal(p))]>>
    BY DEF Manifest, If, Outputs
  <1>3. \A x : <<x>> # <<>> /\ <<x>>[1] = x
    OBVIOUS
  <1>4. Manifest(p).rollover.fee = Fee(Rollover(p).tx)
    BY DEF Manifest, Entry
  <1>5. \A i \in 1 .. p.count :
          Source(p, i) = IF i = 1 THEN Rollover(p).tx ELSE Authorizations(p)[i - 1].tx
    BY DEF Source
  <1>6. \A i \in 1 .. p.count :
          Manifest(p).allowances[i] =
            [step |-> i, hot |-> p.hots[i], value |-> ChainValue(p, i),
             connector |-> <<Source(p, i).txid, 3>>,
             next |-> If(i < p.count, <<Authorizations(p)[i].tx.txid, 3>>),
             authorization |-> ChildEntry(AllowanceFile(i), Authorizations(p)[i])]
    BY <1>1, <1>5
  <1>7. ASSUME NEW x, Manifest(p).access = <<x>>
        PROVE  Manifest(p).access # <<>> /\ Manifest(p).access[1] = x
    BY <1>3, <1>7
  <1> QED
    BY <1>2, <1>4, <1>6, <1>7

----------------------------------------------------------------------------
(* Honest packages *)

\* psbt is what the phone wrote for the transaction of b: with its signatures on
\* the inputs S.
MadeFrom(psbt, b, S) ==
  /\ psbt.tx = b.tx /\ psbt.utxos = b.utxos /\ psbt.sighash = "default"
  /\ \A i \in S : Signature(psbt, "phone", i) \in psbt.sigs

\* What the phone wrote under each file name of a manifest.
LEMMA PhoneMade ==
  ASSUME NEW p \in Proposals
  PROVE  /\ MadeFrom(PhonePsbt(p, RolloverFile), Rollover(p), 1 .. Inputs(p))
         /\ \A i \in 1 .. p.count :
              MadeFrom(PhonePsbt(p, AllowanceFile(i)), Authorizations(p)[i], {1})
         /\ p.emergency > 0 => /\ MadeFrom(PhonePsbt(p, TriggerFile), Trigger(p), {1})
                               /\ MadeFrom(PhonePsbt(p, WithdrawalFile), Withdrawal(p), {1})
PROOF
  <1>1. ASSUME NEW b, b = NewPsbt(b.tx, b.utxos), NEW S
        PROVE  MadeFrom(Sign(b, "phone", S), b, S)
    <2>1. IsPsbt(b) /\ b.sighash = "default"
      <3>1. PICK tx, utxos : tx = b.tx /\ utxos = b.utxos
        OBVIOUS
      <3>2. b = NewPsbt(tx, utxos)
        BY <1>1, <3>1
      <3> QED
        BY <3>2 DEF IsPsbt, NewPsbt
    <2> QED
      BY <2>1, SignAdds DEF MadeFrom, Signature
  <1>2. /\ RolloverFile # TriggerFile /\ RolloverFile # WithdrawalFile
        /\ TriggerFile # WithdrawalFile
        /\ \A i : AllowanceFile(i) \notin {RolloverFile, TriggerFile, WithdrawalFile}
        /\ \A i : AllowanceFile(i)[2] = i
    BY DEF RolloverFile, TriggerFile, WithdrawalFile, AllowanceFile
  <1>3. MadeFrom(PhonePsbt(p, RolloverFile), Rollover(p), 1 .. Inputs(p))
    <2>1. PhonePsbt(p, RolloverFile) = Sign(Rollover(p), "phone", DOMAIN Rollover(p).tx.ins)
      BY <1>2 DEF PhonePsbt
    <2>2. Rollover(p) = NewPsbt(Rollover(p).tx, Rollover(p).utxos)
      <3>1. PICK tx, utxos : Rollover(p) = NewPsbt(tx, utxos)
        BY DEF Rollover
      <3>2. tx = Rollover(p).tx /\ utxos = Rollover(p).utxos
        BY <3>1 DEF NewPsbt
      <3> QED
        BY <3>1, <3>2
    <2>3. DOMAIN Rollover(p).tx.ins = 1 .. Inputs(p)
      BY RolloverBuilt
    <2> QED
      BY <1>1, <2>1, <2>2, <2>3
  <1>4. ASSUME NEW i \in 1 .. p.count
        PROVE  MadeFrom(PhonePsbt(p, AllowanceFile(i)), Authorizations(p)[i], {1})
    <2>1. PhonePsbt(p, AllowanceFile(i)) = Sign(Authorizations(p)[i], "phone", {1})
      BY <1>2 DEF PhonePsbt
    <2>2. Authorizations(p)[i] = NewPsbt(Authorizations(p)[i].tx, Authorizations(p)[i].utxos)
      BY StepBuilt
    <2> QED
      BY <1>1, <2>1, <2>2
  <1>5. ASSUME p.emergency > 0
        PROVE  /\ MadeFrom(PhonePsbt(p, TriggerFile), Trigger(p), {1})
               /\ MadeFrom(PhonePsbt(p, WithdrawalFile), Withdrawal(p), {1})
    <2>1. /\ PhonePsbt(p, TriggerFile) = Sign(Trigger(p), "phone", {1})
          /\ PhonePsbt(p, WithdrawalFile) = Sign(Withdrawal(p), "phone", {1})
      BY <1>2 DEF PhonePsbt
    <2>2. /\ Trigger(p) = NewPsbt(Trigger(p).tx, Trigger(p).utxos)
          /\ Withdrawal(p) = NewPsbt(Withdrawal(p).tx, Withdrawal(p).utxos)
      BY <1>5, TriggerBuilt, WithdrawalBuilt
    <2> QED
      BY <1>1, <2>1, <2>2
  <1> QED
    BY <1>3, <1>4, <1>5

\* The entries and the files of a manifest.
LEMMA EntriesOf ==
  ASSUME NEW p \in Proposals
  PROVE  /\ ToSet(Transactions(Manifest(p))) =
              {Manifest(p).rollover}
              \cup {ChildEntry(AllowanceFile(i), Authorizations(p)[i]) : i \in 1 .. p.count}
              \cup (IF p.emergency > 0 THEN {ChildEntry(TriggerFile, Trigger(p)),
                                             ChildEntry(WithdrawalFile, Withdrawal(p))}
                    ELSE {})
         /\ FilesOf(Manifest(p)) = {e.file : e \in ToSet(Transactions(Manifest(p)))}
         /\ Manifest(p).rollover.file = RolloverFile
PROOF
  <1>1. ShapedManifest(Manifest(p))
    <2>1. NewPackage(p) \in Proposed /\ NewPackage(p).manifest = Manifest(p)
      BY DEF Proposed, NewPackage
    <2> QED
      BY <2>1, ProposedShaped DEF Shaped
  <1>2. DOMAIN Manifest(p).allowances = 1 .. p.count
    BY DEF Manifest
  <1>3. \A i \in 1 .. p.count : Manifest(p).allowances[i].authorization
                                  = ChildEntry(AllowanceFile(i), Authorizations(p)[i])
    BY DEF Manifest
  <1>4. /\ p.emergency > 0 =>
             /\ Manifest(p).access # <<>>
             /\ Manifest(p).access[1].trigger = ChildEntry(TriggerFile, Trigger(p))
             /\ Manifest(p).access[1].withdrawal = ChildEntry(WithdrawalFile, Withdrawal(p))
        /\ ~(p.emergency > 0) => Manifest(p).access = <<>>
    BY DEF Manifest, If
  <1>5. /\ ToSet(Transactions(Manifest(p))) =
             {Manifest(p).rollover}
             \cup {Manifest(p).allowances[i].authorization : i \in DOMAIN Manifest(p).allowances}
             \cup (IF Manifest(p).access = <<>> THEN {}
                   ELSE {Manifest(p).access[1].trigger, Manifest(p).access[1].withdrawal})
        /\ FilesOf(Manifest(p)) = {e.file : e \in ToSet(Transactions(Manifest(p)))}
    BY <1>1, TransactionsOf
  <1>6. {Manifest(p).allowances[i].authorization : i \in DOMAIN Manifest(p).allowances}
          = {ChildEntry(AllowanceFile(i), Authorizations(p)[i]) : i \in 1 .. p.count}
    BY <1>2, <1>3
  <1> QED
    BY <1>1, <1>4, <1>5, <1>6, Zenon DEF ShapedManifest

\* w is what the phone packed for p, perhaps with signatures of the HWW.
Honest(w, p) ==
  /\ \A x \in Fields \ {"approved"} : w.manifest[x] = Manifest(p)[x]
  /\ w.manifest.approved.phone
  /\ DOMAIN w.psbts = FilesOf(Manifest(p))
  /\ \A f \in FilesOf(Manifest(p)) :
       /\ w.psbts[f].tx = PhonePsbt(p, f).tx
       /\ w.psbts[f].utxos = PhonePsbt(p, f).utxos
       /\ w.psbts[f].hash = PhonePsbt(p, f).hash
       /\ w.psbts[f].sighash = PhonePsbt(p, f).sighash
       /\ PhonePsbt(p, f).sigs \subseteq w.psbts[f].sigs
       /\ f # RolloverFile => \A s \in w.psbts[f].sigs : s.input # 2

\* Its files hold the transactions of p with the phone's signatures.
LEMMA HonestFiles ==
  ASSUME NEW p \in Proposals, NEW w, Honest(w, p)
  PROVE  /\ MadeFrom(w.psbts[RolloverFile], Rollover(p), 1 .. Inputs(p))
         /\ \A i \in 1 .. p.count :
              /\ MadeFrom(w.psbts[AllowanceFile(i)], Authorizations(p)[i], {1})
              /\ \A s \in w.psbts[AllowanceFile(i)].sigs : s.input # 2
         /\ p.emergency > 0 =>
              /\ MadeFrom(w.psbts[TriggerFile], Trigger(p), {1})
              /\ MadeFrom(w.psbts[WithdrawalFile], Withdrawal(p), {1})
              /\ \A s \in w.psbts[TriggerFile].sigs : s.input # 2
              /\ \A s \in w.psbts[WithdrawalFile].sigs : s.input # 2
         /\ \A f \in FilesOf(Manifest(p)) : w.psbts[f].sighash = "default"
         /\ Transactions(w.manifest) = Transactions(Manifest(p))
         /\ FilesOf(w.manifest) = FilesOf(Manifest(p))
PROOF
  <1> DEFINE m == Manifest(p)
  <1>1. ASSUME NEW f \in FilesOf(m), NEW b, NEW S, MadeFrom(PhonePsbt(p, f), b, S)
        PROVE  MadeFrom(w.psbts[f], b, S)
    BY <1>1 DEF MadeFrom, Honest, Signature
  <1>2. /\ RolloverFile # TriggerFile /\ RolloverFile # WithdrawalFile
        /\ \A i : AllowanceFile(i) # RolloverFile
    BY DEF RolloverFile, TriggerFile, WithdrawalFile, AllowanceFile
  <1>3. \A file, psbt : ChildEntry(file, psbt).file = file
    BY DEF ChildEntry, Entry
  <1>4. /\ RolloverFile \in FilesOf(m)
        /\ \A i \in 1 .. p.count : AllowanceFile(i) \in FilesOf(m)
        /\ p.emergency > 0 => TriggerFile \in FilesOf(m) /\ WithdrawalFile \in FilesOf(m)
        /\ \A f \in FilesOf(m) :
             \/ f = RolloverFile
             \/ \E i \in 1 .. p.count : f = AllowanceFile(i)
             \/ p.emergency > 0 /\ f \in {TriggerFile, WithdrawalFile}
    <2> DEFINE T == ToSet(Transactions(m))
    <2> HIDE DEF m
    <2>1. FilesOf(m) = {e.file : e \in T} /\ m.rollover.file = RolloverFile
      BY EntriesOf DEF m
    <2>2. T = {m.rollover}
              \cup {ChildEntry(AllowanceFile(i), Authorizations(p)[i]) : i \in 1 .. p.count}
              \cup (IF p.emergency > 0 THEN {ChildEntry(TriggerFile, Trigger(p)),
                                             ChildEntry(WithdrawalFile, Withdrawal(p))}
                    ELSE {})
      BY EntriesOf DEF m
    <2> HIDE DEF T
    <2> QED
      BY <1>3, <2>1, <2>2
  <1>5. \A f \in FilesOf(m) : f # RolloverFile => \A s \in w.psbts[f].sigs : s.input # 2
    BY DEF Honest
  <1> HIDE DEF m
  <1>6. MadeFrom(w.psbts[RolloverFile], Rollover(p), 1 .. Inputs(p))
    BY <1>1, <1>4, PhoneMade
  <1>7. ASSUME NEW i \in 1 .. p.count
        PROVE  /\ MadeFrom(w.psbts[AllowanceFile(i)], Authorizations(p)[i], {1})
               /\ \A s \in w.psbts[AllowanceFile(i)].sigs : s.input # 2
    BY <1>1, <1>2, <1>4, <1>5, PhoneMade
  <1>8. ASSUME p.emergency > 0
        PROVE  /\ MadeFrom(w.psbts[TriggerFile], Trigger(p), {1})
               /\ MadeFrom(w.psbts[WithdrawalFile], Withdrawal(p), {1})
               /\ \A s \in w.psbts[TriggerFile].sigs : s.input # 2
               /\ \A s \in w.psbts[WithdrawalFile].sigs : s.input # 2
    BY <1>1, <1>2, <1>4, <1>5, <1>8, PhoneMade
  <1>9. \A f \in FilesOf(m) : w.psbts[f].sighash = "default"
    BY <1>4, <1>6, <1>7, <1>8 DEF MadeFrom
  <1>10. Transactions(w.manifest) = Transactions(m)
    <2>1. /\ w.manifest.rollover = m.rollover /\ w.manifest.allowances = m.allowances
          /\ w.manifest.access = m.access
      BY DEF Honest, Fields, m
    <2> QED
      BY <2>1 DEF Transactions
  <1>11. FilesOf(w.manifest) = FilesOf(m)
    BY <1>10 DEF FilesOf
  <1> QED
    BY <1>6, <1>7, <1>8, <1>9, <1>10, <1>11 DEF m

\* validate_connector_child accepts what the phone built.
LEMMA HonestChild ==
  ASSUME NEW w, NEW file, NEW child, NEW source, NEW vault, NEW connector, NEW sequence,
         MadeFrom(w.psbts[file], child, {1}),
         \A s \in w.psbts[file].sigs : s.input # 2,
         Len(child.tx.ins) = 2,
         child.tx.ins[1] = In(source.txid, vault, sequence),
         child.tx.ins[2] = In(source.txid, connector, Rbf),
         child.utxos[1] = source.outs[vault], child.utxos[2] = ConnectorOut(w),
         OutputSum(child.tx.outs) + Fee(child.tx) = source.outs[vault].value + Connector
  PROVE  ValidChild(w, ChildEntry(file, child), source, vault, connector, sequence)
PROOF
  <1>1. PICK e : e = ChildEntry(file, child)
    OBVIOUS
  <1>2. /\ e.file = file /\ e.txid = child.tx.txid /\ e.fee = Fee(child.tx)
        /\ e.vault = {1} /\ e.controller = {2}
    BY <1>1 DEF ChildEntry, Entry
  <1>3. Psbt(w, e) = w.psbts[file] /\ w.psbts[file].tx = child.tx
        /\ w.psbts[file].utxos = child.utxos
    BY <1>2 DEF Psbt, MadeFrom
  <1>4. ValidChild(w, e, source, vault, connector, sequence)
    BY <1>2, <1>3 DEF ValidChild
  <1> QED
    BY <1>1, <1>4

\* The fields of an honest manifest.
LEMMA HonestManifest ==
  ASSUME NEW p \in Proposals, NEW w, Honest(w, p)
  PROVE  /\ w.manifest.vault = p.vault /\ w.manifest.monthly = p.monthly
         /\ w.manifest.emergency = p.emergency /\ w.manifest.count = p.count
         /\ w.manifest.rollover = Manifest(p).rollover
         /\ w.manifest.outputs = Manifest(p).outputs
         /\ w.manifest.allowances = Manifest(p).allowances
         /\ w.manifest.access = Manifest(p).access
PROOF
  <1>1. /\ w.manifest.vault = Manifest(p).vault /\ w.manifest.monthly = Manifest(p).monthly
        /\ w.manifest.emergency = Manifest(p).emergency /\ w.manifest.count = Manifest(p).count
        /\ w.manifest.rollover = Manifest(p).rollover
        /\ w.manifest.outputs = Manifest(p).outputs
        /\ w.manifest.allowances = Manifest(p).allowances
        /\ w.manifest.access = Manifest(p).access
    BY DEF Honest, Fields
  <1> QED
    BY <1>1, ManifestOf

\* validate_batch accepts the rollover that the phone built.
LEMMA HonestRollover ==
  ASSUME NEW p \in Proposals, NEW w, Honest(w, p)
  PROVE  ValidRollover(w)
PROOF
  <1> DEFINE m == w.manifest
             e == Manifest(p).rollover
             o == Manifest(p).outputs
             R == Rollover(p)
             tx == R.tx
             psbt == w.psbts[RolloverFile]
             chain == p.count > 0
             remainder == RemainderVout(p)
             monthly == IF chain THEN remainder + 1 ELSE 0
             access == IF p.emergency > 0 THEN (IF chain THEN 4 ELSE 2) ELSE 0
             vaultIns == InputSum(R.utxos, 1 .. Coins(p))
             controllerIns == InputSum(R.utxos, Coins(p) + 1 .. Inputs(p))
  <1>1. /\ m.vault = p.vault /\ m.monthly = p.monthly /\ m.emergency = p.emergency
        /\ m.count = p.count /\ m.rollover = e /\ m.outputs = o
    BY HonestManifest
  <1>2. /\ e.file = RolloverFile /\ e.txid = tx.txid /\ e.fee = Fee(tx)
        /\ e.vault = 1 .. Coins(p) /\ e.controller = Coins(p) + 1 .. Inputs(p)
    BY ManifestOf, StepsOf, EntriesOf
  <1>3. Psbt(w, m.rollover) = psbt /\ psbt.tx = tx /\ psbt.utxos = R.utxos
    BY <1>1, <1>2, HonestFiles DEF Psbt, MadeFrom
  <1>4. /\ Coins(p) \in Nat /\ Connectors(p) \in Nat /\ p.count \in Nat /\ p.emergency \in Nat
        /\ Inputs(p) = Coins(p) + Connectors(p) /\ Len(tx.ins) = Inputs(p)
        /\ Len(tx.outs) = Outputs(p) /\ Dust \in Nat
    BY RolloverShape, PackageAssumption DEF Inputs, Outputs
  <1>5. Partition(Len(tx.ins), e.vault, e.controller)
    <2>1. PICK c \in Nat, k \in Nat : c = Coins(p) /\ k = Connectors(p)
      BY <1>4
    <2>2. (1 .. c) \cap (c + 1 .. c + k) = {} /\ (1 .. c) \cup (c + 1 .. c + k) = 1 .. c + k
      OBVIOUS
    <2> QED
      BY <1>2, <1>4, <2>1, <2>2 DEF Partition
  <1>6. Outputs(p) = (IF chain THEN 3 ELSE 1) + (IF p.emergency > 0 THEN 1 ELSE 0)
    BY RolloverShape
  <1>7. /\ \A i \in e.vault : tx.ins[i].sequence = Final
        /\ \A i \in e.controller : tx.ins[i].sequence = Rbf
    <2>1. \A i \in 1 .. Inputs(p) : tx.ins[i].sequence = IF i <= Coins(p) THEN Final ELSE Rbf
      BY RolloverShape
    <2> HIDE DEF tx
    <2> QED
      BY <1>2, <1>4, <2>1
  <1>8. /\ o.vaultInputs = vaultIns /\ o.controllerInputs = controllerIns
        /\ o.allowanceVout = (IF chain THEN 1 ELSE 0)
        /\ o.allowanceValue = (IF chain THEN ChainValue(p, 1) ELSE 0)
        /\ o.remainderVout = remainder
        /\ o.remainderValue = tx.outs[remainder].value
        /\ o.monthlyVout = monthly
        /\ o.emergencyVout = (IF p.emergency > 0 THEN Outputs(p) ELSE 0)
    <2> DEFINE value == tx.outs[remainder].value
               first == IF chain THEN 1 ELSE 0
               worth == IF chain THEN ChainValue(p, 1) ELSE 0
               last == IF p.emergency > 0 THEN Outputs(p) ELSE 0
    <2>1. o = [vaultInputs |-> vaultIns, controllerInputs |-> controllerIns,
               allowanceVout |-> first, allowanceValue |-> worth,
               remainderVout |-> remainder, remainderValue |-> value,
               monthlyVout |-> monthly, emergencyVout |-> last]
      BY OutputsOf, Zenon
    <2> HIDE DEF o, vaultIns, controllerIns, remainder, monthly, value, first, worth, last
    <2>2. /\ o.vaultInputs = vaultIns /\ o.controllerInputs = controllerIns
          /\ o.allowanceVout = first /\ o.allowanceValue = worth
          /\ o.remainderVout = remainder /\ o.remainderValue = value
          /\ o.monthlyVout = monthly /\ o.emergencyVout = last
      BY <2>1
    <2> QED
      BY <2>2 DEF first, worth, value, last
  <1>9. o.emergencyVout = access
    <2>1. o.emergencyVout = (IF p.emergency > 0 THEN Outputs(p) ELSE 0)
      BY <1>8
    <2>2. p.emergency > 0 => Outputs(p) = (IF chain THEN 4 ELSE 2)
      BY <1>6
    <2> HIDE DEF o
    <2> QED
      BY <2>1, <2>2
  <1>10. /\ RoleSum(psbt, e.vault, VaultScript(p.vault), o.vaultInputs)
         /\ RoleSum(psbt, e.controller, ControllerScript(p.vault), o.controllerInputs)
    BY <1>2, <1>3, <1>8, RolloverBuilt DEF RoleSum
  <1>11. OutputSum(tx.outs) + e.fee = o.vaultInputs + o.controllerInputs
    BY <1>2, <1>8, RolloverBuilt
  <1>12. /\ remainder = (IF chain THEN 2 ELSE 1)
         /\ chain => monthly = 3
         /\ p.emergency > 0 => access = Outputs(p)
    BY <1>4, <1>6 DEF RemainderVout
  <1>13. IF chain THEN tx.outs[1] = Out(VaultScript(p.vault), o.allowanceValue)
                  ELSE o.allowanceValue = 0
    BY <1>8, RolloverShape
  <1>14. /\ tx.outs[remainder] = Out(VaultScript(p.vault), o.remainderValue)
         /\ o.remainderValue >= Dust
    BY <1>8, RolloverBuilt, FundedAssumption
  <1>15. /\ chain => tx.outs[monthly] = Out(ControllerScript(p.vault), Connector)
         /\ p.emergency > 0 => tx.outs[access] = Out(ControllerScript(p.vault), Connector)
    BY <1>12, RolloverBuilt
  <1>16. \A v \in {monthly, access} \ {0} : tx.outs[v] = ConnectorOut(w)
    <2>1. ConnectorOut(w) = Out(ControllerScript(p.vault), Connector)
      BY <1>1 DEF ConnectorOut
    <2>2. (~chain => monthly = 0) /\ (~(p.emergency > 0) => access = 0)
      OBVIOUS
    <2> HIDE DEF chain, monthly, access, tx
    <2> QED
      BY <1>15, <2>1, <2>2
  <1>17. tx.ins # <<>>
    BY RolloverBuilt
  <1> HIDE DEF tx, e, o, psbt, monthly, access, remainder
  <1>18. /\ m.count > 0 <=> chain
         /\ remainder = (IF m.count > 0 THEN 2 ELSE 1)
         /\ monthly = (IF m.count > 0 THEN (IF m.count > 0 THEN 2 ELSE 1) + 1 ELSE 0)
         /\ access = (IF m.emergency > 0 THEN (IF m.count > 0 THEN 4 ELSE 2) ELSE 0)
    BY <1>1, <1>12 DEF monthly, access
  <1>19. Len(tx.outs) = (IF m.count > 0 THEN 3 ELSE 1) + (IF m.emergency > 0 THEN 1 ELSE 0)
    BY <1>1, <1>4, <1>6
  <1> QED
    BY <1>1, <1>2, <1>3, <1>5, <1>7, <1>8, <1>9, <1>10, <1>11, <1>13, <1>14, <1>16, <1>17,
       <1>18, <1>19 DEF ValidRollover

\* validate_allowances accepts the chain that the phone built.
LEMMA HonestAllowance ==
  ASSUME NEW p \in Proposals, NEW w, Honest(w, p), NEW i \in 1 .. p.count
  PROVE  ValidAllowance(w, i)
PROOF
  <1> DEFINE m == w.manifest
             a == Manifest(p).allowances[i]
             auth == Authorizations(p)[i]
             source == Source(p, i)
             hop == IF i = 1 THEN 1 ELSE 2
  <1>1. /\ m.vault = p.vault /\ m.monthly = p.monthly /\ m.count = p.count
        /\ m.allowances[i] = a /\ m.rollover = Manifest(p).rollover
        /\ m.allowances = Manifest(p).allowances
    BY HonestManifest
  <1>2. /\ p.count \in Nat /\ Connector \in Nat /\ Dust \in Nat /\ p.monthly \in Nat
        /\ \A n \in 1 .. p.count : ChainValue(p, n) \in Nat /\ (n > 1 => ChainValue(p, n) >= Dust)
    BY PackageAssumption, FundedAssumption
  <1>3. /\ a.step = i /\ a.hot = p.hots[i] /\ a.value = ChainValue(p, i)
        /\ a.connector = <<source.txid, 3>>
        /\ a.next = If(i < p.count, <<auth.tx.txid, 3>>)
        /\ a.authorization = ChildEntry(AllowanceFile(i), auth)
    <2>1. a = [step |-> i, hot |-> p.hots[i], value |-> ChainValue(p, i),
               connector |-> <<source.txid, 3>>,
               next |-> If(i < p.count, <<auth.tx.txid, 3>>),
               authorization |-> ChildEntry(AllowanceFile(i), auth)]
      BY StepsOf
    <2> HIDE DEF a, source, auth
    <2> QED
      BY <2>1
  <1>4. \A file, psbt : /\ ChildEntry(file, psbt).file = file
                        /\ ChildEntry(file, psbt).fee = Fee(psbt.tx)
    BY DEF ChildEntry, Entry
  <1>5. Psbt(w, a.authorization).tx = auth.tx
    BY <1>3, <1>4, HonestFiles DEF Psbt, MadeFrom
  <1>6. source = IF i = 1 THEN Psbt(w, m.rollover).tx
                          ELSE Psbt(w, m.allowances[i - 1].authorization).tx
    <2>1. CASE i = 1
      <3>1. m.rollover.file = RolloverFile
        BY <1>1, EntriesOf
      <3>2. Psbt(w, m.rollover).tx = Rollover(p).tx
        BY <3>1, HonestFiles DEF Psbt, MadeFrom
      <3> QED
        BY <2>1, <3>2 DEF Source
    <2>2. CASE i # 1
      <3>1. i - 1 \in 1 .. p.count
        BY <1>2, <2>2
      <3>2. m.allowances[i - 1].authorization
              = ChildEntry(AllowanceFile(i - 1), Authorizations(p)[i - 1])
        <4>1. Manifest(p).allowances[i - 1].authorization
                = ChildEntry(AllowanceFile(i - 1), Authorizations(p)[i - 1])
          BY <3>1 DEF Manifest
        <4> QED
          BY <1>1, <4>1
      <3>3. Psbt(w, m.allowances[i - 1].authorization).tx = Authorizations(p)[i - 1].tx
        BY <1>4, <3>1, <3>2, HonestFiles DEF Psbt, MadeFrom
      <3> QED
        BY <2>2, <3>3 DEF Source
    <2> QED
      BY <2>1, <2>2
  <1>7. ConnectorOut(w) = Out(ControllerScript(p.vault), Connector)
    BY <1>1 DEF ConnectorOut
  <1>8. /\ source.outs[hop] = Out(VaultScript(p.vault), ChainValue(p, i))
        /\ source.outs[3] = ConnectorOut(w)
        /\ Len(auth.tx.ins) = 2
        /\ auth.tx.ins[1] = In(source.txid, hop, Monthly)
        /\ auth.tx.ins[2] = In(source.txid, 3, Rbf)
        /\ auth.utxos[1] = source.outs[hop] /\ auth.utxos[2] = source.outs[3]
        /\ Len(auth.tx.outs) = (IF i < p.count THEN 3 ELSE 1)
        /\ auth.tx.outs[1] = Out(HotScript(p.hots[i]), p.monthly)
        /\ i < p.count => /\ auth.tx.outs[2] = Out(VaultScript(p.vault), ChainValue(p, i + 1))
                          /\ auth.tx.outs[3] = ConnectorOut(w)
        /\ Fee(auth.tx) = (IF i < p.count THEN ContinuingFee ELSE FinalFee)
        /\ OutputSum(auth.tx.outs) + Fee(auth.tx) = ChainValue(p, i) + Connector
    <2>1. /\ source.outs[hop] = Out(VaultScript(p.vault), ChainValue(p, i))
          /\ Len(auth.tx.ins) = 2
          /\ auth.tx.ins[1] = In(source.txid, hop, Monthly)
          /\ auth.tx.ins[2] = In(source.txid, 3, Rbf)
          /\ auth.utxos[1] = source.outs[hop] /\ auth.utxos[2] = source.outs[3]
      <3>1. source.outs[hop] = Out(VaultScript(p.vault), ChainValue(p, i))
        BY StepBuilt, Zenon
      <3>2. Len(auth.tx.ins) = 2
        BY StepBuilt, Zenon
      <3>3. auth.tx.ins[1] = In(source.txid, hop, Monthly)
        BY StepBuilt, Zenon
      <3>4. auth.tx.ins[2] = In(source.txid, 3, Rbf)
        BY StepBuilt, Zenon
      <3>5. auth.utxos[1] = source.outs[hop]
        BY StepBuilt, Zenon
      <3>6. auth.utxos[2] = source.outs[3]
        BY StepBuilt, Zenon
      <3> HIDE DEF source, auth, hop
      <3> QED
        BY <3>1, <3>2, <3>3, <3>4, <3>5, <3>6
    <2>2. /\ Len(auth.tx.outs) = (IF i < p.count THEN 3 ELSE 1)
          /\ auth.tx.outs[1] = Out(HotScript(p.hots[i]), p.monthly)
      BY StepBuilt, Zenon
    <2>4. Fee(auth.tx) = (IF i < p.count THEN ContinuingFee ELSE FinalFee)
      BY StepBuilt, Zenon
    <2>5. OutputSum(auth.tx.outs) + Fee(auth.tx) = ChainValue(p, i) + Connector
      BY StepBuilt, Zenon
    <2>3. /\ source.outs[3] = Out(ControllerScript(p.vault), Connector)
          /\ i < p.count => /\ auth.tx.outs[2] = Out(VaultScript(p.vault), ChainValue(p, i + 1))
                            /\ auth.tx.outs[3] = Out(ControllerScript(p.vault), Connector)
      BY StepBuilt, Zenon
    <2> HIDE DEF source, auth, hop
    <2> QED
      BY <1>7, <2>1, <2>2, <2>3, <2>4, <2>5
  <1> HIDE DEF source, auth, hop, a
  <1>9. source.outs[hop].value = ChainValue(p, i)
    BY <1>8 DEF Out
  <1>10. ValidChild(w, a.authorization, source, hop, 3, Monthly)
    <2>1. /\ MadeFrom(w.psbts[AllowanceFile(i)], auth, {1})
          /\ \A s \in w.psbts[AllowanceFile(i)].sigs : s.input # 2
      BY HonestFiles DEF auth
    <2>2. auth.utxos[2] = ConnectorOut(w)
          /\ OutputSum(auth.tx.outs) + Fee(auth.tx) = source.outs[hop].value + Connector
      BY <1>8, <1>9
    <2> QED
      BY <1>3, <1>8, <2>1, <2>2, HonestChild
  <1>11. ASSUME i < p.count
         PROVE  /\ auth.tx.outs[2].script = VaultScript(p.vault)
                /\ auth.tx.outs[2].value + p.monthly + a.authorization.fee = ChainValue(p, i)
                /\ auth.tx.outs[2].value >= Dust
                /\ auth.tx.outs[3] = ConnectorOut(w)
                /\ a.next = <<auth.tx.txid, 3>>
    <2>1. /\ auth.tx.outs[2].script = VaultScript(p.vault)
          /\ auth.tx.outs[2].value = ChainValue(p, i + 1)
      BY <1>8, <1>11 DEF Out
    <2>2. i + 1 \in 1 .. p.count /\ i + 1 > 1
      BY <1>2, <1>11
    <2>3. ChainValue(p, i + 1) >= Dust
      BY <1>2, <2>2
    <2>4. a.authorization.fee = ContinuingFee
      BY <1>3, <1>4, <1>8, <1>11
    <2>5. ChainValue(p, i + 1) + p.monthly + ContinuingFee = ChainValue(p, i)
      BY <1>11, ChainValues
    <2>6. a.next = <<auth.tx.txid, 3>>
      BY <1>3, <1>11 DEF If
    <2> QED
      BY <1>8, <1>11, <2>1, <2>3, <2>4, <2>5, <2>6
  <1>12. ASSUME ~(i < p.count)
         PROVE  /\ ChainValue(p, i) + Connector = p.monthly + a.authorization.fee
                /\ a.next = <<>>
    <2>1. i = p.count
      BY <1>2, <1>12
    <2>2. a.authorization.fee = FinalFee
      BY <1>3, <1>4, <1>8, <1>12
    <2>3. ChainValue(p, i) + Connector = p.monthly + FinalFee
      BY <2>1, ChainValues
    <2>4. a.next = <<>>
      BY <1>3, <1>12 DEF If
    <2> QED
      BY <2>2, <2>3, <2>4
  <1>13. Psbt(w, m.allowances[i].authorization).tx = auth.tx
    BY <1>1, <1>5
  <1> QED
    BY <1>1, <1>3, <1>6, <1>8, <1>9, <1>10, <1>11, <1>12, <1>13 DEF ValidAllowance, hop

\* validate_connector_emergency accepts what the phone built.
LEMMA HonestEmergency ==
  ASSUME NEW p \in Proposals, NEW w, Honest(w, p)
  PROVE  ValidEmergency(w)
PROOF
  <1> DEFINE m == w.manifest
             e == Manifest(p).access[1]
             rollover == Rollover(p).tx
             remainder == RemainderVout(p)
             t == Trigger(p)
             u == Withdrawal(p)
             change == t.tx.outs[2].value
  <1>1. /\ m.vault = p.vault /\ m.emergency = p.emergency
        /\ m.rollover = Manifest(p).rollover /\ m.outputs = Manifest(p).outputs
        /\ m.access = Manifest(p).access
    BY HonestManifest
  <1>2. p.emergency \in Nat /\ Connector \in Nat /\ Dust \in Nat
    BY PackageAssumption
  <1>3. CASE p.emergency = 0
    <2>1. Manifest(p).access = <<>>
      <3>1. ~(p.emergency > 0)
        BY <1>3
      <3> QED
        BY <3>1, ManifestOf, Zenon
    <2>2. m.emergency = 0 /\ m.access = <<>>
      BY <1>1, <1>3, <2>1
    <2> QED
      BY <2>2, Zenon DEF ValidEmergency
  <1>4. CASE p.emergency > 0
    <2>1. StagingValue(p) \in Nat /\ change >= Dust
      BY <1>4, FundedAssumption
    <2>2. m.outputs.remainderVout = remainder /\ m.outputs.emergencyVout = Outputs(p)
      <3> DEFINE vaultIns == InputSum(Rollover(p).utxos, 1 .. Coins(p))
                 controllerIns == InputSum(Rollover(p).utxos, Coins(p) + 1 .. Inputs(p))
                 first == IF p.count > 0 THEN 1 ELSE 0
                 worth == IF p.count > 0 THEN ChainValue(p, 1) ELSE 0
                 value == Rollover(p).tx.outs[remainder].value
                 monthly == IF p.count > 0 THEN remainder + 1 ELSE 0
                 last == IF p.emergency > 0 THEN Outputs(p) ELSE 0
      <3>1. Manifest(p).outputs =
              [vaultInputs |-> vaultIns, controllerInputs |-> controllerIns,
               allowanceVout |-> first, allowanceValue |-> worth,
               remainderVout |-> remainder, remainderValue |-> value,
               monthlyVout |-> monthly, emergencyVout |-> last]
        BY OutputsOf, Zenon
      <3>2. last = Outputs(p)
        BY <1>4
      <3> HIDE DEF vaultIns, controllerIns, first, worth, remainder, value, monthly, last
      <3> QED
        BY <1>1, <3>1, <3>2
    <2>3. /\ e.amount = p.emergency /\ e.hot = p.emergencyHot /\ e.staging = StagingValue(p)
          /\ e.change = change /\ e.connector = <<rollover.txid, Outputs(p)>>
          /\ e.next = <<t.tx.txid, 3>>
          /\ e.trigger = ChildEntry(TriggerFile, t)
          /\ e.withdrawal = ChildEntry(WithdrawalFile, u)
          /\ m.access # <<>>
      <3>1. e = [amount |-> p.emergency, hot |-> p.emergencyHot,
                 staging |-> StagingValue(p), change |-> change,
                 connector |-> <<rollover.txid, Outputs(p)>>,
                 next |-> <<t.tx.txid, 3>>,
                 trigger |-> ChildEntry(TriggerFile, t),
                 withdrawal |-> ChildEntry(WithdrawalFile, u)]
        BY <1>4, StepsOf
      <3>2. m.access # <<>>
        BY <1>1, <1>4, StepsOf
      <3> HIDE DEF e, t, u, rollover, change, m
      <3> QED
        BY <3>1, <3>2
    <2>4. /\ MadeFrom(w.psbts[TriggerFile], t, {1}) /\ MadeFrom(w.psbts[WithdrawalFile], u, {1})
          /\ \A s \in w.psbts[TriggerFile].sigs : s.input # 2
          /\ \A s \in w.psbts[WithdrawalFile].sigs : s.input # 2
          /\ MadeFrom(w.psbts[RolloverFile], Rollover(p), 1 .. Inputs(p))
      BY <1>4, HonestFiles
    <2>5. \A file, psbt : /\ ChildEntry(file, psbt).file = file
                          /\ ChildEntry(file, psbt).fee = Fee(psbt.tx)
      BY DEF ChildEntry, Entry
    <2>6. /\ Psbt(w, m.rollover).tx = rollover
          /\ Psbt(w, e.trigger).tx = t.tx /\ Psbt(w, e.withdrawal).tx = u.tx
      <3>1. m.rollover.file = RolloverFile
        BY <1>1, EntriesOf
      <3> HIDE DEF e, m
      <3> QED
        BY <2>3, <2>4, <2>5, <3>1 DEF Psbt, MadeFrom
    <2>7. ConnectorOut(w) = Out(ControllerScript(p.vault), Connector)
      BY <1>1 DEF ConnectorOut
    <2>8. rollover.outs[Outputs(p)] = ConnectorOut(w)
      BY <1>4, <2>7, RolloverBuilt
    <2>9. /\ Len(t.tx.ins) = 2
          /\ t.tx.ins[1] = In(rollover.txid, remainder, Final)
          /\ t.tx.ins[2] = In(rollover.txid, Outputs(p), Rbf)
          /\ t.utxos[1] = rollover.outs[remainder]
          /\ t.utxos[2] = rollover.outs[Outputs(p)]
      BY <1>4, TriggerBuilt, Zenon
    <2>10. /\ t.tx.outs = <<Out(VaultScript(p.vault), StagingValue(p)),
                            Out(VaultScript(p.vault), change),
                            Out(ControllerScript(p.vault), Connector)>>
           /\ OutputSum(t.tx.outs) + Fee(t.tx) = rollover.outs[remainder].value + Connector
      BY <1>4, TriggerBuilt, Zenon
    <2>11. /\ Len(u.tx.ins) = 2
           /\ u.tx.ins[1] = In(t.tx.txid, 1, Emergency)
           /\ u.tx.ins[2] = In(t.tx.txid, 3, Rbf)
           /\ u.utxos[1] = t.tx.outs[1] /\ u.utxos[2] = t.tx.outs[3]
      BY <1>4, WithdrawalBuilt, Zenon
    <2>12. /\ u.tx.outs = <<Out(HotScript(p.emergencyHot), p.emergency)>>
           /\ Fee(u.tx) = FinalFee
           /\ OutputSum(u.tx.outs) + Fee(u.tx) = StagingValue(p) + Connector
      BY <1>4, WithdrawalBuilt, Zenon
    <2> HIDE DEF m, e, rollover, t, u, remainder, change
    <2>13. ValidChild(w, e.trigger, rollover, remainder, Outputs(p), Final)
      <3>1. t.utxos[2] = ConnectorOut(w)
        BY <2>8, <2>9
      <3> QED
        BY <2>3, <2>4, <2>9, <2>10, <3>1, HonestChild
    <2>14. ValidChild(w, e.withdrawal, t.tx, 1, 3, Emergency)
      <3>1. t.tx.outs[1] = Out(VaultScript(p.vault), StagingValue(p))
            /\ t.tx.outs[3] = ConnectorOut(w)
        BY <2>7, <2>10
      <3>2. t.tx.outs[1].value = StagingValue(p)
        BY <3>1 DEF Out
      <3>3. OutputSum(u.tx.outs) + Fee(u.tx) = t.tx.outs[1].value + Connector
            /\ u.utxos[2] = ConnectorOut(w)
        BY <2>11, <2>12, <3>1, <3>2
      <3> QED
        BY <2>3, <2>4, <2>11, <3>3, HonestChild
    <2>15. e.staging + Connector = m.emergency + e.withdrawal.fee
      BY <1>1, <1>2, <2>3, <2>5, <2>12 DEF StagingValue, FinalFee, m
    <2>16. m.access[1] = e /\ m.emergency # 0
      BY <1>1, <1>2, <1>4 DEF e, m
    <2>17. t.tx.outs = <<Out(VaultScript(m.vault), e.staging),
                         Out(VaultScript(m.vault), e.change), ConnectorOut(w)>>
      BY <1>1, <2>3, <2>7, <2>10, Zenon DEF m
    <2>18. u.tx.outs = <<Out(HotScript(e.hot), m.emergency)>>
      BY <1>1, <2>3, <2>12, Zenon DEF m
    <2>19. /\ e.amount = m.emergency /\ e.change >= Dust
           /\ e.connector = <<rollover.txid, m.outputs.emergencyVout>>
           /\ e.next = <<t.tx.txid, 3>> /\ m.access # <<>>
      BY <1>1, <2>1, <2>2, <2>3 DEF m
    <2> QED
      BY <2>2, <2>6, <2>13, <2>14, <2>15, <2>16, <2>17, <2>18, <2>19, Zenon
      DEF ValidEmergency, m
  <1> QED
    BY <1>2, <1>3, <1>4

\* validate_batch accepts the whole batch that the phone built for the
\* configured vault.
LEMMA HonestValid ==
  ASSUME NEW p \in Proposals, NEW w, Honest(w, p), p.vault = Vault
  PROVE  ValidBatch(w)
PROOF
  <1>1. \A f \in FilesOf(w.manifest) : w.psbts[f].sighash = "default"
    BY HonestFiles
  <1>2. /\ w.manifest.vault = p.vault /\ w.manifest.monthly = p.monthly
        /\ w.manifest.count = p.count
        /\ w.manifest.allowances = Manifest(p).allowances
    BY HonestManifest
  <1>3. p.count \in 0 .. Months /\ Months \in Nat
    BY PackageAssumption
  <1>4. p.monthly = 0 => p.count = 0
    BY <1>3, FundedAssumption
  <1>5. p.count = Len(w.manifest.allowances)
    BY <1>2, ManifestOf
  <1>6. \A i \in 1 .. p.count : ValidAllowance(w, i)
    BY HonestAllowance
  <1>7. ValidRollover(w) /\ ValidEmergency(w)
    BY HonestRollover, HonestEmergency
  <1> QED
    BY <1>1, <1>2, <1>3, <1>4, <1>5, <1>6, <1>7 DEF ValidBatch

\* Every file of such a batch has the signatures that approve_policy asks for.
LEMMA HonestSigned ==
  ASSUME NEW p \in Proposals, NEW w, Honest(w, p), NEW e \in ToSet(Transactions(w.manifest))
  PROVE  /\ Verified(Psbt(w, e), "phone", e.vault)
         /\ e.file = RolloverFile => Verified(Psbt(w, e), "phone", e.controller)
         /\ e.vault \subseteq DOMAIN Psbt(w, e).tx.ins
         /\ w.manifest.rollover.file = RolloverFile
         /\ Psbt(w, e).sighash = "default"
PROOF
  <1>1. ASSUME NEW psbt, NEW b, NEW S, MadeFrom(psbt, b, S), S \subseteq DOMAIN b.tx.ins
        PROVE  /\ \A T : T \subseteq S => Verified(psbt, "phone", T)
               /\ psbt.sighash = "default" /\ psbt.tx = b.tx
    BY <1>1 DEF MadeFrom, Verified
  <1>2. /\ RolloverFile # TriggerFile /\ RolloverFile # WithdrawalFile
        /\ \A i : AllowanceFile(i) # RolloverFile
    BY DEF RolloverFile, TriggerFile, WithdrawalFile, AllowanceFile
  <1>3. \A file, psbt : ChildEntry(file, psbt).file = file /\ ChildEntry(file, psbt).vault = {1}
    BY DEF ChildEntry, Entry
  <1>4. w.manifest.rollover = Manifest(p).rollover /\ Manifest(p).rollover.file = RolloverFile
    BY HonestManifest, EntriesOf
  <1>5. ASSUME NEW file, NEW b, e = ChildEntry(file, b), file # RolloverFile,
               MadeFrom(w.psbts[file], b, {1}), DOMAIN b.tx.ins = {1, 2}
        PROVE  /\ Verified(Psbt(w, e), "phone", e.vault)
               /\ e.file = RolloverFile => Verified(Psbt(w, e), "phone", e.controller)
               /\ e.vault \subseteq DOMAIN Psbt(w, e).tx.ins
               /\ Psbt(w, e).sighash = "default"
    <2>1. e.file = file /\ e.vault = {1} /\ Psbt(w, e) = w.psbts[file]
      BY <1>3, <1>5 DEF Psbt
    <2>2. {1} \subseteq DOMAIN b.tx.ins
      BY <1>5
    <2> QED
      BY <1>1, <1>5, <2>1, <2>2
  <1>6. \/ e = Manifest(p).rollover
        \/ \E i \in 1 .. p.count : e = ChildEntry(AllowanceFile(i), Authorizations(p)[i])
        \/ /\ p.emergency > 0
           /\ \/ e = ChildEntry(TriggerFile, Trigger(p))
              \/ e = ChildEntry(WithdrawalFile, Withdrawal(p))
    <2>1. e \in ToSet(Transactions(Manifest(p)))
      BY HonestFiles
    <2> QED
      BY <2>1, EntriesOf
  <1>7. CASE e = Manifest(p).rollover
    <2>1. Psbt(w, e) = w.psbts[RolloverFile]
      BY <1>4, <1>7 DEF Psbt
    <2>2. MadeFrom(Psbt(w, e), Rollover(p), 1 .. Inputs(p))
      BY <2>1, HonestFiles
    <2>3. /\ Coins(p) \in Nat /\ Connectors(p) \in Nat /\ Inputs(p) = Coins(p) + Connectors(p)
          /\ DOMAIN Rollover(p).tx.ins = 1 .. Inputs(p)
      BY RolloverShape, RolloverBuilt
    <2>4. e.vault = 1 .. Coins(p) /\ e.controller = Coins(p) + 1 .. Inputs(p)
      BY <1>7, ManifestOf
    <2>5. e.vault \subseteq 1 .. Inputs(p) /\ e.controller \subseteq 1 .. Inputs(p)
      BY <2>3, <2>4
    <2> QED
      BY <1>1, <1>4, <2>2, <2>3, <2>5
  <1>8. ASSUME NEW i \in 1 .. p.count, e = ChildEntry(AllowanceFile(i), Authorizations(p)[i])
        PROVE  /\ Verified(Psbt(w, e), "phone", e.vault)
               /\ e.file = RolloverFile => Verified(Psbt(w, e), "phone", e.controller)
               /\ e.vault \subseteq DOMAIN Psbt(w, e).tx.ins
               /\ Psbt(w, e).sighash = "default"
    <2>1. DOMAIN Authorizations(p)[i].tx.ins = {1, 2}
      BY StepBuilt, Zenon
    <2>2. MadeFrom(w.psbts[AllowanceFile(i)], Authorizations(p)[i], {1})
      BY HonestFiles
    <2> QED
      BY <1>2, <1>5, <1>8, <2>1, <2>2
  <1>9. ASSUME p.emergency > 0, \/ e = ChildEntry(TriggerFile, Trigger(p))
                                \/ e = ChildEntry(WithdrawalFile, Withdrawal(p))
        PROVE  /\ Verified(Psbt(w, e), "phone", e.vault)
               /\ e.file = RolloverFile => Verified(Psbt(w, e), "phone", e.controller)
               /\ e.vault \subseteq DOMAIN Psbt(w, e).tx.ins
               /\ Psbt(w, e).sighash = "default"
    <2>1. DOMAIN Trigger(p).tx.ins = {1, 2} /\ DOMAIN Withdrawal(p).tx.ins = {1, 2}
      BY <1>9, TriggerBuilt, WithdrawalBuilt, Zenon
    <2>2. /\ MadeFrom(w.psbts[TriggerFile], Trigger(p), {1})
          /\ MadeFrom(w.psbts[WithdrawalFile], Withdrawal(p), {1})
      BY <1>9, HonestFiles
    <2> QED
      BY <1>2, <1>5, <1>9, <2>1, <2>2
  <1> QED
    BY <1>4, <1>6, <1>7, <1>8, <1>9

\* The phone signs no new connector.
LEMMA PhoneSignsVault ==
  ASSUME NEW p \in Proposals, NEW f \in FilesOf(Manifest(p)), f # RolloverFile
  PROVE  \A s \in PhonePsbt(p, f).sigs : s.input = 1
PROOF
  <1>1. ASSUME NEW b, b = NewPsbt(b.tx, b.utxos)
        PROVE  \A s \in Sign(b, "phone", {1}).sigs : s.input = 1
    <2>1. IsPsbt(b) /\ b.sigs = {}
      <3>1. PICK tx, utxos : tx = b.tx /\ utxos = b.utxos
        OBVIOUS
      <3>2. b = NewPsbt(tx, utxos)
        BY <1>1, <3>1
      <3> QED
        BY <3>2 DEF IsPsbt, NewPsbt
    <2> QED
      BY <2>1, SignAdds DEF Signature
  <1>2. /\ RolloverFile # TriggerFile /\ RolloverFile # WithdrawalFile
        /\ TriggerFile # WithdrawalFile
        /\ \A i : AllowanceFile(i) \notin {RolloverFile, TriggerFile, WithdrawalFile}
        /\ \A i : AllowanceFile(i)[2] = i
    BY DEF RolloverFile, TriggerFile, WithdrawalFile, AllowanceFile
  <1>3. \A file, psbt : ChildEntry(file, psbt).file = file
    BY DEF ChildEntry, Entry
  <1>4. \/ \E i \in 1 .. p.count : f = AllowanceFile(i)
        \/ p.emergency > 0 /\ f \in {TriggerFile, WithdrawalFile}
    <2> DEFINE T == ToSet(Transactions(Manifest(p)))
               m == Manifest(p)
    <2>1. FilesOf(m) = {e.file : e \in T} /\ m.rollover.file = RolloverFile
      BY EntriesOf
    <2>2. T = {m.rollover}
              \cup {ChildEntry(AllowanceFile(i), Authorizations(p)[i]) : i \in 1 .. p.count}
              \cup (IF p.emergency > 0 THEN {ChildEntry(TriggerFile, Trigger(p)),
                                             ChildEntry(WithdrawalFile, Withdrawal(p))}
                    ELSE {})
      BY EntriesOf
    <2>3. f \in FilesOf(m)
      OBVIOUS
    <2> HIDE DEF T, m
    <2> QED
      BY <1>3, <2>1, <2>2, <2>3
  <1>5. ASSUME NEW i \in 1 .. p.count, f = AllowanceFile(i)
        PROVE  \A s \in PhonePsbt(p, f).sigs : s.input = 1
    <2>1. PhonePsbt(p, f) = Sign(Authorizations(p)[i], "phone", {1})
      BY <1>2, <1>5 DEF PhonePsbt
    <2>2. Authorizations(p)[i] = NewPsbt(Authorizations(p)[i].tx, Authorizations(p)[i].utxos)
      BY StepBuilt
    <2> QED
      BY <1>1, <2>1, <2>2
  <1>6. ASSUME p.emergency > 0, f \in {TriggerFile, WithdrawalFile}
        PROVE  \A s \in PhonePsbt(p, f).sigs : s.input = 1
    <2>1. /\ PhonePsbt(p, TriggerFile) = Sign(Trigger(p), "phone", {1})
          /\ PhonePsbt(p, WithdrawalFile) = Sign(Withdrawal(p), "phone", {1})
      BY <1>2 DEF PhonePsbt
    <2>2. /\ Trigger(p) = NewPsbt(Trigger(p).tx, Trigger(p).utxos)
          /\ Withdrawal(p) = NewPsbt(Withdrawal(p).tx, Withdrawal(p).utxos)
      BY <1>6, TriggerBuilt, WithdrawalBuilt
    <2> QED
      BY <1>1, <1>6, <2>1, <2>2
  <1> QED
    BY <1>4, <1>5, <1>6

\* What is left of an honest package without the HWW is what the phone packed.
LEMMA HonestOf ==
  ASSUME NEW w, Shaped(w), NEW p \in Proposals, WithoutHww(w) = NewPackage(p)
  PROVE  Honest(w, p)
PROOF
  <1> DEFINE m == w.manifest
             bare == [m EXCEPT !.approved.hww = FALSE]
             stripped(f) == [w.psbts[f] EXCEPT !.sigs = {s \in @ : s.key # "hww"}]
  <1>1. bare = Manifest(p) /\ [f \in DOMAIN w.psbts |-> stripped(f)]
                                = [f \in FilesOf(Manifest(p)) |-> PhonePsbt(p, f)]
    <2>1. WithoutHww(w).manifest = bare
          /\ WithoutHww(w).psbts = [f \in DOMAIN w.psbts |-> stripped(f)]
      BY DEF WithoutHww
    <2>2. /\ NewPackage(p).manifest = Manifest(p)
          /\ NewPackage(p).psbts = [f \in FilesOf(Manifest(p)) |-> PhonePsbt(p, f)]
      BY DEF NewPackage
    <2> HIDE DEF bare, stripped
    <2> QED
      BY <2>1, <2>2
  <1>2. m = [x \in Fields |-> m[x]]
        /\ m.approved = [phone |-> m.approved.phone, hww |-> m.approved.hww]
    BY DEF Shaped, ShapedManifest
  <1>3. /\ \A x \in Fields \ {"approved"} : bare[x] = m[x]
        /\ bare.approved = [m.approved EXCEPT !.hww = FALSE]
    BY <1>2 DEF Fields
  <1>4. [m.approved EXCEPT !.hww = FALSE].phone = m.approved.phone
    BY <1>2
  <1>5. Manifest(p).approved.phone
    BY DEF Manifest
  <1>6. DOMAIN w.psbts = FilesOf(Manifest(p))
    BY <1>1
  <1>7. ASSUME NEW f \in FilesOf(Manifest(p))
        PROVE  /\ w.psbts[f].tx = PhonePsbt(p, f).tx
               /\ w.psbts[f].utxos = PhonePsbt(p, f).utxos
               /\ w.psbts[f].hash = PhonePsbt(p, f).hash
               /\ w.psbts[f].sighash = PhonePsbt(p, f).sighash
               /\ PhonePsbt(p, f).sigs = {s \in w.psbts[f].sigs : s.key # "hww"}
    <2>1. stripped(f) = PhonePsbt(p, f)
      BY <1>1, <1>6
    <2>2. IsPsbt(w.psbts[f])
      BY <1>6 DEF Shaped
    <2>3. PICK x : x = w.psbts[f]
      OBVIOUS
    <2>4. PhonePsbt(p, f) = [x EXCEPT !.sigs = {s \in @ : s.key # "hww"}] /\ IsPsbt(x)
      BY <2>1, <2>2, <2>3
    <2>5. /\ x.tx = PhonePsbt(p, f).tx /\ x.utxos = PhonePsbt(p, f).utxos
          /\ x.hash = PhonePsbt(p, f).hash /\ x.sighash = PhonePsbt(p, f).sighash
          /\ PhonePsbt(p, f).sigs = {s \in x.sigs : s.key # "hww"}
      BY <2>4 DEF IsPsbt
    <2> QED
      BY <2>3, <2>5
  <1>8. ASSUME NEW f \in FilesOf(Manifest(p)), f # RolloverFile, NEW s \in w.psbts[f].sigs
        PROVE  s.input # 2
    <2>1. s.input = 1 \/ (s.input = 2 /\ s.key = "phone")
      BY <1>6, <1>8 DEF Shaped, ChildSigs
    <2>2. CASE s.key # "hww"
      BY <1>7, <1>8, <2>2, PhoneSignsVault
    <2>3. CASE s.key = "hww"
      BY <2>1, <2>3
    <2> QED
      BY <2>2, <2>3
  <1>9. \A x \in Fields \ {"approved"} : m[x] = Manifest(p)[x]
    BY <1>1, <1>3
  <1>10. m.approved.phone
    BY <1>1, <1>3, <1>4, <1>5
  <1> QED
    BY <1>6, <1>7, <1>8, <1>9, <1>10 DEF Honest

\* validate_approved_batch accepts an honest package that both have signed.
LEMMA HonestApproved ==
  ASSUME NEW p \in Proposals, NEW w, Honest(w, p), p.vault = Vault,
         w.manifest.approved.hww, SignedByBoth(w)
  PROVE  ValidApproved(w)
PROOF
  <1>1. w.manifest.approved.phone
    BY DEF Honest
  <1>2. ValidBatch(w)
    BY HonestValid
  <1>3. ASSUME NEW e \in ToSet(Transactions(w.manifest))
        PROVE  /\ \A key \in {"phone", "hww"} : Verified(Psbt(w, e), key, e.vault)
               /\ e.file = w.manifest.rollover.file =>
                    \A i \in e.controller :
                      \E key \in {"phone", "hww"} : Verified(Psbt(w, e), key, {i})
    <2>1. /\ Verified(Psbt(w, e), "phone", e.vault)
          /\ e.file = RolloverFile => Verified(Psbt(w, e), "phone", e.controller)
          /\ e.vault \subseteq DOMAIN Psbt(w, e).tx.ins
          /\ w.manifest.rollover.file = RolloverFile
          /\ Psbt(w, e).sighash = "default"
      BY HonestSigned
    <2>2. Verified(Psbt(w, e), "hww", e.vault)
      BY <2>1 DEF Verified, SignedByBoth
    <2>3. ASSUME e.file = w.manifest.rollover.file, NEW i \in e.controller
          PROVE  Verified(Psbt(w, e), "phone", {i})
      BY <2>1, <2>3 DEF Verified
    <2> QED
      BY <2>1, <2>2, <2>3
  <1> QED
    BY <1>1, <1>2, <1>3 DEF ValidApproved

\* The batch w is one that HonestNotRefused speaks of.
LEMMA RefusedBatch ==
  ASSUME NEW w, Shaped(w), w.manifest.vault = Vault, WithoutHww(w) \in Proposed
  PROVE  \E p \in Proposals : Honest(w, p) /\ p.vault = Vault
PROOF
  <1>1. PICK p \in Proposals : WithoutHww(w) = NewPackage(p)
    BY DEF Proposed
  <1>2. Honest(w, p)
    BY <1>1, HonestOf
  <1>3. w.manifest.vault = p.vault
    BY <1>2, HonestManifest
  <1> QED
    BY <1>2, <1>3

\* No step refuses an honest package.
LEMMA NextHonest ==
  ASSUME Inv, HonestNotRefused, [Next]_vars
  PROVE  HonestNotRefused'
PROOF
  <1> SUFFICES ASSUME stage' = "refused", workspace'.manifest.vault = Vault,
                      WithoutHww(workspace') \in Proposed,
                      device' = "phone" =>
                        workspace' \in packages' /\ workspace'.manifest.approved.hww
               PROVE  FALSE
    BY DEF HonestNotRefused, WithoutHww
  <1>1. ASSUME NEW d \in {"phone", "hww"}, ReadMixed(d) \/ ReadUsed(d)
        PROVE  FALSE
    <2>1. PICK w : Shaped(w) /\ Read(d, w)
      BY <1>1, ReadShaped DEF Inv, PackagesInv
    <2>2. workspace' = w /\ ~Materializes(w)
      BY <2>1 DEF Read
    <2>3. PICK p \in Proposals : Honest(w, p)
      BY <2>1, <2>2, RefusedBatch
    <2>4. DOMAIN w.psbts = FilesOf(w.manifest)
      BY <2>3, HonestFiles DEF Honest
    <2> QED
      BY <2>2, <2>4 DEF Materializes
  <1>2. CASE RefuseReview
    <2>1. Shaped(workspace) /\ ~ValidBatch(workspace) /\ workspace' = workspace
      BY <1>2 DEF RefuseReview, Refuse, Inv, WorkspaceInv
    <2>2. PICK p \in Proposals : Honest(workspace, p) /\ p.vault = Vault
      BY <2>1, RefusedBatch
    <2> QED
      BY <2>1, <2>2, HonestValid
  <1>3. CASE RefuseSignature
    <2>1. /\ Shaped(workspace) /\ ~PhoneSigned(workspace, Current) /\ workspace' = workspace
          /\ position \in Nat \ {0} /\ position <= Len(Transactions(workspace.manifest))
      BY <1>3 DEF RefuseSignature, Signing, Refuse, Inv, WorkspaceInv
    <2>2. PICK p \in Proposals : Honest(workspace, p)
      BY <2>1, RefusedBatch
    <2>3. Current \in ToSet(Transactions(workspace.manifest))
      <3>1. /\ DOMAIN Transactions(workspace.manifest)
                 = 1 .. Len(Transactions(workspace.manifest))
            /\ Len(Transactions(workspace.manifest)) \in Nat
        BY <2>1, TransactionsOf DEF Shaped
      <3> QED
        BY <2>1, <3>1 DEF Current, ToSet
    <2> QED
      BY <2>1, <2>2, <2>3, HonestSigned DEF PhoneSigned
  <1>4. CASE RefuseActivation
    <2>1. /\ Shaped(workspace) /\ ~ValidApproved(workspace) /\ workspace' = workspace
          /\ packages' = packages /\ device' = "phone"
      BY <1>4 DEF RefuseActivation, Refuse, Inv, WorkspaceInv
    <2>2. PICK p \in Proposals : Honest(workspace, p) /\ p.vault = Vault
      BY <2>1, RefusedBatch
    <2>3. workspace.manifest.approved.hww /\ SignedByBoth(workspace)
      BY <2>1 DEF Inv, PackagesInv, ApprovedIsSigned
    <2> QED
      BY <2>1, <2>2, <2>3, HonestApproved
  <1>5. CASE Review \/ Approve \/ Accept \/ Interrupt \/ Dismiss \/ SignNext
    BY <1>5 DEF Review, Approve, Accept, Interrupt, Dismiss, End, SignNext, Signing
  <1>6. CASE UNCHANGED vars
    BY <1>6 DEF vars, HonestNotRefused, WithoutHww
  <1> QED
    BY <1>1, <1>2, <1>3, <1>4, <1>5, <1>6 DEF Next

\* Neither device refuses a package of the configured vault that arrives as it
\* was written, whatever the shape of the policy and also when it comes a second
\* time: validate_batch accepts what build_policy_proposal builds, and
\* validate_approved_batch what approve_policy writes.
THEOREM HonestAccepted == Spec => []HonestNotRefused
PROOF
  <1>1. Init => HonestNotRefused
    BY DEF Init, HonestNotRefused
  <1> QED
    BY <1>1, NextHonest, Invariant, PTL DEF Spec
=============================================================================
