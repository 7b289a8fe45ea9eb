-------------------------- MODULE VaultChainProofs --------------------------
(***************************************************************************)
(* Proofs about VaultChain, for any number of epochs, steps, deposits and  *)
(* unconfirmed transactions and any delays.                                *)
(***************************************************************************)
EXTENDS VaultChain, TLAPS

USE BoundsAssumption, DelaysAssumption, BackendAssumption, DepositsAssumption

\* Confirmed at some time, spent since or not.
Known == utxo \cup spent

Approved(e) == plan[e].status = "approved"

\* An allowance of step k of epoch e has confirmed.
Paid(e, k) == [type |-> "authorization", epoch |-> e, step |-> k] \in released
Withdrawn(e) == \E r \in released : r.type = "withdrawal" /\ r.epoch = e

-----------------------------------------------------------------------------
(* The inductive invariant, for both backends.                             *)

\* The ceremonies: a scanned vault was not empty, a manifest names outputs that
\* were confirmed when they were scanned, and the phone's pointer names an
\* approved epoch.
PlanInv ==
  /\ \A e \in Epochs : plan[e].status # "none" =>
       plan[e].ins # {} /\ plan[e].ins \subseteq Known
  /\ schedule # 0 => Approved(schedule)

\* A transaction of the mempool is one that some epoch's approved batch, a
\* revocation or a sweep can produce.
PolicyTx(tx) ==
  \E e \in Epochs :
    /\ Approved(e)
    /\ \/ tx = RolloverTx(e) \/ tx = TriggerTx(e) \/ tx = WithdrawalTx(e)
       \/ \E k \in Steps : k <= plan[e].steps /\ tx = AuthorizationTx(e, k)

OtherTx(tx) ==
  \/ tx = RevocationTx(tx.ins) /\ tx.ins \subseteq Connectors
  \/ /\ tx \in {SweepTx(tx.ins), PhoneRecoveryTx(tx.ins), HwwRecoveryTx(tx.ins)}
     /\ tx.ins \subseteq VaultOutputs

PoolInv == \A tx \in pool : PolicyTx(tx) \/ OtherTx(tx)

\* Nothing is both spent and unspent, and only unspent outputs have an age.
LedgerInv ==
  /\ utxo \cap spent = {}
  /\ revoked \subseteq spent
  /\ \A o \in VaultOutputs \ utxo : age[o] = 0

\* What exists on chain was created by the one transaction that can create it,
\* and that one's inputs are spent.
FromRollover(e) == {Remainder(e), Emergency(e), Chain(e, 1), Monthly(e, 1)}
FromTrigger(e) == {Staging(e), Change(e), Withdrawal(e)}

OriginInv ==
  /\ \A e \in Epochs : FromRollover(e) \cap Known # {} =>
       Approved(e) /\ plan[e].ins \subseteq spent
  /\ \A e \in Epochs : FromTrigger(e) \cap Known # {} =>
       /\ {Remainder(e), Emergency(e)} \subseteq spent
       /\ Emergency(e) \notin revoked
  /\ \A e \in Epochs, k \in Steps :
       k + 1 \in Steps /\ {Chain(e, k + 1), Monthly(e, k + 1)} \cap Known # {} =>
         Paid(e, k)

\* An allowance follows every earlier one of its epoch, and what it spent was
\* spent by nothing else; so for a withdrawal.
PaidInv ==
  /\ \A e \in Epochs, k \in Steps : Paid(e, k) =>
       /\ {Chain(e, k), Monthly(e, k)} \subseteq spent
       /\ Monthly(e, k) \notin revoked
       /\ \A i \in Steps : i <= k => Paid(e, i)
  /\ \A e \in Epochs : Withdrawn(e) =>
       /\ Withdrawal(e) \in spent
       /\ revoked \cap {Emergency(e), Withdrawal(e)} = {}

Inv == TypeOK /\ PlanInv /\ PoolInv /\ LedgerInv /\ OriginInv /\ PaidInv

-----------------------------------------------------------------------------
(* On Bitcoin Core a scan sees every confirmed output.                     *)

Fresh(e) == plan[e].status # "none" /\ plan[e].ins \cap spent = {}

ScanInv ==
  /\ \A e \in Epochs, o \in utxo :
       /\ Fresh(e) /\ o[1] # "deposit"
       /\ o \in VaultOutputs \/ plan[e].status # "scanned"
       => o \in plan[e].ins
  /\ \A e, f \in Epochs : Fresh(e) /\ Fresh(f) => plan[e].ins \cap plan[f].ins # {}
  /\ \A e \in Epochs : plan[e].status # "none" => plan[e].ins \cap VaultOutputs # {}

-----------------------------------------------------------------------------
(* The monthly lock.                                                       *)

RateInv ==
  /\ \A tx \in pool : tx.type = "authorization" /\ MonthlyDelay > 0 =>
       LET o == Chain(tx.epoch, tx.step) IN
         o \in spent \/ (o \in utxo /\ age[o] >= MonthlyDelay)
  /\ \A e \in Epochs, k \in Steps : Chain(e, k) \in utxo =>
       age[Chain(e, k)] <= sincePaid \/ sincePaid = MonthlyDelay

-----------------------------------------------------------------------------
(* Outpoints and transactions.                                             *)

\* Outpoints of different kinds, epochs or steps differ: each component can be
\* read back.
LEMMA Kinds ==
  /\ \A d : Deposit(d)[1] = "deposit"
  /\ \A e, k : /\ Chain(e, k)[1] = "chain" /\ Chain(e, k)[2] = e
               /\ Chain(e, k)[3] = k
               /\ Monthly(e, k)[1] = "monthly" /\ Monthly(e, k)[2] = e
               /\ Monthly(e, k)[3] = k
  /\ \A e : /\ Remainder(e)[1] = "remainder" /\ Remainder(e)[2] = e
            /\ Staging(e)[1] = "staging" /\ Staging(e)[2] = e
            /\ Change(e)[1] = "change" /\ Change(e)[2] = e
            /\ Emergency(e)[1] = "emergency" /\ Emergency(e)[2] = e
            /\ Withdrawal(e)[1] = "withdrawal" /\ Withdrawal(e)[2] = e
BY DEF Deposit, Chain, Monthly, Remainder, Staging, Change, Emergency, Withdrawal

\* Which outpoints hold principal and which are connectors.
LEMMA Membership ==
  /\ \A e \in Epochs, k \in Steps :
       Chain(e, k) \in VaultOutputs /\ Monthly(e, k) \in Connectors
  /\ \A e \in Epochs :
       /\ {Remainder(e), Staging(e), Change(e)} \subseteq VaultOutputs
       /\ {Emergency(e), Withdrawal(e)} \subseteq Connectors
  /\ \A d \in Deposits : Deposit(d) \in VaultOutputs
  /\ Outpoints = VaultOutputs \cup Connectors
BY DEF VaultOutputs, Connectors, Outpoints

\* The type of each transaction and what it spends.
LEMMA Fields ==
  /\ \A e : /\ RolloverTx(e).type = "rollover" /\ RolloverTx(e).epoch = e
            /\ RolloverTx(e).step = 0 /\ RolloverTx(e).ins = plan[e].ins
            /\ TriggerTx(e).type = "trigger" /\ TriggerTx(e).epoch = e
            /\ TriggerTx(e).step = 0
            /\ TriggerTx(e).ins = {Remainder(e), Emergency(e)}
            /\ WithdrawalTx(e).type = "withdrawal" /\ WithdrawalTx(e).epoch = e
            /\ WithdrawalTx(e).step = 0
            /\ WithdrawalTx(e).ins = {Staging(e), Withdrawal(e)}
  /\ \A e, k : /\ AuthorizationTx(e, k).type = "authorization"
               /\ AuthorizationTx(e, k).epoch = e
               /\ AuthorizationTx(e, k).step = k
               /\ AuthorizationTx(e, k).ins = {Chain(e, k), Monthly(e, k)}
  /\ \A S : /\ RevocationTx(S).type = "revocation" /\ RevocationTx(S).ins = S
            /\ SweepTx(S).type = "sweep" /\ SweepTx(S).ins = S
            /\ PhoneRecoveryTx(S).type = "phone_recovery"
            /\ PhoneRecoveryTx(S).ins = S
            /\ HwwRecoveryTx(S).type = "hww_recovery"
            /\ HwwRecoveryTx(S).ins = S
BY DEF RolloverTx, TriggerTx, WithdrawalTx, AuthorizationTx, RevocationTx,
       SweepTx, PhoneRecoveryTx, HwwRecoveryTx, Tx

\* Every transaction of the pool is a record of the model's transaction type.
LEMMA PoolTyped ==
  ASSUME plan \in [Epochs -> Plans], NEW tx, PolicyTx(tx) \/ OtherTx(tx)
  PROVE  tx \in [type : TxTypes, epoch : 0 .. MaxEpochs, step : 0 .. MaxSteps,
                 ins : SUBSET Outpoints]
<1>1. CASE PolicyTx(tx)
  <2>1. PICK e \in Epochs :
          \/ tx = RolloverTx(e) \/ tx = TriggerTx(e) \/ tx = WithdrawalTx(e)
          \/ \E k \in Steps : tx = AuthorizationTx(e, k)
    BY <1>1 DEF PolicyTx
  <2>2. e \in 0 .. MaxEpochs /\ 0 \in 0 .. MaxSteps /\ plan[e].ins \subseteq Outpoints
    BY DEF Epochs, Plans
  <2>3. \A k \in Steps : k \in 0 .. MaxSteps
    BY DEF Steps
  <2>4. CASE tx = RolloverTx(e)
    BY <2>2, <2>4 DEF RolloverTx, Tx, TxTypes
  <2>5. CASE tx = TriggerTx(e) \/ tx = WithdrawalTx(e)
    BY <2>2, <2>5, Membership DEF TriggerTx, WithdrawalTx, Tx, TxTypes
  <2>6. ASSUME NEW k \in Steps, tx = AuthorizationTx(e, k)
        PROVE  tx \in [type : TxTypes, epoch : 0 .. MaxEpochs,
                       step : 0 .. MaxSteps, ins : SUBSET Outpoints]
    BY <2>2, <2>3, <2>6, Membership DEF AuthorizationTx, Tx, TxTypes
  <2>7. QED
    BY <2>1, <2>4, <2>5, <2>6
<1>2. CASE OtherTx(tx)
  BY <1>2, Membership
     DEF OtherTx, RevocationTx, SweepTx, PhoneRecoveryTx, HwwRecoveryTx, Tx, TxTypes
<1>3. QED
  BY <1>1, <1>2

\* What a transaction creates names its creator: each outpoint can be created by
\* one transaction only.
LEMMA Creator ==
  ASSUME plan \in [Epochs -> Plans], NEW tx, PolicyTx(tx) \/ OtherTx(tx),
         NEW o \in Outputs(tx)
  PROVE  \E e \in Epochs :
           /\ Approved(e) /\ tx.epoch = e
           /\ \/ tx = RolloverTx(e) /\ o \in FromRollover(e)
              \/ tx = TriggerTx(e) /\ o \in FromTrigger(e)
              \/ \E k \in Steps :
                   /\ k + 1 \in Steps /\ tx = AuthorizationTx(e, k)
                   /\ o \in {Chain(e, k + 1), Monthly(e, k + 1)}
<1>1. CASE OtherTx(tx)
  BY <1>1, Fields DEF OtherTx, Outputs
<1>2. CASE PolicyTx(tx)
  <2>1. PICK e \in Epochs :
          /\ Approved(e)
          /\ \/ tx = RolloverTx(e) \/ tx = TriggerTx(e) \/ tx = WithdrawalTx(e)
             \/ \E k \in Steps : k <= plan[e].steps /\ tx = AuthorizationTx(e, k)
    BY <1>2 DEF PolicyTx
  <2>2. CASE tx = RolloverTx(e)
    <3>1. o \in RolloverOutputs(e)
      BY <2>2, Fields DEF Outputs
    <3>2. QED
      BY <2>1, <2>2, <3>1, Fields DEF RolloverOutputs, FromRollover
  <2>3. CASE tx = TriggerTx(e)
    BY <2>1, <2>3, Fields DEF Outputs, TriggerOutputs, FromTrigger
  <2>4. CASE tx = WithdrawalTx(e)
    BY <2>4, Fields DEF Outputs
  <2>5. ASSUME NEW k \in Steps, tx = AuthorizationTx(e, k)
        PROVE  k + 1 \in Steps /\ o \in {Chain(e, k + 1), Monthly(e, k + 1)}
    <3>1. o \in AuthorizationOutputs(e, k)
      BY <2>5, Fields DEF Outputs
    <3>2. plan[e].steps \in 0 .. MaxSteps
      BY DEF Plans
    <3>3. QED
      BY <3>1, <3>2 DEF AuthorizationOutputs, Steps
  <2>6. QED
    BY <2>1, <2>2, <2>3, <2>4, <2>5, Fields
<1>3. QED
  BY <1>1, <1>2
-----------------------------------------------------------------------------
(* Inv is inductive.                                                       *)

\* An empty chain and no ceremony.
LEMMA InitInv == Init => Inv
<1> SUFFICES ASSUME Init PROVE Inv
  OBVIOUS
<1> USE DEF Init
<1>1. TypeOK
  <2>1. plan \in [Epochs -> Plans]
    BY DEF NoPlan, Plans
  <2>2. age \in [VaultOutputs -> 0 .. HwwDelay]
    OBVIOUS
  <2>3. QED
    BY <2>1, <2>2 DEF TypeOK
<1>2. PlanInv /\ PoolInv
  BY DEF PlanInv, PoolInv, NoPlan
<1>3. LedgerInv /\ OriginInv /\ PaidInv
  BY DEF LedgerInv, OriginInv, PaidInv, Known, Paid, Withdrawn
<1>4. QED
  BY <1>1, <1>2, <1>3 DEF Inv

\* Steps that leave the confirmed chain and the plans alone: drafts, broadcasts,
\* evictions, the pointer.
Still ==
  /\ UNCHANGED <<plan, utxo, spent, age, released, sincePaid, revoked, last>>
  /\ schedule' \in 0 .. MaxEpochs
  /\ schedule' # 0 => Approved(schedule')
  /\ left' \subseteq Epochs
  /\ draft' \subseteq Connectors
  /\ sweep' \subseteq VaultOutputs
  /\ \A tx \in pool' \ pool : (PolicyTx(tx) \/ OtherTx(tx)) /\ Admits(tx)

\* Such a step preserves the invariant.
LEMMA StillStep ==
  ASSUME Inv, Still
  PROVE  Inv'
<1> USE DEF Inv, Still
<1>1. \A tx : (PolicyTx(tx) => PolicyTx(tx)') /\ (OtherTx(tx) => OtherTx(tx)')
  BY DEF PolicyTx, OtherTx, Approved, RolloverTx, TriggerTx, WithdrawalTx,
         AuthorizationTx, RevocationTx, SweepTx, PhoneRecoveryTx, HwwRecoveryTx
<1>2. PoolInv'
  BY <1>1 DEF PoolInv
<1>3. TypeOK'
  <2>1. \A tx \in pool' : tx \in [type : TxTypes, epoch : 0 .. MaxEpochs,
                                  step : 0 .. MaxSteps, ins : SUBSET Outpoints]
    BY PoolTyped DEF TypeOK
  <2>2. QED
    BY <2>1 DEF TypeOK
<1>4. PlanInv'
  BY DEF PlanInv, Known, Approved
<1>5. LedgerInv' /\ OriginInv' /\ PaidInv'
  BY DEF LedgerInv, OriginInv, PaidInv, Known, Approved, Paid, Withdrawn
<1>6. QED
  BY <1>2, <1>3, <1>4, <1>5

\* A step of a ceremony: one plan that is not yet approved moves on.
LEMMA PlanStep ==
  ASSUME Inv, NEW e \in Epochs, ~Approved(e), NEW p \in Plans,
         p.status # "none", p.ins # {}, p.ins \subseteq Known,
         plan' = [plan EXCEPT ![e] = p],
         UNCHANGED <<schedule, left, draft, sweep, chainVars>>
  PROVE  Inv'
<1> USE DEF Inv, chainVars
<1>0. plan \in [Epochs -> Plans]
  BY DEF TypeOK
<1>1. plan' \in [Epochs -> Plans] /\ plan'[e] = p
      /\ \A f \in Epochs : f # e => plan'[f] = plan[f]
  BY <1>0
<1>2. \A f \in Epochs : Approved(f) => Approved(f)' /\ plan'[f] = plan[f]
  BY <1>1 DEF Approved
<1>3. TypeOK'
  BY <1>1 DEF TypeOK
<1>4. PlanInv'
  BY <1>1, <1>2 DEF PlanInv, Known, TypeOK, Epochs
<1>5. PoolInv'
  <2>1. ASSUME NEW tx \in pool, PolicyTx(tx)
        PROVE  PolicyTx(tx)'
    BY <1>2, <2>1 DEF PolicyTx, RolloverTx, TriggerTx, WithdrawalTx, AuthorizationTx
  <2>2. \A tx : OtherTx(tx) => OtherTx(tx)'
    BY DEF OtherTx, RevocationTx, SweepTx, PhoneRecoveryTx, HwwRecoveryTx
  <2>3. QED
    BY <2>1, <2>2 DEF PoolInv
<1>6. LedgerInv' /\ OriginInv' /\ PaidInv'
  BY <1>2 DEF LedgerInv, OriginInv, PaidInv, Known, Paid, Withdrawn
<1>7. QED
  BY <1>3, <1>4, <1>5, <1>6
\* A transaction that confirms creates nothing that was ever there: its inputs
\* would be spent.
LEMMA FreshOutputs ==
  ASSUME Inv, NEW tx \in pool, tx.ins \subseteq utxo
  PROVE  Outputs(tx) \cap Known = {} /\ Outputs(tx) \subseteq Outpoints
<1> USE DEF Inv
<1> SUFFICES ASSUME NEW o \in Outputs(tx) PROVE o \notin Known /\ o \in Outpoints
  OBVIOUS
<1>1. PolicyTx(tx) \/ OtherTx(tx)
  BY DEF PoolInv
<1>2. plan \in [Epochs -> Plans]
  BY DEF TypeOK
<1>3. PICK e \in Epochs :
        /\ Approved(e) /\ tx.epoch = e
        /\ \/ tx = RolloverTx(e) /\ o \in FromRollover(e)
           \/ tx = TriggerTx(e) /\ o \in FromTrigger(e)
           \/ \E k \in Steps :
                /\ k + 1 \in Steps /\ tx = AuthorizationTx(e, k)
                /\ o \in {Chain(e, k + 1), Monthly(e, k + 1)}
  BY <1>1, <1>2, Creator
<1>4. CASE tx = RolloverTx(e) /\ o \in FromRollover(e)
  <2>1. plan[e].ins \subseteq utxo /\ plan[e].ins # {}
    BY <1>3, <1>4, Fields DEF PlanInv, Approved
  <2>2. o \notin Known
    BY <1>4, <2>1 DEF OriginInv, LedgerInv
  <2>3. o \in Outpoints
    <3>1. o \in RolloverOutputs(e)
      BY <1>4, Fields DEF Outputs
    <3>2. plan[e].steps > 0 => 1 \in Steps
      BY <1>2 DEF Plans, Steps
    <3>3. QED
      BY <3>1, <3>2, Membership DEF RolloverOutputs
  <2>4. QED
    BY <2>2, <2>3
<1>5. CASE tx = TriggerTx(e) /\ o \in FromTrigger(e)
  <2>1. Remainder(e) \in utxo
    BY <1>5, Fields
  <2>2. o \notin Known
    BY <1>5, <2>1 DEF OriginInv, LedgerInv
  <2>3. QED
    BY <1>5, <2>2, Membership DEF FromTrigger
<1>6. ASSUME NEW k \in Steps, k + 1 \in Steps, tx = AuthorizationTx(e, k),
             o \in {Chain(e, k + 1), Monthly(e, k + 1)}
      PROVE  o \notin Known /\ o \in Outpoints
  <2>1. Chain(e, k) \in utxo
    BY <1>6, Fields
  <2>2. o \notin Known
    BY <1>6, <2>1 DEF OriginInv, PaidInv, LedgerInv
  <2>3. QED
    BY <1>6, <2>2, Membership
<1>7. QED
  BY <1>3, <1>4, <1>5, <1>6

\* A block confirms one transaction.
LEMMA ConfirmStep ==
  ASSUME Inv, NEW tx \in pool, Confirm(tx)
  PROVE  Inv'
<1> USE DEF Inv
<1>1. plan \in [Epochs -> Plans] /\ (PolicyTx(tx) \/ OtherTx(tx))
  BY DEF TypeOK, PoolInv
<1>2. /\ tx.ins \subseteq utxo /\ pool' = pool \ {tx}
      /\ utxo' = (utxo \ tx.ins) \cup Outputs(tx) /\ spent' = spent \cup tx.ins
      /\ UNCHANGED <<plan, schedule, left, draft, sweep>>
  BY DEF Confirm, phoneVars
<1>3. Outputs(tx) \cap Known = {} /\ Outputs(tx) \subseteq Outpoints
  BY <1>2, FreshOutputs
<1>4. Known' = Known \cup Outputs(tx) /\ spent \subseteq spent'
  BY <1>2 DEF Known
<1>5. tx \in [type : TxTypes, epoch : 0 .. MaxEpochs, step : 0 .. MaxSteps,
              ins : SUBSET Outpoints]
  BY <1>1, PoolTyped
<1>6. /\ revoked \subseteq revoked'
      /\ \A o \in revoked' : o \in revoked \/ (o \in utxo /\ o \in tx.ins)
      /\ tx.type # "revocation" => revoked' = revoked
  BY <1>2 DEF Confirm
<1>7. /\ released \subseteq released'
      /\ tx.type \notin {"authorization", "withdrawal"} => released' = released
      /\ tx.type \in {"authorization", "withdrawal"} =>
           released' = released \cup
             {[type |-> tx.type, epoch |-> tx.epoch, step |-> tx.step]}
  BY DEF Confirm, Release
<1>8. \A f \in Epochs, k \in Steps :
        Paid(f, k)' => Paid(f, k) \/ tx = AuthorizationTx(f, k)
  <2> SUFFICES ASSUME NEW f \in Epochs, NEW k \in Steps, Paid(f, k)', ~Paid(f, k)
               PROVE  tx = AuthorizationTx(f, k)
    OBVIOUS
  <2>1. tx.type = "authorization" /\ tx.epoch = f /\ tx.step = k
    BY <1>7 DEF Paid
  <2>2. QED
    BY <1>1, <2>1, Fields DEF PolicyTx, OtherTx
<1>9. \A f \in Epochs : Withdrawn(f)' => Withdrawn(f) \/ tx = WithdrawalTx(f)
  <2> SUFFICES ASSUME NEW f \in Epochs, Withdrawn(f)', ~Withdrawn(f)
               PROVE  tx = WithdrawalTx(f)
    OBVIOUS
  <2>1. tx.type = "withdrawal" /\ tx.epoch = f
    BY <1>7 DEF Withdrawn
  <2>2. QED
    BY <1>1, <2>1, Fields DEF PolicyTx, OtherTx
<1>10. TypeOK'
  <2>1. utxo' \subseteq Outpoints /\ spent' \subseteq Outpoints
    BY <1>2, <1>3, <1>5 DEF TypeOK
  <2>2. age' \in [VaultOutputs -> 0 .. HwwDelay]
    BY DEF Confirm, TypeOK
  <2>3. \A r \in released' :
          r \in [type : {"authorization", "withdrawal"}, epoch : Epochs,
                 step : 0 .. MaxSteps]
    <3>1. tx.type \in {"authorization", "withdrawal"} => tx.epoch \in Epochs
      BY <1>1, Fields DEF PolicyTx, OtherTx
    <3>2. QED
      BY <1>5, <1>7, <3>1 DEF TypeOK
  <2>4. revoked' \subseteq Connectors
    <3>1. tx.type = "revocation" => tx.ins \subseteq Connectors
      BY <1>1, Fields DEF PolicyTx, OtherTx
    <3>2. QED
      BY <3>1 DEF Confirm, TypeOK
  <2>5. sincePaid' \in 0 .. MonthlyDelay /\ last' \in 0 .. MaxEpochs
    BY <1>5 DEF Confirm, TypeOK
  <2>6. QED
    BY <1>2, <2>1, <2>2, <2>3, <2>4, <2>5 DEF TypeOK
<1>11. PlanInv'
  BY <1>2, <1>4 DEF PlanInv, Approved
<1>12. PoolInv'
  BY <1>2 DEF PoolInv, PolicyTx, OtherTx, Approved, RolloverTx, TriggerTx,
     WithdrawalTx, AuthorizationTx, RevocationTx, SweepTx, PhoneRecoveryTx,
     HwwRecoveryTx
<1>13. LedgerInv'
  <2>1. utxo' \cap spent' = {} /\ revoked' \subseteq spent'
    BY <1>2, <1>3, <1>6 DEF LedgerInv, Known
  <2>2. \A o \in VaultOutputs \ utxo' : age'[o] = 0
    BY DEF Confirm
  <2>3. QED
    BY <2>1, <2>2 DEF LedgerInv
<1>14. OriginInv'
  <2>1. ASSUME NEW f \in Epochs, FromRollover(f) \cap Known' # {}
        PROVE  Approved(f)' /\ plan'[f].ins \subseteq spent'
    <3>1. CASE FromRollover(f) \cap Known # {}
      BY <1>2, <1>4, <3>1 DEF OriginInv, Approved
    <3>2. ASSUME NEW o \in FromRollover(f), o \in Outputs(tx)
          PROVE  Approved(f) /\ tx = RolloverTx(f)
      <4>1. \A k \in Steps : k + 1 # 1
        BY DEF Steps
      <4>2. QED
        BY <1>1, <3>2, <4>1, Creator, Kinds DEF FromRollover, FromTrigger
    <3>3. QED
      BY <1>2, <1>4, <2>1, <3>1, <3>2, Fields DEF Approved
  <2>2. ASSUME NEW f \in Epochs, FromTrigger(f) \cap Known' # {}
        PROVE  /\ {Remainder(f), Emergency(f)} \subseteq spent'
               /\ Emergency(f) \notin revoked'
    <3>1. CASE FromTrigger(f) \cap Known # {}
      BY <1>4, <1>6, <3>1 DEF OriginInv, LedgerInv
    <3>2. ASSUME NEW o \in FromTrigger(f), o \in Outputs(tx)
          PROVE  tx = TriggerTx(f)
      BY <1>1, <3>2, Creator, Kinds DEF FromRollover, FromTrigger
    <3>3. CASE tx = TriggerTx(f)
      BY <1>2, <1>6, <3>3, Fields DEF LedgerInv
    <3>4. QED
      BY <1>4, <2>2, <3>1, <3>2, <3>3
  <2>3. ASSUME NEW f \in Epochs, NEW k \in Steps, k + 1 \in Steps,
               {Chain(f, k + 1), Monthly(f, k + 1)} \cap Known' # {}
        PROVE  Paid(f, k)'
    <3>1. CASE {Chain(f, k + 1), Monthly(f, k + 1)} \cap Known # {}
      BY <1>7, <2>3, <3>1 DEF OriginInv, Paid
    <3>2. ASSUME NEW o \in {Chain(f, k + 1), Monthly(f, k + 1)}, o \in Outputs(tx)
          PROVE  tx = AuthorizationTx(f, k)
      <4>1. k + 1 # 1 /\ \A j \in Steps : j + 1 = k + 1 => j = k
        BY DEF Steps
      <4>2. QED
        BY <1>1, <3>2, <4>1, Creator, Kinds DEF FromRollover, FromTrigger
    <3>3. CASE tx = AuthorizationTx(f, k)
      BY <1>7, <3>3, Fields DEF Paid
    <3>4. QED
      BY <1>4, <2>3, <3>1, <3>2, <3>3
  <2>4. QED
    BY <2>1, <2>2, <2>3 DEF OriginInv
<1>15. PaidInv'
  <2>1. ASSUME NEW f \in Epochs, NEW k \in Steps, Paid(f, k)'
        PROVE  /\ {Chain(f, k), Monthly(f, k)} \subseteq spent'
               /\ Monthly(f, k) \notin revoked'
               /\ \A i \in Steps : i <= k => Paid(f, i)'
    <3>1. CASE Paid(f, k)
      BY <1>4, <1>6, <1>7, <3>1 DEF PaidInv, LedgerInv, Paid
    <3>2. CASE tx = AuthorizationTx(f, k)
      <4>1. {Chain(f, k), Monthly(f, k)} \subseteq utxo \cap spent'
        BY <1>2, <3>2, Fields
      <4>2. Monthly(f, k) \notin revoked'
        BY <1>6, <3>2, <4>1, Fields DEF LedgerInv
      <4>3. ASSUME NEW i \in Steps, i < k
            PROVE  Paid(f, i)'
        <5>1. k - 1 \in Steps /\ (k - 1) + 1 = k /\ i <= k - 1
          BY <4>3 DEF Steps
        <5>2. Paid(f, k - 1)
          BY <4>1, <5>1 DEF OriginInv, Known
        <5>3. QED
          BY <1>7, <5>1, <5>2 DEF PaidInv, Paid
      <4>4. \A i \in Steps : i <= k => i < k \/ i = k
        BY DEF Steps
      <4>5. QED
        BY <2>1, <4>1, <4>2, <4>3, <4>4
    <3>3. QED
      BY <1>8, <2>1, <3>1, <3>2
  <2>2. ASSUME NEW f \in Epochs, Withdrawn(f)'
        PROVE  /\ Withdrawal(f) \in spent'
               /\ revoked' \cap {Emergency(f), Withdrawal(f)} = {}
    <3>1. CASE Withdrawn(f)
      <4>1. {Withdrawal(f), Emergency(f)} \subseteq spent
        BY <3>1 DEF PaidInv, OriginInv, FromTrigger, Known
      <4>2. QED
        BY <1>4, <1>6, <3>1, <4>1 DEF PaidInv, LedgerInv
    <3>2. CASE tx = WithdrawalTx(f)
      <4>1. Withdrawal(f) \in utxo /\ Withdrawal(f) \in spent' /\ revoked' = revoked
        BY <1>2, <1>6, <3>2, Fields
      <4>2. Emergency(f) \notin revoked
        BY <4>1 DEF OriginInv, FromTrigger, Known
      <4>3. QED
        BY <4>1, <4>2 DEF LedgerInv
    <3>3. QED
      BY <1>9, <2>2, <3>1, <3>2
  <2>3. QED
    BY <2>1, <2>2 DEF PaidInv
<1>16. QED
  BY <1>10, <1>11, <1>12, <1>13, <1>14, <1>15
\* Time passes, or a deposit confirms.
LEMMA TickStep ==
  ASSUME Inv, Tick \/ \E d \in Deposits : Receive(d)
  PROVE  Inv'
<1> USE DEF Inv
<1>1. UNCHANGED <<plan, schedule, left, draft, sweep, spent, pool, released,
                  revoked, last>>
  BY DEF Tick, Receive, phoneVars
<1>2. PICK D \in SUBSET VaultOutputs :
        /\ utxo' = utxo \cup D /\ D \cap Known = {}
        /\ \A o \in D : o[1] = "deposit"
  <2>1. ASSUME Tick
        PROVE  {} \in SUBSET VaultOutputs /\ utxo' = utxo \cup {}
    BY <2>1 DEF Tick
  <2>2. ASSUME NEW d \in Deposits, Receive(d)
        PROVE  /\ {Deposit(d)} \in SUBSET VaultOutputs
               /\ utxo' = utxo \cup {Deposit(d)} /\ {Deposit(d)} \cap Known = {}
               /\ \A o \in {Deposit(d)} : o[1] = "deposit"
    BY <2>2, Membership, Kinds DEF Receive, Known
  <2>3. QED
    BY <2>1, <2>2
<1>3. Known' = Known \cup D
  BY <1>1, <1>2 DEF Known
<1>4. TypeOK'
  <2>1. age' \in [VaultOutputs -> 0 .. HwwDelay] /\ sincePaid' \in 0 .. MonthlyDelay
    BY DEF Tick, Receive, Older, TypeOK
  <2>2. QED
    BY <1>1, <1>2, <2>1, Membership DEF TypeOK
<1>5. PlanInv' /\ PoolInv'
  BY <1>1, <1>3 DEF PlanInv, PoolInv, Approved, PolicyTx, OtherTx, RolloverTx,
     TriggerTx, WithdrawalTx, AuthorizationTx, RevocationTx, SweepTx,
     PhoneRecoveryTx, HwwRecoveryTx
<1>6. LedgerInv'
  <2>1. \A o \in VaultOutputs \ utxo' : age'[o] = 0
    BY <1>2 DEF Tick, Receive, LedgerInv
  <2>2. QED
    BY <1>1, <1>2, <2>1 DEF LedgerInv, Known
<1>7. OriginInv'
  <2>1. /\ \A e : FromRollover(e) \cap D = {} /\ FromTrigger(e) \cap D = {}
        /\ \A e, k : {Chain(e, k), Monthly(e, k)} \cap D = {}
    BY <1>2, Kinds DEF FromRollover, FromTrigger
  <2>2. QED
    BY <1>1, <1>3, <2>1 DEF OriginInv, Approved, Paid
<1>8. PaidInv'
  BY <1>1 DEF PaidInv, Paid, Withdrawn
<1>9. QED
  BY <1>4, <1>5, <1>6, <1>7, <1>8

\* A scan returns confirmed outputs of the kind it asks for.
LEMMA VisibleFact ==
  ASSUME NEW outs
  PROVE  /\ Visible(outs) \subseteq outs /\ Visible(outs) \subseteq utxo
         /\ Backend = "core" => Visible(outs) = utxo \cap outs
BY DEF Visible

\* A broadcast adds one transaction the node admits.
LEMMA BroadcastFact ==
  ASSUME NEW tx, Broadcast(tx)
  PROVE  /\ pool' = pool \cup {tx} /\ Admits(tx)
         /\ UNCHANGED <<utxo, spent, age, released, sincePaid, revoked, last>>
BY DEF Broadcast

\* Every step is a still one, a ceremony's, a confirmation or the passing of time:
\* one step per action.
LEMMA StepCases ==
  ASSUME Inv, [Next]_vars
  PROVE  \/ Still
         \/ \E e \in Epochs :
              \/ ScanVault(e) \/ Approve(e)
              \/ \E n \in 0 .. MaxSteps, em \in BOOLEAN : Propose(e, n, em)
         \/ \E tx \in pool : Confirm(tx)
         \/ Tick \/ \E d \in Deposits : Receive(d)
<1> USE DEF phoneVars, chainVars
<1>0. /\ schedule \in 0 .. MaxEpochs /\ left \subseteq Epochs
      /\ draft \subseteq Connectors /\ sweep \subseteq VaultOutputs
      /\ schedule # 0 => schedule \in Epochs /\ Approved(schedule)
      /\ \A e \in Epochs : e \in 0 .. MaxEpochs /\ e # 0
  BY DEF Inv, TypeOK, PlanInv, Epochs
<1>1. CASE UNCHANGED vars
  BY <1>0, <1>1 DEF vars, Still
<1>2. ASSUME NEW e \in Epochs, Activate(e) \/ ActivateInterrupted(e)
      PROVE  Still
  <2>1. plan' = plan /\ Approved(e) /\ draft' = draft /\ sweep' = sweep
    BY <1>2 DEF Activate, ActivateInterrupted, Approved
  <2>2. PolicyTx(RolloverTx(e))
    BY <2>1 DEF PolicyTx
  <2>3. /\ schedule' \in {schedule, e} /\ left' \subseteq left \cup {schedule}
        /\ left' \subseteq Epochs
    BY <1>0, <1>2 DEF Activate, ActivateInterrupted
  <2>4. CASE Broadcast(RolloverTx(e))
    BY <1>0, <2>1, <2>2, <2>3, <2>4, BroadcastFact DEF Still
  <2>5. CASE UNCHANGED chainVars
    BY <1>0, <2>1, <2>3, <2>5 DEF Still
  <2>6. QED
    BY <1>2, <2>4, <2>5 DEF Activate, ActivateInterrupted
<1>3. ASSUME NEW tx, Broadcast(tx), PolicyTx(tx) \/ OtherTx(tx),
             UNCHANGED phoneVars, draft' \subseteq draft, sweep' \subseteq sweep
      PROVE  Still
  BY <1>0, <1>3, BroadcastFact DEF Still
<1>4. ASSUME NEW k \in Steps, Authorize(k)
      PROVE  Still
  <2>1. PolicyTx(AuthorizationTx(schedule, k))
    BY <1>0, <1>4 DEF Authorize, PolicyTx
  <2>2. QED
    BY <1>3, <1>4, <2>1 DEF Authorize
<1>5. \A S \in SUBSET Connectors : OtherTx(RevocationTx(S))
  BY Fields DEF OtherTx
<1>6. \A S \in SUBSET VaultOutputs :
        OtherTx(SweepTx(S)) /\ OtherTx(PhoneRecoveryTx(S)) /\ OtherTx(HwwRecoveryTx(S))
  BY Fields DEF OtherTx
<1>7. ASSUME NEW k \in Steps, Revoke(k)
      PROVE  Still
  <2>1. {Monthly(schedule, k)} \in SUBSET Connectors
    BY <1>0, <1>7, Membership DEF Revoke
  <2>2. QED
    BY <1>3, <1>5, <1>7, <2>1 DEF Revoke
<1>8. CASE Trigger
  <2>1. PolicyTx(TriggerTx(schedule))
    BY <1>0, <1>8 DEF Trigger, PolicyTx
  <2>2. QED
    BY <1>3, <1>8, <2>1 DEF Trigger
<1>9. CASE Withdraw
  <2>1. PolicyTx(WithdrawalTx(schedule))
    BY <1>0, <1>9 DEF Withdraw, PolicyTx
  <2>2. QED
    BY <1>3, <1>9, <2>1 DEF Withdraw
<1>10. CASE Cancel
  <2>1. {Withdrawal(schedule)} \in SUBSET Connectors
    BY <1>0, <1>10, Membership DEF Cancel
  <2>2. QED
    BY <1>3, <1>5, <1>10, <2>1 DEF Cancel
<1>11. CASE DraftRevocation \/ HwwRevokeRejected
  BY <1>0, <1>11, VisibleFact DEF DraftRevocation, HwwRevokeRejected, Still
<1>12. CASE HwwRevoke
  BY <1>0, <1>3, <1>5, <1>12 DEF HwwRevoke
<1>13. CASE CreateSweep
  BY <1>0, <1>13, VisibleFact DEF CreateSweep, Still
<1>14. CASE BroadcastSweep
  BY <1>0, <1>3, <1>6, <1>14 DEF BroadcastSweep
<1>15. \A delay : Mature(Visible(VaultOutputs), delay) \in SUBSET VaultOutputs
  BY VisibleFact DEF Mature
<1>16. CASE PhoneRecover
  BY <1>3, <1>6, <1>15, <1>16 DEF PhoneRecover
<1>17. CASE HwwRecover
  BY <1>3, <1>6, <1>15, <1>17 DEF HwwRecover
<1>18. ASSUME NEW tx \in pool, Evict(tx)
       PROVE  Still
  BY <1>0, <1>18 DEF Evict, Still
<1>19. QED
  BY <1>1, <1>2, <1>4, <1>7, <1>8, <1>9, <1>10, <1>11, <1>12, <1>13, <1>14,
     <1>16, <1>17, <1>18 DEF Next, Ceremony, Phone, Hww, Sweeps, Network

\* A ceremony's step preserves the invariant.
LEMMA CeremonyStep ==
  ASSUME Inv, NEW e \in Epochs,
         \/ ScanVault(e) \/ Approve(e)
         \/ \E n \in 0 .. MaxSteps, em \in BOOLEAN : Propose(e, n, em)
  PROVE  Inv'
<1>0. /\ plan[e] \in Plans /\ utxo \subseteq Outpoints /\ utxo \subseteq Known
      /\ plan[e].status # "none" => plan[e].ins # {} /\ plan[e].ins \subseteq Known
  BY DEF Inv, TypeOK, PlanInv, Known
<1>1. CASE ScanVault(e)
  <2> DEFINE p == [plan[e] EXCEPT !.status = "scanned", !.ins = Visible(VaultOutputs)]
  <2>1. plan' = [plan EXCEPT ![e] = p]
    BY <1>0, <1>1 DEF ScanVault, Plans
  <2>2. VaultOutputs \subseteq Outpoints /\ Visible(VaultOutputs) \subseteq Known
    BY <1>0, VisibleFact, Membership
  <2>3. p \in Plans /\ p.status = "scanned" /\ p.ins = Visible(VaultOutputs)
    BY <1>0, <2>2, VisibleFact DEF Plans
  <2> HIDE DEF p
  <2>4. /\ ~Approved(e) /\ Visible(VaultOutputs) # {}
        /\ UNCHANGED <<schedule, left, draft, sweep, chainVars>>
    BY <1>1 DEF ScanVault, Approved
  <2>5. QED
    BY <2>1, <2>2, <2>3, <2>4, PlanStep
<1>2. CASE Approve(e)
  <2> DEFINE p == [plan[e] EXCEPT !.status = "approved"]
  <2>1. plan' = [plan EXCEPT ![e] = p]
    BY <1>0, <1>2 DEF Approve, Plans
  <2>2. p \in Plans /\ p.status = "approved" /\ p.ins = plan[e].ins
    BY <1>0 DEF Plans
  <2>3. QED
    BY <1>0, <1>2, <2>1, <2>2, PlanStep DEF Approve, Approved
<1>3. ASSUME NEW n \in 0 .. MaxSteps, NEW em \in BOOLEAN, Propose(e, n, em)
      PROVE  Inv'
  <2> DEFINE p == [status |-> "proposed", ins |-> plan[e].ins \cup Visible(Connectors),
                   steps |-> n, emergency |-> em]
  <2>1. plan' = [plan EXCEPT ![e] = p]
    BY <1>3 DEF Propose
  <2>2. p \in Plans /\ p.status = "proposed" /\ p.ins # {} /\ p.ins \subseteq Known
    BY <1>0, <1>3, VisibleFact DEF Plans, Propose
  <2>3. QED
    BY <1>3, <2>1, <2>2, PlanStep DEF Propose, Approved
<1>4. QED
  BY <1>1, <1>2, <1>3

\* The invariant is inductive.
LEMMA NextInv == Inv /\ [Next]_vars => Inv'
BY StepCases, StillStep, CeremonyStep, ConfirmStep, TickStep

\* In every reachable state the invariant holds.
THEOREM Invariant == Spec => []Inv
BY InitInv, NextInv, PTL DEF Spec
-----------------------------------------------------------------------------
(* What follows on either backend.                                         *)

\* Plans, transactions and histories keep their types through every command,
\* broadcast and confirmation.
THEOREM TypeCorrect == Spec => []TypeOK
<1>1. Inv => TypeOK
  BY DEF Inv
<1>2. QED
  BY <1>1, Invariant, PTL

\* A confirmed revocation of a monthly connector, by phone or HWW, ends its step
\* and every later one of the epoch.
THEOREM WholeChain == Spec => []RevocationIsWholeChain
<1>1. Inv => RevocationIsWholeChain
  <2> SUFFICES ASSUME Inv, NEW e \in Epochs, NEW k \in Steps,
                      Monthly(e, k) \in revoked, NEW r \in released,
                      r.type = "authorization", r.epoch = e, ~(r.step < k)
               PROVE  FALSE
    BY DEF RevocationIsWholeChain
  <2>1. r.step \in Steps /\ k <= r.step /\ k \in Nat
    BY DEF Inv, TypeOK, Steps
  <2>2. Paid(e, r.step)
    BY DEF Inv, TypeOK, Paid
  <2>3. Paid(e, k)
    BY <2>1, <2>2 DEF Inv, PaidInv
  <2>4. QED
    BY <2>3 DEF Inv, PaidInv
<1>2. QED
  BY <1>1, Invariant, PTL

\* A confirmed cancellation, or a revocation of the trigger's connector, rules out
\* the epoch's emergency withdrawal.
THEOREM CancelledForGood == Spec => []CancelledStaysCancelled
<1>1. Inv => CancelledStaysCancelled
  BY DEF Inv, PaidInv, Withdrawn, CancelledStaysCancelled
<1>2. QED
  BY <1>1, Invariant, PTL

-----------------------------------------------------------------------------
(* On Bitcoin Core: a rollover spends every policy output there is.        *)

\* A ceremony's scans see every confirmed output, and every transaction that
\* creates policy outputs spends what each unspent plan has scanned.
LEMMA ScanStep ==
  ASSUME Inv, Inv', ScanInv, OldOutputsSpent, Backend = "core", [Next]_vars
  PROVE  ScanInv' /\ OldOutputsSpent'
<1>0. /\ plan \in [Epochs -> Plans] /\ utxo \subseteq Outpoints
      /\ utxo \cap spent = {}
      /\ \A e \in Epochs : plan[e].status # "none" => plan[e].ins \subseteq Known
  BY DEF Inv, TypeOK, PlanInv, LedgerInv
<1>1. CASE Still \/ Tick
  BY <1>1 DEF Still, Tick, phoneVars, ScanInv, OldOutputsSpent, Fresh
<1>2. ASSUME NEW d \in Deposits, Receive(d)
      PROVE  ScanInv' /\ OldOutputsSpent'
  BY <1>2, Kinds DEF Receive, phoneVars, ScanInv, OldOutputsSpent, Fresh
<1>3. ASSUME NEW e \in Epochs, ScanVault(e)
      PROVE  ScanInv' /\ OldOutputsSpent'
  <2>1. /\ plan'[e].ins = utxo \cap VaultOutputs /\ plan'[e].status = "scanned"
        /\ plan'[e].ins # {}
        /\ \A f \in Epochs : f # e => plan'[f] = plan[f]
        /\ UNCHANGED <<utxo, spent, last>>
    BY <1>0, <1>3, VisibleFact DEF ScanVault, Plans, chainVars
  <2>2. \A f \in Epochs : Fresh(f) => plan[f].ins \subseteq utxo
    BY <1>0 DEF Fresh, Known
  <2>3. \A f \in Epochs : Fresh(f) => plan[f].ins \cap plan'[e].ins # {}
    BY <2>1, <2>2 DEF ScanInv, Fresh
  <2>4. \A f \in Epochs : f # e => Fresh(f)' = Fresh(f)
    BY <2>1 DEF Fresh
  <2>5. \A f \in Epochs, o \in utxo' :
          /\ Fresh(f)' /\ o[1] # "deposit"
          /\ o \in VaultOutputs \/ plan'[f].status # "scanned"
          => o \in plan'[f].ins
    BY <2>1, <2>4 DEF ScanInv
  <2>6. \A f, g \in Epochs : Fresh(f)' /\ Fresh(g)' =>
          plan'[f].ins \cap plan'[g].ins # {}
    BY <2>1, <2>3, <2>4 DEF ScanInv
  <2>7. \A f \in Epochs : plan'[f].status # "none" =>
          plan'[f].ins \cap VaultOutputs # {}
    BY <2>1 DEF ScanInv
  <2>8. QED
    BY <2>1, <2>5, <2>6, <2>7 DEF ScanInv, OldOutputsSpent
<1>4. ASSUME NEW e \in Epochs,
             \/ Approve(e)
             \/ \E n \in 0 .. MaxSteps, em \in BOOLEAN : Propose(e, n, em)
      PROVE  ScanInv' /\ OldOutputsSpent'
  <2>1. /\ \A f \in Epochs : f # e => plan'[f] = plan[f]
        /\ plan[e].status # "none" /\ plan[e].ins \subseteq plan'[e].ins
        /\ \/ plan[e].status # "scanned"
           \/ utxo \cap Connectors \subseteq plan'[e].ins
        /\ UNCHANGED <<utxo, spent, last>>
    BY <1>0, <1>4, VisibleFact DEF Approve, Propose, Plans, chainVars
  <2>2. \A f \in Epochs : /\ Fresh(f)' => Fresh(f)
                          /\ plan[f].ins \subseteq plan'[f].ins
                          /\ plan'[f].status # "none" => plan[f].status # "none"
    BY <2>1 DEF Fresh
  <2>3. \A f \in Epochs, o \in utxo' :
          /\ Fresh(f)' /\ o[1] # "deposit"
          /\ o \in VaultOutputs \/ plan'[f].status # "scanned"
          => o \in plan'[f].ins
    BY <1>0, <2>1, <2>2, Membership DEF ScanInv
  <2>4. \A f, g \in Epochs : Fresh(f)' /\ Fresh(g)' =>
          plan'[f].ins \cap plan'[g].ins # {}
    BY <2>2 DEF ScanInv
  <2>5. \A f \in Epochs : plan'[f].status # "none" =>
          plan'[f].ins \cap VaultOutputs # {}
    BY <2>2 DEF ScanInv
  <2>6. QED
    BY <2>1, <2>3, <2>4, <2>5 DEF ScanInv, OldOutputsSpent
<1>5. ASSUME NEW tx \in pool, Confirm(tx)
      PROVE  ScanInv' /\ OldOutputsSpent'
  <2>1. /\ tx.ins \subseteq utxo /\ utxo' = (utxo \ tx.ins) \cup Outputs(tx)
        /\ spent' = spent \cup tx.ins /\ plan' = plan
        /\ last' = IF tx.type = "rollover" THEN tx.epoch ELSE last
    BY <1>5 DEF Confirm, phoneVars
  <2>2. PolicyTx(tx) \/ OtherTx(tx)
    BY DEF Inv, PoolInv
  <2>3. \A f \in Epochs : Fresh(f)' => Fresh(f) /\ plan[f].ins \cap tx.ins = {}
    BY <2>1 DEF Fresh
  <2>4. \A f \in Epochs : tx = RolloverTx(f) /\ Approved(f) =>
          Fresh(f) /\ tx.ins = plan[f].ins
    BY <1>0, <2>1, Fields DEF Fresh, Approved
  <2>5. ASSUME NEW f \in Epochs, Fresh(f)', NEW o \in Outputs(tx)
        PROVE  FALSE
    <3>1. PICK e \in Epochs :
            /\ Approved(e)
            /\ \/ tx = RolloverTx(e) \/ tx = TriggerTx(e)
               \/ \E k \in Steps : tx = AuthorizationTx(e, k)
      BY <1>0, <2>2, Creator
    <3>2. CASE tx = RolloverTx(e)
      BY <2>3, <2>4, <2>5, <3>1, <3>2 DEF ScanInv
    <3>3. CASE tx = TriggerTx(e)
      <4>1. Remainder(e) \in tx.ins /\ Remainder(e) \in VaultOutputs
        BY <3>3, Fields, Membership
      <4>2. Remainder(e) \in plan[f].ins
        BY <2>1, <2>3, <2>5, <4>1, Kinds DEF ScanInv
      <4>3. QED
        BY <2>3, <2>5, <4>1, <4>2
    <3>4. ASSUME NEW k \in Steps, tx = AuthorizationTx(e, k)
          PROVE  FALSE
      <4>1. Chain(e, k) \in tx.ins /\ Chain(e, k) \in VaultOutputs
        BY <3>4, Fields, Membership
      <4>2. Chain(e, k) \in plan[f].ins
        BY <2>1, <2>3, <2>5, <4>1, Kinds DEF ScanInv
      <4>3. QED
        BY <2>3, <2>5, <4>1, <4>2
    <3>5. QED
      BY <3>1, <3>2, <3>3, <3>4
  <2>6. ScanInv'
    BY <2>1, <2>3, <2>5 DEF ScanInv
  <2>7. OldOutputsSpent'
    <3> SUFFICES ASSUME NEW o \in utxo', o[1] # "deposit"
                 PROVE  o[2] = last'
      BY DEF OldOutputsSpent
    <3>1. CASE tx.type = "rollover"
      <4>1. PICK e \in Epochs : tx = RolloverTx(e) /\ Approved(e)
        BY <2>2, <3>1, Fields DEF PolicyTx, OtherTx
      <4>2. last' = e
        BY <2>1, <4>1, Fields
      <4>3. CASE o \in Outputs(tx)
        BY <1>0, <2>2, <4>1, <4>2, <4>3, Creator, Fields, Kinds DEF FromRollover
      <4>4. CASE o \in utxo \ tx.ins
        BY <2>4, <4>1, <4>4 DEF ScanInv, Approved
      <4>5. QED
        BY <2>1, <4>3, <4>4
    <3>2. CASE tx.type # "rollover"
      <4>1. last' = last
        BY <2>1, <3>2
      <4>2. CASE o \in Outputs(tx)
        <5>1. PICK e \in Epochs :
                \/ tx = TriggerTx(e) /\ o \in FromTrigger(e)
                \/ \E k \in Steps : /\ tx = AuthorizationTx(e, k)
                                    /\ o \in {Chain(e, k + 1), Monthly(e, k + 1)}
          BY <1>0, <2>2, <3>2, <4>2, Creator, Fields
        <5>2. o[2] = e
          BY <5>1, Kinds DEF FromTrigger
        <5>3. e = last
          BY <2>1, <5>1, Fields, Kinds DEF OldOutputsSpent
        <5>4. QED
          BY <4>1, <5>2, <5>3
      <4>3. QED
        BY <2>1, <4>1, <4>2 DEF OldOutputsSpent
    <3>3. QED
      BY <3>1, <3>2
  <2>8. QED
    BY <2>6, <2>7
<1>6. QED
  BY <1>1, <1>2, <1>3, <1>4, <1>5, StepCases

\* On Core, whatever happens between a rollover's scans, the approvals and its
\* confirmation, the confirmed policy outputs are those of the last rollover.
THEOREM CoreOldOutputsSpent ==
  ASSUME Backend = "core" PROVE Spec => []OldOutputsSpent
<1>1. Init => ScanInv /\ OldOutputsSpent
  BY DEF Init, ScanInv, OldOutputsSpent, Fresh, NoPlan
<1>2. Inv /\ Inv' /\ ScanInv /\ OldOutputsSpent /\ [Next]_vars =>
        ScanInv' /\ OldOutputsSpent'
  BY ScanStep
<1>3. QED
  BY <1>1, <1>2, Invariant, PTL DEF Spec

\* "A later annual rollover ... invalidates the old epoch" (src/README.md): on
\* Core no earlier epoch keeps an action that could confirm.
THEOREM CoreOldEpochInvalidated ==
  ASSUME Backend = "core" PROVE Spec => []OldEpochInvalidated
<1>1. OldOutputsSpent => OldEpochInvalidated
  BY Fields, Kinds DEF OldOutputsSpent, OldEpochInvalidated, Executable
<1>2. QED
  BY <1>1, CoreOldOutputsSpent, PTL
-----------------------------------------------------------------------------
(* The monthly rate.                                                       *)

\* An epoch has at most one unspent chain output: a later one pays for the
\* earlier ones.
LEMMA OneChainOutput ==
  ASSUME Inv, NEW e \in Epochs, NEW j \in Steps, NEW k \in Steps,
         Chain(e, j) \in utxo, Chain(e, k) \in utxo
  PROVE  j = k
<1>1. ASSUME NEW a \in Steps, NEW b \in Steps, a < b,
             Chain(e, a) \in utxo, Chain(e, b) \in utxo
      PROVE  FALSE
  <2>1. b - 1 \in Steps /\ (b - 1) + 1 = b /\ a <= b - 1
    BY <1>1 DEF Steps
  <2>2. Paid(e, b - 1)
    BY <1>1, <2>1 DEF Inv, OriginInv, Known
  <2>3. Chain(e, a) \in spent
    BY <2>1, <2>2 DEF Inv, PaidInv
  <2>4. QED
    BY <1>1, <2>3 DEF Inv, LedgerInv
<1>2. j < k \/ k < j \/ j = k
  BY DEF Steps
<1>3. QED
  BY <1>1, <1>2

\* An unconfirmed authorization's chain output is old enough, and no chain output
\* is older than the last allowance.
LEMMA RateStep ==
  ASSUME Inv, Inv', RateInv, OldOutputsSpent, [Next]_vars
  PROVE  RateInv'
<1> DEFINE Due(tx) ==
      LET o == Chain(tx.epoch, tx.step) IN
        o \in spent \/ (o \in utxo /\ age[o] >= MonthlyDelay)
<1> DEFINE Younger(o) == age[o] <= sincePaid \/ sincePaid = MonthlyDelay
<1>0. /\ age \in [VaultOutputs -> 0 .. HwwDelay] /\ sincePaid \in 0 .. MonthlyDelay
      /\ \A tx \in pool : PolicyTx(tx) \/ OtherTx(tx)
  BY DEF Inv, TypeOK, PoolInv
<1>1. ASSUME NEW tx, tx.type = "authorization", PolicyTx(tx) \/ OtherTx(tx)
      PROVE  /\ Chain(tx.epoch, tx.step) \in VaultOutputs
             /\ Chain(tx.epoch, tx.step) \in tx.ins
             /\ tx.epoch \in Epochs /\ tx.step \in Steps
  BY <1>1, Fields, Membership DEF PolicyTx, OtherTx
<1>2. CASE Still
  <2>1. ASSUME NEW tx \in pool' \ pool, tx.type = "authorization", MonthlyDelay > 0
        PROVE  Due(tx)
    <3>1. Admits(tx) /\ Delay(tx) = MonthlyDelay
      BY <1>2, <2>1 DEF Still, Delay
    <3>2. QED
      BY <1>1, <1>2, <2>1, <3>1 DEF Still, Admits, Matured
  <2>2. QED
    BY <1>2, <2>1 DEF Still, RateInv
<1>3. ASSUME NEW e \in Epochs,
             \/ ScanVault(e) \/ Approve(e)
             \/ \E n \in 0 .. MaxSteps, em \in BOOLEAN : Propose(e, n, em)
      PROVE  RateInv'
  BY <1>3 DEF ScanVault, Approve, Propose, chainVars, RateInv
<1>4. ASSUME NEW d \in Deposits, Receive(d)
      PROVE  RateInv'
  BY <1>4, Kinds DEF Receive, RateInv
<1>5. CASE Tick
  <2>1. /\ UNCHANGED <<utxo, spent, pool>>
        /\ \A o \in VaultOutputs \cap utxo :
             /\ age'[o] >= age[o]
             /\ Younger(o) => age'[o] <= sincePaid' \/ sincePaid' = MonthlyDelay
    BY <1>0, <1>5 DEF Tick, Older
  <2>2. \A o \in VaultOutputs : age[o] \in Nat /\ age'[o] \in Nat
    BY <1>0 DEF Inv, TypeOK
  <2>3. \A tx \in pool : tx.type = "authorization" /\ MonthlyDelay > 0 => Due(tx)'
    <3> SUFFICES ASSUME NEW tx \in pool, tx.type = "authorization", MonthlyDelay > 0
                 PROVE  Due(tx)'
      OBVIOUS
    <3>1. Due(tx) /\ Chain(tx.epoch, tx.step) \in VaultOutputs
      BY <1>0, <1>1 DEF RateInv
    <3> DEFINE o == Chain(tx.epoch, tx.step)
    <3> HIDE DEF o
    <3>2. /\ o \in spent \/ (o \in utxo /\ age[o] >= MonthlyDelay)
          /\ o \in VaultOutputs
      BY <3>1 DEF o
    <3>3. o \in spent' \/ (o \in utxo' /\ age'[o] >= MonthlyDelay)
      BY <2>1, <2>2, <3>2
    <3>4. QED
      BY <3>3 DEF o
  <2>4. QED
    BY <2>1, <2>3, Membership DEF RateInv
<1>6. ASSUME NEW t \in pool, Confirm(t)
      PROVE  RateInv'
  <2>1. /\ t.ins \subseteq utxo /\ utxo' = (utxo \ t.ins) \cup Outputs(t)
        /\ spent' = spent \cup t.ins /\ pool' \subseteq pool
        /\ \A o \in VaultOutputs : o \in utxo' => age'[o] = age[o]
        /\ sincePaid' = IF t.type = "authorization" THEN 0 ELSE sincePaid
    BY <1>6 DEF Confirm
  <2>2. \A o \in VaultOutputs : o \in Outputs(t) => age[o] = 0 /\ o \notin utxo
    BY <2>1, FreshOutputs DEF Inv, LedgerInv, Known
  <2>3. \A tx \in pool' : tx.type = "authorization" /\ MonthlyDelay > 0 => Due(tx)'
    <3> SUFFICES ASSUME NEW tx \in pool', tx.type = "authorization", MonthlyDelay > 0
                 PROVE  Due(tx)'
      OBVIOUS
    <3> DEFINE o == Chain(tx.epoch, tx.step)
    <3> HIDE DEF o
    <3>1. o \in spent \/ (o \in utxo /\ age[o] >= MonthlyDelay)
      BY <2>1 DEF RateInv, o
    <3>2. o \in VaultOutputs
      BY <1>0, <1>1, <2>1 DEF o
    <3>3. o \in spent' \/ (o \in utxo' /\ age'[o] >= MonthlyDelay)
      BY <2>1, <3>1, <3>2
    <3>4. QED
      BY <3>3 DEF o
  <2>4. ASSUME NEW e \in Epochs, NEW k \in Steps, Chain(e, k) \in utxo'
        PROVE  age'[Chain(e, k)] <= sincePaid' \/ sincePaid' = MonthlyDelay
    <3>1. Chain(e, k) \in VaultOutputs /\ age'[Chain(e, k)] = age[Chain(e, k)]
      BY <2>1, <2>4, Membership
    <3>2. CASE Chain(e, k) \in Outputs(t)
      BY <1>0, <2>1, <2>2, <3>1, <3>2
    <3>3. CASE Chain(e, k) \in utxo \ t.ins /\ t.type # "authorization"
      BY <2>1, <3>1, <3>3 DEF RateInv
    <3>4. CASE Chain(e, k) \in utxo \ t.ins /\ t.type = "authorization"
      <4>1. /\ Chain(t.epoch, t.step) \in t.ins
            /\ t.epoch \in Epochs /\ t.step \in Steps
        BY <1>0, <1>1, <3>4
      <4>2. t.epoch = last /\ e = last
        BY <2>1, <3>4, <4>1, Kinds DEF OldOutputsSpent
      <4>3. t.step = k
        BY <2>1, <3>4, <4>1, <4>2, OneChainOutput
      <4>4. QED
        BY <3>4, <4>1, <4>2, <4>3
    <3>5. QED
      BY <2>1, <2>4, <3>2, <3>3, <3>4
  <2>5. QED
    BY <2>3, <2>4 DEF RateInv
<1>7. QED
  BY <1>2, <1>3, <1>4, <1>5, <1>6, StepCases

\* An allowance that confirms comes a whole delay after the one before it.
LEMMA RateAction ==
  ASSUME Inv, RateInv, [Next]_vars
  PROVE  \A r \in released' \ released :
           r.type = "authorization" => sincePaid >= MonthlyDelay
<1> SUFFICES ASSUME NEW r \in released' \ released, r.type = "authorization"
             PROVE  sincePaid >= MonthlyDelay
  OBVIOUS
<1>0. sincePaid \in 0 .. MonthlyDelay /\ age \in [VaultOutputs -> 0 .. HwwDelay]
  BY DEF Inv, TypeOK
<1>1. PICK tx \in pool : Confirm(tx)
  BY StepCases DEF Still, ScanVault, Approve, Propose, Tick, Receive, chainVars
<1>2. tx.type = "authorization"
  BY <1>1 DEF Confirm, Release
<1>3. PICK e \in Epochs, k \in Steps : tx = AuthorizationTx(e, k)
  BY <1>2, Fields DEF Inv, PoolInv, PolicyTx, OtherTx
<1>4. Chain(e, k) \in utxo /\ Chain(e, k) \in VaultOutputs /\ Chain(e, k) \notin spent
  BY <1>1, <1>3, Fields, Membership DEF Confirm, Inv, LedgerInv
<1>5. MonthlyDelay > 0 => age[Chain(e, k)] >= MonthlyDelay
  BY <1>2, <1>3, <1>4, Fields DEF RateInv
<1>6. age[Chain(e, k)] <= sincePaid \/ sincePaid = MonthlyDelay
  BY <1>4 DEF RateInv
<1>7. age[Chain(e, k)] \in Nat
  BY <1>0, <1>4
<1>8. QED
  BY <1>0, <1>5, <1>6, <1>7

\* On either backend, as long as rollovers leave no old output behind, no two
\* allowances confirm within one monthly delay.
THEOREM RateOfSpentRollovers == Spec /\ []OldOutputsSpent => MonthlyRate
<1>1. Init => RateInv
  BY DEF Init, RateInv
<1>2. Inv /\ Inv' /\ RateInv /\ OldOutputsSpent /\ [Next]_vars => RateInv'
  BY RateStep
<1>3. Inv /\ RateInv /\ [Next]_vars =>
        [\A r \in released' \ released :
           r.type = "authorization" => sincePaid >= MonthlyDelay]_vars
  BY RateAction
<1>4. QED
  BY <1>1, <1>2, <1>3, Invariant, PTL DEF Spec, MonthlyRate

\* On Core, across steps, epochs, revocations and rollovers, no two allowances
\* confirm within one monthly delay.
THEOREM CoreMonthlyRate ==
  ASSUME Backend = "core" PROVE Spec => MonthlyRate
BY CoreOldOutputsSpent, RateOfSpentRollovers, PTL
=============================================================================
