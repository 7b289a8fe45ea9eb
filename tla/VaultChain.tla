------------------------------ MODULE VaultChain ------------------------------
(***************************************************************************)
(* The vault on chain: the outputs a policy epoch creates, the presigned   *)
(* transactions that connect them, and everything the phone, the hardware  *)
(* wallet (HWW) and the miners can do with them.                           *)
(*                                                                         *)
(* An outpoint is <<kind, n, step>>.  Vault outputs hold principal;        *)
(* connectors are the 1,000-sat execution tokens.  A policy action spends  *)
(* one vault output and one connector, both fixed when it was presigned; a *)
(* revocation spends connectors only.  Amounts and fees are not kept here: *)
(* whether an epoch has 0, 1, ... steps is the proposal's choice.          *)
(*                                                                         *)
(* Devices never see the chain, only a backend's scan of it, and time      *)
(* passes between a scan, the approvals and the broadcast that uses it.    *)
(* The switch of the phone's pointer is ActivePolicy's, with a rollover    *)
(* that may be accepted while the pointer stays (an interrupted            *)
(* activation).                                                            *)
(***************************************************************************)
EXTENDS Naturals, FiniteSets

CONSTANTS MaxEpochs,       \* bound: proposals, numbered in the order made
          MaxSteps,        \* most allowance steps of an epoch (12 in the code)
          Deposits,        \* bound: numbers of the deposits that may arrive
          Backend,         \* "core" or "electrum"
          MonthlyDelay,    \* relative lock of an authorization
          EmergencyDelay,  \* relative lock of the emergency withdrawal
          PhoneDelay,      \* relative lock of the phone's recovery path
          HwwDelay,        \* relative lock of the HWW's recovery path
          MaxPool          \* bound: unconfirmed transactions at a time

ASSUME BoundsAssumption ==
  MaxEpochs \in Nat /\ MaxSteps \in Nat /\ MaxPool \in Nat
ASSUME DelaysAssumption ==
  /\ MonthlyDelay \in Nat /\ EmergencyDelay \in Nat
  /\ PhoneDelay \in Nat /\ HwwDelay \in Nat
  /\ MonthlyDelay <= HwwDelay /\ EmergencyDelay <= HwwDelay
  /\ PhoneDelay <= HwwDelay
ASSUME BackendAssumption == Backend \in {"core", "electrum"}
ASSUME DepositsAssumption == Deposits \subseteq Nat

Epochs == 1 .. MaxEpochs
Steps == 1 .. MaxSteps

-----------------------------------------------------------------------------
(* Outpoints.                                                              *)

Deposit(d) == <<"deposit", d, 0>>
Chain(e, k) == <<"chain", e, k>>
Remainder(e) == <<"remainder", e, 0>>
Staging(e) == <<"staging", e, 0>>
Change(e) == <<"change", e, 0>>
Monthly(e, k) == <<"monthly", e, k>>
Emergency(e) == <<"emergency", e, 0>>
Withdrawal(e) == <<"withdrawal", e, 0>>

VaultOutputs ==
  {Deposit(d) : d \in Deposits} \cup {Chain(e, k) : e \in Epochs, k \in Steps}
    \cup {Remainder(e) : e \in Epochs}
    \cup {Staging(e) : e \in Epochs} \cup {Change(e) : e \in Epochs}

Connectors ==
  {Monthly(e, k) : e \in Epochs, k \in Steps}
    \cup {Emergency(e) : e \in Epochs} \cup {Withdrawal(e) : e \in Epochs}

Outpoints == VaultOutputs \cup Connectors

VARIABLES
  plan,      \* per epoch: its ceremony's status and the manifest's contents
  schedule,  \* the epoch the phone acts on, 0 if none
  left,      \* epochs the pointer has left
  draft,     \* connectors of the HWW revocation shown for approval
  sweep,     \* inputs of the cooperative sweep package, {} if none
  utxo,      \* confirmed unspent outpoints
  spent,     \* confirmed spent outpoints
  age,       \* blocks since the confirmation of an unspent vault output, up
             \* to the longest lock (an age beyond it opens nothing more)
  pool,      \* the mempool
  released,  \* history: confirmed payments to the hot wallet
  sincePaid, \* history: blocks since the last allowance, up to MonthlyDelay
  revoked,   \* history: connectors spent by a confirmed revocation
  last       \* history: the epoch of the last confirmed rollover, 0 if none

chainVars == <<utxo, spent, age, pool, released, sincePaid, revoked, last>>
phoneVars == <<plan, schedule, left>>
vars == <<plan, schedule, left, draft, sweep, utxo, spent, age, pool,
          released, sincePaid, revoked, last>>

-----------------------------------------------------------------------------
(* Transactions.                                                           *)

Tx(type, e, k, ins) == [type |-> type, epoch |-> e, step |-> k, ins |-> ins]

RolloverTx(e) == Tx("rollover", e, 0, plan[e].ins)
\* Mutant of AuthorizationTx: the connector is not committed to.
AuthorizationUnconnected(e, k) == Tx("authorization", e, k, {Chain(e, k)})

AuthorizationTx(e, k) ==
  Tx("authorization", e, k, {Chain(e, k), Monthly(e, k)})
TriggerTx(e) == Tx("trigger", e, 0, {Remainder(e), Emergency(e)})
\* Mutant of WithdrawalTx: the connector is not committed to.
WithdrawalUnconnected(e) == Tx("withdrawal", e, 0, {Staging(e)})

WithdrawalTx(e) == Tx("withdrawal", e, 0, {Staging(e), Withdrawal(e)})
RevocationTx(ins) == Tx("revocation", 0, 0, ins)
SweepTx(ins) == Tx("sweep", 0, 0, ins)
PhoneRecoveryTx(ins) == Tx("phone_recovery", 0, 0, ins)
HwwRecoveryTx(ins) == Tx("hww_recovery", 0, 0, ins)

\* The vault and connector outputs a transaction creates; what it pays to the
\* hot wallet, to an external address or as change leaves the model.
RolloverOutputs(e) ==
  {Remainder(e)}
    \cup (IF plan[e].steps > 0 THEN {Chain(e, 1), Monthly(e, 1)} ELSE {})
    \cup (IF plan[e].emergency THEN {Emergency(e)} ELSE {})

\* Mutant of AuthorizationOutputs: the final step has a successor.
AuthorizationOutputsOneMore(e, k) ==
  IF k <= plan[e].steps THEN {Chain(e, k + 1), Monthly(e, k + 1)} ELSE {}

AuthorizationOutputs(e, k) ==
  IF k < plan[e].steps THEN {Chain(e, k + 1), Monthly(e, k + 1)} ELSE {}

TriggerOutputs(e) == {Staging(e), Change(e), Withdrawal(e)}

Outputs(tx) ==
  CASE tx.type = "rollover" -> RolloverOutputs(tx.epoch)
    [] tx.type = "authorization" -> AuthorizationOutputs(tx.epoch, tx.step)
    [] tx.type = "trigger" -> TriggerOutputs(tx.epoch)
    [] OTHER -> {}

-----------------------------------------------------------------------------
(* The network.  Every transaction pays 1 sat/vB, so none replaces another *)
(* and the first spender of an outpoint in the mempool keeps it.           *)

\* Mutant of Delay: only steps after the first are delayed.
DelayAfterFirst(tx) ==
  CASE tx.type = "authorization" /\ tx.step > 1 -> MonthlyDelay
    [] tx.type = "withdrawal" -> EmergencyDelay
    [] tx.type = "phone_recovery" -> PhoneDelay
    [] tx.type = "hww_recovery" -> HwwDelay
    [] OTHER -> 0

\* Mutant of Delay: the monthly lock is one block short.
DelayShort(tx) ==
  CASE tx.type = "authorization" -> MonthlyDelay - 1
    [] tx.type = "withdrawal" -> EmergencyDelay
    [] tx.type = "phone_recovery" -> PhoneDelay
    [] tx.type = "hww_recovery" -> HwwDelay
    [] OTHER -> 0

\* The relative lock (BIP 68) on a transaction's vault inputs.
Delay(tx) ==
  CASE tx.type = "authorization" -> MonthlyDelay
    [] tx.type = "withdrawal" -> EmergencyDelay
    [] tx.type = "phone_recovery" -> PhoneDelay
    [] tx.type = "hww_recovery" -> HwwDelay
    [] OTHER -> 0

Matured(tx) ==
  Delay(tx) > 0 =>
    \A o \in tx.ins \cap VaultOutputs : o \in utxo /\ age[o] >= Delay(tx)

SpentInPool == UNION {tx.ins : tx \in pool}
CreatedInPool == UNION {Outputs(tx) : tx \in pool}

\* A node admits a transaction whose inputs exist, confirmed or not, have no
\* other spender and are mature.
Admits(tx) ==
  /\ tx \notin pool
  /\ tx.ins \subseteq (utxo \cup CreatedInPool) \ SpentInPool
  /\ Matured(tx)

Broadcast(tx) ==
  /\ Admits(tx)
  /\ Cardinality(pool) < MaxPool
  /\ pool' = pool \cup {tx}
  /\ UNCHANGED <<utxo, spent, age, released, sincePaid, revoked, last>>

\* A scan returns confirmed outputs.  Core reads the UTXO set, which knows
\* nothing of the mempool; an Electrum server leaves out outputs that an
\* unconfirmed transaction spends.
Visible(outs) ==
  {o \in outs : o \in utxo /\ (Backend = "electrum" => o \notin SpentInPool)}

Release(tx) ==
  IF tx.type \in {"authorization", "withdrawal"}
    THEN {[type |-> tx.type, epoch |-> tx.epoch, step |-> tx.step]}
    ELSE {}

Confirm(tx) ==
  /\ tx \in pool
  /\ tx.ins \subseteq utxo
  /\ pool' = pool \ {tx}
  /\ utxo' = (utxo \ tx.ins) \cup Outputs(tx)
  /\ spent' = spent \cup tx.ins
  /\ age' = [o \in VaultOutputs |-> IF o \in utxo' THEN age[o] ELSE 0]
  /\ released' = released \cup Release(tx)
  /\ sincePaid' = IF tx.type = "authorization" THEN 0 ELSE sincePaid
  /\ revoked' = IF tx.type = "revocation" THEN revoked \cup tx.ins ELSE revoked
  /\ last' = IF tx.type = "rollover" THEN tx.epoch ELSE last
  /\ UNCHANGED <<phoneVars, draft, sweep>>

\* A transaction is dropped from the mempool; so is what depends on it.
Evict(tx) ==
  /\ tx \in pool
  /\ Outputs(tx) \cap SpentInPool = {}
  /\ pool' = pool \ {tx}
  /\ UNCHANGED <<phoneVars, draft, sweep, utxo, spent, age, released,
                 sincePaid, revoked, last>>

Older(a, cap) == IF a < cap THEN a + 1 ELSE a

Tick ==
  /\ age' = [o \in VaultOutputs |->
               IF o \in utxo THEN Older(age[o], HwwDelay) ELSE 0]
  /\ sincePaid' = Older(sincePaid, MonthlyDelay)
  /\ UNCHANGED <<phoneVars, draft, sweep, utxo, spent, pool, released, revoked,
                 last>>

\* Somebody pays the vault address.
Receive(d) ==
  /\ Deposit(d) \notin utxo \cup spent
  /\ utxo' = utxo \cup {Deposit(d)}
  /\ UNCHANGED <<phoneVars, draft, sweep, spent, age, pool, released,
                 sincePaid, revoked, last>>

-----------------------------------------------------------------------------
(* The annual ceremony.                                                    *)

NoPlan == [status |-> "none", ins |-> {}, steps |-> 0, emergency |-> FALSE]

\* propose_policy scans the vault, then, in a second query, the connectors.
ScanVault(e) ==
  /\ plan[e].status = "none"
  /\ e > 1 => plan[e - 1].status # "none"
  /\ Visible(VaultOutputs) # {}
  /\ plan' = [plan EXCEPT ![e].status = "scanned", ![e].ins = Visible(VaultOutputs)]
  /\ UNCHANGED <<schedule, left, draft, sweep, chainVars>>

\* Mutant of Propose: live connectors are not consumed.
ProposeVaultOnly(e, n, em) ==
  /\ plan[e].status = "scanned"
  /\ plan' = [plan EXCEPT ![e] =
                [status |-> "proposed", ins |-> @.ins, steps |-> n,
                 emergency |-> em]]
  /\ UNCHANGED <<schedule, left, draft, sweep, chainVars>>

\* build_policy_proposal: every scanned output is an input of the rollover; the
\* step count depends on the funds (PolicyFunding) and on the limits chosen.
Propose(e, n, em) ==
  /\ plan[e].status = "scanned"
  /\ plan' = [plan EXCEPT ![e] =
                [status |-> "proposed", ins |-> @.ins \cup Visible(Connectors),
                 steps |-> n, emergency |-> em]]
  /\ UNCHANGED <<schedule, left, draft, sweep, chainVars>>

\* approve_policy: the HWW signs every vault input of the batch.
Approve(e) ==
  /\ plan[e].status = "proposed"
  /\ plan' = [plan EXCEPT ![e].status = "approved"]
  /\ UNCHANGED <<schedule, left, draft, sweep, chainVars>>

\* The backend reports a rollover it already has as broadcast.
Mined(e) == Remainder(e) \in utxo \cup spent

AlreadyKnown(e) ==
  \/ RolloverTx(e) \in pool
  \/ Mined(e) /\ (Backend = "core" => RolloverOutputs(e) \cap utxo # {})

\* activate_policy: broadcast the rollover, then move the pointer.
Activate(e) ==
  /\ plan[e].status = "approved"
  /\ e \notin left
  /\ Broadcast(RolloverTx(e)) \/ (AlreadyKnown(e) /\ UNCHANGED chainVars)
  /\ schedule' = e
  /\ left' = left \cup ({schedule} \ {0, e})
  /\ UNCHANGED <<plan, draft, sweep>>

\* The rollover is accepted and the command dies before the pointer moves.
ActivateInterrupted(e) ==
  /\ plan[e].status = "approved"
  /\ e \notin left
  /\ Broadcast(RolloverTx(e))
  /\ UNCHANGED <<phoneVars, draft, sweep>>

-----------------------------------------------------------------------------
(* The phone, acting on the epoch its pointer names.                       *)

\* broadcast_monthly, authorization.
Authorize(k) ==
  /\ schedule # 0
  /\ k <= plan[schedule].steps
  /\ Broadcast(AuthorizationTx(schedule, k))
  /\ UNCHANGED <<phoneVars, draft, sweep>>

\* broadcast_monthly, revocation: a dynamic spend of that step's connector,
\* confirmed or not.
Revoke(k) ==
  /\ schedule # 0
  /\ k <= plan[schedule].steps
  /\ Broadcast(RevocationTx({Monthly(schedule, k)}))
  /\ UNCHANGED <<phoneVars, draft, sweep>>

Trigger ==
  /\ schedule # 0
  /\ plan[schedule].emergency
  /\ Broadcast(TriggerTx(schedule))
  /\ UNCHANGED <<phoneVars, draft, sweep>>

Withdraw ==
  /\ schedule # 0
  /\ plan[schedule].emergency
  /\ Broadcast(WithdrawalTx(schedule))
  /\ UNCHANGED <<phoneVars, draft, sweep>>

\* cancel_emergency_access.
Cancel ==
  /\ schedule # 0
  /\ plan[schedule].emergency
  /\ Broadcast(RevocationTx({Withdrawal(schedule)}))
  /\ UNCHANGED <<phoneVars, draft, sweep>>

-----------------------------------------------------------------------------
(* The HWW's own revocation, and sweeps.                                   *)

\* Mutant of DraftRevocation: only the monthly chain is looked for.
DraftMonthlyOnly ==
  /\ Visible({Monthly(e, k) : e \in Epochs, k \in Steps}) # {}
  /\ draft' = Visible({Monthly(e, k) : e \in Epochs, k \in Steps})
  /\ UNCHANGED <<phoneVars, sweep, chainVars>>

\* `hww revoke-policy' scans the connectors and asks for approval of all.
DraftRevocation ==
  /\ Visible(Connectors) # {}
  /\ draft' = Visible(Connectors)
  /\ UNCHANGED <<phoneVars, sweep, chainVars>>

\* Approved: one transaction spends them all, or the node rejects it whole.
HwwRevoke ==
  /\ draft # {}
  /\ Broadcast(RevocationTx(draft))
  /\ draft' = {}
  /\ UNCHANGED <<phoneVars, sweep>>

HwwRevokeRejected ==
  /\ draft # {}
  /\ ~Admits(RevocationTx(draft))
  /\ draft' = {}
  /\ UNCHANGED <<phoneVars, sweep, chainVars>>

\* create_cooperative_sweep and its approval by the HWW.
CreateSweep ==
  /\ Visible(VaultOutputs) # {}
  /\ sweep' = Visible(VaultOutputs)
  /\ UNCHANGED <<phoneVars, draft, chainVars>>

BroadcastSweep ==
  /\ sweep # {}
  /\ Broadcast(SweepTx(sweep))
  /\ sweep' = {}
  /\ UNCHANGED <<phoneVars, draft>>

\* recover: the phone, or the HWW, sweeps the outputs whose lock has expired.
Mature(outs, delay) == {o \in outs : age[o] >= delay}

PhoneRecover ==
  LET ins == Mature(Visible(VaultOutputs), PhoneDelay) IN
    /\ ins # {}
    /\ Broadcast(PhoneRecoveryTx(ins))
    /\ UNCHANGED <<phoneVars, draft, sweep>>

HwwRecover ==
  LET ins == Mature(Visible(VaultOutputs), HwwDelay) IN
    /\ ins # {}
    /\ Broadcast(HwwRecoveryTx(ins))
    /\ UNCHANGED <<phoneVars, draft, sweep>>

-----------------------------------------------------------------------------
Init ==
  /\ plan = [e \in Epochs |-> NoPlan]
  /\ schedule = 0
  /\ left = {}
  /\ draft = {}
  /\ sweep = {}
  /\ utxo = {}
  /\ spent = {}
  /\ age = [o \in VaultOutputs |-> 0]
  /\ pool = {}
  /\ released = {}
  /\ sincePaid = MonthlyDelay
  /\ revoked = {}
  /\ last = 0

Ceremony ==
  \E e \in Epochs :
    \/ ScanVault(e) \/ Approve(e) \/ Activate(e) \/ ActivateInterrupted(e)
    \/ \E n \in 0 .. MaxSteps, em \in BOOLEAN : Propose(e, n, em)

Phone ==
  \/ \E k \in Steps : Authorize(k) \/ Revoke(k)
  \/ Trigger \/ Withdraw \/ Cancel

Hww == DraftRevocation \/ HwwRevoke \/ HwwRevokeRejected

Sweeps == CreateSweep \/ BroadcastSweep \/ PhoneRecover \/ HwwRecover

Network ==
  \/ \E tx \in pool : Confirm(tx) \/ Evict(tx)
  \/ \E d \in Deposits : Receive(d)
  \/ Tick

Next == Ceremony \/ Phone \/ Hww \/ Sweeps \/ Network

Spec == Init /\ [][Next]_vars

(***************************************************************************)
(* Fairness: a user who wants the policy revoked keeps approving (weak),   *)
(* and a transaction that is rebroadcast whenever it is dropped is mined   *)
(* (strong: the mempool offers miners something again and again).  Nothing *)
(* is owed by the phone, by deposits or by the ceremony.                   *)
(***************************************************************************)
FairSpec ==
  /\ Spec
  /\ WF_vars(Hww)
  /\ SF_vars(\E tx \in pool : Confirm(tx))

-----------------------------------------------------------------------------
(* Properties.                                                             *)

Plans == [status : {"none", "scanned", "proposed", "approved"},
          ins : SUBSET Outpoints, steps : 0 .. MaxSteps, emergency : BOOLEAN]

TxTypes == {"rollover", "authorization", "trigger", "withdrawal",
            "revocation", "sweep", "phone_recovery", "hww_recovery"}

\* Plans, transactions and histories have their types; what a device drafts is of
\* the right kind (a revocation names connectors, a sweep vault outputs).
TypeOK ==
  /\ plan \in [Epochs -> Plans]
  /\ schedule \in 0 .. MaxEpochs
  /\ left \subseteq Epochs
  /\ draft \subseteq Connectors
  /\ sweep \subseteq VaultOutputs
  /\ utxo \subseteq Outpoints
  /\ spent \subseteq Outpoints
  /\ age \in [VaultOutputs -> 0 .. HwwDelay]
  /\ \A tx \in pool :
       tx \in [type : TxTypes, epoch : 0 .. MaxEpochs, step : 0 .. MaxSteps,
               ins : SUBSET Outpoints]
  /\ \A r \in released :
       r \in [type : {"authorization", "withdrawal"}, epoch : Epochs,
              step : 0 .. MaxSteps]
  /\ sincePaid \in 0 .. MonthlyDelay
  /\ revoked \subseteq Connectors
  /\ last \in 0 .. MaxEpochs

\* A rollover that confirms has spent every policy output there was: whatever
\* was broadcast, mined or dropped between its two scans, the approvals and its
\* confirmation, the confirmed outputs are deposits or the last rollover's.
OldOutputsSpent ==
  \A o \in utxo : o[1] = "deposit" \/ o[2] = last

\* An action whose vault input and connector are both there can be executed.
Executable(e) ==
  {tx \in {TriggerTx(e), WithdrawalTx(e)}
            \cup {AuthorizationTx(e, k) : k \in Steps} : tx.ins \subseteq utxo}

\* "A later annual rollover spends every live vault and connector output, ...
\* and invalidates the old epoch" (src/README.md): after a rollover confirms, no
\* earlier epoch has an action left that could still confirm.
OldEpochInvalidated == \A e \in Epochs \ {last} : Executable(e) = {}

\* Whoever revokes a monthly connector, at whatever point of a race, stops that
\* step and every later one of the epoch for good.
RevocationIsWholeChain ==
  \A e \in Epochs, k \in Steps : Monthly(e, k) \in revoked =>
    \A r \in released : r.type = "authorization" /\ r.epoch = e => r.step < k

\* Once the cancellation of an emergency withdrawal (or a revocation of its
\* trigger) confirms, no withdrawal of that epoch ever does.
CancelledStaysCancelled ==
  \A e \in Epochs : revoked \cap {Emergency(e), Withdrawal(e)} # {} =>
    \A r \in released : ~(r.type = "withdrawal" /\ r.epoch = e)

\* No two allowances reach the hot wallet within one monthly delay of each
\* other, across steps, epochs, revocations and rollovers.
MonthlyRate ==
  [][\A r \in released' \ released :
       r.type = "authorization" => sincePaid >= MonthlyDelay]_vars

\* An all-or-nothing HWW revocation is rejected whenever one of the connectors it
\* names has an unconfirmed spender.  A user who scans and approves again still
\* wins in the end, whatever the phone broadcasts meanwhile: time and again no
\* connector is live.
RevocationWins == []<>(utxo \cap Connectors = {})
=============================================================================
