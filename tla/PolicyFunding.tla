---------------------------- MODULE PolicyFunding ----------------------------
(***************************************************************************)
(* The amounts of a policy proposal: how many allowance steps the phone    *)
(* funds, what each presigned transaction carries, and the HWW's check of  *)
(* the result (src/src/core/ceremony.rs).  Scripts, signatures and files   *)
(* are left out; all amounts are satoshis, all arithmetic is checked u64   *)
(* (an operation that leaves 0 .. MaxAmount ends the proposal).            *)
(*                                                                         *)
(* Every output is P2TR and the fee rate is 1 sat/vB, so a fee is a base   *)
(* that depends on the inputs plus OutputFee for every output.             *)
(***************************************************************************)
EXTENDS Integers

CONSTANTS Months,           \* most allowance steps (MONTHS_PER_ROLLOVER, 12)
          Connector,        \* value of a connector (CONNECTOR_VALUE_SATS)
          Dust,             \* least relayable value of a P2TR output
          ActionFee,        \* fee of a vault + connector spend without outputs
          OutputFee,        \* fee of one output more
          MaxAmount,        \* largest u64
          Totals,           \* bound: scanned input totals considered
          BaseFees,         \* bound: fees of the rollover's inputs considered
          MonthlyLimits,    \* bound: monthly limits considered
          EmergencyLimits   \* bound: emergency access limits considered

ASSUME AmountsAssumption ==
  /\ Months \in Nat \ {0} /\ Connector \in Nat /\ Dust \in Nat \ {0}
  /\ ActionFee \in Nat /\ OutputFee \in Nat /\ MaxAmount \in Nat
ASSUME InputsAssumption ==
  /\ Totals \subseteq 0 .. MaxAmount
  /\ BaseFees \subseteq Nat
  /\ MonthlyLimits \subseteq 0 .. MaxAmount
  /\ EmergencyLimits \subseteq 0 .. MaxAmount

VARIABLES
  phase,      \* limits, select, chain, emergency, built, valid, invalid, failed
  total,      \* value of the scanned vault and connector outputs
  base,       \* fee of the rollover's inputs
  monthly,    \* requested monthly limit
  emergency,  \* requested emergency access limit
  count,      \* the step count being tried, then the selected one
  remainder,  \* value of the rollover's remainder output
  step,       \* allowance steps built so far
  values,     \* value of the vault output each step spends, in step order
  staging,    \* value of the emergency staging output
  change      \* value of the vault change of the emergency trigger

inputs == <<total, base, monthly, emergency>>
vars == <<phase, total, base, monthly, emergency, count, remainder, step,
          values, staging, change>>

Fits(v) == v \in 0 .. MaxAmount

-----------------------------------------------------------------------------
(* Fees and values.                                                        *)

OneIf(b) == IF b THEN 1 ELSE 0

RolloverFee(n) ==
  base + OutputFee * (1 + 2 * OneIf(n > 0) + OneIf(emergency > 0))

ContinuingFee == ActionFee + 3 * OutputFee
FinalFee == ActionFee + OutputFee
TriggerFee == ActionFee + 3 * OutputFee
WithdrawalFee == ActionFee + OutputFee

\* Mutant of ConnectorValue: the emergency connector is not put aside.
ConnectorValueMonthly(n) == Connector * OneIf(n > 0)

\* Connector value a rollover with n steps puts aside.
ConnectorValue(n) ==
  Connector * (OneIf(n > 0) + OneIf(emergency > 0))

\* allowance_chain_value.  The last connector pays part of the last step.
ChainValue(n) ==
  IF n = 0 THEN 0
           ELSE n * monthly + (n - 1) * ContinuingFee + FinalFee - Connector

StagingValue ==
  IF emergency = 0 THEN 0 ELSE emergency + WithdrawalFee - Connector

MinimumRemainder ==
  IF emergency = 0 THEN Dust ELSE StagingValue + TriggerFee + Dust

Required(n) ==
  RolloverFee(n) + ChainValue(n) + MinimumRemainder + ConnectorValue(n)

-----------------------------------------------------------------------------
(* build_policy_proposal_with_connectors.                                  *)

Init ==
  /\ phase = "limits"
  /\ total \in Totals
  /\ base \in BaseFees
  /\ monthly \in MonthlyLimits
  /\ emergency \in EmergencyLimits
  /\ count = 0
  /\ remainder = 0
  /\ step = 0
  /\ values = [k \in 1 .. Months |-> 0]
  /\ staging = 0
  /\ change = 0

Fail ==
  /\ phase' = "failed"
  /\ UNCHANGED <<inputs, count, remainder, step, values, staging, change>>

\* The checks made before any count is tried.
LimitsAllowed ==
  /\ emergency > 0 =>
       /\ emergency >= Dust
       /\ Fits(emergency + WithdrawalFee) /\ Fits(StagingValue)
       /\ Fits(MinimumRemainder)
  /\ monthly > 0 => monthly >= Dust

\* Mutant of CheckLimits: the longest chain is never tried.
CheckLimitsOneLess ==
  /\ phase = "limits"
  /\ LimitsAllowed
  /\ phase' = "select"
  /\ count' = IF monthly > 0 THEN Months - 1 ELSE 0
  /\ UNCHANGED <<inputs, remainder, step, values, staging, change>>

CheckLimits ==
  /\ phase = "limits"
  /\ LimitsAllowed
  /\ phase' = "select"
  /\ count' = IF monthly > 0 THEN Months ELSE 0
  /\ UNCHANGED <<inputs, remainder, step, values, staging, change>>

RejectLimits == phase = "limits" /\ ~LimitsAllowed /\ Fail

\* Every checked operation of one round of the selection loop.
Computable(n) ==
  /\ Fits(n * monthly + (n - 1) * ContinuingFee + FinalFee)
  /\ Fits(ChainValue(n))
  /\ Fits(Required(n))

\* Mutant of SelectCount: the cold remainder is not reserved.
SelectCountUnreserved ==
  /\ phase = "select" /\ count > 0
  /\ Computable(count)
  /\ total >= Required(count) - MinimumRemainder
  /\ phase' = "chain"
  /\ remainder' = total - RolloverFee(count) - ChainValue(count)
                    - ConnectorValue(count)
  /\ values' = [k \in 1 .. Months |-> IF k = 1 THEN ChainValue(count) ELSE 0]
  /\ UNCHANGED <<inputs, count, step, staging, change>>

\* The largest count whose requirement the inputs meet is selected.
SelectCount ==
  /\ phase = "select" /\ count > 0
  /\ Computable(count)
  /\ total >= Required(count)
  /\ phase' = "chain"
  /\ remainder' = total - RolloverFee(count) - ChainValue(count)
                    - ConnectorValue(count)
  /\ values' = [k \in 1 .. Months |-> IF k = 1 THEN ChainValue(count) ELSE 0]
  /\ UNCHANGED <<inputs, count, step, staging, change>>

SkipCount ==
  /\ phase = "select" /\ count > 0
  /\ Computable(count)
  /\ total < Required(count)
  /\ count' = count - 1
  /\ UNCHANGED <<phase, inputs, remainder, step, values, staging, change>>

CountOverflows ==
  phase = "select" /\ count > 0 /\ ~Computable(count) /\ Fail

\* No step fits, or none was asked for: a rollover without an allowance.
ZeroStepsFit == total >= Required(0)

\* Mutant of FallBack: the emergency connector is not paid for.
FallBackUnpaid ==
  /\ phase = "select" /\ count = 0
  /\ ZeroStepsFit
  /\ phase' = "chain"
  /\ remainder' = total - RolloverFee(0)
  /\ UNCHANGED <<inputs, count, step, values, staging, change>>

FallBack ==
  /\ phase = "select" /\ count = 0
  /\ ZeroStepsFit
  /\ phase' = "chain"
  /\ remainder' = total - RolloverFee(0) - ConnectorValue(0)
  /\ UNCHANGED <<inputs, count, step, values, staging, change>>

CannotFund == phase = "select" /\ count = 0 /\ ~ZeroStepsFit /\ Fail

\* The allowance loop.  A continuing step carries its connector over to the
\* next one; the last step spends it.
HasNext == step + 1 < count

NextChainValue ==
  IF HasNext THEN values[step + 1] - monthly - ContinuingFee
             ELSE values[step + 1] + Connector - monthly - FinalFee

StepFunded ==
  /\ Fits(values[step + 1] + Connector)
  /\ Fits(NextChainValue)
  /\ IF HasNext THEN NextChainValue >= Dust ELSE NextChainValue = 0

BuildStep ==
  /\ phase = "chain" /\ step < count
  /\ StepFunded
  /\ step' = step + 1
  /\ values' = IF HasNext THEN [values EXCEPT ![step + 2] = NextChainValue]
                          ELSE values
  /\ UNCHANGED <<phase, inputs, count, remainder, staging, change>>

StepUnfunded == phase = "chain" /\ step < count /\ ~StepFunded /\ Fail

ChainBuilt ==
  /\ phase = "chain" /\ step = count
  /\ phase' = IF emergency > 0 THEN "emergency" ELSE "built"
  /\ UNCHANGED <<inputs, count, remainder, step, values, staging, change>>

\* Mutant of EmergencyFunded: the staging output may be dust.
EmergencyFundedDusty == remainder - StagingValue - TriggerFee >= Dust

\* build_emergency_access.
EmergencyFunded ==
  /\ StagingValue >= Dust
  /\ remainder - StagingValue - TriggerFee >= Dust

BuildEmergency ==
  /\ phase = "emergency"
  /\ EmergencyFunded
  /\ staging' = StagingValue
  /\ change' = remainder - StagingValue - TriggerFee
  /\ phase' = "built"
  /\ UNCHANGED <<inputs, count, remainder, step, values>>

EmergencyUnfunded == phase = "emergency" /\ ~EmergencyFunded /\ Fail

-----------------------------------------------------------------------------
(* validate_batch, on the HWW and again on the phone: the amounts of the   *)
(* manifest are recomputed from the transactions.                          *)

RolloverValid ==
  /\ count <= Months /\ (monthly = 0 => count = 0)
  /\ total = (IF count > 0 THEN values[1] ELSE 0) + remainder
               + ConnectorValue(count) + RolloverFee(count)
  /\ remainder >= Dust

AllowancesValid ==
  /\ \A k \in 1 .. Months : k < count =>
       /\ values[k + 1] = values[k] - monthly - ContinuingFee
       /\ values[k + 1] >= Dust
  /\ count > 0 => values[count] + Connector = monthly + FinalFee

EmergencyValid ==
  emergency > 0 =>
    /\ remainder = staging + change + TriggerFee
    /\ change >= Dust
    /\ staging + Connector = emergency + WithdrawalFee

Valid == RolloverValid /\ AllowancesValid /\ EmergencyValid

Validate ==
  /\ phase = "built"
  /\ phase' = IF Valid THEN "valid" ELSE "invalid"
  /\ UNCHANGED <<inputs, count, remainder, step, values, staging, change>>

Next ==
  \/ CheckLimits \/ RejectLimits
  \/ SelectCount \/ SkipCount \/ CountOverflows \/ FallBack \/ CannotFund
  \/ BuildStep \/ StepUnfunded \/ ChainBuilt
  \/ BuildEmergency \/ EmergencyUnfunded
  \/ Validate

Spec == Init /\ [][Next]_vars

-----------------------------------------------------------------------------
(* Properties.                                                             *)

Phases == {"limits", "select", "chain", "emergency", "built", "valid",
           "invalid", "failed"}

\* Every amount a proposal has computed so far is a u64, no step is built beyond
\* the selected count.
TypeOK ==
  /\ phase \in Phases
  /\ total \in 0 .. MaxAmount
  /\ base \in Nat
  /\ monthly \in 0 .. MaxAmount
  /\ emergency \in 0 .. MaxAmount
  /\ count \in 0 .. Months
  /\ remainder \in 0 .. MaxAmount
  /\ step \in 0 .. count
  /\ values \in [1 .. Months -> 0 .. MaxAmount]
  /\ staging \in 0 .. MaxAmount
  /\ change \in 0 .. MaxAmount

\* What the phone builds the HWW accepts: the amounts of a finished proposal
\* always pass the independent recomputation of validate_batch.
BuiltValidates == phase # "invalid"

\* A connector is worth more than the last step needs: limits so small that the
\* last chain output would be dust.
SmallLimit == monthly > 0 /\ ChainValue(1) < Dust

\* "The remainder receives every satoshi not needed for allowances, connector
\* outputs, or rollover fees" (src/anzen-design.md): if every presigned
\* transaction is executed, the inputs are exactly the allowances, the emergency
\* amount, the cold rest and the fees; no connector's value is stranded.
EverySatoshiPlaced ==
  phase = "valid" =>
    total = RolloverFee(count)
              + (IF count = 0 THEN 0
                 ELSE count * monthly + (count - 1) * ContinuingFee + FinalFee)
              + (IF emergency = 0 THEN remainder
                 ELSE emergency + TriggerFee + WithdrawalFee + change)

\* Every output of an accepted proposal can be relayed, unless the limit is so
\* small that the connector covers most of the only step.
OutputsRelayable ==
  phase = "valid" /\ ~SmallLimit =>
    /\ \A k \in 1 .. Months : k <= count => values[k] >= Dust
    /\ remainder >= Dust
    /\ emergency > 0 => staging >= Dust /\ change >= Dust

\* What a chain of n steps releases and pays in fees, its last connector
\* included.
GrossValue(n) == n * monthly + (n - 1) * ContinuingFee + FinalFee

\* The longest chain, which is tried first, leaves u64.
ChainOverflows ==
  monthly > 0 /\ (GrossValue(Months) > MaxAmount \/ Required(Months) > MaxAmount)

\* A small limit ends the proposal in two cases: a connector alone is worth more
\* than the last step (allowance_chain_value subtracts it, the ? leaves the loop
\* before fewer or no steps are tried), or two steps can be paid for and the last
\* chain output would be dust.
LimitTooSmall ==
  /\ SmallLimit
  /\ \/ ChainValue(1) < 0
     \/ Months > 1 /\ total >= Required(2)

\* The reasons for which a proposal ends in an error, as a closed formula of its
\* inputs.
Cause ==
  \/ ~LimitsAllowed
  \/ ~ZeroStepsFit
  \/ emergency > 0 /\ StagingValue < Dust
  \/ ChainOverflows
  \/ LimitTooSmall

\* Construction fails for exactly these causes: whatever count the loop is at
\* when a check fires, the inputs have one of them, and inputs that have one are
\* never accepted.  Without LimitTooSmall and ChainOverflows this would be "If
\* zero steps fit, rollover and any fundable emergency package still proceed"
\* (src/anzen-design.md); these two are where the code departs from it.
FailsExactlyForCause ==
  /\ phase = "failed" => Cause
  /\ phase = "valid" => ~Cause

\* "chooses the largest fundable count" (src/anzen-design.md): no larger count
\* would have left the emergency reserve and a non-dust remainder.
LargestCount ==
  phase = "valid" /\ monthly > 0 =>
    \A n \in 1 .. Months : n > count => total < Required(n)

Selected == phase \in {"chain", "emergency", "built", "valid", "invalid"}

ChainTelescopes ==
  \A k \in 1 .. Months : k <= count /\ k <= step + 1 =>
    /\ values[k] = ChainValue(count - k + 1)
    /\ k > 1 => values[k] >= Dust

SelectionInv ==
  Selected =>
    /\ count > 0 => monthly > 0 /\ Computable(count)
    /\ total >= Required(count)
    /\ remainder = total - RolloverFee(count) - ChainValue(count)
                     - ConnectorValue(count)
    /\ ChainTelescopes
    /\ phase # "chain" => step = count

EmergencyInv ==
  /\ phase = "emergency" => emergency > 0
  /\ phase \in {"built", "valid", "invalid"} /\ emergency > 0 =>
       /\ staging = StagingValue
       /\ change = remainder - StagingValue - TriggerFee
       /\ staging >= Dust /\ change >= Dust

TriedInv ==
  (phase = "select" \/ Selected) =>
    /\ LimitsAllowed
    /\ monthly = 0 => count = 0
    /\ monthly > 0 =>
         \A n \in 1 .. Months : n > count => Computable(n) /\ total < Required(n)

\* The inductive invariant of build_policy_proposal.  Whatever the loop has built
\* so far, the output the next step spends is worth exactly a chain of the steps
\* that are left (ChainTelescopes): that is why the final step consumes it to the
\* last satoshi, and why the loop's own checks fire only on the last chain output
\* of a limit too small.  Every count above the one being tried could be computed
\* and was too expensive (TriedInv).
FundingInv ==
  /\ TypeOK
  /\ phase \in {"limits", "select"} => step = 0
  /\ TriedInv
  /\ SelectionInv
  /\ EmergencyInv
  /\ phase = "failed" => Cause
  /\ BuiltValidates
=============================================================================
