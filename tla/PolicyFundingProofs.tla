------------------------- MODULE PolicyFundingProofs -------------------------
(***************************************************************************)
(* Proofs about PolicyFunding, for all connector values, dust limits, fees *)
(* and chain lengths.  The argument is FundingInv: the value the next      *)
(* allowance step spends is the value of a chain of the steps left.        *)
(***************************************************************************)
EXTENDS PolicyFunding, TLAPS

\* A product of naturals is a natural (the solver's nonlinear arithmetic is
\* given this one fact and works with it linearly).
LEMMA ProductNat == ASSUME NEW a \in Nat, NEW b \in Nat PROVE a * b \in Nat
  BY Z3

\* allowance_chain_value, one step at a time: a continuing step takes the limit
\* and its fee and leaves a chain of one step less.
LEMMA ChainStep ==
  ASSUME TypeOK, NEW n \in Nat, n > 1
  PROVE  /\ ChainValue(n) \in Int
         /\ ChainValue(n - 1) = ChainValue(n) - monthly - ContinuingFee
  <1>1. /\ monthly \in Int /\ ContinuingFee \in Int /\ FinalFee \in Int
        /\ Connector \in Int
    BY AmountsAssumption DEF TypeOK, ContinuingFee, FinalFee
  <1>2. n - 1 # 0 /\ n # 0 /\ n - 1 \in Int /\ n - 1 - 1 \in Int
    OBVIOUS
  <1>3. (n - 1) * monthly = n * monthly - monthly
    BY <1>1, Z3
  <1>4. (n - 1 - 1) * ContinuingFee = (n - 1) * ContinuingFee - ContinuingFee
    BY <1>1, Z3
  <1>5. n * monthly \in Int /\ (n - 1) * ContinuingFee \in Int
    BY <1>1, <1>2
  <1> QED
    BY <1>1, <1>2, <1>3, <1>4, <1>5 DEF ChainValue

\* A longer chain is worth at least as much as a shorter one.
LEMMA ChainGrows ==
  ASSUME TypeOK, NEW n \in Nat, NEW m \in Nat, m > 0, n >= m
  PROVE  /\ ChainValue(n) \in Int /\ ChainValue(m) \in Int
         /\ ChainValue(n) >= ChainValue(m)
         /\ GrossValue(n) = ChainValue(n) + Connector
         /\ GrossValue(m) = ChainValue(m) + Connector
  <1>1. monthly \in Nat /\ ContinuingFee \in Nat /\ FinalFee \in Nat
          /\ Connector \in Nat
    BY AmountsAssumption DEF TypeOK, ContinuingFee, FinalFee
  <1> DEFINE d == n - m
             j == m - 1
  <1>2. d \in Nat /\ j \in Nat /\ n = m + d /\ n - 1 = j + d /\ n # 0 /\ m # 0
    OBVIOUS
  <1>3. d * monthly \in Nat /\ d * ContinuingFee \in Nat /\ m * monthly \in Nat
          /\ j * ContinuingFee \in Nat
    BY <1>1, <1>2, ProductNat
  <1> HIDE DEF d, j
  <1>4. n * monthly = m * monthly + d * monthly
    BY <1>1, <1>2, Z3
  <1>5. (n - 1) * ContinuingFee = j * ContinuingFee + d * ContinuingFee
    BY <1>1, <1>2, Z3
  <1>6. m - 1 = j
    BY DEF j
  <1> QED
    BY <1>1, <1>2, <1>3, <1>4, <1>5, <1>6 DEF ChainValue, GrossValue

\* Derived amounts are integers.
LEMMA DerivedTypes ==
  ASSUME TypeOK, NEW n \in Nat
  PROVE  /\ ChainValue(n) \in Int /\ RolloverFee(n) \in Nat
         /\ ConnectorValue(n) \in Nat /\ MinimumRemainder \in Int
         /\ StagingValue \in Int /\ Required(n) \in Int
         /\ TriggerFee \in Nat /\ FinalFee \in Nat /\ ContinuingFee \in Nat
         /\ WithdrawalFee \in Nat
  <1>1. /\ ContinuingFee \in Nat /\ FinalFee \in Nat /\ TriggerFee \in Nat
        /\ WithdrawalFee \in Nat
    BY AmountsAssumption
    DEF ContinuingFee, FinalFee, TriggerFee, WithdrawalFee
  <1>2. StagingValue \in Int /\ MinimumRemainder \in Int
    BY <1>1, AmountsAssumption DEF TypeOK, StagingValue, MinimumRemainder
  <1>3. ChainValue(n) \in Int
    BY <1>1, AmountsAssumption DEF TypeOK, ChainValue
  <1>4. OneIf(n > 0) \in Nat /\ OneIf(emergency > 0) \in Nat
    BY DEF OneIf
  <1>5. RolloverFee(n) \in Nat
    <2>1. 1 + 2 * OneIf(n > 0) + OneIf(emergency > 0) \in Nat
      BY <1>4
    <2>2. OutputFee * (1 + 2 * OneIf(n > 0) + OneIf(emergency > 0)) \in Nat
      BY <2>1, AmountsAssumption, ProductNat
    <2> QED
      BY <2>2 DEF TypeOK, RolloverFee
  <1>6. ConnectorValue(n) \in Nat
    <2>1. OneIf(n > 0) + OneIf(emergency > 0) \in Nat
      BY <1>4
    <2> QED
      BY <2>1, AmountsAssumption, ProductNat DEF ConnectorValue
  <1> QED
    BY <1>1, <1>2, <1>3, <1>5, <1>6 DEF Required

\* What a rollover with steps needs grows with their number, and a chain that is
\* worth anything at all needs more than no chain.
LEMMA RequiredGrows ==
  ASSUME TypeOK, NEW n \in Nat, NEW m \in Nat, m > 0, n >= m
  PROVE  /\ Required(n) >= Required(m)
         /\ ChainValue(n) >= 0 => Required(n) >= Required(0)
  <1>1. /\ ChainValue(n) \in Int /\ ChainValue(m) \in Int
        /\ ChainValue(n) >= ChainValue(m) /\ ChainValue(0) = 0
    BY ChainGrows DEF ChainValue
  <1>2. /\ RolloverFee(n) \in Nat /\ RolloverFee(0) \in Nat
        /\ ConnectorValue(n) \in Nat /\ ConnectorValue(0) \in Nat
        /\ MinimumRemainder \in Int
    BY DerivedTypes
  <1>3. RolloverFee(n) = RolloverFee(m) /\ ConnectorValue(n) = ConnectorValue(m)
    BY DEF RolloverFee, ConnectorValue, OneIf
  <1>4. RolloverFee(n) >= RolloverFee(0) /\ ConnectorValue(n) >= ConnectorValue(0)
    <2> DEFINE e == OneIf(emergency > 0)
    <2>1. e \in Nat /\ OneIf(n > 0) = 1 /\ OneIf(0 > 0) = 0
      BY DEF OneIf
    <2> HIDE DEF e
    <2>2. /\ RolloverFee(n) = base + OutputFee * (3 + e)
          /\ RolloverFee(0) = base + OutputFee * (1 + e)
          /\ ConnectorValue(n) = Connector * (1 + e)
          /\ ConnectorValue(0) = Connector * (0 + e)
      BY <2>1 DEF RolloverFee, ConnectorValue, e
    <2>3. /\ OutputFee * (3 + e) = OutputFee * (1 + e) + 2 * OutputFee
          /\ Connector * (1 + e) = Connector * (0 + e) + Connector
      BY <2>1, AmountsAssumption, Z3
    <2>4. /\ OutputFee * (1 + e) \in Nat /\ Connector * (0 + e) \in Nat
          /\ base \in Nat /\ OutputFee \in Nat /\ Connector \in Nat
      <3>1. 1 + e \in Nat /\ 0 + e \in Nat
        BY <2>1
      <3> QED
        BY <3>1, AmountsAssumption, ProductNat DEF TypeOK
    <2> QED
      BY <2>2, <2>3, <2>4
  <1> QED
    BY <1>1, <1>2, <1>3, <1>4 DEF Required

\* A proposal that has computed nothing satisfies the invariant.
LEMMA FundingInit == Init => FundingInv
  BY AmountsAssumption, InputsAssumption
  DEF Init, FundingInv, TypeOK, Phases, TriedInv, Selected, SelectionInv,
      EmergencyInv, BuiltValidates

\* Nothing a proposal derives from its inputs changes while they do not.
LEMMA Stable ==
  ASSUME UNCHANGED inputs
  PROVE  /\ \A n \in Nat : /\ ChainValue(n)' = ChainValue(n)
                           /\ RolloverFee(n)' = RolloverFee(n)
                           /\ ConnectorValue(n)' = ConnectorValue(n)
                           /\ Required(n)' = Required(n)
                           /\ Computable(n)' = Computable(n)
         /\ StagingValue' = StagingValue
         /\ MinimumRemainder' = MinimumRemainder
         /\ LimitsAllowed' = LimitsAllowed
         /\ SmallLimit' = SmallLimit
         /\ ZeroStepsFit' = ZeroStepsFit
         /\ Cause' = Cause
  BY DEF inputs, ChainValue, RolloverFee, ConnectorValue, Required, Computable,
         StagingValue, MinimumRemainder, LimitsAllowed, SmallLimit,
         ZeroStepsFit, Cause, GrossValue, ChainOverflows, LimitTooSmall, Fits, OneIf, ContinuingFee, FinalFee, TriggerFee,
         WithdrawalFee

\* An error that has a cause keeps the invariant.
LEMMA FailKeeps ==
  ASSUME FundingInv, Fail, Cause
  PROVE  FundingInv'
  <1>1. Cause'
    BY Stable DEF Fail
  <1> QED
    BY <1>1 DEF FundingInv, Fail, inputs, TypeOK, Phases, TriedInv, Selected,
                SelectionInv, EmergencyInv, BuiltValidates

\* What the selection knows about a count whose requirement is met.
LEMMA Affordable ==
  ASSUME TypeOK, LimitsAllowed, NEW n \in 0 .. Months, total >= Required(n),
         n > 0 => Computable(n)
  PROVE  /\ total - RolloverFee(n) - ChainValue(n) - ConnectorValue(n)
              \in 0 .. MaxAmount
         /\ total - RolloverFee(n) - ChainValue(n) - ConnectorValue(n)
              >= MinimumRemainder
         /\ ChainValue(n) \in 0 .. MaxAmount
         /\ MinimumRemainder >= Dust
  <1>1. n \in Nat
    BY AmountsAssumption
  <1>2. ChainValue(n) \in 0 .. MaxAmount
    BY <1>1, AmountsAssumption DEF Computable, Fits, ChainValue
  <1>3. /\ ChainValue(n) \in Int /\ RolloverFee(n) \in Nat
        /\ ConnectorValue(n) \in Nat /\ MinimumRemainder \in Int
        /\ StagingValue \in Int /\ TriggerFee \in Nat
    BY <1>1, DerivedTypes
  <1>4. MinimumRemainder >= Dust
    BY <1>3, AmountsAssumption
    DEF MinimumRemainder, LimitsAllowed, Fits, TypeOK
  <1>5. total \in 0 .. MaxAmount
    BY DEF TypeOK
  <1> QED
    BY <1>2, <1>3, <1>4, <1>5, AmountsAssumption DEF Required

\* The checks made before the selection loop keep it.
LEMMA LimitsStep ==
  ASSUME FundingInv, CheckLimits
  PROVE  FundingInv'
  <1>1. LimitsAllowed'
    BY Stable DEF CheckLimits
  <1>2. TypeOK'
    BY AmountsAssumption DEF CheckLimits, FundingInv, TypeOK, Phases, inputs
  <1> QED
    BY <1>1, <1>2 DEF CheckLimits, FundingInv, TypeOK, TriedInv, Selected, inputs,
                SelectionInv, EmergencyInv, BuiltValidates

\* So does leaving out a count that the inputs cannot fund.
LEMMA SkipStep ==
  ASSUME FundingInv, SkipCount
  PROVE  FundingInv'
  <1>1. LimitsAllowed'
    BY Stable DEF SkipCount, FundingInv, TriedInv
  <1>2. TypeOK'
    BY AmountsAssumption DEF SkipCount, FundingInv, TypeOK, inputs
  <1>3. \A n \in 1 .. Months : n > count' => (Computable(n) /\ total < Required(n))'
    <2> SUFFICES ASSUME NEW n \in 1 .. Months, n > count'
                 PROVE  (Computable(n) /\ total < Required(n))'
      OBVIOUS
    <2>1. n = count \/ n > count
      BY AmountsAssumption DEF SkipCount, FundingInv, TypeOK
    <2>2. Computable(n) /\ total < Required(n)
      BY <2>1, AmountsAssumption DEF SkipCount, FundingInv, TriedInv, TypeOK
    <2>3. Required(n)' = Required(n) /\ Computable(n)' = Computable(n)
      BY Stable, AmountsAssumption DEF SkipCount
    <2> QED
      BY <2>2, <2>3 DEF SkipCount, inputs
  <1>4. monthly' > 0
    BY DEF SkipCount, FundingInv, TriedInv, inputs, TypeOK
  <1> QED
    BY <1>1, <1>2, <1>3, <1>4 DEF SkipCount, FundingInv, TypeOK, TriedInv,
       Selected, inputs, SelectionInv, EmergencyInv, BuiltValidates

\* Selection leaves a chain output worth the whole chain and the remainder.
LEMMA SelectStep ==
  ASSUME FundingInv, SelectCount \/ FallBack
  PROVE  FundingInv'
  <1> DEFINE r == total - RolloverFee(count) - ChainValue(count)
                    - ConnectorValue(count)
  <1>1. /\ UNCHANGED <<inputs, count, step, staging, change>>
        /\ TypeOK /\ LimitsAllowed /\ phase' = "chain" /\ step = 0
        /\ phase = "select"
        /\ (count > 0 => Computable(count)) /\ (count > 0 => monthly > 0)
        /\ total >= Required(count) /\ count \in 0 .. Months
    BY DEF FundingInv, TriedInv, SelectCount, FallBack, ZeroStepsFit, inputs,
           TypeOK
  <1>2. count \in Nat
    BY <1>1, AmountsAssumption
  <1>3. /\ r \in 0 .. MaxAmount /\ ChainValue(count) \in 0 .. MaxAmount
    BY <1>1, Affordable
  <1>4. remainder' = r
    <2>1. CASE SelectCount
      BY <2>1 DEF SelectCount
    <2>2. CASE FallBack
      <3>1. count = 0 /\ ChainValue(0) = 0
        BY <2>2 DEF FallBack, ChainValue
      <3>2. RolloverFee(0) \in Nat /\ total \in Int
        BY <1>1, DerivedTypes DEF TypeOK
      <3> QED
        BY <2>2, <3>1, <3>2 DEF FallBack
    <2> QED
      BY <2>1, <2>2
  <1>5. /\ values' \in [1 .. Months -> 0 .. MaxAmount]
        /\ count > 0 => values'[1] = ChainValue(count)
    <2>1. CASE SelectCount
      BY <2>1, <1>1, <1>3, AmountsAssumption DEF SelectCount
    <2>2. CASE FallBack
      BY <2>2, <1>1 DEF FallBack, TypeOK
    <2> QED
      BY <2>1, <2>2
  <1>6. TypeOK'
    BY <1>1, <1>3, <1>4, <1>5 DEF TypeOK, Phases, inputs
  <1>7. TriedInv'
    <2>1. LimitsAllowed'
      BY <1>1, Stable
    <2>2. \A n \in 1 .. Months : Required(n)' = Required(n) /\ Computable(n)' = Computable(n)
      BY <1>1, Stable, AmountsAssumption
    <2> QED
      BY <1>1, <2>1, <2>2 DEF TriedInv, Selected, inputs, FundingInv
  <1>8. SelectionInv'
    <2>1. /\ ChainValue(count)' = ChainValue(count)
          /\ RolloverFee(count)' = RolloverFee(count)
          /\ ConnectorValue(count)' = ConnectorValue(count)
          /\ Required(count)' = Required(count)
          /\ Computable(count)' = Computable(count)
      BY <1>1 DEF inputs, ChainValue, RolloverFee, ConnectorValue, Required,
           Computable, StagingValue, MinimumRemainder, Fits, OneIf,
           ContinuingFee, FinalFee, TriggerFee, WithdrawalFee
    <2>2. ChainTelescopes'
      <3> SUFFICES ASSUME NEW k \in 1 .. Months, k <= count, k <= 1
                   PROVE  (/\ values[k] = ChainValue(count - k + 1)
                           /\ k > 1 => values[k] >= Dust)'
        BY <1>1 DEF ChainTelescopes
      <3>1. k = 1 /\ count - k + 1 = count /\ count > 0
        BY <1>2, AmountsAssumption
      <3>2. values'[1] = ChainValue(count)'
        BY <3>1, <1>5, <2>1
      <3> QED
        BY <3>1, <3>2, <1>1
    <2> QED
      BY <1>1, <1>4, <2>1, <2>2 DEF SelectionInv, inputs
  <1> QED
    BY <1>1, <1>6, <1>7, <1>8
    DEF FundingInv, EmergencyInv, BuiltValidates

\* The output the next step spends, before and after the step.
LEMMA Source ==
  ASSUME FundingInv, phase = "chain", step < count
  PROVE  /\ step \in Nat /\ count \in Nat /\ step + 1 \in 1 .. Months
         /\ values[step + 1] = ChainValue(count - step)
         /\ HasNext => /\ NextChainValue = ChainValue(count - step - 1)
                       /\ step + 2 \in 1 .. Months
         /\ ~HasNext => NextChainValue = 0
  <1>1. /\ step \in Nat /\ count \in Nat /\ step + 1 \in 1 .. Months /\ TypeOK
        /\ step + 1 <= count
    BY AmountsAssumption DEF FundingInv, TypeOK
  <1>2. values[step + 1] = ChainValue(count - step)
    <2>1. values[step + 1] = ChainValue(count - (step + 1) + 1)
      BY <1>1 DEF FundingInv, SelectionInv, Selected, ChainTelescopes
    <2>2. count - (step + 1) + 1 = count - step
      BY <1>1
    <2> QED
      BY <2>1, <2>2
  <1>3. ASSUME HasNext
        PROVE  /\ NextChainValue = ChainValue(count - step - 1)
               /\ step + 2 \in 1 .. Months
    <2>1. count - step \in Nat /\ count - step > 1
      BY <1>1, <1>3 DEF HasNext
    <2>2. step + 2 \in 1 .. Months
      BY <2>1, <1>1, AmountsAssumption DEF TypeOK
    <2> QED
      BY <1>1, <1>2, <1>3, <2>1, <2>2, ChainStep DEF NextChainValue
  <1>4. ASSUME ~HasNext PROVE NextChainValue = 0
    <2>1. count - step = 1
      BY <1>1, <1>4 DEF HasNext
    <2>2. /\ monthly \in Int /\ FinalFee \in Int /\ Connector \in Int
          /\ ContinuingFee \in Int
      BY <1>1, AmountsAssumption DEF TypeOK, FinalFee, ContinuingFee
    <2>3. values[step + 1] = monthly + FinalFee - Connector
      BY <1>2, <2>1, <2>2 DEF ChainValue
    <2> QED
      BY <1>4, <2>2, <2>3 DEF NextChainValue
  <1> QED
    BY <1>1, <1>2, <1>3, <1>4

\* One round of the allowance loop keeps the chain telescoping.
LEMMA BuildStepKeeps ==
  ASSUME FundingInv, BuildStep
  PROVE  FundingInv'
  <1>1. /\ UNCHANGED <<inputs, count, remainder, staging, change, phase>>
        /\ TypeOK /\ phase = "chain" /\ step < count /\ step' = step + 1
        /\ StepFunded
    BY DEF FundingInv, BuildStep
  <1>2. /\ step \in Nat /\ count \in Nat /\ step + 1 \in 1 .. Months
        /\ HasNext => /\ NextChainValue = ChainValue(count - step - 1)
                      /\ step + 2 \in 1 .. Months
    BY <1>1, Source
  <1>3. values' \in [1 .. Months -> 0 .. MaxAmount]
    BY <1>1, <1>2 DEF BuildStep, TypeOK, StepFunded, Fits
  <1>4. TypeOK'
    BY <1>1, <1>2, <1>3 DEF TypeOK, inputs
  <1>5. TriedInv'
    <2>1. LimitsAllowed'
      BY <1>1, Stable DEF FundingInv, TriedInv, Selected
    <2>2. \A n \in 1 .. Months : Required(n)' = Required(n) /\ Computable(n)' = Computable(n)
      BY <1>1, Stable, AmountsAssumption
    <2> QED
      BY <1>1, <2>1, <2>2 DEF TriedInv, Selected, inputs, FundingInv
  <1>6. ChainTelescopes'
    <2> SUFFICES ASSUME NEW k \in 1 .. Months, k <= count, k <= step + 2
                 PROVE  (/\ values[k] = ChainValue(count - k + 1)
                         /\ k > 1 => values[k] >= Dust)'
      BY <1>1, <1>2 DEF ChainTelescopes
    <2>1. ChainValue(count - k + 1)' = ChainValue(count - k + 1)
      BY <1>1 DEF inputs, ChainValue, ContinuingFee, FinalFee
    <2>2. CASE k <= step + 1
      <3>1. values'[k] = values[k]
        BY <1>1, <1>2, <2>2, AmountsAssumption DEF BuildStep, TypeOK
      <3> QED
        BY <1>1, <2>1, <2>2, <3>1
        DEF FundingInv, SelectionInv, Selected, ChainTelescopes
    <2>3. CASE k = step + 2
      <3>1. HasNext
        BY <2>3, <1>2 DEF HasNext
      <3>2. values'[k] = NextChainValue /\ NextChainValue >= Dust
        BY <1>1, <1>2, <2>3, <3>1 DEF BuildStep, StepFunded, TypeOK
      <3>3. count - step - 1 = count - k + 1
        BY <1>2, <2>3
      <3> QED
        BY <1>2, <2>1, <3>1, <3>2, <3>3
    <2> QED
      BY <1>2, <2>2, <2>3, AmountsAssumption
  <1>7. SelectionInv'
    <2>1. /\ ChainValue(count)' = ChainValue(count)
          /\ RolloverFee(count)' = RolloverFee(count)
          /\ ConnectorValue(count)' = ConnectorValue(count)
          /\ Required(count)' = Required(count)
          /\ Computable(count)' = Computable(count)
      BY <1>1 DEF inputs, ChainValue, RolloverFee, ConnectorValue, Required,
           Computable, StagingValue, MinimumRemainder, Fits, OneIf,
           ContinuingFee, FinalFee, TriggerFee, WithdrawalFee
    <2> QED
      BY <1>1, <1>6, <2>1 DEF FundingInv, SelectionInv, Selected, inputs
  <1> QED
    BY <1>1, <1>4, <1>5, <1>7
    DEF FundingInv, EmergencyInv, BuiltValidates

\* A count that the loop cannot compute is too large for u64 already with all
\* the steps, or smaller than its own connector already with one.
LEMMA OverflowCause ==
  ASSUME FundingInv, CountOverflows
  PROVE  Cause
  <1>1. /\ TypeOK /\ LimitsAllowed /\ monthly > 0 /\ ~Computable(count)
        /\ count \in Nat /\ count > 0 /\ count <= Months /\ Months \in Nat
        /\ 1 \in Nat /\ 1 > 0 /\ count >= 1 /\ Months >= count
    BY AmountsAssumption
    DEF CountOverflows, FundingInv, TriedInv, Selected, TypeOK
  <1>2. /\ ChainValue(count) >= ChainValue(1)
        /\ GrossValue(count) = ChainValue(count) + Connector
        /\ ChainValue(count) \in Int /\ ChainValue(1) \in Int
    BY <1>1, ChainGrows
  <1>3. /\ ChainValue(Months) >= ChainValue(count)
        /\ GrossValue(Months) = ChainValue(Months) + Connector
        /\ ChainValue(Months) \in Int
    BY <1>1, ChainGrows
  <1>4. Required(Months) >= Required(count)
    BY <1>1, RequiredGrows
  <1>5. /\ RolloverFee(count) \in Nat /\ ConnectorValue(count) \in Nat
        /\ MinimumRemainder \in Int /\ Required(count) \in Int
        /\ Required(Months) \in Int
    BY <1>1, DerivedTypes
  <1>6. MinimumRemainder >= 0
    <2>1. StagingValue \in Int /\ TriggerFee \in Nat
      BY <1>1, DerivedTypes
    <2> QED
      BY <1>1, <2>1, AmountsAssumption
      DEF MinimumRemainder, LimitsAllowed, Fits, TypeOK
  <1>7. CASE ChainValue(count) < 0
    <2>1. ChainValue(1) < 0 /\ ChainValue(1) < Dust
      BY <1>2, <1>7, AmountsAssumption
    <2> QED
      BY <1>1, <2>1 DEF Cause, LimitTooSmall, SmallLimit
  <1>8. CASE ChainValue(count) >= 0
    <2>1. GrossValue(count) >= 0 /\ Required(count) >= 0
      BY <1>2, <1>5, <1>6, <1>8, AmountsAssumption DEF Required
    <2>2. GrossValue(count) > MaxAmount \/ Required(count) > MaxAmount
      <3>1. GrossValue(count) \in Int
        BY <1>2, AmountsAssumption
      <3>2. \/ ~Fits(GrossValue(count)) \/ ~Fits(ChainValue(count))
            \/ ~Fits(Required(count))
        BY <1>1 DEF Computable, GrossValue
      <3> QED
        BY <1>2, <1>5, <1>8, <2>1, <3>1, <3>2, AmountsAssumption DEF Fits
    <2>3. GrossValue(Months) > MaxAmount \/ Required(Months) > MaxAmount
      BY <1>2, <1>3, <1>4, <1>5, <2>2, AmountsAssumption
    <2> QED
      BY <1>1, <2>3 DEF Cause, ChainOverflows
  <1> QED
    BY <1>2, <1>7, <1>8

\* The allowance loop can fail only on a limit too small for its connector, and
\* then at least two steps were selected.
LEMMA StepUnfundedCause ==
  ASSUME FundingInv, StepUnfunded
  PROVE  Cause
  <1>1. /\ TypeOK /\ phase = "chain" /\ step < count /\ monthly > 0
        /\ FundingInv /\ ~StepFunded
        /\ Computable(count) /\ total >= Required(count)
    BY DEF FundingInv, StepUnfunded, SelectionInv, Selected, TypeOK
  <1>2. /\ step \in Nat /\ count \in Nat /\ step + 1 \in 1 .. Months
        /\ values[step + 1] = ChainValue(count - step)
        /\ HasNext => NextChainValue = ChainValue(count - step - 1)
        /\ ~HasNext => NextChainValue = 0
    BY <1>1, Source
  <1>3. count - step \in Nat /\ count - step > 0 /\ count >= count - step /\ count > 0
    BY <1>1, <1>2
  <1>4. Fits(values[step + 1] + Connector)
    <2>1. Fits(GrossValue(count))
      BY <1>1 DEF Computable, GrossValue
    <2>2. /\ ChainValue(count) >= ChainValue(count - step)
          /\ ChainValue(count) \in Int /\ ChainValue(count - step) \in Int
          /\ GrossValue(count) = ChainValue(count) + Connector
      BY <1>1, <1>2, <1>3, ChainGrows
    <2>3. values[step + 1] >= 0
      BY <1>1, <1>2 DEF TypeOK
    <2> QED
      BY <1>2, <2>1, <2>2, <2>3, AmountsAssumption DEF Fits
  <1>5. HasNext
    BY <1>1, <1>2, <1>4, AmountsAssumption DEF StepFunded, Fits
  <1>6. /\ count - step - 1 \in Nat /\ count - step - 1 > 0 /\ count > 1
        /\ count >= count - step - 1 /\ count >= 2 /\ count <= Months
    BY <1>1, <1>2, <1>3, <1>5, AmountsAssumption DEF HasNext, TypeOK
  <1>7. /\ ChainValue(count - step - 1) >= ChainValue(1)
        /\ ChainValue(count - step - 1) \in Int /\ ChainValue(1) \in Int
    BY <1>1, <1>6, ChainGrows
  <1>8. /\ ChainValue(count) >= ChainValue(count - step - 1)
        /\ ChainValue(count) \in Int
    BY <1>1, <1>2, <1>6, ChainGrows
  <1>9. ChainValue(count) <= MaxAmount
    BY <1>1, <1>8, AmountsAssumption DEF Computable, Fits
  <1>10. ChainValue(count - step - 1) < Dust
    BY <1>1, <1>2, <1>4, <1>5, <1>7, <1>8, <1>9, AmountsAssumption
    DEF StepFunded, Fits
  <1>11. SmallLimit
    BY <1>1, <1>7, <1>10, AmountsAssumption DEF SmallLimit
  <1>12. total >= Required(2)
    <2>1. Required(count) >= Required(2)
      BY <1>1, <1>2, <1>6, RequiredGrows
    <2>2. Required(count) \in Int /\ Required(2) \in Int /\ total \in Int
      BY <1>1, <1>2, DerivedTypes DEF TypeOK
    <2> QED
      BY <1>1, <2>1, <2>2
  <1>13. Months > 1
    BY <1>2, <1>6, AmountsAssumption
  <1> QED
    BY <1>11, <1>12, <1>13 DEF Cause, LimitTooSmall

\* Steps after the loop change neither the selection nor the chain.
LEMMA SelectionKept ==
  ASSUME FundingInv, Selected, phase' \in {"emergency", "built", "valid", "invalid"},
         step = count,
         UNCHANGED <<inputs, count, remainder, step, values>>
  PROVE  TriedInv' /\ SelectionInv'
  <1>1. LimitsAllowed'
    BY Stable DEF FundingInv, TriedInv
  <1>2. \A n \in 1 .. Months : Required(n)' = Required(n) /\ Computable(n)' = Computable(n)
    BY Stable, AmountsAssumption
  <1>3. /\ ChainValue(count)' = ChainValue(count)
        /\ RolloverFee(count)' = RolloverFee(count)
        /\ ConnectorValue(count)' = ConnectorValue(count)
        /\ Required(count)' = Required(count)
        /\ Computable(count)' = Computable(count)
    BY DEF inputs, ChainValue, RolloverFee, ConnectorValue, Required,
         Computable, StagingValue, MinimumRemainder, Fits, OneIf,
         ContinuingFee, FinalFee, TriggerFee, WithdrawalFee
  <1>4. ChainTelescopes'
    <2> SUFFICES ASSUME NEW k \in 1 .. Months, k <= count, k <= step + 1
                 PROVE  (/\ values[k] = ChainValue(count - k + 1)
                         /\ k > 1 => values[k] >= Dust)'
      BY DEF ChainTelescopes
    <2>1. ChainValue(count - k + 1)' = ChainValue(count - k + 1)
      BY DEF inputs, ChainValue, ContinuingFee, FinalFee
    <2> QED
      BY <2>1 DEF FundingInv, SelectionInv, ChainTelescopes
  <1> QED
    BY <1>1, <1>2, <1>3, <1>4
    DEF FundingInv, TriedInv, SelectionInv, Selected, inputs

\* The remainder holds the reserve, so the emergency graph can be built unless
\* its own staging output would be dust.
LEMMA Reserve ==
  ASSUME FundingInv, Selected, emergency > 0
  PROVE  /\ remainder \in Int /\ StagingValue \in 0 .. MaxAmount
         /\ TriggerFee \in Nat
         /\ remainder - StagingValue - TriggerFee >= Dust
  <1>1. /\ TypeOK /\ LimitsAllowed /\ count \in 0 .. Months
        /\ total >= Required(count) /\ (count > 0 => Computable(count))
        /\ remainder = total - RolloverFee(count) - ChainValue(count)
                        - ConnectorValue(count)
    BY DEF FundingInv, TriedInv, SelectionInv, TypeOK
  <1>2. remainder >= MinimumRemainder
    BY <1>1, Affordable
  <1>3. StagingValue \in 0 .. MaxAmount /\ TriggerFee \in Nat
    BY <1>1, AmountsAssumption DEF LimitsAllowed, Fits, TriggerFee
  <1>4. MinimumRemainder = StagingValue + TriggerFee + Dust
    BY DEF MinimumRemainder, FundingInv, TypeOK
  <1>5. remainder \in Int
    BY <1>1 DEF TypeOK
  <1> QED
    BY <1>2, <1>3, <1>4, <1>5, AmountsAssumption

\* Splitting the remainder for emergency access keeps the invariant.
LEMMA EmergencyStep ==
  ASSUME FundingInv, BuildEmergency
  PROVE  FundingInv'
  <1>1. /\ Selected /\ emergency > 0 /\ step = count /\ TypeOK
        /\ UNCHANGED <<inputs, count, remainder, step, values>>
        /\ phase' = "built" /\ StagingValue >= Dust
    BY DEF FundingInv, BuildEmergency, Selected, SelectionInv, EmergencyInv,
           EmergencyFunded
  <1>2. /\ remainder \in Int /\ StagingValue \in 0 .. MaxAmount
        /\ TriggerFee \in Nat
        /\ remainder - StagingValue - TriggerFee >= Dust
    BY <1>1, Reserve
  <1>3. /\ staging' = StagingValue
        /\ change' = remainder - StagingValue - TriggerFee
    BY DEF BuildEmergency
  <1>4. TypeOK'
    BY <1>1, <1>2, <1>3, AmountsAssumption DEF TypeOK, Phases, inputs
  <1>5. TriedInv' /\ SelectionInv'
    BY <1>1, SelectionKept
  <1>6. StagingValue' = StagingValue /\ TriggerFee' = TriggerFee
    BY <1>1, Stable DEF TriggerFee
  <1> QED
    BY <1>1, <1>2, <1>3, <1>4, <1>5, <1>6
    DEF FundingInv, EmergencyInv, BuiltValidates

\* Leaving the allowance loop keeps it.
LEMMA ChainBuiltStep ==
  ASSUME FundingInv, ChainBuilt
  PROVE  FundingInv'
  <1>1. /\ Selected /\ step = count /\ TypeOK
        /\ UNCHANGED <<inputs, count, remainder, step, values, staging, change>>
        /\ phase' = IF emergency > 0 THEN "emergency" ELSE "built"
    BY DEF FundingInv, ChainBuilt, Selected
  <1>2. TypeOK'
    BY <1>1 DEF TypeOK, Phases, inputs
  <1>3. TriedInv' /\ SelectionInv'
    BY <1>1, SelectionKept
  <1> QED
    BY <1>1, <1>2, <1>3
    DEF FundingInv, EmergencyInv, BuiltValidates, inputs

\* What the builder made, the validator's recomputation confirms.
LEMMA BuiltIsValid ==
  ASSUME FundingInv, phase \in {"built", "valid"}
  PROVE  Valid
  <1>1. /\ TypeOK /\ Selected /\ step = count /\ LimitsAllowed
        /\ count \in 0 .. Months /\ count \in Nat
        /\ total >= Required(count) /\ (count > 0 => Computable(count))
        /\ remainder = total - RolloverFee(count) - ChainValue(count)
                        - ConnectorValue(count)
        /\ ChainTelescopes
    BY AmountsAssumption
    DEF FundingInv, TriedInv, SelectionInv, Selected, TypeOK
  <1>2. /\ ChainValue(count) \in Int /\ RolloverFee(count) \in Nat
        /\ ConnectorValue(count) \in Nat /\ MinimumRemainder \in Int
        /\ TriggerFee \in Nat /\ FinalFee \in Nat /\ ContinuingFee \in Nat
        /\ WithdrawalFee \in Nat
    BY <1>1, DerivedTypes
  <1>3. RolloverValid
    <2>1. (IF count > 0 THEN values[1] ELSE 0) = ChainValue(count)
      <3>1. CASE count > 0
        <4>1. 1 \in 1 .. Months /\ count - 1 + 1 = count
          BY <1>1, <3>1, AmountsAssumption
        <4>2. values[1] = ChainValue(count - 1 + 1)
          BY <1>1, <3>1, <4>1, AmountsAssumption DEF ChainTelescopes
        <4> QED
          BY <3>1, <4>1, <4>2
      <3>2. CASE count = 0
        BY <3>2 DEF ChainValue
      <3> QED
        BY <1>1, <3>1, <3>2
    <2>2. remainder >= MinimumRemainder /\ MinimumRemainder >= Dust
      BY <1>1, Affordable
    <2>3. remainder >= Dust /\ total \in Int /\ remainder \in Int
      BY <1>1, <1>2, <2>2, AmountsAssumption DEF TypeOK
    <2>4. total = ChainValue(count) + remainder + ConnectorValue(count)
                    + RolloverFee(count)
      BY <1>1, <1>2, <2>3
    <2>5. count <= Months /\ (monthly = 0 => count = 0)
      BY <1>1, AmountsAssumption DEF FundingInv, TriedInv
    <2> QED
      BY <2>1, <2>3, <2>4, <2>5 DEF RolloverValid
  <1>4. ASSUME NEW k \in 1 .. Months, k < count
        PROVE  /\ values[k + 1] = values[k] - monthly - ContinuingFee
               /\ values[k + 1] >= Dust
    <2>1. /\ k \in Nat /\ k + 1 \in 1 .. Months /\ k + 1 <= count /\ k + 1 > 1
          /\ k <= count /\ k <= step + 1 /\ k + 1 <= step + 1
      BY <1>1, <1>4, AmountsAssumption
    <2>2. /\ values[k] = ChainValue(count - k + 1)
          /\ values[k + 1] = ChainValue(count - (k + 1) + 1)
          /\ values[k + 1] >= Dust
      BY <1>1, <2>1 DEF ChainTelescopes
    <2>3. count - (k + 1) + 1 = count - k + 1 - 1 /\ count - k + 1 \in Nat
            /\ count - k + 1 > 1
      BY <1>1, <2>1
    <2>4. ChainValue(count - k + 1 - 1)
            = ChainValue(count - k + 1) - monthly - ContinuingFee
      BY <1>1, <2>3, ChainStep
    <2> QED
      BY <2>2, <2>3, <2>4
  <1>5. ASSUME count > 0 PROVE values[count] + Connector = monthly + FinalFee
    <2>1. count \in 1 .. Months /\ count - count + 1 = 1
      BY <1>1, <1>5
    <2>2. values[count] = ChainValue(1)
      <3>1. values[count] = ChainValue(count - count + 1)
        BY <1>1, <2>1 DEF ChainTelescopes
      <3> QED
        BY <2>1, <3>1
    <2>3. monthly \in Int /\ Connector \in Int
      BY <1>1, AmountsAssumption DEF TypeOK
    <2>4. ChainValue(1) = monthly + FinalFee - Connector
      BY <1>2, <2>3 DEF ChainValue
    <2> QED
      BY <1>2, <2>2, <2>3, <2>4
  <1>6. EmergencyValid
    <2> SUFFICES ASSUME emergency > 0
                 PROVE  /\ remainder = staging + change + TriggerFee
                        /\ change >= Dust
                        /\ staging + Connector = emergency + WithdrawalFee
      BY DEF EmergencyValid
    <2>1. /\ staging = StagingValue /\ change >= Dust
          /\ change = remainder - StagingValue - TriggerFee
      BY DEF FundingInv, EmergencyInv
    <2>2. /\ remainder \in Int /\ emergency \in Int /\ emergency # 0
          /\ Connector \in Int
      BY <1>1, AmountsAssumption DEF TypeOK
    <2>3. StagingValue = emergency + WithdrawalFee - Connector
      BY <2>2 DEF StagingValue
    <2> QED
      BY <1>2, <2>1, <2>2, <2>3
  <1> QED
    BY <1>3, <1>4, <1>5, <1>6 DEF Valid, AllowancesValid

\* validate_batch accepts what the invariant describes.
LEMMA ValidateStep ==
  ASSUME FundingInv, Validate
  PROVE  FundingInv'
  <1>1. /\ Selected /\ step = count /\ TypeOK /\ phase = "built"
        /\ UNCHANGED <<inputs, count, remainder, step, values, staging, change>>
    BY DEF FundingInv, Validate, Selected, SelectionInv
  <1>2. phase' = "valid"
    BY <1>1, BuiltIsValid DEF Validate
  <1>3. TypeOK'
    BY <1>1, <1>2 DEF TypeOK, Phases, inputs
  <1>4. TriedInv' /\ SelectionInv'
    BY <1>1, <1>2, SelectionKept
  <1>5. StagingValue' = StagingValue /\ TriggerFee' = TriggerFee
    BY <1>1, Stable DEF TriggerFee
  <1> QED
    BY <1>1, <1>2, <1>3, <1>4, <1>5
    DEF FundingInv, EmergencyInv, BuiltValidates, inputs

\* A step that changes nothing keeps the invariant.
LEMMA StutterKeeps ==
  ASSUME FundingInv, UNCHANGED vars
  PROVE  FundingInv'
  BY DEF vars, FundingInv, TypeOK, TriedInv, Selected, SelectionInv,
         ChainTelescopes, EmergencyInv, Cause, GrossValue, ChainOverflows, LimitTooSmall, BuiltValidates,
         LimitsAllowed, SmallLimit, ZeroStepsFit, Computable, Required,
         RolloverFee, ConnectorValue, ChainValue, StagingValue,
         MinimumRemainder, OneIf, Fits, ContinuingFee, FinalFee, TriggerFee,
         WithdrawalFee

\* Every step of building and validating a proposal keeps it.
LEMMA FundingNext ==
  ASSUME FundingInv, [Next]_vars
  PROVE  FundingInv'
  <1>1. CASE CheckLimits
    BY <1>1, LimitsStep
  <1>2. CASE RejectLimits
    <2>1. Cause /\ Fail
      BY <1>2 DEF RejectLimits, Cause
    <2> QED
      BY <2>1, FailKeeps
  <1>3. CASE SelectCount \/ FallBack
    BY <1>3, SelectStep
  <1>4. CASE SkipCount
    BY <1>4, SkipStep
  <1>5. CASE CountOverflows
    <2>1. Cause /\ Fail
      BY <1>5, OverflowCause DEF CountOverflows
    <2> QED
      BY <2>1, FailKeeps
  <1>6. CASE CannotFund
    <2>1. Cause /\ Fail
      BY <1>6 DEF CannotFund, Cause
    <2> QED
      BY <2>1, FailKeeps
  <1>7. CASE BuildStep
    BY <1>7, BuildStepKeeps
  <1>8. CASE StepUnfunded
    <2>1. Cause /\ Fail
      BY <1>8, StepUnfundedCause DEF StepUnfunded
    <2> QED
      BY <2>1, FailKeeps
  <1>9. CASE ChainBuilt
    BY <1>9, ChainBuiltStep
  <1>10. CASE BuildEmergency
    BY <1>10, EmergencyStep
  <1>11. CASE EmergencyUnfunded
    <2>1. Selected /\ emergency > 0 /\ ~EmergencyFunded /\ Fail
      BY <1>11 DEF EmergencyUnfunded, FundingInv, EmergencyInv, Selected
    <2>2. /\ StagingValue \in 0 .. MaxAmount
          /\ remainder - StagingValue - TriggerFee >= Dust
      BY <2>1, Reserve
    <2>3. StagingValue < Dust
      BY <2>1, <2>2, AmountsAssumption DEF EmergencyFunded
    <2> QED
      BY <2>1, <2>3, FailKeeps DEF Cause
  <1>12. CASE Validate
    BY <1>12, ValidateStep
  <1>13. CASE UNCHANGED vars
    BY <1>13, StutterKeeps
  <1> QED
    BY <1>1, <1>2, <1>3, <1>4, <1>5, <1>6, <1>7, <1>8, <1>9, <1>10, <1>11,
       <1>12, <1>13 DEF Next

\* The inductive invariant holds in every reachable state, whatever the
\* connector value, dust limit, fees, limits and inputs.
THEOREM FundingInvariant == Spec => []FundingInv
  BY FundingInit, FundingNext, PTL DEF Spec

\* The HWW never refuses the amounts of a proposal the phone could build.
THEOREM BuilderAgreesWithValidator == Spec => []BuiltValidates
  <1>1. FundingInv => BuiltValidates
    BY DEF FundingInv
  <1> QED
    BY FundingInvariant, <1>1, PTL

\* No input with a cause is accepted: all the counts above the selected one
\* could be computed, and the selected one needs at least what none needs.
LEMMA ValidHasNoCause ==
  ASSUME FundingInv, phase = "valid"
  PROVE  ~Cause
  <1>1. /\ TypeOK /\ LimitsAllowed /\ count \in Nat /\ count <= Months
        /\ Months \in Nat /\ Months >= 1 /\ monthly \in Nat
        /\ count > 0 => monthly > 0 /\ Computable(count)
        /\ total >= Required(count) /\ total \in Int /\ step = count
        /\ ChainTelescopes
        /\ monthly > 0 => \A n \in 1 .. Months :
             n > count => Computable(n) /\ total < Required(n)
    BY AmountsAssumption
    DEF FundingInv, TriedInv, SelectionInv, Selected, TypeOK
  <1>2. ZeroStepsFit
    <2>1. CASE count = 0
      BY <1>1, <2>1 DEF ZeroStepsFit
    <2>2. CASE count > 0
      <3>1. ChainValue(count) >= 0
        BY <1>1, <2>2 DEF Computable, Fits
      <3>2. Required(count) >= Required(0)
        BY <1>1, <2>2, <3>1, RequiredGrows
      <3>3. Required(count) \in Int /\ Required(0) \in Int
        BY <1>1, DerivedTypes
      <3> QED
        BY <1>1, <3>2, <3>3 DEF ZeroStepsFit
    <2> QED
      BY <1>1, <2>1, <2>2
  <1>3. emergency > 0 => ~(StagingValue < Dust)
    <2>1. StagingValue \in Int /\ Dust \in Int
      BY <1>1, DerivedTypes, AmountsAssumption
    <2> QED
      BY <2>1 DEF FundingInv, EmergencyInv
  <1>4. monthly > 0 => Computable(Months)
    BY <1>1
  <1>5. ~ChainOverflows
    <2>1. GrossValue(Months) = Months * monthly + (Months - 1) * ContinuingFee + FinalFee
      BY DEF GrossValue
    <2> QED
      BY <1>4, <2>1, AmountsAssumption DEF ChainOverflows, Computable, Fits
  <1>6. ChainValue(1) \in Int /\ Dust \in Nat
    BY <1>1, DerivedTypes, AmountsAssumption
  <1>7. count > 1 => ChainValue(1) >= Dust
    <2> SUFFICES ASSUME count > 1 PROVE ChainValue(1) >= Dust
      OBVIOUS
    <2>1. count \in 1 .. Months /\ count <= step + 1 /\ count - count + 1 = 1
      BY <1>1
    <2>2. values[count] = ChainValue(count - count + 1) /\ values[count] >= Dust
      BY <1>1, <2>1 DEF ChainTelescopes
    <2> QED
      BY <2>1, <2>2
  <1>8. monthly > 0 /\ count <= 1 => ChainValue(1) >= 0
    <2> SUFFICES ASSUME monthly > 0, count <= 1 PROVE Computable(1)
      BY <1>6 DEF Computable, Fits
    <2>1. count = 1 \/ 1 > count
      BY <1>1
    <2> QED
      BY <1>1, <2>1
  <1>9. monthly > 0 /\ count <= 1 /\ Months > 1 => total < Required(2)
    BY <1>1
  <1>10. ~LimitTooSmall
    <2>1. Required(2) \in Int
      BY <1>1, DerivedTypes
    <2> QED
      BY <1>1, <1>6, <1>7, <1>8, <1>9, <2>1 DEF LimitTooSmall, SmallLimit
  <1> QED
    BY <1>1, <1>2, <1>3, <1>5, <1>10 DEF Cause

\* A proposal fails for exactly the causes that its inputs name, for every
\* connector value, dust limit, fee and chain length.
THEOREM FailureHasCause == Spec => []FailsExactlyForCause
  <1>1. FundingInv => FailsExactlyForCause
    BY ValidHasNoCause DEF FundingInv, FailsExactlyForCause
  <1> QED
    BY FundingInvariant, <1>1, PTL

\* The selected count is the largest one the inputs can fund.
THEOREM SelectionIsMaximal == Spec => []LargestCount
  <1>1. FundingInv => LargestCount
    BY DEF FundingInv, TriedInv, Selected, LargestCount
  <1> QED
    BY FundingInvariant, <1>1, PTL

\* An accepted policy accounts for its inputs to the satoshi.
THEOREM NothingStranded == Spec => []EverySatoshiPlaced
  <1>1. ASSUME FundingInv PROVE EverySatoshiPlaced
    <2> SUFFICES ASSUME phase = "valid"
                 PROVE  total = RolloverFee(count)
                          + (IF count = 0 THEN 0
                             ELSE count * monthly + (count - 1) * ContinuingFee
                                    + FinalFee)
                          + (IF emergency = 0 THEN remainder
                             ELSE emergency + TriggerFee + WithdrawalFee + change)
      BY DEF EverySatoshiPlaced
    <2>1. /\ TypeOK /\ count \in Nat /\ emergency \in Nat /\ total \in Int
          /\ remainder \in Int /\ change \in Int /\ staging \in Int
          /\ monthly \in Int /\ Connector \in Int
          /\ remainder = total - RolloverFee(count) - ChainValue(count)
                          - ConnectorValue(count)
      BY <1>1, AmountsAssumption DEF FundingInv, TypeOK, SelectionInv, Selected
    <2>2. /\ ChainValue(count) \in Int /\ RolloverFee(count) \in Nat
          /\ ConnectorValue(count) \in Nat
          /\ TriggerFee \in Nat /\ FinalFee \in Nat /\ ContinuingFee \in Nat
          /\ WithdrawalFee \in Nat
      BY <2>1, DerivedTypes
    <2>3. emergency > 0 =>
            /\ remainder = staging + change + TriggerFee
            /\ staging + Connector = emergency + WithdrawalFee
      BY <1>1, BuiltIsValid DEF Valid, EmergencyValid
    <2> DEFINE chain == IF count = 0 THEN 0
                          ELSE count * monthly + (count - 1) * ContinuingFee
                                 + FinalFee
               m == IF count > 0 THEN Connector ELSE 0
               e == IF emergency > 0 THEN Connector ELSE 0
    <2>4. ConnectorValue(count) = m + e /\ m \in Int /\ e \in Int
      BY <2>1 DEF ConnectorValue, OneIf
    <2>5. chain = ChainValue(count) + m
      <3>1. count * monthly \in Int /\ (count - 1) * ContinuingFee \in Int
        BY <2>1, <2>2
      <3> QED
        BY <2>1, <2>2, <3>1 DEF ChainValue
    <2>6. total = RolloverFee(count) + chain + (remainder + e)
      BY <2>1, <2>2, <2>4, <2>5
    <2>7. remainder + e = IF emergency = 0 THEN remainder
                  ELSE emergency + TriggerFee + WithdrawalFee + change
      BY <2>1, <2>2, <2>3
    <2> QED
      BY <2>6, <2>7
  <1> QED
    BY FundingInvariant, <1>1, PTL

\* No output of an accepted proposal is dust, except under a limit smaller than
\* what its connector pays.
THEOREM AcceptedIsRelayable == Spec => []OutputsRelayable
  <1>1. ASSUME FundingInv PROVE OutputsRelayable
    <2> SUFFICES ASSUME phase = "valid", ~SmallLimit
                 PROVE  /\ \A k \in 1 .. Months : k <= count => values[k] >= Dust
                        /\ remainder >= Dust
                        /\ emergency > 0 => staging >= Dust /\ change >= Dust
      BY DEF OutputsRelayable
    <2>1. /\ TypeOK /\ ChainTelescopes /\ step = count /\ count \in Nat
          /\ count > 0 => monthly > 0
      BY <1>1, AmountsAssumption DEF FundingInv, TypeOK, SelectionInv, Selected
    <2>2. ASSUME NEW k \in 1 .. Months, k <= count PROVE values[k] >= Dust
      <3>1. k <= step + 1 /\ count > 0 /\ count - k + 1 \in Nat
              /\ count - k + 1 > 0
        BY <2>1, <2>2
      <3>2. values[k] = ChainValue(count - k + 1)
        BY <2>1, <2>2, <3>1 DEF ChainTelescopes
      <3>3. /\ ChainValue(count - k + 1) >= ChainValue(1)
            /\ ChainValue(count - k + 1) \in Int /\ ChainValue(1) \in Int
        BY <2>1, <3>1, ChainGrows
      <3>4. ChainValue(1) >= Dust
        BY <2>1, <3>1, <3>3, AmountsAssumption DEF SmallLimit
      <3> QED
        BY <3>2, <3>3, <3>4, AmountsAssumption
    <2>3. remainder >= Dust
      BY <1>1, BuiltIsValid DEF Valid, RolloverValid
    <2>4. emergency > 0 => staging >= Dust /\ change >= Dust
      BY <1>1 DEF FundingInv, EmergencyInv
    <2> QED
      BY <2>2, <2>3, <2>4
  <1> QED
    BY FundingInvariant, <1>1, PTL
=============================================================================
