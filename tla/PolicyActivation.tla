--------------------------- MODULE PolicyActivation ---------------------------
(***************************************************************************)
(* The phone's activation of an approved policy epoch, one step per        *)
(* durable write (src/src/hot_wallet/mod.rs, activate_policy), against a   *)
(* chain backend that may accept, reject or lose a rollover.               *)
(*                                                                         *)
(* An epoch is named by its rollover transaction.  Its artifacts live in   *)
(* a directory of its own, phone/transactions/<txid>; phone/schedule.json  *)
(* (here `schedule') is the single pointer that says which epoch the phone *)
(* acts on; anzen.json keeps the limits of the active policy (`config');   *)
(* <txid>/activated.json (`marked') is the only memory of having been      *)
(* superseded.  A crash, or a failed write, may come between any two       *)
(* writes; the user then starts the same or another package again.         *)
(*                                                                         *)
(* The chain is kept at the grain activation needs: a generation is the    *)
(* set of vault coins left by the last confirmed transaction that spent    *)
(* vault coins.  A rollover spends the generation its proposal scanned, so *)
(* it can be mined only while that generation is the current one.          *)
(***************************************************************************)
EXTENDS Naturals

CONSTANTS Epochs,       \* rollover transactions that may be proposed
          Limits,       \* limit pairs (monthly, emergency) a policy may set
          NoLimits,     \* the limits of a vault without a policy (0, 0)
          None,         \* "no epoch"
          Other,        \* a transaction that spends vault coins, not a rollover
          Backend,      \* "core" or "electrum"
          Legacy,       \* the epoch an upgraded vault was at before markers
                        \* existed; None if there is no such vault
          MaxGen,       \* bound: generations ended by transactions not rollovers
          MaxFaults     \* bound: crashes, failed writes, lost answers

ASSUME NoneAssumption == /\ None \notin Epochs
                         /\ Other \notin Epochs
                         /\ Other # None
ASSUME BackendAssumption == Backend \in {"core", "electrum"}
ASSUME LegacyAssumption == Legacy \in Epochs \cup {None}
ASSUME LimitsAssumption == NoLimits \in Limits
ASSUME BoundsAssumption == MaxGen \in Nat /\ MaxFaults \in Nat

VARIABLES
  offer,     \* the ceremony package of an epoch: none, proposed, approved, lost
  limits,    \* the limits in an epoch's manifest
  base,      \* the generation an epoch's rollover spends
  gen,       \* the confirmed generation
  pool,      \* the unconfirmed spender of the confirmed generation, if any
  mined,     \* epochs whose rollover is confirmed
  live,      \* mined epochs with an output in the confirmed UTXO set
  staged,    \* how many of an epoch's artifacts are on disk, in write order
  marked,    \* epochs whose activated.json exists
  schedule,  \* the epoch of phone/schedule.json, None if there is no file
  config,    \* the limits saved in anzen.json
  pc,        \* the next step of the running activation
  cur,       \* the epoch being activated
  previous,  \* the pointer read when the activation started
  faults,    \* faults so far
  accepted,  \* history: epochs whose rollover a backend ever accepted
  retired    \* history: epochs the pointer has left

chainVars == <<gen, pool, mined, live>>
ceremonyVars == <<offer, limits, base>>
fileVars == <<staged, marked, schedule, config>>
procVars == <<pc, cur, previous>>
vars == <<offer, limits, base, gen, pool, mined, live, staged, marked,
          schedule, config, pc, cur, previous, faults, accepted, retired>>

\* Artifacts of an epoch's directory, in write order: 1, the encrypted retry
\* copy approved-policy.json; 2, rollover.json, the encrypted transactions and
\* the candidate schedule.json (incomplete until the last of them is written).
Artifacts == 2

Steps == {"idle", "stage", "broadcast", "archive", "pointer", "limits", "mark"}
(***************************************************************************)
(* A vault after `anzen init' (no pointer, zero limits), or one upgraded   *)
(* from a version that kept no markers and no per-epoch staging, at the    *)
(* epoch Legacy.                                                           *)
(***************************************************************************)
InitAt(old) ==
  /\ offer = [e \in Epochs |-> IF e = old THEN "approved" ELSE "none"]
  /\ \E l \in Limits :
       /\ limits = [e \in Epochs |-> IF e = old THEN l ELSE NoLimits]
       /\ config = IF old = None THEN NoLimits ELSE l
  /\ base = [e \in Epochs |-> 0]
  /\ gen = IF old = None THEN 0 ELSE 1
  /\ pool = None
  /\ mined = {old} \ {None}
  /\ live = {old} \ {None}
  /\ staged = [e \in Epochs |-> 0]
  /\ marked = {}
  /\ schedule = old
  /\ pc = "idle"
  /\ cur = None
  /\ previous = None
  /\ faults = 0
  /\ accepted = {old} \ {None}
  /\ retired = {}

Init == InitAt(None) \/ InitAt(Legacy)

-----------------------------------------------------------------------------
(* The ceremony that produces an approved package.                         *)

\* propose_policy: scan the confirmed coins and build a rollover that spends
\* them.  Core's UTXO-set scan ignores the mempool; an Electrum server leaves
\* out coins with an unconfirmed spender, and with none left the proposal
\* fails ("vault has no confirmed UTXOs to roll over").
ScanFindsCoins == Backend = "core" \/ pool = None

Propose(e, l) ==
  /\ offer[e] = "none"
  /\ ScanFindsCoins
  /\ offer' = [offer EXCEPT ![e] = "proposed"]
  /\ limits' = [limits EXCEPT ![e] = l]
  /\ base' = [base EXCEPT ![e] = gen]
  /\ UNCHANGED <<chainVars, fileVars, procVars, faults, accepted, retired>>

\* approve_policy: the hardware wallet signs every vault input.
Approve(e) ==
  /\ offer[e] = "proposed"
  /\ offer' = [offer EXCEPT ![e] = "approved"]
  /\ UNCHANGED <<limits, base, chainVars, fileVars, procVars, faults,
                 accepted, retired>>

\* The plain hand-off file is deleted; only the phone's encrypted retry copy,
\* if it was staged, can start the activation again.
LosePackage(e) ==
  /\ offer[e] = "approved"
  /\ offer' = [offer EXCEPT ![e] = "lost"]
  /\ UNCHANGED <<limits, base, chainVars, fileVars, procVars, faults,
                 accepted, retired>>

-----------------------------------------------------------------------------
(* activate_policy.                                                        *)

\* open_approved_policy accepts the plain package or the encrypted copy.
CanOpen(e) == offer[e] = "approved" \/ (offer[e] = "lost" /\ staged[e] > 0)

\* Mutant of Superseded: the marker is never consulted.
SupersededNever(e) == FALSE

\* Mutant of Superseded: any staged directory counts as a spent epoch.
SupersededIfStaged(e) == staged[e] > 0 /\ schedule # e

\* The check that refuses an epoch which has been superseded.
Superseded(e) == e \in marked /\ schedule # None /\ schedule # e

Start(e) ==
  /\ pc = "idle"
  /\ CanOpen(e)
  /\ ~Superseded(e)
  /\ cur' = e
  /\ previous' = schedule
  /\ pc' = "stage"
  /\ UNCHANGED <<ceremonyVars, chainVars, fileVars, faults, accepted, retired>>

\* One artifact more of the epoch's directory.  A retry rewrites what is there
\* in place, each file atomically, so the count never goes down.
StageArtifact ==
  /\ pc = "stage"
  /\ staged[cur] < Artifacts
  /\ staged' = [staged EXCEPT ![cur] = @ + 1]
  /\ UNCHANGED <<ceremonyVars, chainVars, marked, schedule, config, procVars,
                 faults, accepted, retired>>

\* Mutant of StagingDone: broadcast once the retry copy is written.
StagingDoneEarly ==
  /\ pc = "stage"
  /\ staged[cur] > 0
  /\ pc' = "broadcast"
  /\ UNCHANGED <<ceremonyVars, chainVars, fileVars, cur, previous, faults,
                 accepted, retired>>

StagingDone ==
  /\ pc = "stage"
  /\ staged[cur] = Artifacts
  /\ pc' = "broadcast"
  /\ UNCHANGED <<ceremonyVars, chainVars, fileVars, cur, previous, faults,
                 accepted, retired>>

\* Whether the backend answers a repeated broadcast with success.  Core does so
\* for a mempool transaction and, through error -27, for a confirmed one with
\* an unspent output; Electrum for any transaction its server can look up.
AlreadyKnown(e) ==
  \/ pool = e
  \/ Backend = "core" /\ e \in live
  \/ Backend = "electrum" /\ e \in mined

\* Whether a node admits a rollover it does not know yet.
Acceptable(e) == e \notin mined /\ pool = None /\ base[e] = gen

BroadcastAccepted ==
  /\ pc = "broadcast"
  /\ AlreadyKnown(cur) \/ Acceptable(cur)
  /\ pool' = IF AlreadyKnown(cur) THEN pool ELSE cur
  /\ accepted' = accepted \cup {cur}
  /\ pc' = "archive"
  /\ UNCHANGED <<ceremonyVars, gen, mined, live, fileVars, cur, previous,
                 faults, retired>>

\* The process ends and its local variables go with it.
Return == pc' = "idle" /\ cur' = None /\ previous' = None

\* Mutant of BroadcastRejected: the backend's error is ignored.
BroadcastErrorIgnored ==
  /\ pc = "broadcast"
  /\ ~AlreadyKnown(cur)
  /\ ~Acceptable(cur)
  /\ pc' = "archive"
  /\ UNCHANGED <<ceremonyVars, chainVars, fileVars, cur, previous, faults,
                 accepted, retired>>

BroadcastRejected ==
  /\ pc = "broadcast"
  /\ ~AlreadyKnown(cur)
  /\ ~Acceptable(cur)
  /\ Return
  /\ UNCHANGED <<ceremonyVars, chainVars, fileVars, faults, accepted, retired>>

\* The node took the rollover and the answer never reached the phone.
BroadcastAnswerLost ==
  /\ pc = "broadcast"
  /\ faults < MaxFaults
  /\ ~AlreadyKnown(cur)
  /\ Acceptable(cur)
  /\ pool' = cur
  /\ accepted' = accepted \cup {cur}
  /\ faults' = faults + 1
  /\ Return
  /\ UNCHANGED <<ceremonyVars, gen, mined, live, fileVars, retired>>

\* Mutant of ArchivePrevious: the prior epoch gets no marker.
ArchiveNothing ==
  /\ pc = "archive"
  /\ pc' = "pointer"
  /\ UNCHANGED <<ceremonyVars, chainVars, fileVars, cur, previous, faults,
                 accepted, retired>>

\* The pointer's epoch is remembered before the pointer leaves it.
ArchivePrevious ==
  /\ pc = "archive"
  /\ marked' = marked \cup ({previous} \ {None, cur})
  /\ pc' = "pointer"
  /\ UNCHANGED <<ceremonyVars, chainVars, staged, schedule, config, cur,
                 previous, faults, accepted, retired>>

WritePointer ==
  /\ pc = "pointer"
  /\ schedule' = cur
  /\ retired' = retired \cup ({schedule} \ {None, cur})
  /\ pc' = "limits"
  /\ UNCHANGED <<ceremonyVars, chainVars, staged, marked, config, cur,
                 previous, faults, accepted>>

SaveLimits ==
  /\ pc = "limits"
  /\ config' = limits[cur]
  /\ pc' = "mark"
  /\ UNCHANGED <<ceremonyVars, chainVars, staged, marked, schedule, cur,
                 previous, faults, accepted, retired>>

MarkActivated ==
  /\ pc = "mark"
  /\ marked' = marked \cup {cur}
  /\ Return
  /\ UNCHANGED <<ceremonyVars, chainVars, staged, schedule, config, faults,
                 accepted, retired>>

\* A crash, a failed write or an unreachable backend between two steps.
Crash ==
  /\ pc # "idle"
  /\ faults < MaxFaults
  /\ faults' = faults + 1
  /\ Return
  /\ UNCHANGED <<ceremonyVars, chainVars, fileVars, accepted, retired>>

-----------------------------------------------------------------------------
(* The chain.  Every transaction pays 1 sat/vB, so none replaces another.   *)

ConfirmRollover ==
  /\ pool \in Epochs
  /\ mined' = mined \cup {pool}
  /\ live' = {pool}
  /\ gen' = gen + 1
  /\ pool' = None
  /\ UNCHANGED <<ceremonyVars, fileVars, procVars, faults, accepted, retired>>

\* An allowance, a trigger, a revocation's conflict or a sweep enters the
\* mempool; once mined it leaves either some or none of the epoch's outputs.
OtherEnters ==
  /\ pool = None
  /\ gen < MaxGen
  /\ pool' = Other
  /\ UNCHANGED <<ceremonyVars, gen, mined, live, fileVars, procVars, faults,
                 accepted, retired>>

ConfirmOther ==
  /\ pool = Other
  /\ gen' = gen + 1
  /\ pool' = None
  /\ live' \in {live, {}}
  /\ UNCHANGED <<ceremonyVars, mined, fileVars, procVars, faults, accepted,
                 retired>>

\* A full mempool drops the cheapest transactions.
Evict ==
  /\ pool # None
  /\ faults < MaxFaults
  /\ faults' = faults + 1
  /\ pool' = None
  /\ UNCHANGED <<ceremonyVars, gen, mined, live, fileVars, procVars, accepted,
                 retired>>

ActivationStep ==
  \/ StageArtifact \/ StagingDone
  \/ BroadcastAccepted \/ BroadcastRejected
  \/ ArchivePrevious \/ WritePointer \/ SaveLimits \/ MarkActivated

Next ==
  \/ \E e \in Epochs, l \in Limits : Propose(e, l)
  \/ \E e \in Epochs : Approve(e) \/ LosePackage(e) \/ Start(e)
  \/ ActivationStep
  \/ BroadcastAnswerLost \/ Crash
  \/ ConfirmRollover \/ OtherEnters \/ ConfirmOther \/ Evict

Spec == Init /\ [][Next]_vars

(***************************************************************************)
(* Fairness: a command that is running runs on (nothing in activate_policy *)
(* waits for another party), and a user told to "retry the same approved   *)
(* policy" does so.  Blocks, the mempool, proposals and faults are not     *)
(* owed anything.                                                          *)
(***************************************************************************)
Settled(e) == schedule = e /\ config = limits[e] /\ e \in marked /\ pc = "idle"

Retry(e) == e \in accepted /\ ~Settled(e) /\ Start(e)

FairSpec ==
  /\ Spec
  /\ WF_vars(ActivationStep)
  /\ \A e \in Epochs : SF_vars(Retry(e))

-----------------------------------------------------------------------------
(* Properties.                                                             *)

\* Files, chain, package and process state have their types, and a command that
\* is running is activating some epoch.
TypeOK ==
  /\ offer \in [Epochs -> {"none", "proposed", "approved", "lost"}]
  /\ limits \in [Epochs -> Limits]
  /\ base \in [Epochs -> Nat]
  /\ gen \in Nat
  /\ pool \in Epochs \cup {None, Other}
  /\ mined \subseteq Epochs
  /\ live \subseteq mined
  /\ staged \in [Epochs -> 0 .. Artifacts]
  /\ marked \subseteq Epochs
  /\ schedule \in Epochs \cup {None}
  /\ config \in Limits
  /\ pc \in Steps
  /\ cur \in Epochs \cup {None}
  /\ previous \in Epochs \cup {None}
  /\ faults \in Nat
  /\ accepted \subseteq Epochs
  /\ retired \subseteq Epochs
  /\ (pc = "idle") <=> (cur = None)

\* "the phone refuses to reactivate an epoch it has already superseded"
\* (src/DEVELOPMENT.md): however activations are interrupted and retried, the
\* pointer never returns to an epoch it has left.
SupersededStaysRetired == schedule \notin retired

\* A rejected or interrupted rollover leaves the current schedule and limits
\* intact: the pointer, and the limits saved in the config, are only ever those
\* of a rollover that a backend has accepted.
ActiveWasAccepted ==
  /\ schedule # None => schedule \in accepted
  /\ config # NoLimits => \E e \in accepted : config = limits[e]

\* Once the network may confirm a rollover, every artifact needed to act on it
\* and to retry its activation (the encrypted package included) is on disk,
\* whatever write or answer was lost afterwards.
AcceptedIsStaged ==
  \A e \in accepted : e = Legacy \/ staged[e] = Artifacts

\* What a running activation knows at each of its steps.  A retired epoch keeps its marker
\* (ArchivePrevious runs before WritePointer), a running activation still sees
\* the pointer it read, and what it is activating was opened, checked, staged
\* and accepted in that order: that is why the checks made when a command
\* starts still hold when it writes the pointer.
RunningInv ==
  /\ pc \in {"stage", "broadcast", "archive", "pointer"} =>
       previous = schedule /\ cur \notin retired
  /\ pc = "pointer" => previous \in marked \cup {None, cur}
  /\ pc \in {"limits", "mark"} => schedule = cur
  /\ pc \in {"archive", "pointer", "limits", "mark"} => cur \in accepted
  /\ pc \in Steps \ {"idle", "stage"} => staged[cur] = Artifacts
  /\ pc # "idle" => offer[cur] # "none"

\* The inductive invariant of activate_policy: the three properties above, what
\* a running command knows, and the marker that outlives every retirement.
ActivationInv ==
  /\ TypeOK
  /\ RunningInv
  /\ retired \subseteq marked
  /\ schedule = None => retired = {}
  /\ \A e \in accepted : offer[e] # "none"
  /\ SupersededStaysRetired
  /\ ActiveWasAccepted
  /\ AcceptedIsStaged

\* The activation step, as its callers see it, is the abstract pointer.
AP == INSTANCE ActivePolicy WITH
        current <- schedule, known <- accepted, left <- retired

\* Activation implements ActivePolicy: one switch per pointer write, only to an
\* accepted epoch that has not been left.
ImplementsActivePolicy == AP!Spec

\* The coins the rollover needs, or the ones it made, have been spent by others.
MovedOn(e) ==
  \/ e \in mined /\ (gen # base[e] + 1 \/ pool # None)
  \/ e \notin mined /\ pool # e /\ (gen # base[e] \/ pool # None)

\* "retry the same approved policy": once a backend took the rollover, retrying
\* ends with pointer, limits and marker all naming the epoch, unless the chain
\* or the user moved on to other coins first.  (A legacy epoch has no marker.)
AcceptedSettles ==
  \A e \in Epochs \ {Legacy} :
    (e \in accepted) ~> (Settled(e) \/ MovedOn(e) \/ e \in retired)

\* "A later replay of an old, already-confirmed policy must not replace the
\* current schedule" (src/tests/policy_activation.rs): the pointer never moves
\* to a rollover of an older generation of coins than the current epoch's.
ReplayNeverReplaces ==
  [][schedule # None => base[schedule'] >= base[schedule]]_schedule
=============================================================================
