# A TLA+ model of Anzen

Anzen is a Bitcoin vault shared by a phone (hot) and a hardware wallet (HWW,
cold).  Once a year the two sign a *policy epoch*: a rollover transaction that
spends the whole vault, and a graph of presigned transactions that lets the
phone alone release a monthly allowance or, after a week's delay, an emergency
amount.  1,000-sat *connector* outputs make those presigned transactions
revocable by either device.

This directory holds the specifications of that system, the TLC instances that
check them, and TLAPS proofs of the results that matter most for every value of
the parameters.  `PROJECT.json` relates each definition to the source lines it
models, each property to a mutation of the code that breaks it, and each hazard
to the properties that watch it.

To run one of the checks: `tlc -config Activation.cfg MCPolicyActivation`;
to check the proofs: `tlapm PolicyFundingProofs.tla`.

## 1. Inventory

| Component | Source | State | Operations |
|---|---|---|---|
| Policy activation | `hot_wallet/mod.rs` | `phone/schedule.json`, `phone/transactions/<txid>/*`, `anzen.json` | `activate_policy`, `open_approved_policy` |
| Policy proposal and validation | `core/ceremony.rs` | manifest, PSBTs | `build_policy_proposal*`, `validate_batch`, `approve_policy` |
| Vault on chain | `hot_wallet/mod.rs`, `cold_wallet/mod.rs`, `core/transactions.rs`, `core/policy.rs` | UTXO set, mempool | rollover, authorization, trigger, withdrawal, revocation, cancellation, sweep |
| Chain backends | `core/chain.rs` | none of its own | `scan_script`, `broadcast`, lookups, for Bitcoin Core and Electrum |
| Recovery sweeps | `core/recovery.rs` | sweep package | cooperative sweep, phone and HWW recovery |
| Phone key rotation | `hot_wallet/rotation.rs` | pending key, archive, config, device file, backup | propose, approve, activate |
| Ceremony packages | `core/ceremony.rs`, `core/transactions.rs`, `cold_wallet/mod.rs` | package files, batch workspace | materialize, validate, verify, sign, pack |
| Hot wallet | `hot_wallet/wallet.rs` | BDK wallet in SQLite, full-scan marker | sync, receive, pay, soft limit |
| Phone restore | `hot_wallet/mod.rs`, `main.rs` | key file, recovery package | decrypt package, restore, request full scan |
| Cloud backup and social recovery | `core/social.rs`, `cold_wallet/mod.rs` | backup, encrypted shares | backup, add friend, restore |
| Vanity address search | `hot_wallet/mod.rs` | stop flag, counter, last report, channel | worker threads, waiting thread |
| Keys, encryption | `core/keys.rs`, `core/crypto.rs` | none | derivation, AEAD |
| Storage | `core/storage.rs` | files | atomic private writes, network lock |
| Command line | `main.rs` | none | one process per command |
| Benchmark signer, Ledger app | `cold-signer/`, `ledger-app/` | none | deterministic benchmark |

**How they interact.** Each command is one process.  The devices exchange
package files by hand; phone and HWW have no connection to each other.  Only
the CLI and the phone code speak to a chain backend.  What outlives a process is
files and the chain, so everything interesting happens between two durable
effects: a broadcast, a file rename, a confirmation.

**What is hard about it.**

- *Crashes between durable effects.*  Activation broadcasts an irrevocable
  transaction and then makes four separate writes.
- *Lost answers and retries.*  A node may have the rollover though the phone
  heard an error; the backends are asked again and answer differently for
  mempool, confirmed and already-spent transactions.
- *Stale knowledge.*  A proposal is built from two scans, approved days later,
  and broadcast against a chain that has moved on; the backends disagree about
  outputs that an unconfirmed transaction spends.
- *Races on connectors.*  Revocation, cancellation, authorization, trigger,
  withdrawal and rollover contend for the same outputs in the mempool.
- *Locks.*  Relative locks count from the confirmation of outputs which
  rollovers renew.
- *Threads.*  The vanity search races workers for the first match over atomics
  and a channel, and runs long enough for another command to intervene.
- *Packages carried by hand.*  What a device reads back may be put together from
  two packages, or hold a PSBT that was used in the meantime.
- *Amounts.*  Builder and validator recompute the same chain of values
  independently; connectors are paid back into the last step.

**What makes each part correct.**

- *Activation*: the pointer only names rollovers the network took, never comes
  back to an epoch it left, survives every crash, and a retry converges.
- *Vault*: a rollover spends everything of the epoch before it; a revocation or
  cancellation that confirms is final; two allowances are never closer than the
  monthly delay; an insistent HWW wins against the phone.
- *Proposal*: what is built validates, every satoshi is placed, the chain is the
  longest the funds allow, and errors have a cause the user can act on.
- *Rotation*: at every crash point, and after any later proposal or retry, every
  key that coins were sent to is still on disk and in a backup, configuration
  and schedule follow the coins, and the phone can be brought back.
- *Ceremony*: the HWW signs only transactions of one graph that does what its
  screen shows, an approved package is completely signed, and no device refuses
  what the other honestly made.
- *Backup*: neither migration, nor another friend, nor a crash takes the backup
  from those who can open it, and an edited friend list never becomes authentic.
- *Sync*: after a restore, and after any failed attempts, the first completed
  sync finds every coin a gap-limited scan can reach; neither backend moves the
  checkpoint past a coin, however the two are used in turn.
- *Vanity search*: one result whatever the race, none missed, exact counts, the
  key that was reported is the one in the file, and the command ends.

## 2. Modules

| Module | What it is |
|---|---|
| `ActivePolicy` | Abstract specification: one pointer that moves only to accepted epochs and never back |
| `PolicyActivation` | `activate_policy`, one step per durable write, with crashes, lost answers, the ceremony around it and the chain's generations |
| `PolicyActivationProofs` | Theorems about it |
| `VaultChain` | Outputs, presigned transactions, mempool, confirmations and locks; phone, HWW, sweeps |
| `VaultChainProofs` | Theorems about it |
| `PolicyFunding` | The amounts of a proposal: selection loop, allowance loop, emergency split, `validate_batch` |
| `PolicyFundingProofs` | Theorems about it |
| `PhoneRotation` | Proposal, approval and activation of a new phone key, one step per file or broadcast; restore and friends |
| `PhoneRotationProofs` | Theorems about it |
| `CeremonyPackage` | Packages and their manifests: building, materializing, validating, signing and accepting them, with packages mixed up on the way |
| `CeremonyPackageProofs` | Theorems about it |
| `HotWallet` | Wallet database, addresses and syncs on both backends; failures, loss, restored key |
| `CloudBackup` | The backup file: creation, migration, friends, interrupted commands, an edited list |
| `PhoneRestore` | Composition of `HotWallet` and `CloudBackup` through recovery packages |
| `PhoneRestoreProofs` | Theorems about it |
| `VanityGrind` | `initialize_vanity_with_suffix`: workers, atomics, channel, waiting thread |
| `VanityGrindProofs` | Theorems about it |
| `InductionLemmas` | Induction over naturals and finite sets, and sums, for the proofs |
| `MC*` | Instances for TLC |

### PolicyActivation

| Variable | Code |
|---|---|
| `offer` | the plain package file of an epoch (`proposed`, `approved`, deleted) |
| `limits`, `base` | the manifest's limits; the coins its rollover spends |
| `staged` | files of `phone/transactions/<txid>/`, in write order |
| `marked` | `activated.json` of an epoch |
| `schedule` | `phone/schedule.json` |
| `config` | the limits in `anzen.json` |
| `pc`, `cur`, `previous` | locals of a running `activate_policy` |
| `gen`, `pool`, `mined`, `live` | the chain as far as activation can notice it |
| `accepted`, `retired` | histories, read by properties only |

`Start` is the opening of the package and the superseded check; `StageArtifact`
and `StagingDone` the writes before the broadcast; `BroadcastAccepted`,
`BroadcastRejected` and `BroadcastAnswerLost` the three ways it can end;
`ArchivePrevious`, `WritePointer`, `SaveLimits`, `MarkActivated` the four writes
after it, in the code's order.  `Crash` may come between any two steps and
stands for a failed write and an unreachable backend too: the effect on durable
state is the same.  A file is written atomically (`storage.rs` renames a flushed
temporary), so no torn file appears.  `AlreadyKnown` is the part of
`chain.rs` that turns "already have it" into success: Core's -27 needs an
unspent output, Electrum needs the server to find the transaction.

The chain is reduced to *generations*: the coins left by the last confirmed
transaction that spent vault coins.  A rollover can be mined only while the
generation its proposal scanned is current.  Outputs and locks are
`VaultChain`'s subject.

`Init` is the state after `anzen init`, or a vault whose epoch `Legacy` was
activated by a version that kept neither markers nor staging directories.

### ActivePolicy

`current`, `known`, `left`: `Accept` an epoch, `Switch` to a known one
that has not been left.  `PolicyActivation` implements it under
`current <- schedule, known <- accepted, left <- retired`.

### VaultChain

An outpoint is `<<kind, number, step>>`.  Vault outputs (deposit, chain,
remainder, staging, change) hold principal; connectors (monthly, emergency,
withdrawal) are execution tokens.  A transaction is its type and its inputs;
`Outputs` gives what it creates, `Delay` its relative lock.  `Admits` is mempool
policy as the code meets it: inputs exist, nobody else spends them, locks are
mature.  All transactions pay 1 sat/vB, so none replaces another.  `Visible` is
a backend's scan.

The ceremony is split where the code is not atomic: `ScanVault` and `Propose`
are the two queries of `propose_policy`; `Approve` is the HWW; `Activate` and
`ActivateInterrupted` are activation with and without the pointer's move
(`PolicyActivation` shows that the pointer behaves like this).  The phone acts
on the epoch `schedule` names: `Authorize`, `Revoke`, `Trigger`, `Withdraw`,
`Cancel`.  The HWW drafts a revocation of all scanned connectors and broadcasts
it as one transaction.  Sweeps: cooperative, phone recovery, HWW recovery.
Amounts are left out; how many steps an epoch has is any number.

### PolicyFunding

All outputs are P2TR and the fee rate is 1 sat/vB, so a fee is a base that
depends on the inputs plus `OutputFee` for each output; the code measures
transactions to find the same numbers.  The actions follow
`build_policy_proposal_with_connectors`: limit checks, the loop from twelve
steps downwards (`SelectCount`, `SkipCount`, `CountOverflows`), the fallback to
zero steps, the allowance loop (`BuildStep`, `StepUnfunded`), the emergency
split, and then `Validate`, which recomputes every amount from the transactions
as `validate_batch` does.  Arithmetic is checked: an operation that leaves
`0 .. MaxAmount` ends the proposal, as `checked_add` and `checked_sub` do.

### PhoneRotation

| Variable | Code |
|---|---|
| `config` | `anzen.json`: the vault's phone key and the policy limits |
| `device`, `pending`, `backup`, `schedule` | `phone/device.json`, `phone/pending-rotation.json`, the cloud backup (key and friends), `phone/schedule.json` |
| `archive` | the key files of `history/rotation-<txid>/`, in write order |
| `package` | the rotation packages handed between the devices |
| `pc`, `cur`, `kept` | a running `activate_phone_rotation` |
| `keys`, `vanity`, `stale` | keys generated, those with the vanity prefix, and packages whose sweep lost an input |
| `funded`, `swept`, `added` | histories, read by properties and, for `swept`, by the network's answer to a repeated sweep |

Keys are numbered as they are generated.  A proposal writes the pending key
first, so `ProposeFails` leaves it behind; `Replacement` is the choice between a
generated key and a resumed vanity key.  `Valid` is `validate_phone_rotation`,
which both devices run.  Activation is `Start`, four archive writes, the
hot-wallet sweep, the connector revocation and the vault sweep (each accepted,
rejected or with its answer lost), then `ArchiveEpoch`, `WriteConfig`,
`WriteDevice`, `WriteBackup`, `Renew` and `ClearPending` in the code's order.
Once the configuration is written the package no longer matches it, so nothing
can be retried: the way back is `RemoveStaleKey` and `Restore`.

Two proposals that resume one pending key may hold the same sweep and share one
archive directory; the model keeps a directory per package, whose contents are
then equal.  Left out: the hot-wallet database, whose contents can be scanned
again from the key, and the public files of the archive.  Renewal is one step
here; its own steps are `PolicyActivation`'s.

### CeremonyPackage

| Variable | Code |
|---|---|
| `packages` | package files that exist, proposed and approved |
| `device`, `stage`, `position` | the running `hww_confirm_policy` or `phone_activate_policy`, and its place in the signing loop |
| `workspace` | its batch directory: manifest and PSBTs |
| `accepted` | the batch the phone goes on to fund |

The first half of the module is the builder: `Rollover`, `Authorizations`,
`Trigger`, `Withdrawal` and `Manifest` are what `build_policy_proposal` writes,
and `NewPackage` is `phone_set_policy`, which signs the vault inputs and the old
connectors and leaves the new connectors unsigned.  The second half is the
validator, an independent translation of `validate_batch`: `ValidRollover`,
`ValidAllowance`, `ValidEmergency` and `ValidChild`.  A transaction is its inputs
and outputs; a txid is a digest, checked to have no collision among the
transactions considered (`NoCollision`); a signature is over a hash of the
transaction and all its prevouts, as the default signature hash is.  What
`build_policy_proposal` bails out of, inputs of other scripts, negative amounts
and dust in the vault, is no proposal (`FundedAssumption`).  `Review`,
`SignNext`, `Approve` are `approve_policy`; `Accept` is `validate_approved_batch`.
`ReadMixed` lets any three fields or PSBTs of a package come from another one;
`ReadUsed` brings a PSBT back executed, without its signatures, or with another
signature hash type;
`Interrupt` ends any command.

### HotWallet, CloudBackup, PhoneRestore

| Variable | Code |
|---|---|
| `db`, `copy` | the wallet database (revealed addresses, known coins, checkpoint, row of `anzen_sync_state`); an older copy |
| `memory` | the wallet in memory while `sync_core` reads blocks |
| `device` | `phone/device.json` exists |
| `handed`, `chain` | addresses given out; first payments to them in block order |
| `sync`, `discover` | the running command of the phone |
| `config`, `cloud` | `anzen.json` exists; the cloud backup file |
| `hww`, `open` | the running command of the HWW, with the backup in memory |
| `package` | a recovery package exists |
| `seen`, `fresh`, `intact`, `partial`, `added`, `altered` | histories, read by properties only |

`Reveal` is `next_receive_address`, which persists before it returns; a proposal
reserves several addresses.  `BeginElectrum`, `FullScan`, `Refresh`,
`WriteMarker` are `sync_electrum`, split where it persists; `BeginCore`,
`ConnectBlock`, `EndBlocks` and `PersistCore` are `sync_core`, which reads block
after block into memory and persists once, at the end: blocks may arrive
meanwhile, and a failure leaves no trace.  What BDK does with an update is
taken from how the code uses it (`Reached`, `Discovered`, `Refreshed`,
`ScanPayment`).  `Load` is `load_or_migrate_cloud_backup`, `AddFriend`
`add_recovery_friend`; `Authentic` is `validate_friend_manifest`.  `HwwDecrypts`
and `FriendDecrypts` make the package from which `Restore` writes the key file,
and `RequestFullScan` removes the marker, in that order.  `ListEdited` is a
change of the file without its key.

### VanityGrind

One step is one access to shared memory with the local work before it.  `Try`
reads the stop flag, derives and compares; `Found`, `Claim`, `Send` are what
follows a match (publish attempts, `swap` the flag, send), `Claim` and `Send`
also what follows an error; `Publish`, `LoadReport`, `ExchangeReport`,
`PrintReport` are the batch counter and `maybe_report_progress`; `Leave` the end
of the loop.  The waiting thread is `Spawn`, `Receive` or `Disconnected`,
`Join`, `CheckPrefix`, `Persist`, `WritePhone`; the last two are the look of
`persist_phone` at the key file and its write, with nothing in the code to join
them.  `OtherInit` is another command, a plain `init`, in the same two steps
(`OtherPersist`, `OtherWrite`); the history `overlap` records that one command
looked while the other was between its look and its write.
`Matches` is the word-and-shift comparison with its width, `AddressStartsWith`
the text comparison of the final check.  Atomics are sequentially consistent
here; the code's relaxed accesses are each on one variable, whose modification
order is total, and the results travel through the channel and the join.

## 3. Runs

| Run | Instance | Checks | Distinct states |
|---|---|---|---|
| `activation` | 2 epochs, new or upgraded vault, Electrum, 2 faults, fair | `SupersededStaysRetired`, `ActiveWasAccepted`, `AcceptedIsStaged`, `AcceptedSettles`, `ImplementsActivePolicy` | 375 thousand |
| `activation_replay` | 2 epochs, Electrum, 1 fault | `ReplayNeverReplaces` (violated) | |
| `vault_epoch` | 1 epoch, 2 steps, 2 in the mempool, Electrum, fair | `TypeOK`, `RevocationIsWholeChain`, `CancelledStaysCancelled`, `MonthlyRate`, `RevocationWins` | 532 thousand |
| `vault_rollover` | 2 epochs, 1 step, Core | `OldOutputsSpent`, `MonthlyRate` | 1.4 million |
| `vault_stale_scan` | 2 epochs, 2 steps, Electrum | `OldEpochInvalidated` (violated) | |
| `funding` | 3 steps, every total 1..75, every limit 0..10 and overflowing ones | `BuiltValidates`, `EverySatoshiPlaced`, `OutputsRelayable`, `FailsExactlyForCause`, `LargestCount` | 95 thousand |
| `rotation` | 3 keys, 2 packages, 1 friend, 2 faults, fair | `RotationInv`, `KeysKept`, `FundedBackedUp`, `ScheduleOfConfiguredKey`, `SwitchedAfterSweep`, `Restorable` | 233 thousand |
| `vanity` | 2 workers, 7 indexes, 4 suffixes, fair | `OneResult`, `PrefixReproduced`, `ExhaustiveFailure`, `AttemptsExact`, `ReportsApart`, `ReportedKeyKept`, `SearchEnds` | 854 thousand |
| `phone_restore` | 3 addresses, 2 payments, 2 friends, 1 fault on each side | `TypeOK`, `NoBlockSkipped`, `FriendsKeepAccess`, `OnlyAddedFriends`, `RestoreDiscovers`, `RevealedAreFound` | 4.1 million |
| `ceremony_package` | 5 proposals, up to 3 parts mixed, 2 approvals | `ApprovedIsSigned`, `FundedIsApproved`, `HonestNotRefused`, `SignsOnlyShown` | 383 thousand |
| `rotation_fresh` | 3 keys, 2 packages, 1 fault | `ReplacementIsFresh` (violated) | |
| `rotation_friends` | 2 keys, 1 package, 1 friend | `FriendsPreserved` (violated) | |

**Bounds.**  Two epochs are what it takes to leave one and to try to come back,
to build two proposals on the same coins, and, in an upgraded vault, to replace
an epoch without a marker; two faults allow a crash during the retry of a crash.
The safety properties are proved for any number of either.

One deposit, two steps and two epochs let every pair of transaction types
contend for an output, one of them being in the mempool when the other comes.
Locks are one or two blocks.  The allowance and emergency locks of `vault_epoch`
differ, as do the two recovery locks; recovery opens earlier, relative to the
others, than in the code, so sweeps race with everything else instead of coming
after it.  Ages stop counting at the longest lock, beyond which nothing more
opens.  For the amounts the instance keeps
the proportions of the code (dust < connector, fees below both) at a scale where
every total around every threshold is tried.  `vault_rollover` gives all locks
one block: its properties are about which outputs a rollover spends, and the
allowance rate, not about which recovery path opens first.  Three phone keys are
what it takes to rotate away from a rotated key, and two packages let an older
approved one compete with a newer.

Two vanity workers make every race of the code, which are all between two
accesses; seven indexes let one of them fill a batch twice and a report become
due, and characters of two bits in words of five keep the code's misfit of 5-bit
characters and 32-bit words.  Three addresses with a stop gap of two and a
lookahead of one let an address lie beyond either.  The five proposals of
`ceremony_package` have every shape of a manifest (with and without allowances,
emergency, renewed connectors, the last month, another vault), two of them share
their rollover's inputs, and three mixed parts exceed what any two matching
fields could hide.

**Symmetry.**  `phone_restore` identifies states that differ only in which
friend is which: friends are model values of which nothing else is asked, and
the run checks no liveness property.

**Deadlock** is not checked: a user may stop at any point, and bounded
instances run out of epochs, faults and deposits.

**Fairness.**  Safety needs none.  `activation` assumes that a running
command goes on (nothing in `activate_policy` waits for another party; faults
are bounded) and that a user who was told to retry the same approved policy
does so whenever it is possible again and again.  It owes nothing to blocks, the
mempool or proposals, so `AcceptedSettles` excepts the chain having moved on.
`vault_epoch` assumes that the HWW's user keeps approving and that miners
confirm something if the mempool offers something again and again; the phone,
whom the HWW revokes, is owed nothing.  `rotation` assumes
that a running command goes on and that a user whose key file is missing, or is
not the vault's, removes it and restores; broadcasts may fail forever.
`vanity` assumes that the operating system runs the waiting thread and every
worker as long as they can go on; no lock is held between their steps.

## 4. What the code does differently from what is said of it

- **An interrupted epoch can replace its successor** (`activation_replay`).  The
  superseded check in `activate_policy` looks for `activated.json`, which is
  written last.  A rollover that was accepted, and whose activation was then
  interrupted, has none.  After it confirms and a second epoch is activated from
  its coins, its package passes the check, the backend reports the confirmed
  rollover as broadcast, and the pointer moves back, marking the newer epoch as
  superseded.  `tests/policy_activation.rs` asks that an old, already confirmed
  policy does not replace the current schedule.  `SupersededStaysRetired`, which
  speaks of epochs the pointer *was* at, holds and is proved.
- **A rollover may leave the old epoch executable on Electrum**
  (`vault_stale_scan`).  Outputs with an unconfirmed spender are missing from the
  server's list, so the proposal does not spend them; if the spender is dropped,
  they outlive the rollover.  On Core, `OldOutputsSpent` and
  `OldEpochInvalidated` are proved.
- **A vanity rotation may replace a key by itself** (`rotation_fresh`).  When the
  renewed policy cannot be activated, the configuration already has the new key
  and the pending file still holds it.  The next vanity rotation resumes that
  file without comparing it with the vault, and proposes a sweep to the address
  the coins are at.  The README promises a fresh key and address.
- **A friend added after approval is dropped** (`rotation_friends`).  The backup
  that activation installs was encrypted at approval.  The README says that every
  configured friend is preserved.

Smaller observations, made while modelling, that no run is about:

- *The same scan breaks the monthly rate.*  With two epochs on Electrum an
  allowance of an epoch that its rollover did not spend can confirm right after
  one of the new epoch, so `MonthlyRate` fails there.  `RateOfSpentRollovers`
  proves that this is the only way: on either backend the rate holds as long as
  rollovers leave no old output behind, and hence on Core (`CoreMonthlyRate`).
- *A small monthly limit makes the proposal fail.*  `anzen-design.md:152` says
  that if zero steps fit, the rollover still proceeds, `worklog.md:16` that it
  still succeeds.  When one step's limit and fee are worth less than the
  connector, the checked subtraction in `allowance_chain_value`
  (`ceremony.rs:408`) fails the whole proposal instead.  When they are worth more
  by less than the dust limit, a vault that can pay for two steps fails on its
  last chain output, and a poorer one, which is cut to no steps, succeeds.
  Limits whose full chain overflows fail as well, whatever the balance.
  `FailsExactlyForCause` has these as `LimitTooSmall` and `ChainOverflows`, and
  shows that there is no other departure from those sentences.
- *An interrupted Electrum sync can hide coins from Core.*  `sync_electrum`
  persists the full scan, with the tip as its checkpoint, before it asks for the
  revealed addresses beyond the stop gap.  Interrupted there, a later Core sync
  starts after the blocks that pay them, and does not see these coins until the
  next Electrum sync.  `NoBlockSkipped` excepts exactly these databases.
- *Two phone initialisations at once.*  If both look for the key file before
  either writes it, both report success and the later write wins; the mnemonic of
  the other was shown and is not that of the phone.  `ReportedKeyKept` excepts
  commands that overlapped in this way; nothing locks the directory.
- *Reserved addresses and a lost database.*  On Electrum a restored phone finds
  the addresses that have history.  Policy addresses that were reserved and not
  yet paid are handed out again, and an allowance paid to one beyond the
  revealed range stays invisible until the next request for a full scan.
  `RevealedAreFound` therefore excepts a lost database; `DEVELOPMENT.md:95` asks
  to keep it.
- *Core has a lookahead, no stop gap.*  `sync_core` reads each block once with
  BDK's 25 addresses beyond the last revealed one.
- *`anzen init` writes the configuration before the cloud backup*
  (`main.rs:325`).  Interrupted between them, it leaves a vault without a
  backup, and it refuses to run again.
- *`restore_phone` writes the key file before it removes the marker.*
  Interrupted in between, an older database keeps its marker, and the restore
  cannot be repeated while the key file exists.
- *Two proposals over the same coins may share a rollover.*  The emergency
  transactions of one are then accepted with the rest of the other, with the
  limit that is shown; and nothing binds the monthly limit of a batch without
  allowances.  `OneGraph` says exactly this.

## 5. Proofs

Everything in the seven `*Proofs` modules and in `InductionLemmas` is checked by
TLAPS for all values of the constants that satisfy the `ASSUME`s of the modules:

- constants that stand for different things differ (`NoneAssumption`,
  `LegacyAssumption`), bounds and delays are naturals (`BoundsAssumption`,
  `DelaysAssumption`, `WalletAssumption`, `SearchAssumption`, ...), and a backend
  is Core or Electrum;
- dust is positive and the inputs offered to a proposal are u64
  (`AmountsAssumption`, `InputsAssumption`); nothing is assumed about how the
  connector, the dust limit and the fees compare;
- the longest suffix fits the searched word and the word fits the key
  (`KeyAssumption`: 6 characters of 5 bits, 32 bits, 256 bits in the code), and
  powers of two double (`PowersOfTwo`, which the provers do not know);
- a proposal of `CeremonyPackage` has a count of months within the limit and
  lists of coins (`PackageAssumption`), is one that `build_policy_proposal` does
  not bail out of (`FundedAssumption`), and neither txids nor signature hashes
  collide among the transactions considered (`NoCollision`).

TLC evaluates each of them on the instance of its run.

*Activation.* `ActivationInv` is inductive.  `SupersededStaysRetired` is not so
by itself: one has to know that every retired epoch carries a marker (`retired
\subseteq marked`, because `ArchivePrevious` comes before `WritePointer`), that
the pointer a command read at its start is still the pointer when it writes
(`previous = schedule`), and that once an epoch is active there always is a
pointer, since the superseded check is skipped without one.
`ActivationInvariant` states it; from it follow `TypeCorrect`, `NoWayBack`,
`RejectedIsHarmless`, `RetryMaterialKept` and, with `StepRefines` (one case per
action: only `WritePointer` is a `Switch`, only an accepted broadcast is a
`Accept`), `Refinement`.

*Vault on chain.*  `Inv` is inductive for both backends: every mempool
transaction is one that an approved batch, a revocation or a sweep can produce
(`PoolInv`), every output on chain was created by the one transaction that can
create it, whose inputs are spent (`OriginInv`), and an allowance comes after all
earlier ones of its epoch, with a connector that nothing revoked (`PaidInv`).
`TypeCorrect`, `WholeChain` (for chains of any length) and `CancelledForGood`
follow: a revoked connector is spent and stays so, and what it would have led to
needs it.  On Core `ScanInv` adds that while nothing of what a proposal scanned
is spent, every confirmed policy output is among what it scanned, and that two
such proposals always conflict; so a rollover that confirms leaves nothing behind
(`CoreOldOutputsSpent`, `CoreOldEpochInvalidated`).  `RateInv` relates the age of
a chain output to the time since the last allowance; it is inductive only as
long as no second chain is alive, which is why `RateOfSpentRollovers` has
`[]OldOutputsSpent` as its premise and `CoreMonthlyRate` none.

*Ceremony.*  The argument is about one package at a time.  `Shaped` holds of
every package and survives every mixing and use: each part of it is what the
phone built for some proposal.  `ValidIsOneGraph` shows that `validate_batch`
makes these proposals one, since every transaction names the txid of the one it
spends and the rollover determines the rest.  `Checked` is what validation adds
for each transaction, `SignedBefore` grows with the signing loop and covers the
batch at its end.  `ApprovedSigned`, `FundedApproved` and `SignsShown` follow,
for any set of proposals and any number of mixed parts.  The converse is
`HonestAccepted`: the lemmas `RolloverBuilt`, `StepBuilt`, `TriggerBuilt` and
`WithdrawalBuilt` show that what the builder makes balances and spends what it
says, `HonestRollover`, `HonestAllowance` and `HonestEmergency` that the validator,
which is a separate definition, agrees with each part, and `HonestApproved` that
the HWW's signatures disturb nothing.

*Funding.*  `FundingInv` is inductive.  Its heart is `ChainTelescopes`: the
output the next step spends is worth exactly a chain of the steps that are
left.  `ChainStep` shows that one continuing step turns a chain of n steps into
one of n - 1, `ChainGrows` that a longer chain is worth at least as much as one
step, so that no intermediate output is dust unless a single step's is.  With
`SelectionInv` (what the selection put aside) and `TriedInv` (every larger count
was computed and refused) the six theorems follow: `FundingInvariant`,
`BuilderAgreesWithValidator`, `NothingStranded`, `AcceptedIsRelayable`,
`FailureHasCause`, `SelectionIsMaximal`.  `FailureHasCause` has two directions.
A computation that overflows at some count overflows at the largest
(`OverflowCause`, with `RequiredGrows`), so the cause does not depend on where
the loop stopped; and a proposal that was accepted has none of the causes
(`ValidHasNoCause`), since a small limit with two affordable steps would have
left a dust output.  Products of two variables are handled
by naming them; the provers get one fact about them (`ProductNat`).

*Rotation.*  `RotationInv` is inductive.  `KeysKept` by itself is not: a retry
copies the device file into the archive again and a later proposal overwrites
the pending key, so one has to know that neither can destroy the only copy.  The
argument is an order.  Keys are numbered as generated, and the configured key
only grows; so a package of the configured key was made under it
(`PackageInv`), when device file and backup held that key, and they still do,
because those two files are written after the configuration.  A package of an
earlier key is refused by `Valid`.  Hence an archive slot only ever receives the
value it was meant for (`ArchiveInv`), and after the four copies the new key is
in the archive before anything is sent to it (`RunningInv`).  `NoKeyLost`,
`EveryKeyBackedUp`, `NoOldSchedule` and `ConfigFollowsCoins` follow.

*Vanity search.*  `OneResult` is not inductive.  `SearchInv` adds the types and
`RaceInv`: a worker about to send is the only one, the stop flag is set and the
channel empty while there is one, and the waiting thread waits; once a result is
in the channel or received, nobody will send.  The swap in `Claim` is what makes
the sender unique, for any number of workers.  `SearchTyped` and `OneWinner`
follow.  `KeyInv` says which key the file can hold while a command is between its
look and its write, as long as no other looked meanwhile: `KeyFileKept`.  `GrindInv` adds `CoverInv` (a worker has compared what lies
behind it on its stride), `StopInv` (a worker that ends without being stopped has
come to the end) and `WinnerInv` (what is sent matches); from it `FailureIsExhaustive`
and, with the lemma `ComparisonsAgree` about shifted words and text,
`PrefixAlwaysReproduced`.  `AttemptInv` says that the shared counter and the sum
of the workers' own counts are the number of keys derived, `ReportInv` that the
last report is the one the next is measured against: `AttemptsCounted` and
`ReportsStayApart`.

*Restore and backup.*  `CloudInv` says that, until somebody edits the file, its
list of friends, the list its key authenticates and the friends reported as
added are one; that the authenticated list never holds anybody else, edited or
not; and that the backup a command has open is the file.  `FriendsAreKept` and
`FriendsAreVetted` follow.  `WalletInv` says what a database, the copy of it and
the wallet in memory can be (`GoodDb`: known coins lie below the revealed
addresses, and no checkpoint is ahead of the chain), that without a loss the
database has revealed all addresses handed out, and that a sync which is about to
write the marker knows all that it began with; `RevealedFound` and `TypeCorrect`
follow.  `BlocksInv` says that the database, and the wallet that `sync_core` has
in memory, know every payment up to their own checkpoint (`Covers`); it needs
that every payment went to an address handed out, and that these are revealed,
so that a refresh asks for it (`RefreshCovers`) and a block that pays it is
recognised (`BlockCovered`).  `NothingSkipped` is the result.  `ScanInv` says that a fresh database has no marker,
and that a running scan which has passed `FullScan` knows all that was reachable
when it began.  The lemma `ReachedGrows`, that more payments never make a scan
reach less, carries this over payments that arrive meanwhile; `ScanIsRepeated`
is the result.

*Induction over data.*  The library's induction theorems have an operator as a
parameter, which the provers cannot instantiate.  `InductionLemmas` states them
with sets instead: a set of naturals has a least element (`LeastNatural`, from
the well-foundedness of `<`), from which `Induction`, `SubsetInduction` and what
the sums of the models are (`Total`, `TotalUpdate`, `TotalUpToFour`) follow.

The runs check the properties; the inductive invariants, which are stronger and
most of which were found with TLC, are left to the proofs (`RotationInv` is checked
too).

*Only model-checked.*  Liveness: `AcceptedSettles`, `RevocationWins`, `Restorable`
and `SearchEnds`, since fairness and `ENABLED` are outside what the prover
handles.  Every safety property that a passing run checks is also stated by a
theorem, `OldOutputsSpent` and `MonthlyRate` for Core; on Electrum with one epoch
`MonthlyRate` is checked, and proved under `[]OldOutputsSpent`.

## 6. Not modelled

- *Scripts and signatures*: that a leaf can be satisfied by the keys it names is
  Miniscript's and BDK's business; the models take as given that presigned
  transactions are valid and that only the named signers can make a transaction
  type.
- *Encryption and key derivation*: pure functions without state.
- *Benchmark signer, Ledger app, Trezor firmware*: a fixed workload, and code
  that is not in this repository.
- *Reorganisations*: the code has no handling of them, and every scan takes
  confirmed outputs at face value.
- *Two commands at once*: there is no lock between processes; the models run one
  command at a time on a device, as the CLI is meant to be used, except for the
  second initialisation of `VanityGrind`.
- *Payments and the soft limit*: coin selection, change and fees are BDK's; the
  limit itself is one comparison with no state.
- *Maturity of recovery paths*: the display's saturating sum of a height and a
  delay; `VaultChain` has the locks as the network enforces them.
- *Rotation on the chain*: the old connectors and coins a rotation finds are what
  a scan lists.  `PhoneRotation` treats its sweep and revocation as accepted,
  rejected or unanswered, and its policy renewal as one step.
- *Loss of the whole phone directory during a rotation*: `LosePhone` loses the
  key file; the archive is assumed to survive, as `DEVELOPMENT.md` asks.

## 7. Plan

1. Rotation on the chain: the revocation of old connectors and the sweep as
   `VaultChain` transactions, for "no old-key policy authority survives" on both
   backends; and `PhoneRotation` with `PolicyActivation`'s steps in place of
   `Renew` and `SetPolicy`, for limits that an interrupted activation left behind.
2. Compose `VaultChain` with `PolicyActivation`'s files in place of the pointer,
   and show that `VaultChain`'s pointer is an `ActivePolicy`.
