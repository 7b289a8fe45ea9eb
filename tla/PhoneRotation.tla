----------------------------- MODULE PhoneRotation -----------------------------
(***************************************************************************)
(* Replacing the phone's key (src/src/hot_wallet/rotation.rs): a proposal  *)
(* by the phone, its approval by the hardware wallet (HWW), and an         *)
(* activation that sends coins to the new key in three broadcasts and then *)
(* replaces the phone's files one by one.  A crash, a failed write or a    *)
(* rejected broadcast may end it between any two of those effects; nothing *)
(* resumes it but the user, who may retry, propose again or restore.       *)
(*                                                                         *)
(* Phone keys are numbered in the order they are generated, from 1; 0 says *)
(* that a file does not exist.  A cloud backup holds one phone key, for    *)
(* the HWW and for the recovery friends it was encrypted to.  The chain is *)
(* reduced to whether a broadcast is accepted; `funded' remembers the keys *)
(* that coins have been sent to.  The hot-wallet database, which moves     *)
(* with the schedule, and the public halves of the archive are left out.   *)
(***************************************************************************)
EXTENDS Naturals

CONSTANTS MaxKeys,      \* bound: phone keys ever generated
          MaxPackages,  \* bound: rotation proposals, numbered as made
          Friends,      \* recovery friends that may be added
          Limits,       \* policy limits; 0 is a vault without a policy
          MaxFaults     \* bound: crashes, lost answers, lost phones

ASSUME BoundsAssumption ==
  MaxKeys \in Nat \ {0} /\ MaxPackages \in Nat /\ MaxFaults \in Nat
ASSUME LimitsAssumption == 0 \in Limits

Keys == 1 .. MaxKeys
KeyFile == 0 .. MaxKeys
Packages == 1 .. MaxPackages

VARIABLES
  config,    \* anzen.json: the phone key of the vault and the policy limits
  device,    \* phone/device.json
  backup,    \* cloud/phone-seed-backup.json: its phone key and its friends
  pending,   \* phone/pending-rotation.json
  schedule,  \* phone/schedule.json, by the phone key of its policy
  archive,   \* history/rotation-<txid>/, the key files of a package
  package,   \* rotation packages handed between the devices
  keys,      \* number of keys generated
  vanity,    \* keys whose vault address has the vanity prefix
  stale,     \* packages whose sweep lost an input to another transaction
  pc,        \* the next step of a running activation
  cur,       \* the package it activates, 0 if none runs
  kept,      \* archive files it has written
  faults,    \* faults so far
  funded,    \* history: keys that coins were sent to
  swept,     \* history: packages whose vault sweep was accepted
  added      \* history: friends added to the backup

files == <<config, device, backup, pending, schedule, archive>>
proc == <<pc, cur, kept>>
past == <<funded, swept, added>>
vars == <<config, device, backup, pending, schedule, archive, package, keys,
          vanity, stale, pc, cur, kept, faults, funded, swept, added>>

NoPackage ==
  [status |-> "none", old |-> 0, new |-> 0, limits |-> 0, friends |-> {}]

\* The archive's key files, in write order: the old phone key and its cloud
\* backup, then the replacement's.
Slots == 1 .. 4

\* After `anzen init', which also makes the first cloud backup.
Init ==
  /\ config = [key |-> 1, limits |-> 0]
  /\ device = 1
  /\ backup = [key |-> 1, friends |-> {}]
  /\ pending = 0
  /\ schedule = 0
  /\ archive = [p \in Packages |-> [n \in Slots |-> 0]]
  /\ package = [p \in Packages |-> NoPackage]
  /\ keys = 1
  /\ vanity = {}
  /\ stale = {}
  /\ pc = "idle"
  /\ cur = 0
  /\ kept = 0
  /\ faults = 0
  /\ funded = {1}
  /\ swept = {}
  /\ added = {}

-----------------------------------------------------------------------------
(* Proposal and approval.                                                  *)

\* The replacement key: a generated one, or, for a vanity rotation, the pending
\* vanity key if there is one; a pending key without the prefix is an error.
Replacement(k, v) ==
  \/ k = keys + 1 /\ (v => pending = 0)
  \/ k = pending /\ v /\ pending \in vanity

\* build_phone_rotation writes the pending key before anything else.
KeepPending(k, v) ==
  /\ pc = "idle"
  /\ device # 0
  /\ Replacement(k, v)
  /\ pending' = k
  /\ keys' = IF k > keys THEN k ELSE keys
  /\ vanity' = IF v THEN vanity \cup {k} ELSE vanity
  /\ UNCHANGED <<config, device, backup, schedule, archive, stale, proc,
                 faults, past>>

\* create_phone_rotation, create_vanity_phone_rotation: the old key signs a
\* sweep of the scanned coins to the new vault; the limits are the config's.
Propose(p, k, v) ==
  /\ package[p].status = "none"
  /\ p > 1 => package[p - 1].status # "none"
  /\ device = config.key
  /\ KeepPending(k, v)
  /\ package' = [package EXCEPT ![p] =
                   [status |-> "proposed", old |-> config.key, new |-> k,
                    limits |-> config.limits, friends |-> {}]]

\* The vault has no confirmed coins, or they cannot pay for the renewed policy,
\* or the device's key is not the vault's; the pending key is written already.
ProposeFails(k, v) == KeepPending(k, v) /\ UNCHANGED package

\* Mutant of Valid: the pending key is not compared.
ValidAnyPending(p) ==
  /\ package[p].old = config.key
  /\ package[p].limits = config.limits
  /\ pending # 0

\* validate_phone_rotation, on both devices.
Valid(p) ==
  /\ package[p].old = config.key
  /\ package[p].limits = config.limits
  /\ pending # 0 /\ package[p].new = pending

\* approve_phone_rotation: the HWW signs the sweep and the renewed policy, and
\* encrypts the new key to itself and to the friends of the current backup.
Approve(p) ==
  /\ pc = "idle"
  /\ package[p].status = "proposed"
  /\ Valid(p)
  /\ backup.key = config.key
  /\ package' = [package EXCEPT ![p].status = "approved",
                                ![p].friends = backup.friends]
  /\ UNCHANGED <<files, keys, vanity, stale, proc, faults, past>>

-----------------------------------------------------------------------------
(* activate_phone_rotation.                                                *)

New == package[cur].new

Start(p) ==
  /\ pc = "idle"
  /\ package[p].status = "approved"
  /\ Valid(p)
  /\ device # 0
  /\ pc' = "preserve"
  /\ cur' = p
  /\ kept' = 0
  /\ UNCHANGED <<files, package, keys, vanity, stale, faults, past>>

\* Mutant of Kept: the old cloud backup is not copied.
KeptNoBackup(n) ==
  CASE n = 1 -> device [] n = 2 -> 0 [] n = 3 -> pending [] n = 4 -> New

\* What preserve_rotation_keys writes: copies of the device file and of the
\* backup, the pending key, and the package's backup of the new key.
Kept(n) ==
  CASE n = 1 -> device [] n = 2 -> backup.key [] n = 3 -> pending [] n = 4 -> New

Preserve ==
  /\ pc = "preserve"
  /\ kept < 4
  /\ archive' = [archive EXCEPT ![cur][kept + 1] = Kept(kept + 1)]
  /\ kept' = kept + 1
  /\ UNCHANGED <<config, device, backup, pending, schedule, package, keys,
                 vanity, stale, pc, cur, faults, past>>

\* Mutant of PreserveDone: only the old key is archived before the broadcasts.
PreserveDoneEarly ==
  /\ pc = "preserve"
  /\ kept >= 2
  /\ pc' = "hot"
  /\ UNCHANGED <<files, package, keys, vanity, stale, cur, kept, faults, past>>

PreserveDone ==
  /\ pc = "preserve"
  /\ kept = 4
  /\ pc' = "hot"
  /\ UNCHANGED <<files, package, keys, vanity, stale, cur, kept, faults, past>>

\* The hot-wallet sweep, then the revocation of the old connectors, both paid to
\* the new key's hot wallet; either may have nothing to spend.
After(step) == IF step = "hot" THEN "revoke" ELSE "sweep"

SpendAccepted ==
  /\ pc \in {"hot", "revoke"}
  /\ funded' = funded \cup {New}
  /\ pc' = After(pc)
  /\ UNCHANGED <<files, package, keys, vanity, stale, cur, kept, faults, swept,
                 added>>

NothingToSpend ==
  /\ pc \in {"hot", "revoke"}
  /\ pc' = After(pc)
  /\ UNCHANGED <<files, package, keys, vanity, stale, cur, kept, faults, past>>

Return == pc' = "idle" /\ cur' = 0 /\ kept' = 0

\* A coin or a connector has another spender in the mempool.
SpendRejected ==
  /\ pc \in {"hot", "revoke"}
  /\ Return
  /\ UNCHANGED <<files, package, keys, vanity, stale, faults, past>>

Made == {p \in Packages : package[p].status # "none"}

\* The cooperative sweep, accepted at first or as a transaction already known: two
\* proposals of one pending key may hold the same sweep.
Sweepable ==
  \/ cur \notin stale
  \/ \E p \in swept : package[p].old = package[cur].old /\ package[p].new = New

SweepEffect ==
  /\ swept' = swept \cup {cur}
  /\ stale' = stale \cup (Made \ {cur})
  /\ funded' = funded \cup {New}

SweepAccepted ==
  /\ pc = "sweep"
  /\ Sweepable
  /\ SweepEffect
  /\ pc' = "archive"
  /\ UNCHANGED <<files, package, keys, vanity, cur, kept, faults, added>>

\* Mutant of SweepRejected: the backend's error is ignored.
SweepErrorIgnored ==
  /\ pc = "sweep"
  /\ pc' = "archive"
  /\ UNCHANGED <<files, package, keys, vanity, stale, cur, kept, faults, past>>

\* An input has another spender, or the backend cannot be reached.
SweepRejected ==
  /\ pc = "sweep"
  /\ Return
  /\ UNCHANGED <<files, package, keys, vanity, stale, faults, past>>

\* The network has the transaction and the answer is lost.
AnswerLost ==
  /\ faults < MaxFaults
  /\ faults' = faults + 1
  /\ \/ pc \in {"hot", "revoke"} /\ funded' = funded \cup {New}
          /\ UNCHANGED <<stale, swept>>
     \/ pc = "sweep" /\ Sweepable /\ SweepEffect
  /\ Return
  /\ UNCHANGED <<files, package, keys, vanity, added>>

\* Mutant of ArchiveEpoch: the schedule stays.
ArchiveNothing ==
  /\ pc = "archive"
  /\ pc' = "config"
  /\ UNCHANGED <<files, package, keys, vanity, stale, cur, kept, faults, past>>

\* archive_old_epoch: schedule, transactions and hot wallet leave.
ArchiveEpoch ==
  /\ pc = "archive"
  /\ schedule' = 0
  /\ pc' = "config"
  /\ UNCHANGED <<config, device, backup, pending, archive, package, keys,
                 vanity, stale, cur, kept, faults, past>>

WriteConfig ==
  /\ pc = "config"
  /\ config' = [config EXCEPT !.key = New]
  /\ pc' = "device"
  /\ UNCHANGED <<device, backup, pending, schedule, archive, package, keys,
                 vanity, stale, cur, kept, faults, past>>

WriteDevice ==
  /\ pc = "device"
  /\ device' = pending
  /\ pc' = "backup"
  /\ UNCHANGED <<config, backup, pending, schedule, archive, package, keys,
                 vanity, stale, cur, kept, faults, past>>

WriteBackup ==
  /\ pc = "backup"
  /\ backup' = [key |-> New, friends |-> package[cur].friends]
  /\ pc' = IF package[cur].limits = 0 THEN "clear" ELSE "renew"
  /\ UNCHANGED <<config, device, pending, schedule, archive, package, keys,
                 vanity, stale, cur, kept, faults, past>>

\* activate_policy of the renewed policy, whose rollover spends the sweep's
\* output; its own steps are PolicyActivation's.
Renew ==
  /\ pc = "renew"
  /\ schedule' = New
  /\ pc' = "clear"
  /\ UNCHANGED <<config, device, backup, pending, archive, package, keys,
                 vanity, stale, cur, kept, faults, past>>

RenewFails ==
  /\ pc = "renew"
  /\ Return
  /\ UNCHANGED <<files, package, keys, vanity, stale, faults, past>>

ClearPending ==
  /\ pc = "clear"
  /\ pending' = 0
  /\ Return
  /\ UNCHANGED <<config, device, backup, schedule, archive, package, keys,
                 vanity, stale, faults, past>>

Crash ==
  /\ pc # "idle"
  /\ faults < MaxFaults
  /\ faults' = faults + 1
  /\ Return
  /\ UNCHANGED <<files, package, keys, vanity, stale, past>>

-----------------------------------------------------------------------------
(* What else happens to the files and to the coins.                        *)

\* An ordinary policy ceremony under the configured key.
SetPolicy(l) ==
  /\ pc = "idle"
  /\ device = config.key
  /\ schedule' = config.key
  /\ config' = [config EXCEPT !.limits = l]
  /\ stale' = stale \cup (Made \ swept)
  /\ UNCHANGED <<device, backup, pending, archive, package, keys, vanity, proc,
                 faults, past>>

\* An allowance, an emergency action or a sweep spends coins of the vault.
VaultMoves ==
  /\ stale # stale \cup (Made \ swept)
  /\ stale' = stale \cup (Made \ swept)
  /\ UNCHANGED <<files, package, keys, vanity, proc, faults, past>>

\* add_recovery_friend rewraps the current backup.
AddFriend(f) ==
  /\ pc = "idle"
  /\ backup.key = config.key
  /\ f \notin backup.friends
  /\ backup' = [backup EXCEPT !.friends = @ \cup {f}]
  /\ added' = added \cup {f}
  /\ UNCHANGED <<config, device, pending, schedule, archive, package, keys,
                 vanity, stale, proc, faults, funded, swept>>

\* The phone's key file is lost, or removed because it is not the vault's key:
\* restore_phone refuses to overwrite it.
LosePhone ==
  /\ pc = "idle"
  /\ device = config.key
  /\ faults < MaxFaults
  /\ faults' = faults + 1
  /\ device' = 0
  /\ UNCHANGED <<config, backup, pending, schedule, archive, package, keys,
                 vanity, stale, proc, past>>

RemoveStaleKey ==
  /\ pc = "idle"
  /\ device \notin {0, config.key}
  /\ device' = 0
  /\ UNCHANGED <<config, backup, pending, schedule, archive, package, keys,
                 vanity, stale, proc, faults, past>>

ArchivedBackups == {archive[p][n] : p \in Packages, n \in {2, 4}}
Backups == {backup.key} \cup ArchivedBackups

\* Mutant of Restore: only the cloud's current backup can be opened.
RestoreFromCloud ==
  /\ pc = "idle"
  /\ device = 0
  /\ config.key = backup.key
  /\ device' = config.key
  /\ UNCHANGED <<config, backup, pending, schedule, archive, package, keys,
                 vanity, stale, proc, faults, past>>

\* decrypt_phone_backup_package and restore_phone: any backup file the user
\* names, as long as its key is the configured one.
Restore ==
  /\ pc = "idle"
  /\ device = 0
  /\ config.key \in Backups
  /\ device' = config.key
  /\ UNCHANGED <<config, backup, pending, schedule, archive, package, keys,
                 vanity, stale, proc, faults, past>>

RotationStep ==
  \/ Preserve \/ PreserveDone
  \/ SpendAccepted \/ NothingToSpend \/ SpendRejected
  \/ SweepAccepted \/ SweepRejected
  \/ ArchiveEpoch \/ WriteConfig \/ WriteDevice \/ WriteBackup
  \/ Renew \/ RenewFails \/ ClearPending

Next ==
  \/ \E k \in Keys, v \in BOOLEAN :
       ProposeFails(k, v) \/ \E p \in Packages : Propose(p, k, v)
  \/ \E p \in Packages : Approve(p) \/ Start(p)
  \/ RotationStep
  \/ AnswerLost \/ Crash
  \/ \E l \in Limits : SetPolicy(l)
  \/ VaultMoves
  \/ \E f \in Friends : AddFriend(f)
  \/ LosePhone \/ RemoveStaleKey \/ Restore

Spec == Init /\ [][Next]_vars

(***************************************************************************)
(* Fairness: a running command runs on, and a user whose phone file is     *)
(* missing, or belongs to another key than the vault's, removes it and     *)
(* restores.  Nothing says that broadcasts are accepted.                   *)
(***************************************************************************)
FairSpec ==
  /\ Spec
  /\ WF_vars(RotationStep)
  /\ WF_vars(RemoveStaleKey)
  /\ WF_vars(Restore)

-----------------------------------------------------------------------------
(* Properties.                                                             *)

Phases == {"idle", "preserve", "hot", "revoke", "sweep", "archive", "config",
           "device", "backup", "renew", "clear"}

\* Key files hold generated keys, and a command that runs activates a package.
TypeOK ==
  /\ config \in [key : Keys, limits : Limits]
  /\ device \in KeyFile
  /\ backup \in [key : Keys, friends : SUBSET Friends]
  /\ pending \in KeyFile
  /\ schedule \in KeyFile
  /\ archive \in [Packages -> [Slots -> KeyFile]]
  /\ package \in [Packages -> [status : {"none", "proposed", "approved"},
                               old : KeyFile, new : KeyFile, limits : Limits,
                               friends : SUBSET Friends]]
  /\ keys \in Keys
  /\ vanity \subseteq Keys
  /\ stale \subseteq Packages
  /\ pc \in Phases
  /\ cur \in 0 .. MaxPackages
  /\ (pc = "idle") <=> (cur = 0)
  /\ kept \in 0 .. 4
  /\ faults \in Nat
  /\ funded \subseteq Keys
  /\ swept \subseteq Packages
  /\ added \subseteq Friends

ArchivedKeys == {archive[p][n] : p \in Packages, n \in {1, 3}}

\* "Before any broadcast, it retains the old and replacement key material"
\* (src/DEVELOPMENT.md): whatever is interrupted, overwritten by a later proposal,
\* removed or lost, a key that coins were ever sent to is in a file of the phone,
\* or is the vault's current key and can be restored from a backup.
KeysKept ==
  \A k \in funded :
    \/ k \in {device, pending} \cup ArchivedKeys
    \/ k = config.key /\ k \in Backups

\* "... and encrypted cloud backups" (src/DEVELOPMENT.md): the HWW can decrypt
\* every key that coins were ever sent to, the replaced ones included.
FundedBackedUp == funded \subseteq Backups

\* The schedule the phone acts on is one of the vault's current key: no crash
\* leaves an old-key policy in place under a new configuration.
ScheduleOfConfiguredKey == schedule \in {0, config.key}

\* The vault is never configured for a key before its coins are on their way
\* there, whatever order packages are proposed, approved and retried in.
SwitchedAfterSweep ==
  config.key = 1 \/ \E p \in swept : package[p].new = config.key

\* A phone that was lost, or left behind by an interrupted rotation, can always
\* be brought back to the vault's current key.
Restorable == []<>(device = config.key)

\* "rotate immediately to a fresh phone key and vault address" (src/README.md): a
\* rotation never replaces a key by itself.
ReplacementIsFresh == \A p \in Made : package[p].new # package[p].old

\* "The rotation preserves the HWW key, every configured recovery friend, ..."
\* (src/README.md): no step takes a friend out of the cloud backup.
FriendsPreserved == added \subseteq backup.friends

\* What a running activation knows.  Until the config is written the files are
\* those the package was validated against; afterwards the archive holds what
\* each further write replaces.
Before == {"preserve", "hot", "revoke", "sweep", "archive", "config"}
Preserved == Phases \ {"idle", "preserve"}
ArchivedValue(p, n) == IF n <= 2 THEN package[p].old ELSE package[p].new

RunningInv ==
  pc # "idle" =>
    /\ package[cur].status = "approved"
    /\ pending = New
    /\ pc \in Before =>
         /\ package[cur].old = config.key
         /\ device = config.key
         /\ backup.key = config.key
    /\ pc \notin Before => config.key = New
    /\ pc \notin {"preserve", "hot", "revoke", "sweep"} => cur \in swept
    /\ pc = "config" => schedule = 0
    /\ pc \in Preserved => kept = 4
    /\ \A n \in Slots : n <= kept => archive[cur][n] = ArchivedValue(cur, n)
    /\ pc \in {"device", "backup"} => backup.key \in ArchivedBackups
    /\ pc = "device" => device \in ArchivedKeys

\* Keys are generated in order and the vault only moves forward, so a package of
\* the configured key was made when the key's files agreed with the config, and
\* they still do.
PackageInv ==
  \A p \in Packages :
    IF package[p].status = "none"
    THEN package[p].old = 0 /\ package[p].new = 0
    ELSE /\ package[p].old \in Keys /\ package[p].new \in Keys
         /\ package[p].old <= package[p].new
         /\ package[p].old <= config.key
         /\ package[p].old = config.key => device \in {0, config.key}
         /\ package[p].old = config.key /\ package[p].status = "approved" =>
              backup.key = config.key

ArchiveInv ==
  \A p \in Packages, n \in Slots : archive[p][n] \in {0, ArchivedValue(p, n)}

\* Every key that coins were sent to is archived, except the vault's own, and has
\* a backup.
KeyInv ==
  /\ config.key <= keys
  /\ pending # 0 => config.key <= pending /\ pending <= keys
  /\ config.key \in funded
  /\ \A p \in swept : package[p].status # "none" /\ package[p].new \in funded
  /\ funded \subseteq ArchivedKeys \cup {config.key}
  /\ funded \subseteq Backups
  /\ device \notin {0, config.key} => device \in ArchivedKeys

\* The inductive invariant of activate_phone_rotation and of the commands around
\* it: the archive always holds what a later write may replace, and a package of
\* an earlier key than the vault's can no longer be approved or activated.
RotationInv ==
  /\ TypeOK
  /\ RunningInv
  /\ PackageInv
  /\ ArchiveInv
  /\ KeyInv
  /\ ScheduleOfConfiguredKey
  /\ SwitchedAfterSweep
=============================================================================
