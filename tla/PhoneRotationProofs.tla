------------------------- MODULE PhoneRotationProofs -------------------------
(***************************************************************************)
(* Proofs about PhoneRotation, for any number of keys, packages, friends,  *)
(* limits and faults.                                                      *)
(***************************************************************************)
EXTENDS PhoneRotation, TLAPS

USE BoundsAssumption, LimitsAssumption

\* A freshly initialised vault satisfies the inductive invariant.
LEMMA InitInv == Init => RotationInv
<1> SUFFICES ASSUME Init PROVE RotationInv
  OBVIOUS
<1> USE DEF Init, Keys, KeyFile, Packages, Slots, NoPackage, Phases
<1>1. TypeOK
  BY DEF TypeOK
<1>2. RunningInv /\ PackageInv /\ ArchiveInv
  BY DEF RunningInv, PackageInv, ArchiveInv, ArchivedValue
<1>3. KeyInv
  BY DEF KeyInv, Backups
<1>4. QED
  BY <1>1, <1>2, <1>3
     DEF RotationInv, ScheduleOfConfiguredKey, SwitchedAfterSweep

\* What the proof needs of the bounds.
LEMMA Bounds ==
  /\ Keys \subseteq Nat \ {0}
  /\ KeyFile = Keys \cup {0}
  /\ Packages \subseteq (0 .. MaxPackages) \ {0}
  /\ \A n \in Nat : n + 1 \in Nat
BY DEF Keys, KeyFile, Packages

\* Packages that were made are packages.
LEMMA MadeFact == Made \subseteq Packages
BY DEF Made

\* The phases, spelled out.
LEMMA Phase ==
  {"idle", "preserve", "hot", "revoke", "sweep", "archive", "config", "device",
   "backup", "renew", "clear"} = Phases
BY DEF Phases

\* A running activation has a package of two generated keys, and its new key is
\* the pending one.
LEMMA RunningFact ==
  RotationInv /\ pc # "idle" =>
    cur \in Packages /\ New \in Keys /\ pending \in Keys
BY DEF RotationInv, TypeOK, RunningInv, PackageInv, New, Packages

\* Once preserve_rotation_keys is done the new key is in the archive, in plain
\* and as a backup.
LEMMA ArchivedFact ==
  RotationInv /\ pc \in Preserved =>
    New \in ArchivedKeys /\ New \in ArchivedBackups
<1> SUFFICES ASSUME RotationInv, pc \in Preserved
             PROVE  New \in ArchivedKeys /\ New \in ArchivedBackups
  OBVIOUS
<1>1. pc # "idle" /\ cur \in Packages
  BY RunningFact DEF Preserved
<1>2. archive[cur][3] = New /\ archive[cur][4] = New
  BY <1>1 DEF RotationInv, RunningInv, ArchivedValue, New, Slots
<1>3. QED
  BY <1>1, <1>2 DEF ArchivedKeys, ArchivedBackups

\* Every command, every step of an activation and every fault preserves the
\* invariant: one step per action, and under it one per part it may disturb.
LEMMA NextInv == RotationInv /\ [Next]_vars => RotationInv'
<1> SUFFICES ASSUME RotationInv, [Next]_vars PROVE RotationInv'
  OBVIOUS
<1> USE DEF RotationInv, files, proc, past
<1>a. pc # "idle" => cur \in Packages /\ New \in Keys /\ pending \in Keys
  BY RunningFact
<1>b. pc \in Preserved => New \in ArchivedKeys /\ New \in ArchivedBackups
  BY ArchivedFact
<1>1. ASSUME NEW p \in Packages, NEW k \in Keys, NEW v \in BOOLEAN,
             Propose(p, k, v)
      PROVE  RotationInv'
  <2>1. TypeOK'
    <3>1. package' \in [Packages -> [status : {"none", "proposed", "approved"},
                                     old : KeyFile, new : KeyFile,
                                     limits : Limits, friends : SUBSET Friends]]
      BY <1>1, Bounds DEF Propose, TypeOK
    <3>2. QED
      BY <1>1, <3>1, Bounds DEF Propose, KeepPending, TypeOK
  <2>2. PackageInv'
    <3>1. config.key <= k
      <4>1. k = keys + 1 \/ (pending # 0 /\ k = pending)
        BY <1>1, Bounds DEF Propose, KeepPending, Replacement, TypeOK
      <4>2. QED
        BY <4>1 DEF TypeOK, KeyInv, Keys, KeyFile
    <3>2. package' = [package EXCEPT ![p] =
                        [status |-> "proposed", old |-> config.key, new |-> k,
                         limits |-> config.limits, friends |-> {}]]
      BY <1>1 DEF Propose
    <3>3. UNCHANGED <<config, device, backup>>
      BY <1>1 DEF Propose, KeepPending
    <3>4. device = config.key
      BY <1>1 DEF Propose
    <3>5. \A q \in Packages : q # p => package'[q] = package[q]
      BY <3>2 DEF TypeOK
    <3>6. /\ package'[p].status = "proposed"
          /\ package'[p].old = config.key /\ package'[p].new = k
      BY <3>2 DEF TypeOK
    <3>7. config.key \in Nat /\ config.key \in Keys /\ config.key <= config.key
      BY DEF TypeOK, Keys
    <3>8. QED
      BY <3>1, <3>3, <3>4, <3>5, <3>6, <3>7 DEF PackageInv
  <2>3. ArchiveInv'
    BY <1>1 DEF Propose, KeepPending, ArchiveInv, PackageInv, ArchivedValue
  <2>4. KeyInv'
    BY <1>1 DEF Propose, KeepPending, Replacement, KeyInv, TypeOK,
       ArchivedKeys, ArchivedBackups, Backups, Keys
  <2>5. SwitchedAfterSweep'
    BY <1>1 DEF Propose, KeepPending, SwitchedAfterSweep, KeyInv
  <2>6. RunningInv' /\ ScheduleOfConfiguredKey'
    BY <1>1 DEF Propose, KeepPending, RunningInv, ScheduleOfConfiguredKey
  <2>7. QED
    BY <2>1, <2>2, <2>3, <2>4, <2>5, <2>6
<1>2. ASSUME NEW k \in Keys, NEW v \in BOOLEAN, ProposeFails(k, v)
      PROVE  RotationInv'
  <2>1. TypeOK'
    BY <1>2, Bounds DEF ProposeFails, KeepPending, TypeOK
  <2>2. KeyInv'
    BY <1>2 DEF ProposeFails, KeepPending, Replacement, KeyInv, TypeOK,
       ArchivedKeys, ArchivedBackups, Backups, Keys
  <2>3. RunningInv' /\ PackageInv' /\ ArchiveInv' /\ ScheduleOfConfiguredKey'
        /\ SwitchedAfterSweep'
    BY <1>2 DEF ProposeFails, KeepPending, RunningInv, ArchivedValue,
       PackageInv, ArchiveInv, ScheduleOfConfiguredKey, SwitchedAfterSweep
  <2>4. QED
    BY <2>1, <2>2, <2>3
<1>3. ASSUME NEW p \in Packages, Approve(p) PROVE RotationInv'
  <2>1. TypeOK'
    <3>1. package' \in [Packages -> [status : {"none", "proposed", "approved"},
                                     old : KeyFile, new : KeyFile,
                                     limits : Limits, friends : SUBSET Friends]]
      BY <1>3 DEF Approve, TypeOK
    <3>2. QED
      BY <1>3, <3>1 DEF Approve, TypeOK
  <2>2. PackageInv'
    BY <1>3 DEF Approve, PackageInv, TypeOK
  <2>3. ArchiveInv'
    BY <1>3 DEF Approve, ArchiveInv, TypeOK, ArchivedValue
  <2>4. KeyInv'
    BY <1>3 DEF Approve, KeyInv, TypeOK, ArchivedKeys, ArchivedBackups,
       Backups
  <2>5. SwitchedAfterSweep'
    <3>1. \A q \in Packages : package'[q].new = package[q].new
      BY <1>3 DEF Approve, TypeOK
    <3>2. QED
      BY <1>3, <3>1 DEF Approve, SwitchedAfterSweep, TypeOK
  <2>6. RunningInv' /\ ScheduleOfConfiguredKey'
    BY <1>3 DEF Approve, RunningInv, ScheduleOfConfiguredKey
  <2>7. QED
    BY <2>1, <2>2, <2>3, <2>4, <2>5, <2>6
<1>4. ASSUME NEW p \in Packages, Start(p) PROVE RotationInv'
  <2>1. TypeOK'
    BY <1>4, Bounds, Phase DEF Start, TypeOK
  <2>2. RunningInv'
    BY <1>4 DEF Start, Valid, RunningInv, New, Before, Preserved, PackageInv,
       Slots
  <2>3. PackageInv' /\ ArchiveInv' /\ KeyInv' /\ ScheduleOfConfiguredKey'
        /\ SwitchedAfterSweep'
    BY <1>4 DEF Start, PackageInv, ArchiveInv, ArchivedValue, KeyInv,
       ArchivedKeys, ArchivedBackups, Backups, ScheduleOfConfiguredKey,
       SwitchedAfterSweep
  <2>4. QED
    BY <2>1, <2>2, <2>3
<1>5. ASSUME NEW l \in Limits, SetPolicy(l) PROVE RotationInv'
  <2>1. TypeOK'
    BY <1>5, MadeFact DEF SetPolicy, TypeOK
  <2>2. PackageInv'
    BY <1>5 DEF SetPolicy, PackageInv
  <2>3. KeyInv'
    BY <1>5 DEF SetPolicy, KeyInv, ArchivedKeys, ArchivedBackups, Backups
  <2>4. ScheduleOfConfiguredKey'
    BY <1>5 DEF SetPolicy, ScheduleOfConfiguredKey
  <2>5. RunningInv' /\ ArchiveInv' /\ SwitchedAfterSweep'
    BY <1>5 DEF SetPolicy, RunningInv, ArchivedValue, ArchiveInv,
       SwitchedAfterSweep
  <2>6. QED
    BY <2>1, <2>2, <2>3, <2>4, <2>5
<1>6. ASSUME NEW f \in Friends, AddFriend(f) PROVE RotationInv'
  <2>1. TypeOK'
    BY <1>6 DEF AddFriend, TypeOK
  <2>2. PackageInv'
    BY <1>6 DEF AddFriend, PackageInv
  <2>3. KeyInv'
    BY <1>6 DEF AddFriend, KeyInv, ArchivedKeys, ArchivedBackups, Backups
  <2>4. RunningInv' /\ ArchiveInv' /\ ScheduleOfConfiguredKey'
        /\ SwitchedAfterSweep'
    BY <1>6 DEF AddFriend, RunningInv, ArchivedValue, ArchiveInv,
       ScheduleOfConfiguredKey, SwitchedAfterSweep
  <2>5. QED
    BY <2>1, <2>2, <2>3, <2>4
<1>7. CASE Preserve
  <2>1. TypeOK'
    <3>1. kept + 1 \in Slots /\ Kept(kept + 1) \in KeyFile
      BY <1>7, Bounds, <1>a DEF Preserve, Kept, TypeOK, Slots
    <3>2. archive' \in [Packages -> [Slots -> KeyFile]]
      BY <1>7, <3>1, <1>a DEF Preserve, TypeOK
    <3>3. kept' \in 0 .. 4
      BY <1>7 DEF Preserve, TypeOK
    <3>4. QED
      BY <1>7, <3>2, <3>3 DEF Preserve, TypeOK
  <2>2. RunningInv'
    BY <1>7, <1>a DEF Preserve, Kept, RunningInv, TypeOK, ArchivedValue, New,
       Before, Slots
  <2>3. ArchiveInv'
    BY <1>7 DEF Preserve, Kept, ArchiveInv, RunningInv, ArchivedValue, New,
       Before, Slots
  <2>4. KeyInv'
    BY <1>7 DEF Preserve, Kept, KeyInv, RunningInv, TypeOK, ArchivedKeys,
       ArchivedBackups, Backups, New, Before, ArchiveInv, ArchivedValue,
       Slots, Keys
  <2>5. PackageInv' /\ ScheduleOfConfiguredKey' /\ SwitchedAfterSweep'
    BY <1>7 DEF Preserve, Kept, PackageInv, ScheduleOfConfiguredKey,
       SwitchedAfterSweep
  <2>6. QED
    BY <2>1, <2>2, <2>3, <2>4, <2>5
<1>8. CASE PreserveDone
  <2>1. TypeOK'
    BY <1>8, Phase DEF PreserveDone, TypeOK
  <2>2. RunningInv'
    BY <1>8 DEF PreserveDone, RunningInv, ArchivedValue, New, Before
  <2>3. PackageInv' /\ ArchiveInv' /\ KeyInv' /\ ScheduleOfConfiguredKey'
        /\ SwitchedAfterSweep'
    BY <1>8 DEF PreserveDone, PackageInv, ArchiveInv, ArchivedValue, KeyInv,
       ArchivedKeys, ArchivedBackups, Backups, ScheduleOfConfiguredKey,
       SwitchedAfterSweep
  <2>4. QED
    BY <2>1, <2>2, <2>3
<1>9. CASE SpendAccepted
  <2>1. TypeOK'
    BY <1>9, <1>a, Phase DEF SpendAccepted, After, TypeOK
  <2>2. RunningInv'
    BY <1>9 DEF SpendAccepted, After, RunningInv, TypeOK, ArchivedValue, New,
       Before, Preserved
  <2>3. KeyInv'
    <3>1. New \in ArchivedKeys /\ New \in ArchivedBackups
      BY <1>9, <1>b, Phase DEF SpendAccepted, Preserved
    <3>2. QED
      BY <1>9, <3>1, <1>a DEF SpendAccepted, KeyInv, RunningInv,
         ArchivedKeys, ArchivedBackups, Backups, New
  <2>4. PackageInv' /\ ArchiveInv' /\ ScheduleOfConfiguredKey'
        /\ SwitchedAfterSweep'
    BY <1>9 DEF SpendAccepted, After, PackageInv, ArchiveInv, ArchivedValue,
       ScheduleOfConfiguredKey, SwitchedAfterSweep
  <2>5. QED
    BY <2>1, <2>2, <2>3, <2>4
<1>10. CASE NothingToSpend
  <2>1. TypeOK'
    BY <1>10, Phase DEF NothingToSpend, After, TypeOK
  <2>2. RunningInv'
    BY <1>10 DEF NothingToSpend, After, RunningInv, TypeOK, ArchivedValue,
       New, Before, Preserved
  <2>3. PackageInv' /\ ArchiveInv' /\ KeyInv' /\ ScheduleOfConfiguredKey'
        /\ SwitchedAfterSweep'
    BY <1>10 DEF NothingToSpend, After, PackageInv, ArchiveInv, ArchivedValue,
       KeyInv, ArchivedKeys, ArchivedBackups, Backups,
       ScheduleOfConfiguredKey, SwitchedAfterSweep
  <2>4. QED
    BY <2>1, <2>2, <2>3
<1>11. CASE SpendRejected
  <2>1. TypeOK'
    BY <1>11, Phase DEF SpendRejected, Return, TypeOK
  <2>2. RunningInv' /\ PackageInv' /\ ArchiveInv' /\ KeyInv'
        /\ ScheduleOfConfiguredKey' /\ SwitchedAfterSweep'
    BY <1>11 DEF SpendRejected, Return, RunningInv, ArchivedValue,
       ArchivedKeys, ArchivedBackups, PackageInv, ArchiveInv, KeyInv, Backups,
       ScheduleOfConfiguredKey, SwitchedAfterSweep
  <2>3. QED
    BY <2>1, <2>2
<1>12. CASE SweepAccepted
  <2>1. TypeOK'
    BY <1>12, <1>a, MadeFact, Phase DEF SweepAccepted, SweepEffect, TypeOK
  <2>2. RunningInv'
    BY <1>12 DEF SweepAccepted, SweepEffect, RunningInv, TypeOK,
       ArchivedValue, New, Before, Preserved
  <2>3. KeyInv'
    <3>1. New \in ArchivedKeys /\ New \in ArchivedBackups
      BY <1>12, <1>b, Phase DEF SweepAccepted, Sweepable, Preserved
    <3>2. QED
      BY <1>12, <3>1, <1>a DEF SweepAccepted, SweepEffect, KeyInv, RunningInv,
         ArchivedKeys, ArchivedBackups, Backups, New
  <2>4. SwitchedAfterSweep'
    BY <1>12 DEF SweepAccepted, SweepEffect, SwitchedAfterSweep
  <2>5. PackageInv' /\ ArchiveInv' /\ ScheduleOfConfiguredKey'
    BY <1>12 DEF SweepAccepted, SweepEffect, PackageInv, ArchiveInv,
       ArchivedValue, ScheduleOfConfiguredKey
  <2>6. QED
    BY <2>1, <2>2, <2>3, <2>4, <2>5
<1>13. CASE SweepRejected
  <2>1. TypeOK'
    BY <1>13, Phase DEF SweepRejected, Return, TypeOK
  <2>2. RunningInv' /\ PackageInv' /\ ArchiveInv' /\ KeyInv'
        /\ ScheduleOfConfiguredKey' /\ SwitchedAfterSweep'
    BY <1>13 DEF SweepRejected, Return, RunningInv, ArchivedValue,
       ArchivedKeys, ArchivedBackups, PackageInv, ArchiveInv, KeyInv, Backups,
       ScheduleOfConfiguredKey, SwitchedAfterSweep
  <2>3. QED
    BY <2>1, <2>2
<1>14. CASE AnswerLost
  <2>1. TypeOK'
    <3>1. pc # "idle" /\ New \in Keys /\ cur \in Packages
      BY <1>14, <1>a DEF AnswerLost
    <3>2. funded' \subseteq Keys
      BY <1>14, <3>1 DEF AnswerLost, SweepEffect, TypeOK
    <3>3. stale' \subseteq Packages /\ swept' \subseteq Packages
      BY <1>14, <3>1, MadeFact DEF AnswerLost, SweepEffect, TypeOK
    <3>4. pc' \in Phases /\ cur' \in 0 .. MaxPackages /\ kept' \in 0 .. 4
          /\ faults' \in Nat /\ (pc' = "idle") /\ (cur' = 0)
      BY <1>14, Bounds, Phase DEF AnswerLost, Return, TypeOK
    <3>5. QED
      BY <1>14, <3>2, <3>3, <3>4 DEF AnswerLost, TypeOK
  <2>2. KeyInv'
    <3>1. New \in ArchivedKeys /\ New \in ArchivedBackups
      BY <1>14, <1>b, Phase DEF AnswerLost, Preserved
    <3>2. QED
      BY <1>14, <3>1, <1>a DEF AnswerLost, SweepEffect, KeyInv, RunningInv,
         ArchivedKeys, ArchivedBackups, Backups, New
  <2>3. SwitchedAfterSweep'
    BY <1>14 DEF AnswerLost, SweepEffect, Return, SwitchedAfterSweep
  <2>4. RunningInv' /\ PackageInv' /\ ArchiveInv' /\ ScheduleOfConfiguredKey'
    BY <1>14, MadeFact DEF AnswerLost, SweepEffect, Return, RunningInv,
       ArchivedValue, PackageInv, ArchiveInv, ScheduleOfConfiguredKey
  <2>5. QED
    BY <2>1, <2>2, <2>3, <2>4
<1>15. CASE ArchiveEpoch
  <2>1. TypeOK'
    BY <1>15, Bounds, Phase DEF ArchiveEpoch, TypeOK
  <2>2. RunningInv'
    BY <1>15 DEF ArchiveEpoch, RunningInv, TypeOK, ArchivedValue, New, Before,
       Preserved
  <2>3. ScheduleOfConfiguredKey'
    BY <1>15 DEF ArchiveEpoch, ScheduleOfConfiguredKey
  <2>4. PackageInv' /\ ArchiveInv' /\ KeyInv' /\ SwitchedAfterSweep'
    BY <1>15 DEF ArchiveEpoch, PackageInv, ArchiveInv, ArchivedValue, KeyInv,
       ArchivedKeys, ArchivedBackups, Backups, SwitchedAfterSweep
  <2>5. QED
    BY <2>1, <2>2, <2>3, <2>4
<1>16. CASE WriteConfig
  <2>1. TypeOK'
    BY <1>16, <1>a, Phase DEF WriteConfig, TypeOK
  <2>2. RunningInv'
    BY <1>16 DEF WriteConfig, RunningInv, TypeOK, ArchivedValue, ArchivedKeys,
       ArchivedBackups, New, Before, Preserved, Slots
  <2>3. PackageInv'
    <3>1. config'.key = New /\ UNCHANGED <<package, device, backup>>
      BY <1>16 DEF WriteConfig, TypeOK
    <3>2. /\ package[cur].old = config.key /\ config.key <= New
          /\ device = config.key /\ backup.key = config.key
      BY <1>16, <1>a DEF WriteConfig, RunningInv, Before, PackageInv, New
    <3>3. \A q \in Packages : package[q].status # "none" =>
             /\ package[q].old <= New
             /\ package[q].old = New => config.key = New
      <4>1. config.key \in Nat /\ New \in Nat
        BY <1>16, <1>a DEF WriteConfig, TypeOK, Keys
      <4>2. \A q \in Packages : package[q].status # "none" =>
               package[q].old \in Nat /\ package[q].old <= config.key
        BY DEF PackageInv, Keys
      <4>3. QED
        BY <3>2, <4>1, <4>2
    <3>4. QED
      BY <3>1, <3>2, <3>3 DEF PackageInv
  <2>4. KeyInv'
    <3>1. config'.key = New /\ cur \in swept
      BY <1>16 DEF WriteConfig, RunningInv, TypeOK
    <3>2. /\ New \in funded /\ New <= keys /\ pending = New /\ New <= New
      <4>1. New \in funded
        BY <3>1 DEF KeyInv, New
      <4>2. pending = New /\ pending # 0 /\ New \in Nat
        BY <1>16, <1>a DEF WriteConfig, RunningInv, Keys
      <4>3. QED
        BY <4>1, <4>2 DEF KeyInv
    <3>3. config.key \in ArchivedKeys /\ device = config.key
      <4>1. archive[cur][1] = config.key
        BY <1>16, <1>a
           DEF WriteConfig, RunningInv, Before, Preserved, Phases, Slots,
               ArchivedValue
      <4>2. QED
        BY <1>16, <4>1, <1>a DEF WriteConfig, RunningInv, Before, ArchivedKeys
    <3>4. QED
      BY <1>16, <3>1, <3>2, <3>3
         DEF WriteConfig, KeyInv, ArchivedKeys, ArchivedBackups, Backups
  <2>5. ScheduleOfConfiguredKey'
    BY <1>16 DEF WriteConfig, ScheduleOfConfiguredKey, RunningInv
  <2>6. SwitchedAfterSweep'
    BY <1>16 DEF WriteConfig, SwitchedAfterSweep, RunningInv, New
  <2>7. ArchiveInv'
    BY <1>16 DEF WriteConfig, ArchiveInv, ArchivedValue
  <2>8. QED
    BY <2>1, <2>2, <2>3, <2>4, <2>5, <2>6, <2>7
<1>17. CASE WriteDevice
  <2>1. TypeOK'
    BY <1>17, Phase DEF WriteDevice, TypeOK
  <2>2. RunningInv'
    BY <1>17 DEF WriteDevice, RunningInv, TypeOK, ArchivedValue,
       ArchivedBackups, New, Before, Preserved
  <2>3. PackageInv'
    BY <1>17 DEF WriteDevice, PackageInv, RunningInv, Before
  <2>4. KeyInv'
    BY <1>17 DEF WriteDevice, KeyInv, RunningInv, ArchivedKeys,
       ArchivedBackups, Backups, Before
  <2>5. ArchiveInv' /\ ScheduleOfConfiguredKey' /\ SwitchedAfterSweep'
    BY <1>17 DEF WriteDevice, ArchiveInv, ArchivedValue,
       ScheduleOfConfiguredKey, SwitchedAfterSweep
  <2>6. QED
    BY <2>1, <2>2, <2>3, <2>4, <2>5
<1>18. CASE WriteBackup
  <2>1. TypeOK'
    BY <1>18, <1>a, Phase DEF WriteBackup, TypeOK
  <2>2. RunningInv'
    BY <1>18 DEF WriteBackup, RunningInv, TypeOK, ArchivedValue, New, Before,
       Preserved
  <2>3. PackageInv'
    BY <1>18 DEF WriteBackup, PackageInv, RunningInv, Before
  <2>4. KeyInv'
    BY <1>18 DEF WriteBackup, KeyInv, RunningInv, ArchivedKeys,
       ArchivedBackups, Backups
  <2>5. ArchiveInv' /\ ScheduleOfConfiguredKey' /\ SwitchedAfterSweep'
    BY <1>18 DEF WriteBackup, ArchiveInv, ArchivedValue,
       ScheduleOfConfiguredKey, SwitchedAfterSweep
  <2>6. QED
    BY <2>1, <2>2, <2>3, <2>4, <2>5
<1>19. CASE Renew
  <2>1. TypeOK'
    BY <1>19, <1>a, Bounds, Phase DEF Renew, TypeOK
  <2>2. RunningInv'
    BY <1>19 DEF Renew, RunningInv, TypeOK, ArchivedValue, New, Before,
       Preserved
  <2>3. KeyInv'
    BY <1>19 DEF Renew, KeyInv, ArchivedKeys, ArchivedBackups, Backups
  <2>4. ScheduleOfConfiguredKey'
    BY <1>19 DEF Renew, ScheduleOfConfiguredKey, RunningInv, Before
  <2>5. PackageInv' /\ ArchiveInv' /\ SwitchedAfterSweep'
    BY <1>19 DEF Renew, PackageInv, ArchiveInv, ArchivedValue,
       SwitchedAfterSweep
  <2>6. QED
    BY <2>1, <2>2, <2>3, <2>4, <2>5
<1>20. CASE RenewFails
  <2>1. TypeOK'
    BY <1>20, Phase DEF RenewFails, Return, TypeOK
  <2>2. RunningInv' /\ PackageInv' /\ ArchiveInv' /\ KeyInv'
        /\ ScheduleOfConfiguredKey' /\ SwitchedAfterSweep'
    BY <1>20 DEF RenewFails, Return, RunningInv, ArchivedValue, ArchivedKeys,
       ArchivedBackups, PackageInv, ArchiveInv, KeyInv, Backups,
       ScheduleOfConfiguredKey, SwitchedAfterSweep
  <2>3. QED
    BY <2>1, <2>2
<1>21. CASE ClearPending
  <2>1. TypeOK'
    BY <1>21, Bounds, Phase DEF ClearPending, Return, TypeOK
  <2>2. KeyInv'
    BY <1>21 DEF ClearPending, Return, KeyInv, ArchivedKeys, ArchivedBackups,
       Backups
  <2>3. RunningInv' /\ PackageInv' /\ ArchiveInv' /\ ScheduleOfConfiguredKey'
        /\ SwitchedAfterSweep'
    BY <1>21 DEF ClearPending, Return, RunningInv, ArchivedValue, PackageInv,
       ArchiveInv, ScheduleOfConfiguredKey, SwitchedAfterSweep
  <2>4. QED
    BY <2>1, <2>2, <2>3
<1>22. CASE Crash
  <2>1. TypeOK'
    BY <1>22, Phase DEF Crash, Return, TypeOK
  <2>2. RunningInv' /\ PackageInv' /\ ArchiveInv' /\ KeyInv'
        /\ ScheduleOfConfiguredKey' /\ SwitchedAfterSweep'
    BY <1>22 DEF Crash, Return, RunningInv, ArchivedValue, ArchivedKeys,
       ArchivedBackups, PackageInv, ArchiveInv, KeyInv, Backups,
       ScheduleOfConfiguredKey, SwitchedAfterSweep
  <2>3. QED
    BY <2>1, <2>2
<1>23. CASE VaultMoves
  <2>1. TypeOK'
    BY <1>23, MadeFact DEF VaultMoves, TypeOK
  <2>2. RunningInv' /\ PackageInv' /\ ArchiveInv' /\ KeyInv'
        /\ ScheduleOfConfiguredKey' /\ SwitchedAfterSweep'
    BY <1>23 DEF VaultMoves, RunningInv, ArchivedValue, ArchivedKeys,
       ArchivedBackups, New, PackageInv, ArchiveInv, KeyInv, Backups,
       ScheduleOfConfiguredKey, SwitchedAfterSweep
  <2>3. QED
    BY <2>1, <2>2
<1>24. CASE LosePhone
  <2>1. TypeOK'
    BY <1>24, Bounds DEF LosePhone, TypeOK
  <2>2. PackageInv'
    BY <1>24 DEF LosePhone, PackageInv
  <2>3. KeyInv'
    BY <1>24 DEF LosePhone, KeyInv, ArchivedKeys, ArchivedBackups, Backups
  <2>4. RunningInv' /\ ArchiveInv' /\ ScheduleOfConfiguredKey'
        /\ SwitchedAfterSweep'
    BY <1>24 DEF LosePhone, RunningInv, ArchivedValue, ArchiveInv,
       ScheduleOfConfiguredKey, SwitchedAfterSweep
  <2>5. QED
    BY <2>1, <2>2, <2>3, <2>4
<1>25. CASE RemoveStaleKey
  <2>1. TypeOK'
    BY <1>25, Bounds DEF RemoveStaleKey, TypeOK
  <2>2. PackageInv'
    BY <1>25 DEF RemoveStaleKey, PackageInv
  <2>3. KeyInv'
    BY <1>25 DEF RemoveStaleKey, KeyInv, ArchivedKeys, ArchivedBackups,
       Backups
  <2>4. RunningInv' /\ ArchiveInv' /\ ScheduleOfConfiguredKey'
        /\ SwitchedAfterSweep'
    BY <1>25 DEF RemoveStaleKey, RunningInv, ArchivedValue, ArchiveInv,
       ScheduleOfConfiguredKey, SwitchedAfterSweep
  <2>5. QED
    BY <2>1, <2>2, <2>3, <2>4
<1>26. CASE Restore
  <2>1. TypeOK'
    BY <1>26, Bounds DEF Restore, TypeOK
  <2>2. PackageInv'
    BY <1>26 DEF Restore, PackageInv
  <2>3. KeyInv'
    BY <1>26 DEF Restore, KeyInv, ArchivedKeys, ArchivedBackups, Backups
  <2>4. RunningInv' /\ ArchiveInv' /\ ScheduleOfConfiguredKey'
        /\ SwitchedAfterSweep'
    BY <1>26 DEF Restore, RunningInv, ArchivedValue, ArchiveInv,
       ScheduleOfConfiguredKey, SwitchedAfterSweep
  <2>5. QED
    BY <2>1, <2>2, <2>3, <2>4
<1>27. CASE UNCHANGED vars
  BY <1>27 DEF vars, TypeOK, RunningInv, ArchivedValue, ArchivedKeys,
     ArchivedBackups, New, PackageInv, ArchiveInv, KeyInv, Backups,
     ScheduleOfConfiguredKey, SwitchedAfterSweep
<1>28. QED
  BY <1>1, <1>2, <1>3, <1>4, <1>5, <1>6, <1>7, <1>8, <1>9, <1>10, <1>11,
     <1>12, <1>13, <1>14, <1>15, <1>16, <1>17, <1>18, <1>19, <1>20, <1>21,
     <1>22, <1>23, <1>24, <1>25, <1>26, <1>27 DEF Next, RotationStep

\* The inductive invariant holds of every behaviour, for any number of keys,
\* packages, friends and faults.
THEOREM RotationInvariant == Spec => []RotationInv
<1>1. Init => RotationInv
  BY InitInv
<1>2. RotationInv /\ [Next]_vars => RotationInv'
  BY NextInv
<1>3. QED
  BY <1>1, <1>2, PTL DEF Spec

\* activate_phone_rotation never leaves a key that received coins without a copy
\* the phone can use.
THEOREM NoKeyLost == Spec => []KeysKept
<1>1. RotationInv => KeysKept
  BY DEF RotationInv, KeyInv, KeysKept
<1>2. QED
  BY <1>1, RotationInvariant, PTL

\* ... nor without an encrypted backup.
THEOREM EveryKeyBackedUp == Spec => []FundedBackedUp
<1>1. RotationInv => FundedBackedUp
  BY DEF RotationInv, KeyInv, FundedBackedUp
<1>2. QED
  BY <1>1, RotationInvariant, PTL

\* The schedule in place is never one of a replaced key.
THEOREM NoOldSchedule == Spec => []ScheduleOfConfiguredKey
<1>1. RotationInv => ScheduleOfConfiguredKey
  BY DEF RotationInv
<1>2. QED
  BY <1>1, RotationInvariant, PTL

\* The configuration follows the coins and never precedes them.
THEOREM ConfigFollowsCoins == Spec => []SwitchedAfterSweep
<1>1. RotationInv => SwitchedAfterSweep
  BY DEF RotationInv
<1>2. QED
  BY <1>1, RotationInvariant, PTL
=============================================================================
