---------------------------- MODULE CloudBackup ----------------------------
(***************************************************************************)
(* The cloud backup of the phone key (core/social.rs, cold_wallet/mod.rs): *)
(* its creation by anzen init, the migration of an older format in place,  *)
(* recovery friends, and who can open the file.  One random key encrypts   *)
(* the payload; the HWW and every friend hold a wrapped copy of it, and it *)
(* authenticates the list of friends.                                      *)
(*                                                                         *)
(* The payload is that of the configured vault: its replacement is         *)
(* PhoneRotation's.  Encryption is taken as sound.  Files are replaced     *)
(* atomically (write_private).                                             *)
(***************************************************************************)
EXTENDS Naturals, FiniteSets

CONSTANTS
  Friends,        \* OpenPGP keys
  MaxCloudFaults  \* bound: interrupted commands

ASSUME CloudAssumption == MaxCloudFaults \in Nat

VARIABLES
  config,       \* the vault is configured
  cloud,        \* the file PHONE_BACKUP_FILE
  hww,          \* what the command that runs on the HWW does next
  open,         \* the backup that it has in memory
  added,        \* history: friends add_recovery_friend has reported as added
  altered,      \* history: somebody else has edited the file
  cloudFaults

cloudVars == <<config, cloud, hww, open, added, altered, cloudFaults>>

----------------------------------------------------------------------------
(* Files *)

\* friends: the list of key wrappers.  manifest: the list that the symmetric
\* key authenticates.
Envelope(friends, manifest) ==
  [format |-> "envelope", friends |-> friends, manifest |-> manifest]

\* create_backup.
NewBackup(friends) == Envelope(friends, friends)

NoFile == [format |-> "missing", friends |-> {}, manifest |-> {}]

\* The format of earlier versions: the phone's words under the HWW's key.
LegacyFile == [format |-> "legacy", friends |-> {}, manifest |-> {}]

AuthenticAlways(file) ==
  TRUE

\* validate_friend_manifest.
Authentic(file) ==
  file.friends = file.manifest

\* decrypt_with_hww, after the migration that every HWW command starts with.
HwwOpens(file) ==
  \/ file.format = "legacy"
  \/ file.format = "envelope" /\ Authentic(file)

\* decrypt_with_friend: an older format has no friends.
FriendOpens(file, f) ==
  file.format = "envelope" /\ f \in file.friends /\ Authentic(file)

----------------------------------------------------------------------------
(* anzen init *)

CloudInit ==
  /\ \/ config = FALSE /\ cloud = NoFile
     \/ config = TRUE /\ cloud = LegacyFile
  /\ hww = "idle"
  /\ open = NoFile
  /\ added = {}
  /\ altered = FALSE
  /\ cloudFaults = 0

\* Refuses a configured vault, so it is not run twice.
InitVault ==
  /\ hww = "idle" /\ ~config
  /\ config' = TRUE
  /\ hww' = "create"
  /\ UNCHANGED <<cloud, open, added, altered, cloudFaults>>

CreateBackup ==
  /\ hww = "create"
  /\ cloud' = NewBackup({})
  /\ hww' = "idle"
  /\ UNCHANGED <<config, open, added, altered, cloudFaults>>

----------------------------------------------------------------------------
(* hww add-recovery-friend and hww decrypt-phone-backup *)

\* Every file goes through the migration.
MigratedAlways(file) ==
  NewBackup({})

\* load_or_migrate_cloud_backup: an older format is replaced in place before
\* anything else is done with it.
Migrated(file) ==
  IF file.format = "legacy" THEN NewBackup({}) ELSE file

Load ==
  /\ hww = "idle" /\ config
  /\ cloud.format # "missing"
  /\ open' = Migrated(cloud)
  /\ cloud' = Migrated(cloud)
  /\ hww' = "loaded"
  /\ UNCHANGED <<config, added, altered, cloudFaults>>

\* add_recovery_friend: decrypts, checks the list, refuses a friend twice.
AddFriend(f) ==
  /\ hww = "loaded"
  /\ HwwOpens(open) /\ Authentic(open)
  /\ f \notin open.friends
  /\ cloud' = NewBackup(open.friends \cup {f})
  /\ added' = added \cup {f}
  /\ hww' = "idle"
  /\ open' = NoFile
  /\ UNCHANGED <<config, altered, cloudFaults>>

\* decrypt-phone-backup ends, a check fails, or the process dies.
CloseBackup ==
  /\ hww = "loaded"
  /\ hww' = "idle"
  /\ open' = NoFile
  /\ UNCHANGED <<config, cloud, added, altered, cloudFaults>>

HwwCrash ==
  /\ hww = "create"
  /\ cloudFaults < MaxCloudFaults
  /\ cloudFaults' = cloudFaults + 1
  /\ hww' = "idle"
  /\ UNCHANGED <<config, cloud, open, added, altered>>

\* The cloud's copy of the list changes without the symmetric key, as a sync
\* service that merges two versions of the file does.
ListEdited ==
  /\ hww = "idle" /\ ~altered
  /\ cloud.format = "envelope"
  /\ \E friends \in SUBSET Friends :
       /\ friends # cloud.friends
       /\ cloud' = Envelope(friends, cloud.manifest)
  /\ altered' = TRUE
  /\ UNCHANGED <<config, hww, open, added, cloudFaults>>

CloudStep ==
  \/ InitVault \/ CreateBackup \/ Load \/ CloseBackup \/ HwwCrash \/ ListEdited
  \/ \E f \in Friends : AddFriend(f)

----------------------------------------------------------------------------
(* Properties *)

CloudTypeOK ==
  /\ config \in BOOLEAN /\ altered \in BOOLEAN
  /\ \A file \in {cloud, open} :
       /\ file.format \in {"missing", "legacy", "envelope"}
       /\ file.friends \subseteq Friends /\ file.manifest \subseteq Friends
  /\ hww \in {"idle", "create", "loaded"}
  /\ added \subseteq Friends
  /\ cloudFaults \in 0 .. MaxCloudFaults

\* Before anzen init has written the backup, or after it was interrupted there.
InitUnfinished == ~config \/ hww = "create" \/ cloudFaults > 0

\* Every friend whose addition was reported can open the backup, and so can
\* the HWW: neither a migration, nor a later addition, nor a crash in any
\* command takes the file from them, and only an init that was interrupted
\* leaves a configured vault without one.
FriendsKeepAccess ==
  altered \/ /\ \A f \in added : FriendOpens(cloud, f)
             /\ ~InitUnfinished \/ cloud.format # "missing" => HwwOpens(cloud)

\* The list that a rotation would carry on holds only friends the HWW has
\* added: an edited list is refused by every command and never becomes
\* authentic by adding to it.
OnlyAddedFriends ==
  cloud.friends = cloud.manifest => cloud.friends \subseteq added
=============================================================================
