---------------------------- MODULE PhoneRestore ----------------------------
(***************************************************************************)
(* The composition of the hot wallet with the cloud backup: a lost phone   *)
(* comes back through a package that the HWW (hww decrypt-phone-backup) or *)
(* a friend (social decrypt-backup) makes from the cloud file, and then    *)
(* has to find its coins again.                                            *)
(***************************************************************************)
EXTENDS HotWallet, CloudBackup

VARIABLE package   \* phone-recovery packages that have been written

vars == <<walletVars, cloudVars, package>>

Init ==
  /\ WalletInit
  /\ CloudInit
  /\ package = FALSE

\* decrypt_phone_backup_package, on the backup that Load brought up to date.
HwwDecrypts ==
  /\ hww = "loaded"
  /\ HwwOpens(open)
  /\ package' = TRUE
  /\ UNCHANGED <<walletVars, cloudVars>>

\* friend_recovery_package reads the file itself.
FriendDecrypts(f) ==
  /\ config
  /\ FriendOpens(cloud, f)
  /\ package' = TRUE
  /\ UNCHANGED <<walletVars, cloudVars>>

\* restore_phone: refused while a key file exists.
Restore ==
  /\ package
  /\ RestoreKey
  /\ UNCHANGED <<cloudVars, package>>

Next ==
  \/ WalletStep /\ UNCHANGED <<cloudVars, package>>
  \/ CloudStep /\ UNCHANGED <<walletVars, package>>
  \/ HwwDecrypts
  \/ \E f \in Friends : FriendDecrypts(f)
  \/ Restore

Spec == Init /\ [][Next]_vars

TypeOK ==
  /\ WalletTypeOK
  /\ CloudTypeOK
  /\ package \in BOOLEAN
=============================================================================
