------------------------- MODULE PhoneRestoreProofs -------------------------
(***************************************************************************)
(* Proofs about PhoneRestore, for every set of friends, every stop gap and *)
(* any number of addresses, payments, failures and losses.                 *)
(***************************************************************************)
EXTENDS PhoneRestore, InductionLemmas

----------------------------------------------------------------------------
(* The cloud file *)

\* What the file and the command in progress have to do with the friends that
\* were reported as added: without somebody else's edit the three lists are
\* one, and the authenticated list never holds anybody else.
CloudInv ==
  /\ cloud.format \in {"missing", "legacy", "envelope"}
  /\ cloud = [format |-> cloud.format, friends |-> cloud.friends,
              manifest |-> cloud.manifest]
  /\ cloud.manifest \subseteq added
  /\ ~altered => cloud.friends = added /\ cloud.manifest = added
  /\ cloud.format # "envelope" => added = {} /\ cloud.friends = {}
  /\ ~config => cloud.format = "missing"
  /\ hww \in {"create", "loaded"} => config
  /\ hww = "create" => cloud.format = "missing"
  /\ hww = "loaded" => open = cloud /\ cloud.format = "envelope"
  /\ cloud.format = "missing" => InitUnfinished
  /\ cloudFaults \in Nat

\* A new vault has no backup, an older one a backup without friends.
LEMMA CloudInit1 == Init => CloudInv
  BY DEF Init, CloudInit, CloudInv, NoFile, LegacyFile, InitUnfinished

\* Every command of the HWW, finished or interrupted, keeps the lists together.
LEMMA CloudNext == CloudInv /\ [Next]_vars => CloudInv'
<1> SUFFICES ASSUME CloudInv, [Next]_vars PROVE CloudInv'
  OBVIOUS
<1> USE DEF CloudInv, InitUnfinished
<1>1. ASSUME UNCHANGED cloudVars PROVE CloudInv'
  BY <1>1 DEF cloudVars
<1>2. CASE InitVault
  BY <1>2 DEF InitVault
<1>3. CASE CreateBackup
  BY <1>3 DEF CreateBackup, NewBackup, Envelope
<1>4. CASE Load
  BY <1>4 DEF Load, Migrated, NewBackup, Envelope
<1>5. CASE CloseBackup
  BY <1>5 DEF CloseBackup
<1>6. CASE HwwCrash
  BY <1>6 DEF HwwCrash
<1>7. CASE ListEdited
  BY <1>7 DEF ListEdited, Envelope
<1>8. ASSUME NEW f \in Friends, AddFriend(f) PROVE CloudInv'
  BY <1>8 DEF AddFriend, HwwOpens, Authentic, NewBackup, Envelope
<1>9. CASE CloudStep
  BY <1>2, <1>3, <1>4, <1>5, <1>6, <1>7, <1>8, <1>9 DEF CloudStep
<1>10. QED
  BY <1>1, <1>9 DEF Next, HwwDecrypts, FriendDecrypts, Restore, vars

\* No migration, later addition or crash takes the backup from a friend who was
\* added, or from the HWW, for any number of friends.
THEOREM FriendsAreKept == Spec => []FriendsKeepAccess
<1>1. CloudInv => FriendsKeepAccess
  BY DEF CloudInv, FriendsKeepAccess, FriendOpens, HwwOpens, Authentic, InitUnfinished
<1>2. QED
  BY <1>1, CloudInit1, CloudNext, PTL DEF Spec

\* A list that was edited without the symmetric key never becomes authentic.
THEOREM FriendsAreVetted == Spec => []OnlyAddedFriends
<1>1. CloudInv => OnlyAddedFriends
  BY DEF CloudInv, OnlyAddedFriends
<1>2. QED
  BY <1>1, CloudInit1, CloudNext, PTL DEF Spec

----------------------------------------------------------------------------
(* Databases *)

\* A database with the fields of EmptyDb, that has processed at most n
\* payments and reveals the address of every coin it knows.
GoodDb(d, n) ==
  /\ d = [revealed |-> d.revealed, known |-> d.known, checkpoint |-> d.checkpoint,
          marked |-> d.marked]
  /\ d.revealed \in 0 .. MaxAddresses
  /\ d.known \subseteq Addresses
  /\ \A a \in d.known : a < d.revealed
  /\ d.checkpoint \in 0 .. n
  /\ d.marked \in BOOLEAN

\* A set of addresses has a greatest one, and Max finds it.
LEMMA MaxAddress ==
  ASSUME NEW S, S \subseteq Addresses, S # {}
  PROVE  Max(S) \in S /\ \A y \in S : y <= Max(S)
PROOF
  <1> DEFINE T == {k \in Nat : \A y \in S : y <= k}
  <1>1. T \subseteq Nat /\ MaxAddresses \in T
    BY WalletAssumption DEF Addresses
  <1>2. PICK x \in T : \A y \in T : x <= y
    BY <1>1, LeastNatural
  <1>3. x \in S
    <2> SUFFICES ASSUME x \notin S PROVE FALSE
      OBVIOUS
    <2>1. S \subseteq Nat
      BY WalletAssumption DEF Addresses
    <2>2. \A y \in S : y < x
      BY <1>2, <2>1
    <2>3. PICK y \in S : TRUE
      OBVIOUS
    <2>4. x - 1 \in Nat
      BY <2>1, <2>2, <2>3, <1>2
    <2>5. \A z \in S : z <= x - 1
      BY <2>1, <2>2, <2>4, <1>2
    <2>6. x - 1 \in T
      BY <2>4, <2>5
    <2> QED
      BY <2>6, <1>2
  <1>4. \A y \in S : x >= y
    BY <1>2, WalletAssumption DEF Addresses
  <1>5. Max(S) \in S /\ \A y \in S : Max(S) >= y
    BY <1>3, <1>4 DEF Max
  <1> QED
    BY <1>5, WalletAssumption DEF Addresses

\* A block keeps a database good and takes back no address.
LEMMA ScanPaymentKeeps ==
  ASSUME NEW d, NEW n \in Nat, GoodDb(d, n), NEW a \in Addresses
  PROVE  /\ GoodDb(ScanPayment(d, a), n)
         /\ ScanPayment(d, a).checkpoint = d.checkpoint
         /\ d.revealed <= ScanPayment(d, a).revealed
PROOF
  <1> DEFINE e == ScanPayment(d, a)
  <1>1. CASE a < d.revealed + Lookahead
    <2>1. e = [revealed |-> Greater(d.revealed, a + 1), known |-> d.known \cup {a},
               checkpoint |-> d.checkpoint, marked |-> d.marked]
      BY <1>1 DEF ScanPayment, GoodDb
    <2>2. /\ Greater(d.revealed, a + 1) \in 0 .. MaxAddresses
          /\ Greater(d.revealed, a + 1) >= d.revealed /\ a < Greater(d.revealed, a + 1)
      BY WalletAssumption DEF Greater, GoodDb, Addresses
    <2> HIDE DEF e
    <2>3. \A x \in d.known \cup {a} : x < Greater(d.revealed, a + 1)
      BY <2>2, WalletAssumption DEF GoodDb, Addresses
    <2>4. GoodDb(e, n)
      BY <2>1, <2>2, <2>3 DEF GoodDb
    <2> QED
      BY <2>1, <2>2, <2>4 DEF e
  <1>2. CASE ~(a < d.revealed + Lookahead)
    BY <1>2, WalletAssumption DEF ScanPayment, GoodDb
  <1> QED
    BY <1>1, <1>2

\* So does a scan with the stop gap, which knows what it has reached.
LEMMA DiscoveredKeeps ==
  ASSUME NEW d, NEW c \in Seq(Addresses), GoodDb(d, Len(c))
  PROVE  /\ GoodDb(Discovered(d, c), Len(c))
         /\ Discovered(d, c).marked = d.marked
         /\ Discovered(d, c).known = d.known \cup Reached(c)
         /\ d.revealed <= Discovered(d, c).revealed
PROOF
  <1> DEFINE found == Reached(c)
             e == Discovered(d, c)
             r == IF found = {} THEN d.revealed ELSE Greater(d.revealed, Max(found) + 1)
  <1>1. found \subseteq Addresses
    BY DEF Reached, ToSet
  <1>2. e = [revealed |-> r, known |-> d.known \cup found, checkpoint |-> Len(c),
             marked |-> d.marked]
    <2> DEFINE k == d.known \cup found
    <2>1. e = [d EXCEPT !.known = k, !.revealed = r, !.checkpoint = Len(c)]
      BY DEF Discovered
    <2> HIDE DEF k, r, e, found
    <2>2. e = [revealed |-> r, known |-> k, checkpoint |-> Len(c), marked |-> d.marked]
      BY <2>1 DEF GoodDb
    <2> QED
      BY <2>2 DEF k
  <1> HIDE DEF e, found
  <1>3. /\ r \in 0 .. MaxAddresses /\ d.revealed <= r
        /\ \A a \in found : a < r
    <2>1. CASE found = {}
      BY <2>1, WalletAssumption DEF GoodDb
    <2>2. CASE found # {}
      <3>1. Max(found) \in found /\ \A y \in found : y <= Max(found)
        BY <2>2, <1>1, MaxAddress
      <3>2. Max(found) \in Addresses
        BY <3>1, <1>1
      <3>3. r = Greater(d.revealed, Max(found) + 1)
        BY <2>2
      <3> QED
        BY <1>1, <3>1, <3>2, <3>3, WalletAssumption DEF Greater, GoodDb, Addresses
    <2> QED
      BY <2>1, <2>2
  <1> HIDE DEF r
  <1>4. \A a \in d.known \cup found : a < r
    BY <1>3, WalletAssumption DEF GoodDb, Addresses
  <1>5. GoodDb(e, Len(c))
    BY <1>1, <1>2, <1>3, <1>4 DEF GoodDb
  <1> QED
    BY <1>2, <1>3, <1>5 DEF e, found

\* And so does a refresh, which knows every payment to a revealed address.
LEMMA RefreshedKeeps ==
  ASSUME NEW d, NEW c \in Seq(Addresses), GoodDb(d, Len(c))
  PROVE  /\ GoodDb(Refreshed(d, c), Len(c))
         /\ Refreshed(d, c).marked = d.marked
         /\ Refreshed(d, c).known = d.known \cup {a \in ToSet(c) : a < d.revealed}
         /\ Refreshed(d, c).revealed = d.revealed
PROOF
  <1> DEFINE found == {a \in ToSet(c) : a < d.revealed}
             e == Refreshed(d, c)
  <1>1. found \subseteq Addresses /\ \A a \in found : a < d.revealed
    BY DEF ToSet
  <1>2. e = [revealed |-> d.revealed, known |-> d.known \cup found, checkpoint |-> Len(c),
             marked |-> d.marked]
    <2> DEFINE k == d.known \cup found
    <2>1. e = [d EXCEPT !.known = k, !.checkpoint = Len(c)]
      BY DEF Refreshed
    <2> HIDE DEF k, e, found
    <2>2. e = [revealed |-> d.revealed, known |-> k, checkpoint |-> Len(c), marked |-> d.marked]
      BY <2>1 DEF GoodDb
    <2> QED
      BY <2>2 DEF k
  <1> HIDE DEF e, found
  <1>3. GoodDb(e, Len(c))
    BY <1>1, <1>2 DEF GoodDb
  <1> QED
    BY <1>2, <1>3 DEF e, found

----------------------------------------------------------------------------
(* The hot wallet *)

\* Types; every payment went to an address that was handed out; while no
\* database was lost the database has revealed all of these, and a block scan
\* in memory is never behind it; a running Electrum sync began with a part of
\* the chain, and before it writes the marker it knows all of it.
WalletInv ==
  /\ device \in BOOLEAN /\ discover \in BOOLEAN /\ fresh \in BOOLEAN /\ intact \in BOOLEAN
  /\ partial \in BOOLEAN
  /\ sync \in {"idle", "scan", "refresh", "mark", "blocks", "persist", "request_scan"}
  /\ walletFaults \in 0 .. MaxFaults
  /\ handed \in 0 .. MaxAddresses
  /\ chain \in Seq(Addresses) /\ seen \in Seq(Addresses)
  /\ GoodDb(db, Len(chain)) /\ GoodDb(memory, Len(chain)) /\ GoodDb(copy, Len(chain))
  /\ \A a \in ToSet(chain) : a < handed
  /\ intact => handed <= db.revealed
  /\ sync \in {"blocks", "persist"} => db.revealed <= memory.revealed
  /\ sync \in {"scan", "refresh", "mark"} => ToSet(seen) \subseteq ToSet(chain)
  /\ sync = "mark" /\ intact => ToSet(seen) \subseteq db.known

\* What seen is between two syncs.
LEMMA EmptyIsSeq == <<>> \in Seq(Addresses)
  OBVIOUS

\* A new database is good.
LEMMA EmptyDbGood ==
  ASSUME NEW n \in Nat
  PROVE  GoodDb(EmptyDb, n)
  BY WalletAssumption DEF GoodDb, EmptyDb

\* Revealing further addresses keeps a database good.
LEMMA RevealKeeps ==
  ASSUME NEW d, NEW m, GoodDb(d, m), NEW n \in Nat, d.revealed + n <= MaxAddresses, NEW e,
         e = [revealed |-> d.revealed + n, known |-> d.known, checkpoint |-> d.checkpoint,
              marked |-> d.marked]
  PROVE  GoodDb(e, m) /\ e.revealed = d.revealed + n
PROOF
  <1>1. d.revealed \in Nat /\ (\A a \in d.known : a \in Nat /\ a < d.revealed)
    BY WalletAssumption DEF GoodDb, Addresses
  <1>2. \A a \in d.known : a < d.revealed + n
    BY <1>1
  <1>3. d.revealed + n \in 0 .. MaxAddresses
    BY <1>1, WalletAssumption
  <1> QED
    BY <1>2, <1>3 DEF GoodDb

\* A longer chain spoils no database.
LEMMA GoodDbLonger ==
  ASSUME NEW d, NEW n \in Nat, NEW k \in Nat, n <= k, GoodDb(d, n)
  PROVE  GoodDb(d, k)
  BY DEF GoodDb

\* A new wallet satisfies the invariant.
LEMMA WalletInit1 == Init => WalletInv
PROOF
  <1> SUFFICES ASSUME Init PROVE WalletInv
    OBVIOUS
  <1>1. Len(chain) = 0 /\ ToSet(chain) = {}
    BY DEF Init, WalletInit, ToSet
  <1>2. GoodDb(EmptyDb, Len(chain))
    BY <1>1, EmptyDbGood
  <1>3. chain \in Seq(Addresses) /\ seen \in Seq(Addresses)
    BY EmptyIsSeq DEF Init, WalletInit
  <1>4. 0 \in 0 .. MaxFaults /\ 0 \in 0 .. MaxAddresses /\ 0 <= 0
    BY WalletAssumption
  <1>5. db = EmptyDb /\ memory = EmptyDb /\ copy = EmptyDb /\ handed = 0 /\ EmptyDb.revealed = 0
    BY DEF Init, WalletInit, EmptyDb
  <1> QED
    BY <1>1, <1>2, <1>3, <1>4, <1>5 DEF Init, WalletInit, WalletInv

\* The steps of sync_core.
LEMMA CoreKeeps ==
  ASSUME WalletInv, SyncCore
  PROVE  WalletInv'
PROOF
  <1> USE DEF WalletInv
  <1>1. CASE BeginCore
    <2>1. db.revealed <= memory'.revealed
      BY <1>1, WalletAssumption DEF BeginCore, GoodDb
    <2> QED
      BY <1>1, <2>1 DEF BeginCore, Ready
  <1>2. CASE ConnectBlock
    <2> DEFINE a == chain[memory.checkpoint + 1]
               e == ScanPayment(memory, a)
    <2>1. Len(chain) \in Nat /\ memory.checkpoint \in Nat
      BY DEF GoodDb
    <2>2. a \in Addresses
      BY <1>2, <2>1 DEF ConnectBlock
    <2>3. /\ GoodDb(e, Len(chain)) /\ e.checkpoint = memory.checkpoint
          /\ memory.revealed <= e.revealed
      BY <2>1, <2>2, ScanPaymentKeeps
    <2>4. memory' = [e EXCEPT !.checkpoint = @ + 1]
      BY <1>2 DEF ConnectBlock
    <2> HIDE DEF e
    <2>5. memory' = [revealed |-> e.revealed, known |-> e.known,
                     checkpoint |-> e.checkpoint + 1, marked |-> e.marked]
      BY <2>3, <2>4 DEF GoodDb
    <2>6. e.checkpoint + 1 \in 0 .. Len(chain)
      BY <1>2, <2>1, <2>3 DEF ConnectBlock
    <2>7. GoodDb(memory', Len(chain)) /\ memory'.revealed = e.revealed
      BY <2>3, <2>5, <2>6 DEF GoodDb
    <2>8. db.revealed <= memory'.revealed
      BY <1>2, <2>3, <2>7 DEF ConnectBlock, GoodDb
    <2> QED
      BY <1>2, <2>7, <2>8 DEF ConnectBlock
  <1>3. CASE EndBlocks
    BY <1>3 DEF EndBlocks
  <1>4. CASE PersistCore
    <2>1. db' = [revealed |-> memory.revealed, known |-> memory.known,
                 checkpoint |-> memory.checkpoint, marked |-> db.marked]
      BY <1>4 DEF PersistCore, GoodDb
    <2>2. GoodDb(db', Len(chain)) /\ db'.revealed = memory.revealed
      BY <2>1 DEF GoodDb
    <2>3. GoodDb(memory', Len(chain))
      BY <1>4, EmptyDbGood DEF PersistCore
    <2>4. intact => handed <= db'.revealed
      BY <1>4, <2>2 DEF PersistCore, GoodDb
    <2> QED
      BY <1>4, <2>2, <2>3, <2>4 DEF PersistCore
  <1> QED
    BY <1>1, <1>2, <1>3, <1>4 DEF SyncCore

\* The steps of sync_electrum.
LEMMA ElectrumKeeps ==
  ASSUME WalletInv, SyncElectrum
  PROVE  WalletInv'
PROOF
  <1> USE DEF WalletInv
  <1>1. CASE BeginElectrum
    BY <1>1 DEF BeginElectrum, Ready, GoodDb
  <1>2. CASE FullScan
    <2>1. /\ GoodDb(db', Len(chain)) /\ db.revealed <= db'.revealed
      BY <1>2, DiscoveredKeeps DEF FullScan
    <2>2. intact => handed <= db'.revealed
      BY <2>1 DEF GoodDb
    <2> QED
      BY <1>2, <2>1, <2>2 DEF FullScan
  <1>3. CASE Refresh
    <2>1. /\ GoodDb(db', Len(chain)) /\ db'.revealed = db.revealed
          /\ db'.known = db.known \cup {a \in ToSet(chain) : a < db.revealed}
      BY <1>3, RefreshedKeeps DEF Refresh
    <2>2. intact => ToSet(seen) \subseteq db'.known
      <3>1. \A a \in ToSet(chain) : a \in Nat
        BY WalletAssumption DEF ToSet, Addresses
      <3>2. intact => \A a \in ToSet(chain) : a < db.revealed
        BY <3>1 DEF GoodDb
      <3> QED
        BY <1>3, <2>1, <3>2 DEF Refresh
    <2>3. /\ UNCHANGED <<device, memory, copy, handed, chain, intact, walletFaults>>
          /\ partial' = FALSE
      BY <1>3 DEF Refresh
    <2>4. CASE discover
      <3>1. sync = "refresh" /\ sync' = "mark" /\ UNCHANGED <<discover, seen, fresh>>
        BY <1>3, <2>4 DEF Refresh
      <3>2. partial' \in BOOLEAN
        BY <2>3
      <3> QED
        BY <2>1, <2>2, <2>3, <3>1, <3>2
    <2>5. CASE ~discover
      <3>1. sync' = "idle" /\ discover' = FALSE /\ seen' = <<>> /\ fresh' = FALSE
        BY <1>3, <2>5 DEF Refresh, EndSync
      <3>2. seen' \in Seq(Addresses)
        BY <3>1, EmptyIsSeq
      <3> QED
        BY <2>1, <2>3, <3>1, <3>2
    <2> QED
      BY <2>4, <2>5
  <1>4. CASE WriteMarker
    <2>1. db' = [revealed |-> db.revealed, known |-> db.known,
                 checkpoint |-> db.checkpoint, marked |-> TRUE]
      <3>1. PICK x, y, z, t : db = [revealed |-> x, known |-> y, checkpoint |-> z, marked |-> t]
        BY DEF GoodDb
      <3> QED
        BY <1>4, <3>1 DEF WriteMarker
    <2>2. GoodDb(db', Len(chain)) /\ db'.revealed = db.revealed
      BY <2>1 DEF GoodDb
    <2>3. /\ sync' = "idle" /\ discover' = FALSE /\ fresh' = FALSE
          /\ UNCHANGED <<device, memory, copy, handed, chain, intact, partial, walletFaults>>
      BY <1>4 DEF WriteMarker, EndSync
    <2>4. seen' \in Seq(Addresses)
      BY <1>4, EmptyIsSeq DEF WriteMarker, EndSync
    <2> QED
      BY <2>2, <2>3, <2>4
  <1> QED
    BY <1>1, <1>2, <1>3, <1>4 DEF SyncElectrum

\* Syncs on both backends, payments, failures, losses and restores keep it.
LEMMA WalletNext == WalletInv /\ [Next]_vars => WalletInv'
PROOF
  <1> SUFFICES ASSUME WalletInv, [Next]_vars PROVE WalletInv'
    OBVIOUS
  <1> USE DEF WalletInv
  <1>1. ASSUME UNCHANGED walletVars PROVE WalletInv'
    BY <1>1 DEF walletVars
  <1>2. ASSUME NEW n \in 1 .. Proposal, Reveal(n) PROVE WalletInv'
    <2>1. n \in Nat /\ db.revealed \in 0 .. MaxAddresses /\ db.revealed + n <= MaxAddresses
      BY <1>2, WalletAssumption DEF Reveal, GoodDb
    <2>2. db' = [revealed |-> db.revealed + n, known |-> db.known,
                 checkpoint |-> db.checkpoint, marked |-> db.marked]
      BY <1>2 DEF Reveal, GoodDb
    <2>3. GoodDb(db', Len(chain)) /\ db'.revealed = db.revealed + n
      BY <2>1, <2>2, RevealKeeps, Zenon
    <2>4. /\ handed' \in 0 .. MaxAddresses /\ handed <= handed'
          /\ intact => handed' <= db.revealed + n
      BY <1>2, <2>1, WalletAssumption DEF Reveal, Greater
    <2>5. \A a \in ToSet(chain) : a < handed'
      <3>1. \A a \in ToSet(chain) : a \in Nat
        BY WalletAssumption DEF ToSet, Addresses
      <3> QED
        BY <3>1, <2>4
    <2> QED
      BY <1>2, <2>3, <2>4, <2>5 DEF Reveal, Ready
  <1>3. ASSUME NEW a \in Addresses, Pay(a) PROVE WalletInv'
    <2>1. chain' \in Seq(Addresses) /\ Len(chain') = Len(chain) + 1 /\ Len(chain) \in Nat
      BY <1>3 DEF Pay
    <2>2. ToSet(chain') = ToSet(chain) \cup {a}
      BY <1>3 DEF Pay, ToSet
    <2>3. /\ GoodDb(db, Len(chain')) /\ GoodDb(memory, Len(chain'))
          /\ GoodDb(copy, Len(chain'))
      BY <2>1, GoodDbLonger
    <2>4. UNCHANGED <<device, db, memory, copy, handed, sync, discover, seen, fresh, intact,
                      partial, walletFaults>> /\ a < handed
      BY <1>3 DEF Pay
    <2> QED
      BY <2>1, <2>2, <2>3, <2>4
  <1>4. CASE CommandFails
    <2>1. GoodDb(memory', Len(chain))
      BY <1>4, EmptyDbGood DEF CommandFails
    <2>2. walletFaults' \in 0 .. MaxFaults
      BY <1>4, WalletAssumption DEF CommandFails
    <2>3. /\ sync' = "idle" /\ discover' = FALSE
          /\ UNCHANGED <<device, db, copy, handed, chain, fresh, intact, partial>>
      BY <1>4 DEF CommandFails, EndSync
    <2>4. seen' \in Seq(Addresses)
      BY <1>4, EmptyIsSeq DEF CommandFails, EndSync
    <2> QED
      BY <2>1, <2>2, <2>3, <2>4
  <1>5. CASE RequestFullScan
    <2>1. db' = [revealed |-> db.revealed, known |-> db.known,
                 checkpoint |-> db.checkpoint, marked |-> FALSE]
      <3>1. PICK x, y, z, t : db = [revealed |-> x, known |-> y, checkpoint |-> z, marked |-> t]
        BY DEF GoodDb
      <3> QED
        BY <1>5, <3>1 DEF RequestFullScan
    <2>2. GoodDb(db', Len(chain)) /\ db'.revealed = db.revealed
      BY <2>1 DEF GoodDb
    <2> QED
      BY <1>5, <2>2 DEF RequestFullScan
  <1>6. CASE SaveCopy
    BY <1>6 DEF SaveCopy
  <1>7. CASE LosePhone
    <2>1. GoodDb(db', Len(chain)) /\ (intact' => db' = db /\ intact)
      BY <1>7, EmptyDbGood DEF LosePhone
    <2>2. sync = "idle" /\ UNCHANGED <<memory, copy, handed, chain, sync, discover, seen,
                                       partial, walletFaults>>
      BY <1>7 DEF LosePhone, Ready
    <2>3. device' \in BOOLEAN /\ fresh' \in BOOLEAN /\ intact' \in BOOLEAN
      BY <1>7 DEF LosePhone
    <2> QED
      BY <2>1, <2>2, <2>3
  <1>8. CASE Restore
    BY <1>8 DEF Restore, RestoreKey
  <1>9. CASE WalletStep
    BY <1>2, <1>3, <1>4, <1>5, <1>6, <1>7, <1>9, CoreKeeps, ElectrumKeeps DEF WalletStep
  <1> QED
    BY <1>1, <1>8, <1>9 DEF Next, HwwDecrypts, FriendDecrypts, vars

\* In every reachable state the wallet's invariant holds.
LEMMA WalletAlways == Spec => []WalletInv
  BY WalletInit1, WalletNext, PTL DEF Spec

----------------------------------------------------------------------------
(* The checkpoint *)

\* A database knows every payment in the blocks that it counts as processed.
Covers(d) == \A i \in 1 .. d.checkpoint : chain[i] \in d.known

\* The persisted database does, and so does what sync_core has in memory.
BlocksInv ==
  intact /\ ~partial => /\ Covers(db)
                        /\ sync \in {"blocks", "persist"} => Covers(memory)

\* Every payment went to an address that a database never lost has revealed.
LEMMA PaidIsRevealed ==
  ASSUME WalletInv, intact
  PROVE  \A a \in ToSet(chain) : a \in Nat /\ a < db.revealed
PROOF
  <1>1. \A a \in ToSet(chain) : a \in Nat
    BY WalletAssumption DEF WalletInv, ToSet, Addresses
  <1>2. handed \in Nat /\ db.revealed \in Nat
    BY WalletAssumption DEF WalletInv, GoodDb
  <1>3. handed <= db.revealed /\ \A a \in ToSet(chain) : a < handed
    BY DEF WalletInv
  <1> QED
    BY <1>1, <1>2, <1>3

\* A block that sync_core applies holds a payment within the lookahead.
LEMMA BlockCovered ==
  ASSUME WalletInv, ConnectBlock, intact, Covers(memory)
  PROVE  Covers(memory)'
PROOF
  <1> DEFINE n == memory.checkpoint
             a == chain[n + 1]
  <1>1. /\ n \in Nat /\ n + 1 \in 1 .. Len(chain) /\ Len(chain) \in Nat
        /\ chain' = chain
    BY DEF WalletInv, GoodDb, ConnectBlock
  <1>2. a \in ToSet(chain)
    BY <1>1 DEF ToSet, WalletInv
  <1>3. a < memory.revealed + Lookahead
    <2>1. a \in Nat /\ a < db.revealed
      BY <1>2, PaidIsRevealed
    <2>2. db.revealed <= memory.revealed /\ db.revealed \in Nat /\ memory.revealed \in Nat
      BY WalletAssumption DEF WalletInv, GoodDb, ConnectBlock
    <2> QED
      BY <2>1, <2>2, WalletAssumption
  <1>4. PICK x, y, z, t : memory = [revealed |-> x, known |-> y, checkpoint |-> z, marked |-> t]
    BY DEF WalletInv, GoodDb
  <1>5. memory'.known = memory.known \cup {a} /\ memory'.checkpoint = n + 1
    BY <1>3, <1>4 DEF ConnectBlock, ScanPayment
  <1>6. \A i \in 1 .. n + 1 : i \in 1 .. n \/ i = n + 1
    BY <1>1
  <1> QED
    BY <1>1, <1>5, <1>6 DEF Covers

\* A refresh knows the whole chain, because all of its addresses are revealed.
LEMMA RefreshCovers ==
  ASSUME WalletInv, Refresh, intact
  PROVE  Covers(db)'
PROOF
  <1>1. chain' = chain /\ chain \in Seq(Addresses)
    BY DEF Refresh, WalletInv
  <1>2. PICK x, y, z, t : db = [revealed |-> x, known |-> y, checkpoint |-> z, marked |-> t]
    BY DEF WalletInv, GoodDb
  <1>3. /\ db'.known = db.known \cup {a \in ToSet(chain) : a < db.revealed}
        /\ db'.checkpoint = Len(chain)
    BY <1>2 DEF Refresh, Refreshed
  <1>4. \A i \in 1 .. Len(chain) : chain[i] \in ToSet(chain)
    BY <1>1 DEF ToSet
  <1> QED
    BY <1>1, <1>3, <1>4, PaidIsRevealed DEF Covers

\* Steps that leave what the database knows and where it stands.
LEMMA CoversKept ==
  ASSUME BlocksInv, intact' => intact, partial' = partial, chain' = chain,
         intact' => db'.known = db.known /\ db'.checkpoint = db.checkpoint,
         sync' \notin {"blocks", "persist"}
  PROVE  BlocksInv'
  BY DEF BlocksInv, Covers

\* Neither backend, in turn and interrupted anywhere, moves the checkpoint past
\* a coin.
LEMMA BlocksNext == WalletInv /\ BlocksInv /\ [Next]_vars => BlocksInv'
PROOF
  <1> SUFFICES ASSUME WalletInv, BlocksInv, [Next]_vars PROVE BlocksInv'
    OBVIOUS
  <1>0. PICK x, y, z, t : db = [revealed |-> x, known |-> y, checkpoint |-> z, marked |-> t]
    BY DEF WalletInv, GoodDb
  <1>1. ASSUME UNCHANGED walletVars PROVE BlocksInv'
    BY <1>1 DEF walletVars, BlocksInv, Covers
  <1>2. ASSUME NEW n \in 1 .. Proposal, Reveal(n) PROVE BlocksInv'
    <2>1. db'.known = db.known /\ db'.checkpoint = db.checkpoint
      BY <1>0, <1>2 DEF Reveal
    <2> QED
      BY <1>2, <2>1, CoversKept DEF Reveal, Ready
  <1>3. ASSUME NEW a \in Addresses, Pay(a) PROVE BlocksInv'
    <2>1. \A i \in 1 .. Len(chain) : chain'[i] = chain[i]
      BY <1>3 DEF Pay, WalletInv
    <2>2. /\ db.checkpoint \in 0 .. Len(chain) /\ memory.checkpoint \in 0 .. Len(chain)
          /\ Len(chain) \in Nat
      BY DEF WalletInv, GoodDb
    <2>3. /\ \A i \in 1 .. db.checkpoint : chain'[i] = chain[i]
          /\ \A i \in 1 .. memory.checkpoint : chain'[i] = chain[i]
      BY <2>1, <2>2
    <2> QED
      BY <1>3, <2>3 DEF Pay, BlocksInv, Covers
  <1>4. CASE SyncCore
    <2>1. CASE BeginCore
      BY <2>1 DEF BeginCore, BlocksInv, Covers
    <2>2. CASE ConnectBlock
      <3>1. UNCHANGED <<db, chain, sync, intact, partial>> /\ sync = "blocks"
        BY <2>2 DEF ConnectBlock
      <3> QED
        BY <2>2, <3>1, BlockCovered DEF BlocksInv, Covers
    <2>3. CASE EndBlocks
      BY <2>3 DEF EndBlocks, BlocksInv, Covers
    <2>4. CASE PersistCore
      <3>1. PICK u, v, w, r :
              memory = [revealed |-> u, known |-> v, checkpoint |-> w, marked |-> r]
        BY DEF WalletInv, GoodDb
      <3>2. db'.known = memory.known /\ db'.checkpoint = memory.checkpoint
        BY <2>4, <3>1 DEF PersistCore
      <3> QED
        BY <2>4, <3>2 DEF PersistCore, BlocksInv, Covers
    <2> QED
      BY <1>4, <2>1, <2>2, <2>3, <2>4 DEF SyncCore
  <1>5. CASE BeginElectrum
    BY <1>5, CoversKept DEF BeginElectrum
  <1>6. CASE FullScan
    BY <1>6 DEF FullScan, BlocksInv
  <1>7. CASE Refresh
    <2>1. intact' = intact /\ sync' \notin {"blocks", "persist"}
      BY <1>7 DEF Refresh, EndSync
    <2> QED
      BY <1>7, <2>1, RefreshCovers DEF BlocksInv
  <1>8. CASE WriteMarker
    <2>1. db'.known = db.known /\ db'.checkpoint = db.checkpoint
      BY <1>0, <1>8 DEF WriteMarker
    <2> QED
      BY <1>8, <2>1, CoversKept DEF WriteMarker, EndSync
  <1>9. CASE CommandFails
    BY <1>9, CoversKept DEF CommandFails, EndSync
  <1>10. CASE RequestFullScan
    <2>1. db'.known = db.known /\ db'.checkpoint = db.checkpoint
      BY <1>0, <1>10 DEF RequestFullScan
    <2> QED
      BY <1>10, <2>1, CoversKept DEF RequestFullScan
  <1>11. CASE SaveCopy
    BY <1>11, CoversKept DEF SaveCopy
  <1>12. CASE LosePhone
    BY <1>12, CoversKept DEF LosePhone, Ready
  <1>13. CASE Restore
    BY <1>13, CoversKept DEF Restore, RestoreKey
  <1>14. CASE WalletStep
    BY <1>2, <1>3, <1>4, <1>5, <1>6, <1>7, <1>8, <1>9, <1>10, <1>11, <1>12, <1>14
       DEF WalletStep, SyncElectrum
  <1> QED
    BY <1>1, <1>13, <1>14 DEF Next, HwwDecrypts, FriendDecrypts, vars

\* While no database is lost and no full scan lacks its refresh, the wallet knows
\* every payment up to its checkpoint, for any stop gap and lookahead and any
\* number of syncs on both backends, failures and restores.
THEOREM NothingSkipped == Spec => []NoBlockSkipped
PROOF
  <1>1. Init => BlocksInv
    BY DEF Init, WalletInit, BlocksInv, Covers, EmptyDb
  <1>2. BlocksInv => NoBlockSkipped
    BY DEF BlocksInv, Covers, NoBlockSkipped
  <1> QED
    BY <1>1, <1>2, WalletAlways, BlocksNext, PTL DEF Spec

----------------------------------------------------------------------------
(* The Electrum scan *)

\* A sync completes by its own last step, not by a failure.
LEMMA CompletingStep ==
  ASSUME WalletInv, [Next]_vars, ElectrumCompletes
  PROVE  \/ sync = "mark" /\ WriteMarker
         \/ sync = "refresh" /\ ~discover /\ Refresh
PROOF
  <1>1. /\ sync \in {"refresh", "mark"} /\ sync' = "idle" /\ walletFaults' = walletFaults
        /\ (sync = "refresh" => ~discover)
    BY DEF ElectrumCompletes
  <1>2. ~CommandFails
    <2>1. walletFaults \in Nat
      BY WalletAssumption DEF WalletInv
    <2>2. walletFaults + 1 # walletFaults
      BY <2>1
    <2> QED
      BY <1>1, <2>2 DEF CommandFails
  <1>3. ~UNCHANGED walletVars
    BY <1>1 DEF walletVars
  <1>4. ~SyncCore
    BY <1>1 DEF SyncCore, BeginCore, ConnectBlock, EndBlocks, PersistCore, Ready
  <1>5. ~BeginElectrum /\ ~FullScan /\ ~RequestFullScan /\ ~LosePhone
    BY <1>1 DEF BeginElectrum, FullScan, RequestFullScan, LosePhone, Ready
  <1>6. ~SaveCopy /\ ~Restore /\ ~\E n \in 1 .. Proposal : Reveal(n)
    BY <1>1 DEF SaveCopy, Restore, RestoreKey, Reveal, Ready
  <1>7. ~\E a \in Addresses : Pay(a)
    BY <1>1 DEF Pay
  <1>8. WriteMarker \/ Refresh
    BY <1>2, <1>3, <1>4, <1>5, <1>6, <1>7
       DEF Next, WalletStep, SyncElectrum, HwwDecrypts, FriendDecrypts, vars
  <1> QED
    BY <1>1, <1>8 DEF WriteMarker, Refresh

\* The marker changes nothing else.
LEMMA MarkerKeepsKnown ==
  ASSUME WalletInv, WriteMarker
  PROVE  db'.known = db.known
PROOF
  <1>1. PICK x, y, z, t : db = [revealed |-> x, known |-> y, checkpoint |-> z, marked |-> t]
    BY DEF WalletInv, GoodDb
  <1> QED
    BY <1>1 DEF WriteMarker

\* While no database is lost, every Electrum sync that completes knows every
\* payment that had arrived when it began, on either side of the stop gap.
THEOREM RevealedFound == Spec => RevealedAreFound
PROOF
  <1>1. ASSUME WalletInv, [Next]_vars, ElectrumCompletes, intact
        PROVE  ToSet(seen) \subseteq db'.known
    <2>1. CASE sync = "mark" /\ WriteMarker
      BY <1>1, <2>1, MarkerKeepsKnown DEF WalletInv
    <2>2. CASE sync = "refresh" /\ Refresh
      <3>1. db'.known = db.known \cup {a \in ToSet(chain) : a < db.revealed}
        BY <1>1, <2>2, RefreshedKeeps DEF Refresh, WalletInv
      <3>2. \A a \in ToSet(chain) : a < db.revealed
        <4>1. \A a \in ToSet(chain) : a \in Nat
          BY <1>1, WalletAssumption DEF ToSet, Addresses, WalletInv
        <4>2. handed \in Nat /\ db.revealed \in Nat
          BY <1>1, WalletAssumption DEF WalletInv, GoodDb
        <4> QED
          BY <1>1, <4>1, <4>2 DEF WalletInv
      <3> QED
        BY <1>1, <2>2, <3>1, <3>2 DEF WalletInv
    <2> QED
      BY <1>1, <2>1, <2>2, CompletingStep
  <1>2. WalletInv /\ [Next]_vars =>
          [ElectrumCompletes /\ intact => ToSet(seen) \subseteq db'.known]_walletVars
    BY <1>1
  <1> QED
    BY <1>2, WalletInit1, WalletNext, PTL DEF Spec, RevealedAreFound

\* A fresh database has no marker, so a sync that starts on it discovers; from
\* the scan on it knows what the chain it began with could show.
ScanInv ==
  /\ fresh => ~db.marked
  /\ sync = "refresh" /\ fresh => discover
  /\ sync \in {"scan", "mark"} => discover
  /\ sync \in {"refresh", "mark"} /\ discover => Reached(seen) \subseteq db.known

\* More history closes gaps and opens none.
LEMMA ReachedGrows ==
  ASSUME NEW s, NEW t, ToSet(s) \subseteq ToSet(t)
  PROVE  Reached(s) \subseteq Reached(t)
  BY DEF Reached

\* A new database has no marker.
LEMMA ScanInit == Init => ScanInv
  BY DEF Init, WalletInit, ScanInv, EmptyDb

\* The marker is written only after a full scan, whatever fails in between.
LEMMA ScanNext == WalletInv /\ ScanInv /\ [Next]_vars => ScanInv'
PROOF
  <1> SUFFICES ASSUME WalletInv, ScanInv, [Next]_vars PROVE ScanInv'
    OBVIOUS
  <1> USE DEF ScanInv
  <1>1. ASSUME UNCHANGED walletVars PROVE ScanInv'
    BY <1>1 DEF walletVars
  <1>2. ASSUME NEW n \in 1 .. Proposal, Reveal(n) PROVE ScanInv'
    <2>1. db'.marked = db.marked
      BY <1>2 DEF Reveal, WalletInv, GoodDb
    <2> QED
      BY <1>2, <2>1 DEF Reveal, Ready
  <1>3. ASSUME NEW a \in Addresses, Pay(a) PROVE ScanInv'
    BY <1>3 DEF Pay
  <1>4. CASE SyncCore
    <2>1. CASE PersistCore
      <3>1. db'.marked = db.marked
        BY <2>1 DEF PersistCore, WalletInv, GoodDb
      <3> QED
        BY <2>1, <3>1 DEF PersistCore
    <2> QED
      BY <1>4, <2>1 DEF SyncCore, BeginCore, ConnectBlock, EndBlocks, Ready
  <1>5. CASE BeginElectrum
    BY <1>5 DEF BeginElectrum, Ready
  <1>6. CASE FullScan
    <2>1. Reached(seen) \subseteq Reached(chain)
      BY <1>6, ReachedGrows DEF FullScan, WalletInv
    <2>2. db'.known = db.known \cup Reached(chain) /\ db'.marked = db.marked
      BY <1>6, DiscoveredKeeps DEF FullScan, WalletInv
    <2> QED
      BY <1>6, <2>1, <2>2 DEF FullScan
  <1>7. CASE Refresh
    <2>1. db'.marked = db.marked /\ db.known \subseteq db'.known
      BY <1>7, RefreshedKeeps DEF Refresh, WalletInv
    <2>2. CASE discover
      BY <1>7, <2>1, <2>2 DEF Refresh
    <2>3. CASE ~discover
      BY <1>7, <2>3 DEF Refresh, EndSync
    <2> QED
      BY <2>2, <2>3
  <1>8. CASE WriteMarker
    BY <1>8 DEF WriteMarker, EndSync
  <1>9. CASE CommandFails
    BY <1>9 DEF CommandFails, EndSync
  <1>10. CASE RequestFullScan
    <2>1. db'.marked = FALSE
      <3>1. PICK x, y, z, t : db = [revealed |-> x, known |-> y, checkpoint |-> z, marked |-> t]
        BY DEF WalletInv, GoodDb
      <3> QED
        BY <1>10, <3>1 DEF RequestFullScan
    <2> QED
      BY <1>10, <2>1 DEF RequestFullScan
  <1>11. CASE SaveCopy
    BY <1>11 DEF SaveCopy
  <1>12. CASE LosePhone
    <2>1. fresh' => ~db'.marked
      <3>1. fresh' => db' = EmptyDb
        BY <1>12 DEF LosePhone
      <3>2. ~EmptyDb.marked
        BY DEF EmptyDb
      <3> QED
        BY <3>1, <3>2
    <2> QED
      BY <1>12, <2>1 DEF LosePhone, Ready
  <1>13. CASE Restore
    BY <1>13 DEF Restore, RestoreKey
  <1>14. CASE WalletStep
    BY <1>2, <1>3, <1>4, <1>5, <1>6, <1>7, <1>8, <1>9, <1>10, <1>11, <1>12, <1>14
       DEF WalletStep, SyncElectrum
  <1> QED
    BY <1>1, <1>13, <1>14 DEF Next, HwwDecrypts, FriendDecrypts, vars

\* However often the scan of a restored phone is interrupted, the first Electrum
\* sync that completes knows every coin within the stop gap.
THEOREM ScanIsRepeated == Spec => RestoreDiscovers
PROOF
  <1>1. ASSUME WalletInv, ScanInv, [Next]_vars, ElectrumCompletes, fresh
        PROVE  Reached(seen) \subseteq db'.known
    <2>1. sync = "mark" /\ WriteMarker
      BY <1>1, CompletingStep DEF ScanInv
    <2> QED
      BY <1>1, <2>1, MarkerKeepsKnown DEF ScanInv
  <1>2. WalletInv /\ ScanInv /\ [Next]_vars =>
          [ElectrumCompletes /\ fresh => Reached(seen) \subseteq db'.known]_walletVars
    BY <1>1
  <1> QED
    BY <1>2, WalletInit1, WalletNext, ScanInit, ScanNext, PTL DEF Spec, RestoreDiscovers

----------------------------------------------------------------------------
(* Types *)

\* A file as CloudTypeOK has it.
FileOK(file) ==
  /\ file.format \in {"missing", "legacy", "envelope"}
  /\ file.friends \subseteq Friends /\ file.manifest \subseteq Friends

\* CloudTypeOK with the recovery packages, which is inductive by itself.
CloudTypes ==
  /\ config \in BOOLEAN /\ altered \in BOOLEAN /\ package \in BOOLEAN
  /\ FileOK(cloud) /\ FileOK(open)
  /\ hww \in {"idle", "create", "loaded"}
  /\ added \subseteq Friends
  /\ cloudFaults \in 0 .. MaxCloudFaults

\* The files that the commands write.
LEMMA FilesOK ==
  /\ FileOK(NoFile) /\ FileOK(LegacyFile)
  /\ \A friends \in SUBSET Friends, manifest \in SUBSET Friends :
       FileOK(Envelope(friends, manifest))
  BY DEF FileOK, NoFile, LegacyFile, Envelope

\* The cloud file is typed at first.
LEMMA CloudTypesInit == Init => CloudTypes
PROOF
  <1> SUFFICES ASSUME Init PROVE CloudTypes
    OBVIOUS
  <1>1. cloudFaults \in 0 .. MaxCloudFaults
    BY CloudAssumption DEF Init, CloudInit
  <1>2. config \in BOOLEAN /\ altered \in BOOLEAN /\ package \in BOOLEAN
    BY DEF Init, CloudInit
  <1> QED
    BY <1>1, <1>2, FilesOK DEF Init, CloudInit, CloudTypes

\* The cloud file and the copy in memory stay typed.
LEMMA CloudTypesNext == CloudTypes /\ [Next]_vars => CloudTypes'
PROOF
  <1> SUFFICES ASSUME CloudTypes, [Next]_vars PROVE CloudTypes'
    OBVIOUS
  <1> USE DEF CloudTypes
  <1>1. package' \in BOOLEAN
    BY Zenon DEF Next, HwwDecrypts, FriendDecrypts, Restore, vars
  <1>2. ASSUME UNCHANGED cloudVars PROVE CloudTypes'
    BY <1>1, <1>2 DEF cloudVars
  <1>3. CASE InitVault
    BY <1>1, <1>3 DEF InitVault
  <1>4. CASE CreateBackup
    BY <1>1, <1>4, FilesOK DEF CreateBackup, NewBackup
  <1>5. CASE Load
    <2>1. FileOK(Migrated(cloud))
      BY FilesOK DEF Migrated, NewBackup
    <2> QED
      BY <1>1, <1>5, <2>1 DEF Load
  <1>6. CASE CloseBackup
    BY <1>1, <1>6, FilesOK DEF CloseBackup
  <1>7. CASE HwwCrash
    <2>1. cloudFaults' \in 0 .. MaxCloudFaults
      BY <1>7, CloudAssumption DEF HwwCrash
    <2> QED
      BY <1>1, <1>7, <2>1 DEF HwwCrash
  <1>8. CASE ListEdited
    <2>1. FileOK(cloud')
      BY <1>8, FilesOK DEF ListEdited, FileOK
    <2> QED
      BY <1>1, <1>8, <2>1 DEF ListEdited
  <1>9. ASSUME NEW f \in Friends, AddFriend(f) PROVE CloudTypes'
    <2>1. FileOK(cloud') /\ FileOK(open') /\ added' \subseteq Friends
      BY <1>9, FilesOK DEF AddFriend, NewBackup, FileOK
    <2> QED
      BY <1>1, <1>9, <2>1 DEF AddFriend
  <1>10. CASE CloudStep
    BY <1>3, <1>4, <1>5, <1>6, <1>7, <1>8, <1>9, <1>10 DEF CloudStep
  <1> QED
    BY <1>2, <1>10 DEF Next, HwwDecrypts, FriendDecrypts, Restore, vars

\* Every variable keeps its type; in particular no sync counts a block twice
\* or one that is not there, and none reveals an address out of range.
THEOREM TypeCorrect == Spec => []TypeOK
PROOF
  <1>1. WalletInv => WalletTypeOK
    BY DEF WalletInv, WalletTypeOK, GoodDb
  <1>2. CloudTypes => CloudTypeOK /\ package \in BOOLEAN
    BY DEF CloudTypes, CloudTypeOK, FileOK
  <1>3. WalletInv /\ CloudTypes => TypeOK
    BY <1>1, <1>2 DEF TypeOK
  <1> QED
    BY <1>3, WalletInit1, WalletNext, CloudTypesInit, CloudTypesNext, PTL DEF Spec
=============================================================================
