----------------------------- MODULE HotWallet -----------------------------
(***************************************************************************)
(* The phone's hot wallet (hot_wallet/wallet.rs): which of the addresses   *)
(* derived from its seed the wallet database has revealed, which coins it  *)
(* knows, and how a sync with either backend, a failure in the middle of   *)
(* it, a lost phone and a restored key change that.                        *)
(*                                                                         *)
(* An address is its derivation index on the receive chain; the change     *)
(* chain works alike.  The chain is the sequence of first payments to the  *)
(* seed's addresses.  Every command opens the database, so a missing one   *)
(* is created where it is first used.  Amounts are left out.               *)
(***************************************************************************)
EXTENDS Naturals, Sequences, SequencesExt, FiniteSetsExt

CONSTANTS
  MaxAddresses,  \* bound: addresses of the seed that are ever used
  MaxPayments,   \* bound: payments to them
  StopGap,       \* RECOVERY_STOP_GAP: 100
  Lookahead,     \* addresses a block scan watches beyond the revealed: 25
  Proposal,      \* addresses that a policy proposal reserves: 13
  MaxFaults      \* bound: interrupted or failed commands

ASSUME WalletAssumption ==
  /\ MaxAddresses \in Nat /\ MaxPayments \in Nat /\ MaxFaults \in Nat
  /\ StopGap \in Nat \ {0} /\ Lookahead \in Nat \ {0} /\ Proposal \in Nat \ {0}

Addresses == 0 .. MaxAddresses - 1

VARIABLES
  device,    \* the phone's key file exists
  db,        \* the database on disk
  memory,    \* the wallet in memory while sync_core reads blocks
  copy,      \* an older copy of it
  handed,    \* addresses ever given out: 0 .. handed - 1
  chain,     \* first payments to them, in block order
  sync,      \* what the phone's command does next
  discover,  \* the running sync began without the marker
  seen,      \* history: the chain when the running sync began
  fresh,     \* history: the database is new, or a restore asked for a scan,
             \* and no Electrum sync has completed since
  intact,    \* history: no database was ever lost or replaced by the copy
  partial,   \* history: the database holds a full scan that no refresh followed
  walletFaults

walletVars == <<device, db, memory, copy, handed, chain, sync, discover, seen, fresh,
                intact, partial, walletFaults>>

----------------------------------------------------------------------------
(* Databases *)

\* revealed: number of revealed addresses.  known: addresses whose coins the
\* wallet has.  checkpoint: payments in the blocks it has processed.  marked:
\* the row of anzen_sync_state.
EmptyDb == [revealed |-> 0, known |-> {}, checkpoint |-> 0, marked |-> FALSE]

Greater(a, b) == IF a >= b THEN a ELSE b

\* The addresses with history that a scan from index 0 reaches before it has
\* met StopGap unused ones in a row.
Reached(payments) ==
  LET used == ToSet(payments)
  IN {a \in used : ~\E b \in 0 .. a - StopGap :
                      used \cap (b .. b + StopGap - 1) = {}}

\* apply_update after full_scan: reveals up to the last address found.
Discovered(d, payments) ==
  LET found == Reached(payments)
  IN [d EXCEPT !.known = @ \cup found,
               !.revealed = IF found = {} THEN @ ELSE Greater(@, Max(found) + 1),
               !.checkpoint = Len(payments)]

\* apply_update after start_sync_with_revealed_spks.
Refreshed(d, payments) ==
  [d EXCEPT !.known = @ \cup {a \in ToSet(payments) : a < d.revealed},
            !.checkpoint = Len(payments)]

\* apply_block_connected_to: a payment within the lookahead reveals its
\* address; one beyond it is passed over, and its block is not read again.
ScanPayment(d, a) ==
  IF a < d.revealed + Lookahead
  THEN [d EXCEPT !.known = @ \cup {a}, !.revealed = Greater(@, a + 1)]
  ELSE d

----------------------------------------------------------------------------

WalletInit ==
  /\ device = TRUE
  /\ db = EmptyDb
  /\ memory = EmptyDb
  /\ copy = EmptyDb
  /\ handed = 0
  /\ chain = <<>>
  /\ sync = "idle"
  /\ discover = FALSE
  /\ seen = <<>>
  /\ fresh = TRUE
  /\ intact = TRUE
  /\ partial = FALSE
  /\ walletFaults = 0

Ready == device /\ sync = "idle"

\* The address is handed out and the index is lost with the process.
RevealUnpersisted(n) ==
  /\ Ready
  /\ db.revealed + n <= MaxAddresses
  /\ handed' = Greater(handed, db.revealed + n)
  /\ UNCHANGED <<device, db, memory, copy, chain, sync, discover, seen, fresh, intact, partial,
                 walletFaults>>

\* next_receive_address, n times: revealed and persisted before each address
\* is used.  A proposal reserves several and may stop between two.
Reveal(n) ==
  /\ Ready
  /\ db.revealed + n <= MaxAddresses
  /\ db' = [db EXCEPT !.revealed = @ + n]
  /\ handed' = Greater(handed, db.revealed + n)
  /\ UNCHANGED <<device, memory, copy, chain, sync, discover, seen, fresh, intact,
                 partial, walletFaults>>

\* A payment to an address that was handed out: a receive address, or a
\* reserved one that an allowance or emergency withdrawal pays.
Pay(a) ==
  /\ a < handed
  /\ a \notin ToSet(chain)
  /\ Len(chain) < MaxPayments
  /\ chain' = Append(chain, a)
  /\ UNCHANGED <<device, db, memory, copy, handed, sync, discover, seen, fresh, intact, partial,
                 walletFaults>>

----------------------------------------------------------------------------
(* sync_core *)

\* The emitter starts at the tip of the chain.
BeginCoreAtTip ==
  /\ Ready
  /\ memory' = [db EXCEPT !.checkpoint = Len(chain)]
  /\ sync' = "blocks"
  /\ UNCHANGED <<device, db, copy, handed, chain, discover, seen, fresh, intact, partial,
                 walletFaults>>

\* The emitter starts after the blocks that the database has.
BeginCore ==
  /\ Ready
  /\ memory' = db
  /\ sync' = "blocks"
  /\ UNCHANGED <<device, db, copy, handed, chain, discover, seen, fresh, intact, partial,
                 walletFaults>>

\* A block is counted twice.
ConnectBlockTwice ==
  /\ sync = "blocks"
  /\ memory.checkpoint < Len(chain)
  /\ memory' = [ScanPayment(memory, chain[memory.checkpoint + 1]) EXCEPT !.checkpoint = @ + 2]
  /\ UNCHANGED <<device, db, copy, handed, chain, sync, discover, seen, fresh, intact, partial,
                 walletFaults>>

\* One turn of the loop.  Blocks may arrive while it runs.
ConnectBlock ==
  /\ sync = "blocks"
  /\ memory.checkpoint < Len(chain)
  /\ memory' = [ScanPayment(memory, chain[memory.checkpoint + 1]) EXCEPT !.checkpoint = @ + 1]
  /\ UNCHANGED <<device, db, copy, handed, chain, sync, discover, seen, fresh, intact, partial,
                 walletFaults>>

\* next_block has no more.
EndBlocks ==
  /\ sync = "blocks"
  /\ memory.checkpoint = Len(chain)
  /\ sync' = "persist"
  /\ UNCHANGED <<device, db, memory, copy, handed, chain, discover, seen, fresh, intact, partial,
                 walletFaults>>

\* Nothing is persisted before the last block: a failure leaves no trace.
PersistCore ==
  /\ sync = "persist"
  /\ db' = [memory EXCEPT !.marked = db.marked]
  /\ memory' = EmptyDb
  /\ sync' = "idle"
  /\ UNCHANGED <<device, copy, handed, chain, discover, seen, fresh, intact, partial,
                 walletFaults>>

SyncCore == BeginCore \/ ConnectBlock \/ EndBlocks \/ PersistCore

----------------------------------------------------------------------------
(* sync_electrum *)

EndSync == sync' = "idle" /\ discover' = FALSE /\ seen' = <<>>

\* The marker is written when the scan starts.
BeginElectrumMarked ==
  /\ Ready
  /\ discover' = ~db.marked
  /\ sync' = IF db.marked THEN "refresh" ELSE "scan"
  /\ db' = [db EXCEPT !.marked = TRUE]
  /\ seen' = chain
  /\ UNCHANGED <<device, memory, copy, handed, chain, fresh, intact, partial, walletFaults>>

BeginElectrum ==
  /\ Ready
  /\ discover' = ~db.marked
  /\ sync' = IF db.marked THEN "refresh" ELSE "scan"
  /\ seen' = chain
  /\ UNCHANGED <<device, db, memory, copy, handed, chain, fresh, intact, partial,
                 walletFaults>>

FullScan ==
  /\ sync = "scan"
  /\ db' = Discovered(db, chain)
  /\ sync' = "refresh"
  /\ partial' = TRUE
  /\ UNCHANGED <<device, memory, copy, handed, chain, discover, seen, fresh, intact,
                 walletFaults>>

\* A sync that found no marker looks at nothing more than it discovered.
RefreshKnown ==
  /\ sync = "refresh"
  /\ db' = IF discover THEN db ELSE Refreshed(db, chain)
  /\ partial' = FALSE
  /\ IF discover
     THEN sync' = "mark" /\ UNCHANGED <<discover, seen, fresh>>
     ELSE EndSync /\ fresh' = FALSE
  /\ UNCHANGED <<device, memory, copy, handed, chain, intact, walletFaults>>

Refresh ==
  /\ sync = "refresh"
  /\ db' = Refreshed(db, chain)
  /\ partial' = FALSE
  /\ IF discover
     THEN sync' = "mark" /\ UNCHANGED <<discover, seen, fresh>>
     ELSE EndSync /\ fresh' = FALSE
  /\ UNCHANGED <<device, memory, copy, handed, chain, intact, walletFaults>>

WriteMarker ==
  /\ sync = "mark"
  /\ db' = [db EXCEPT !.marked = TRUE]
  /\ EndSync
  /\ fresh' = FALSE
  /\ UNCHANGED <<device, memory, copy, handed, chain, intact, partial, walletFaults>>

\* The server, the network or the process fails between two steps; what was
\* persisted stays.
CommandFails ==
  /\ sync # "idle"
  /\ walletFaults < MaxFaults
  /\ walletFaults' = walletFaults + 1
  /\ EndSync
  /\ memory' = EmptyDb
  /\ UNCHANGED <<device, db, copy, handed, chain, fresh, intact, partial>>

SyncElectrum == BeginElectrum \/ FullScan \/ Refresh \/ WriteMarker

----------------------------------------------------------------------------
(* Loss and restore *)

SaveCopy ==
  /\ sync = "idle"
  /\ copy' = db
  /\ UNCHANGED <<device, db, memory, handed, chain, sync, discover, seen, fresh, intact, partial,
                 walletFaults>>

\* The key file is lost, alone, with the database, or with all but an older
\* copy of it.
LosePhone ==
  /\ Ready
  /\ device' = FALSE
  /\ \/ UNCHANGED <<db, intact>>
     \/ db' \in {EmptyDb, copy} /\ intact' = FALSE
  /\ fresh' = (db' = EmptyDb)
  /\ UNCHANGED <<memory, copy, handed, chain, sync, discover, seen, partial, walletFaults>>

\* restore_phone, after its checks: the key file first.
RestoreKey ==
  /\ ~device /\ sync = "idle"
  /\ device' = TRUE
  /\ sync' = "request_scan"
  /\ UNCHANGED <<db, memory, copy, handed, chain, discover, seen, fresh, intact, partial,
                 walletFaults>>

\* request_full_scan.
RequestFullScan ==
  /\ sync = "request_scan"
  /\ db' = [db EXCEPT !.marked = FALSE]
  /\ fresh' = TRUE
  /\ sync' = "idle"
  /\ UNCHANGED <<device, memory, copy, handed, chain, discover, seen, intact, partial,
                 walletFaults>>

WalletStep ==
  \/ \E n \in 1 .. Proposal : Reveal(n)
  \/ SyncCore
  \/ SyncElectrum
  \/ CommandFails
  \/ RequestFullScan
  \/ SaveCopy
  \/ LosePhone
  \/ \E a \in Addresses : Pay(a)

----------------------------------------------------------------------------
(* Properties *)

WalletTypeOK ==
  /\ device \in BOOLEAN /\ discover \in BOOLEAN
  /\ fresh \in BOOLEAN /\ intact \in BOOLEAN /\ partial \in BOOLEAN
  /\ \A d \in {db, memory, copy} :
       /\ d.revealed \in 0 .. MaxAddresses
       /\ d.known \subseteq Addresses
       /\ d.checkpoint \in 0 .. Len(chain)
       /\ d.marked \in BOOLEAN
  /\ handed \in 0 .. MaxAddresses
  /\ chain \in Seq(Addresses) /\ seen \in Seq(Addresses)
  /\ sync \in {"idle", "scan", "refresh", "mark", "blocks", "persist", "request_scan"}
  /\ walletFaults \in 0 .. MaxFaults

\* An Electrum sync ends in this step.
ElectrumCompletes ==
  \/ sync = "refresh" /\ ~discover /\ sync' = "idle" /\ walletFaults' = walletFaults
  \/ sync = "mark" /\ sync' = "idle" /\ walletFaults' = walletFaults

\* The first Electrum sync to complete on a new or restored database, however
\* many failed before it, knows every coin that had arrived when it began and
\* that a scan with the stop gap can reach (sync_electrum's marker).
RestoreDiscovers ==
  [][ElectrumCompletes /\ fresh => Reached(seen) \subseteq db'.known]_walletVars

\* While no database is lost, no Electrum sync that completes misses a coin
\* that had arrived when it began: next_receive_address persists an address
\* before it is used, also across interrupted commands and a restored key, and
\* every sync asks for all revealed addresses, also beyond the stop gap.
RevealedAreFound ==
  [][ElectrumCompletes /\ intact => ToSet(seen) \subseteq db'.known]_walletVars

\* Neither backend moves the persisted checkpoint past a coin: while no database
\* is lost, the wallet knows every payment in the blocks it counts as processed,
\* however syncs of both backends alternate, fail and are repeated.  This is what
\* sync_core relies on, which reads only the blocks after the checkpoint.  It
\* does not hold between the full scan of sync_electrum, which is persisted with
\* the tip as checkpoint, and the refresh that asks for the addresses beyond the
\* stop gap: if that one never happens, sync_core passes over their coins.
NoBlockSkipped ==
  intact /\ ~partial => \A i \in 1 .. db.checkpoint : chain[i] \in db.known
=============================================================================
