---------------------------- MODULE VanityGrind ----------------------------
(***************************************************************************)
(* phone init --vanity (hot_wallet/mod.rs): worker threads walk disjoint   *)
(* strides of the derivation indexes until one finds a vault key whose     *)
(* address starts with the wanted suffix.  They share a stop flag, an      *)
(* attempt counter and the last progress report, all of them atomics, and  *)
(* one channel to the thread that waits, which persists the winner.        *)
(*                                                                         *)
(* A step is one access to shared memory together with the thread's local  *)
(* work before it.  Deriving a key is a lookup in the unknown function     *)
(* key; a bech32 character is CharBits bits of it.                         *)
(***************************************************************************)
EXTENDS Integers, Sequences, FiniteSets, Functions, SequencesExt

CONSTANTS
  Workers,      \* worker_count
  IndexBound,   \* 2^31, the number of unhardened child indexes
  Batch,        \* attempts a worker counts before it publishes them: 4096
  ReportEvery,  \* attempts between two progress reports: 1_000_000
  CharBits,     \* bits of an address character: 5
  WordBits,     \* bits of the key that the search looks at: 32
  KeyBits,      \* bits of an output key: 256
  MaxSuffix,    \* longest suffix that VanityTarget::new accepts: 6
  Keys,         \* output keys
  Wanted        \* wanted suffixes, as sequences of character values

ASSUME SearchAssumption ==
  /\ Workers \in Nat \ {0}
  /\ IndexBound \in Nat
  /\ Batch \in Nat \ {0}
  /\ ReportEvery \in Nat \ {0}

\* The longest suffix fits the word, and the word is a part of the key.
ASSUME KeyAssumption ==
  /\ CharBits \in Nat /\ WordBits \in Nat /\ KeyBits \in Nat /\ MaxSuffix \in Nat
  /\ CharBits * MaxSuffix <= WordBits
  /\ WordBits <= KeyBits
  /\ Keys \subseteq 0 .. 2^KeyBits - 1
  /\ \A s \in Wanted : s \in Seq(0 .. 2^CharBits - 1)

\* What exponentiation is, which the provers do not know.
ASSUME PowersOfTwo ==
  /\ 2^0 = 1
  /\ \A n \in 0 .. KeyBits : 2^(n + 1) = 2 * 2^n

None == -1      \* no index
Failed == -2    \* an error in place of an index

WorkerIds == 0 .. Workers - 1
Indexes == 0 .. IndexBound - 1

VARIABLES
  key, bad,     \* what derivation gives: the output key, or an error
  suffix,       \* the suffix asked for
  hww,          \* the HWW's files: "ready", "missing" or "other_network"
  pc,           \* per worker: what it does next
  index,        \* per worker: the next index to derive
  pending,      \* per worker: attempts not yet published
  total,        \* per worker: the counter's value after its last publication
  previous,     \* per worker: the last report as it read it
  stopped, attempts, lastReport,   \* the shared atomics
  channel,      \* results sent and not received
  reports,      \* progress reports in the order they were printed
  main,         \* the waiting thread
  result,       \* what it received
  device,       \* the phone's key file: the index of its key
  other,        \* a second phone init: "idle", "write" or "done"
  tried,        \* history: the indexes derived without an error
  overlap       \* history: both commands were between their look at the key
                \* file and their write of it

inputVars == <<key, bad, suffix, hww>>
workerVars == <<pc, index, pending, total, previous>>
rival == <<other, overlap>>
vars == <<inputVars, workerVars, stopped, attempts, lastReport, channel,
          reports, main, result, device, tried, rival>>

----------------------------------------------------------------------------
(* The target: VanityTarget *)

\* The characters shifted one by one into a word that holds WordBits bits.
TargetValue(characters) ==
  LET value[n \in 0 .. Len(characters)] ==
        IF n = 0 THEN 0
        ELSE (value[n - 1] * 2^CharBits + characters[n]) % 2^WordBits
  IN value[Len(characters)]

SuffixAccepted ==
  Len(suffix) \in 1 .. MaxSuffix

\* A shift one bit too far.
MatchesShort(k) ==
  LET firstBits == k \div 2^(KeyBits - WordBits)
  IN firstBits \div 2^(WordBits - CharBits * Len(suffix) + 1) = TargetValue(suffix) \div 2

\* The leading word of the key, shifted right until only the target's bits
\* are left.
Matches(k) ==
  LET firstBits == k \div 2^(KeyBits - WordBits)
  IN firstBits \div 2^(WordBits - CharBits * Len(suffix)) = TargetValue(suffix)

\* Character n of the address whose output key is k.
Character(k, n) == (k \div 2^(KeyBits - CharBits * n)) % 2^CharBits

AddressStartsWith(k) ==
  \A n \in 1 .. Len(suffix) : Character(k, n) = suffix[n]

----------------------------------------------------------------------------
(* The command up to the search: initialize_vanity_with_suffix *)

Init ==
  /\ key \in [Indexes -> Keys]
  /\ bad \in {{}} \cup {{i} : i \in Indexes}
  /\ suffix \in Wanted
  /\ hww \in {"ready", "missing", "other_network"}
  /\ pc = [w \in WorkerIds |-> "idle"]
  /\ index = [w \in WorkerIds |-> w]
  /\ pending = [w \in WorkerIds |-> 0]
  /\ total = [w \in WorkerIds |-> 0]
  /\ previous = [w \in WorkerIds |-> 0]
  /\ stopped = FALSE
  /\ attempts = 0
  /\ lastReport = 0
  /\ channel = <<>>
  /\ reports = <<>>
  /\ main = "start"
  /\ result = None
  /\ device = None
  /\ other = "idle"
  /\ tried = {}
  /\ overlap = FALSE

CanStart ==
  device = None /\ hww = "ready" /\ SuffixAccepted

Spawn ==
  /\ main = "start"
  /\ CanStart
  /\ main' = "receive"
  /\ pc' = [w \in WorkerIds |-> "try"]
  /\ UNCHANGED <<inputVars, index, pending, total, previous, stopped, attempts,
                 lastReport, channel, reports, result, device, tried, rival>>

Refuse ==
  /\ main = "start"
  /\ ~CanStart
  /\ main' = "failed"
  /\ UNCHANGED <<inputVars, workerVars, stopped, attempts, lastReport, channel,
                 reports, result, device, tried, rival>>

----------------------------------------------------------------------------
(* One worker *)

Goto(w, label) == pc' = [pc EXCEPT ![w] = label]

StrideSkips == Workers + 1

Stride ==
  Workers

\* The loop's condition reads the flag; then one key is derived and compared.
Try(w) ==
  /\ pc[w] = "try"
  /\ index[w] < IndexBound /\ ~stopped
  /\ \/ /\ index[w] \in bad
        /\ Goto(w, "fail")
        /\ UNCHANGED <<index, pending, tried>>
     \/ /\ index[w] \notin bad
        /\ tried' = tried \cup {index[w]}
        /\ pending' = [pending EXCEPT ![w] = @ + 1]
        /\ \/ /\ Matches(key[index[w]])
              /\ Goto(w, "found")
              /\ UNCHANGED index
           \/ /\ ~Matches(key[index[w]])
              /\ Goto(w, IF pending[w] + 1 = Batch THEN "publish" ELSE "try")
              /\ index' = [index EXCEPT ![w] = @ + Stride]
  /\ UNCHANGED <<inputVars, total, previous, stopped, attempts, lastReport,
                 channel, reports, main, result, device, rival>>

\* Out of indexes, or told to stop: the rest of the attempts is published.
Leave(w) ==
  /\ pc[w] = "try"
  /\ index[w] >= IndexBound \/ stopped
  /\ attempts' = attempts + pending[w]
  /\ pending' = [pending EXCEPT ![w] = 0]
  /\ Goto(w, "done")
  /\ UNCHANGED <<inputVars, index, total, previous, stopped, lastReport,
                 channel, reports, main, result, device, tried, rival>>

\* A match: the attempts first, then the flag, then the channel.
Found(w) ==
  /\ pc[w] = "found"
  /\ attempts' = attempts + pending[w]
  /\ pending' = [pending EXCEPT ![w] = 0]
  /\ Goto(w, "claim")
  /\ UNCHANGED <<inputVars, index, total, previous, stopped, lastReport,
                 channel, reports, main, result, device, tried, rival>>

\* A load and a store in place of the swap.
ClaimUnswapped(w) ==
  /\ pc[w] \in {"claim", "fail"}
  /\ stopped' = TRUE
  /\ Goto(w, IF pc[w] = "claim" THEN "send" ELSE "send_error")
  /\ UNCHANGED <<inputVars, index, pending, total, previous, attempts,
                 lastReport, channel, reports, main, result, device, tried, rival>>

\* stopped.swap(true): only the first worker to get here goes on to send, a
\* match as well as a derivation error.
Claim(w) ==
  /\ pc[w] \in {"claim", "fail"}
  /\ stopped' = TRUE
  /\ Goto(w, CASE stopped -> "done"
               [] ~stopped /\ pc[w] = "claim" -> "send"
               [] OTHER -> "send_error")
  /\ UNCHANGED <<inputVars, index, pending, total, previous, attempts,
                 lastReport, channel, reports, main, result, device, tried, rival>>

Send(w) ==
  /\ pc[w] \in {"send", "send_error"}
  /\ channel' = Append(channel, IF pc[w] = "send" THEN index[w] ELSE Failed)
  /\ Goto(w, "done")
  /\ UNCHANGED <<inputVars, index, pending, total, previous, stopped, attempts,
                 lastReport, reports, main, result, device, tried, rival>>

\* attempts.fetch_add after a full batch.
Publish(w) ==
  /\ pc[w] = "publish"
  /\ attempts' = attempts + pending[w]
  /\ total' = [total EXCEPT ![w] = attempts + pending[w]]
  /\ pending' = [pending EXCEPT ![w] = 0]
  /\ Goto(w, "load_report")
  /\ UNCHANGED <<inputVars, index, previous, stopped, lastReport, channel,
                 reports, main, result, device, tried, rival>>

\* maybe_report_progress: load, compare-exchange, print.  The subtraction
\* saturates at zero.
LoadReport(w) ==
  /\ pc[w] = "load_report"
  /\ previous' = [previous EXCEPT ![w] = lastReport]
  /\ Goto(w, IF total[w] - lastReport >= ReportEvery THEN "exchange" ELSE "try")
  /\ UNCHANGED <<inputVars, index, pending, total, stopped, attempts,
                 lastReport, channel, reports, main, result, device, tried, rival>>

\* A plain store in place of the compare-exchange.
StoreReport(w) ==
  /\ pc[w] = "exchange"
  /\ lastReport' = total[w]
  /\ Goto(w, "print")
  /\ UNCHANGED <<inputVars, index, pending, total, previous, stopped, attempts,
                 channel, reports, main, result, device, tried, rival>>

ExchangeReport(w) ==
  /\ pc[w] = "exchange"
  /\ \/ /\ lastReport = previous[w]
        /\ lastReport' = total[w]
        /\ Goto(w, "print")
     \/ /\ lastReport # previous[w]
        /\ Goto(w, "try")
        /\ UNCHANGED lastReport
  /\ UNCHANGED <<inputVars, index, pending, total, previous, stopped, attempts,
                 channel, reports, main, result, device, tried, rival>>

PrintReport(w) ==
  /\ pc[w] = "print"
  /\ reports' = Append(reports, total[w])
  /\ Goto(w, "try")
  /\ UNCHANGED <<inputVars, index, pending, total, previous, stopped, attempts,
                 lastReport, channel, main, result, device, tried, rival>>

WorkerStep(w) ==
  \/ Try(w) \/ Leave(w) \/ Found(w) \/ Claim(w) \/ Send(w)
  \/ Publish(w) \/ LoadReport(w) \/ ExchangeReport(w) \/ PrintReport(w)

----------------------------------------------------------------------------
(* The waiting thread *)

AllDone == \A w \in WorkerIds : pc[w] = "done"

Receive ==
  /\ main = "receive"
  /\ channel # <<>>
  /\ result' = Head(channel)
  /\ channel' = Tail(channel)
  /\ main' = "join"
  /\ UNCHANGED <<inputVars, workerVars, stopped, attempts, lastReport, reports,
                 device, tried, rival>>

\* The waiting thread keeps its own sender.
DisconnectedNever ==
  main = "receive" /\ FALSE /\ UNCHANGED vars

\* recv fails once every sender is gone: the indexes are exhausted.
Disconnected ==
  /\ main = "receive"
  /\ channel = <<>>
  /\ AllDone
  /\ result' = Failed
  /\ main' = "join"
  /\ UNCHANGED <<inputVars, workerVars, stopped, attempts, lastReport, channel,
                 reports, device, tried, rival>>

\* The scope returns as soon as it has a result.
JoinNobody ==
  /\ main = "join"
  /\ main' = IF result = Failed THEN "failed" ELSE "check"
  /\ UNCHANGED <<inputVars, workerVars, stopped, attempts, lastReport, channel,
                 reports, result, device, tried, rival>>

\* The scope joins every worker before it returns.
Join ==
  /\ main = "join"
  /\ AllDone
  /\ main' = IF result = Failed THEN "failed" ELSE "check"
  /\ UNCHANGED <<inputVars, workerVars, stopped, attempts, lastReport, channel,
                 reports, result, device, tried, rival>>

\* The address of the winning key is built again and compared as text.
CheckPrefix ==
  /\ main = "check"
  /\ main' = IF AddressStartsWith(key[result]) THEN "persist" ELSE "not_reproduced"
  /\ UNCHANGED <<inputVars, workerVars, stopped, attempts, lastReport, channel,
                 reports, result, device, tried, rival>>

\* The second look is left out.
PersistUnchecked ==
  /\ main = "persist"
  /\ main' = "write" /\ overlap' = (overlap \/ other = "write")
  /\ UNCHANGED <<inputVars, workerVars, stopped, attempts, lastReport, channel,
                 reports, result, device, other, tried>>

\* persist_phone looks for the key file again: the search may have run for
\* hours since CanStart did.
Persist ==
  /\ main = "persist"
  /\ \/ device = None /\ main' = "write" /\ overlap' = (overlap \/ other = "write")
     \/ device # None /\ main' = "failed" /\ UNCHANGED overlap
  /\ UNCHANGED <<inputVars, workerVars, stopped, attempts, lastReport, channel,
                 reports, result, device, other, tried>>

\* write_json renames its file over whatever is there by then.
WritePhone ==
  /\ main = "write"
  /\ device' = result
  /\ main' = "done"
  /\ UNCHANGED <<inputVars, workerVars, stopped, attempts, lastReport, channel,
                 reports, result, tried, rival>>

\* A plain phone init in another terminal goes through persist_phone as well;
\* its key is at index 0 of another mnemonic, told apart as IndexBound.  It is
\* refused, which changes nothing, when it finds a key file.
OtherPersist ==
  /\ other = "idle"
  /\ device = None
  /\ other' = "write"
  /\ overlap' = (overlap \/ main = "write")
  /\ UNCHANGED <<inputVars, workerVars, stopped, attempts, lastReport, channel,
                 reports, main, result, device, tried>>

OtherWrite ==
  /\ other = "write"
  /\ device' = IndexBound
  /\ other' = "done"
  /\ UNCHANGED <<inputVars, workerVars, stopped, attempts, lastReport, channel,
                 reports, main, result, tried, overlap>>

OtherInit == OtherPersist \/ OtherWrite

Ended == main \in {"done", "failed", "not_reproduced"}

MainStep == Spawn \/ Refuse \/ Receive \/ Disconnected \/ Join \/ CheckPrefix
            \/ Persist \/ WritePhone

Next ==
  \/ \E w \in WorkerIds : WorkerStep(w)
  \/ MainStep
  \/ OtherInit

Spec == Init /\ [][Next]_vars

\* The operating system runs every thread that can run.
FairSpec ==
  /\ Spec
  /\ WF_vars(MainStep)
  /\ \A w \in WorkerIds : WF_vars(WorkerStep(w))

----------------------------------------------------------------------------
(* Properties *)

Labels == {"idle", "try", "fail", "found", "claim", "send", "send_error",
           "publish", "load_report", "exchange", "print", "done"}

TypeOK ==
  /\ pc \in [WorkerIds -> Labels]
  /\ index \in [WorkerIds -> Nat]
  /\ pending \in [WorkerIds -> Nat]
  /\ total \in [WorkerIds -> Nat]
  /\ previous \in [WorkerIds -> Nat]
  /\ stopped \in BOOLEAN
  /\ attempts \in Nat
  /\ lastReport \in Nat
  /\ channel \in Seq(Indexes \cup {Failed})
  /\ reports \in Seq(Nat)
  /\ main \in {"start", "receive", "join", "check", "persist", "write",
               "done", "failed", "not_reproduced"}
  /\ result \in Indexes \cup {None, Failed}
  /\ device \in Indexes \cup {None, IndexBound}
  /\ tried \subseteq Indexes
  /\ other \in {"idle", "write", "done"}
  /\ overlap \in BOOLEAN

\* The workers' race has one winner: whatever the interleaving of finds,
\* errors and the stop flag, one result in all is sent, so none is left in
\* the channel when the search returns.
OneResult ==
  /\ Len(channel) + Cardinality({w \in WorkerIds : pc[w] \in {"send", "send_error"}}) <= 1
  /\ main \notin {"start", "receive"} =>
       /\ channel = <<>>
       /\ \A w \in WorkerIds : pc[w] \notin {"send", "send_error"}

\* The word-and-shift comparison of the workers agrees with the text prefix
\* of the address: the final check never fails, and it is never too late.
PrefixReproduced ==
  main # "not_reproduced"

\* A search that finds nothing although no derivation failed has looked at
\* every index, and none of them matches.
ExhaustiveFailure ==
  (main = "failed" /\ result = Failed /\ bad = {}) =>
    \A i \in Indexes : ~AddressStartsWith(key[i])

\* The number reported with the key, read after the join, is the number of keys
\* that were derived.
CountExact ==
  bad = {} /\ main \in {"check", "persist", "write", "done"} => attempts = Cardinality(tried)

\* No index is derived twice and no attempt is lost or counted twice: at any
\* time the shared counter and the unpublished rest add up to the derivations
\* made, and the number reported is exact if no derivation failed (a worker that
\* ends on an error drops its rest).
AttemptsExact ==
  /\ attempts + FoldFunction(+, 0, pending) = Cardinality(tried)
  /\ CountExact

\* Progress reports are at least ReportEvery attempts apart, whichever
\* workers' publications cross.
ReportsApart ==
  \A i, j \in DOMAIN reports :
    i # j => \/ reports[i] - reports[j] >= ReportEvery
             \/ reports[j] - reports[i] >= ReportEvery

\* The key that a phone init reports is the one in the key file, and stays
\* there, unless both commands had looked before either wrote (there is no lock
\* around the two): in particular a file that appears during the hours of the
\* search is found by the second look and never overwritten, and one of two
\* commands that do not overlap fails.
ReportedKeyKept ==
  ~overlap => /\ main = "done" => device = result
              /\ other = "done" => device = IndexBound

\* Under a fair scheduler the command ends: no worker or wait outlives the
\* stop flag, a failed derivation or the end of the indexes.
SearchEnds ==
  <>Ended
=============================================================================
