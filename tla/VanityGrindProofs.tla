------------------------- MODULE VanityGrindProofs --------------------------
(***************************************************************************)
(* Proofs about VanityGrind, for any number of workers and indexes, any    *)
(* target and any interleaving.                                            *)
(***************************************************************************)
EXTENDS VanityGrind, InductionLemmas, SequenceTheorems

----------------------------------------------------------------------------
(* Types.  TypeOK in the parts that the steps disturb one at a time. *)

WorkersTyped ==
  /\ pc \in [WorkerIds -> Labels]
  /\ index \in [WorkerIds -> Nat]

CountsTyped ==
  /\ pending \in [WorkerIds -> Nat]
  /\ total \in [WorkerIds -> Nat]
  /\ attempts \in Nat

ReportsTyped ==
  /\ previous \in [WorkerIds -> Nat]
  /\ lastReport \in Nat
  /\ reports \in Seq(Nat)

MainTyped ==
  /\ stopped \in BOOLEAN
  /\ channel \in Seq(Indexes \cup {Failed})
  /\ main \in {"start", "receive", "join", "check", "persist", "write",
               "done", "failed", "not_reproduced"}
  /\ result \in Indexes \cup {None, Failed}
  /\ device \in Indexes \cup {None, IndexBound}
  /\ tried \subseteq Indexes
  /\ other \in {"idle", "write", "done"} /\ overlap \in BOOLEAN

\* What is sent is an index that was derived, and what is persisted is what was
\* received.
Derived ==
  /\ \A w \in WorkerIds : pc[w] \in {"found", "claim", "send"} => index[w] \in Indexes
  /\ main = "join" => result # None
  /\ main \in {"check", "persist", "write", "done"} => result \in Indexes

SearchInv == WorkersTyped /\ CountsTyped /\ ReportsTyped /\ MainTyped /\ Derived

\* A natural below the bound is an index.
LEMMA InIndexes == \A i \in Nat : i < IndexBound => i \in Indexes
  BY SearchAssumption DEF Indexes

\* Indexes are naturals.
LEMMA IndexesAreNat == Indexes \subseteq Nat
  BY SearchAssumption DEF Indexes

\* Naturals add up to a natural.
LEMMA SumIsNat == \A a, b \in Nat : a + b \in Nat
  OBVIOUS

\* The empty channel and the empty list of reports are sequences.
LEMMA EmptyIsSeq ==
  ASSUME NEW S
  PROVE  <<>> \in Seq(S)
  OBVIOUS

\* Appending keeps a sequence one of its kind.
LEMMA AppendIsSeq ==
  ASSUME NEW S, NEW seq \in Seq(S), NEW e \in S
  PROVE  Append(seq, e) \in Seq(S)
  OBVIOUS

\* The channel after one send.
LEMMA LenOfOne ==
  ASSUME NEW e
  PROVE  Len(Append(<<>>, e)) = 1
  OBVIOUS

\* The channel after its one result was received.
LEMMA TailOfOne ==
  ASSUME NEW S, NEW seq \in Seq(S), Len(seq) = 1
  PROVE  Tail(seq) = <<>>
<1>1. seq # <<>>
  BY EmptySeq
<1>2. Tail(seq) \in Seq(S) /\ Len(Tail(seq)) = 0
  BY <1>1, HeadTailProperties
<1>3. QED
  BY <1>2, EmptySeq

\* The search is typed before the workers start.
LEMMA SearchInit == Init => SearchInv
<1> SUFFICES ASSUME Init PROVE SearchInv
  OBVIOUS
<1>1. WorkersTyped
  <2>1. \A w \in WorkerIds : w \in Nat
    BY SearchAssumption DEF WorkerIds
  <2>2. QED
    BY <2>1 DEF Init, WorkersTyped, Labels
<1>2. CountsTyped
  BY DEF Init, CountsTyped
<1>3. ReportsTyped
  <2>1. previous = [w \in WorkerIds |-> 0] /\ lastReport = 0 /\ reports = <<>>
    BY DEF Init
  <2>2. QED
    BY <2>1, EmptyIsSeq DEF ReportsTyped
<1>4. MainTyped
  <2>1. /\ stopped = FALSE /\ channel = <<>> /\ main = "start"
        /\ result = None /\ device = None /\ tried = {}
        /\ other = "idle" /\ overlap = FALSE
    BY DEF Init
  <2>2. QED
    BY <2>1, EmptyIsSeq, Zenon DEF MainTyped
<1>5. Derived
  BY DEF Init, Derived
<1>6. QED
  BY <1>1, <1>2, <1>3, <1>4, <1>5 DEF SearchInv

\* A step of a worker keeps its own state typed.
LEMMA WorkersStayTyped ==
  ASSUME WorkersTyped, NEW w \in WorkerIds, WorkerStep(w)
  PROVE  WorkersTyped'
<1> USE DEF WorkersTyped, Labels, Goto
<1>1. CASE Try(w)
  <2>1. index[w] + Workers \in Nat
    <3>1. index[w] \in Nat
      OBVIOUS
    <3>2. Workers \in Nat
      BY SearchAssumption
    <3>3. QED
      BY <3>1, <3>2, SumIsNat, Zenon
  <2>2. index' \in [WorkerIds -> Nat]
    <3>1. index' = index \/ index' = [index EXCEPT ![w] = @ + Workers]
      BY <1>1 DEF Try, Stride
    <3>2. QED
      BY <2>1, <3>1
  <2>3. \E label \in Labels : Goto(w, label)
    BY <1>1 DEF Try
  <2>4. QED
    BY <2>2, <2>3
<1>2. CASE Leave(w)
  BY <1>2 DEF Leave
<1>3. CASE Found(w)
  BY <1>3 DEF Found
<1>4. CASE Claim(w)
  BY <1>4 DEF Claim
<1>5. CASE Send(w)
  BY <1>5 DEF Send
<1>6. CASE Publish(w)
  BY <1>6 DEF Publish
<1>7. CASE LoadReport(w)
  BY <1>7 DEF LoadReport
<1>8. CASE ExchangeReport(w)
  BY <1>8 DEF ExchangeReport
<1>9. CASE PrintReport(w)
  BY <1>9 DEF PrintReport
<1>10. QED
  BY <1>1, <1>2, <1>3, <1>4, <1>5, <1>6, <1>7, <1>8, <1>9 DEF WorkerStep

\* A step of a worker keeps the counts typed.
LEMMA CountsStayTyped ==
  ASSUME CountsTyped, NEW w \in WorkerIds, WorkerStep(w)
  PROVE  CountsTyped'
<1> USE DEF CountsTyped
<1>0. attempts + pending[w] \in Nat /\ pending[w] + 1 \in Nat
  OBVIOUS
<1>1. CASE Try(w)
  BY <1>0, <1>1 DEF Try
<1>2. CASE Leave(w)
  BY <1>0, <1>2 DEF Leave
<1>3. CASE Found(w)
  BY <1>0, <1>3 DEF Found
<1>4. CASE Publish(w)
  BY <1>0, <1>4 DEF Publish
<1>5. CASE Claim(w) \/ Send(w) \/ LoadReport(w) \/ ExchangeReport(w) \/ PrintReport(w)
  BY <1>5 DEF Claim, Send, LoadReport, ExchangeReport, PrintReport
<1>6. QED
  BY <1>1, <1>2, <1>3, <1>4, <1>5 DEF WorkerStep

\* A step of a worker keeps the reports typed.
LEMMA ReportsStayTyped ==
  ASSUME CountsTyped, ReportsTyped, NEW w \in WorkerIds, WorkerStep(w)
  PROVE  ReportsTyped'
<1> USE DEF ReportsTyped
<1>0. total[w] \in Nat
  BY DEF CountsTyped
<1>1. CASE LoadReport(w)
  BY <1>1 DEF LoadReport
<1>2. CASE ExchangeReport(w)
  BY <1>0, <1>2 DEF ExchangeReport
<1>3. CASE PrintReport(w)
  BY <1>0, <1>3 DEF PrintReport
<1>4. CASE Try(w) \/ Leave(w) \/ Found(w) \/ Claim(w) \/ Send(w) \/ Publish(w)
  BY <1>4 DEF Try, Leave, Found, Claim, Send, Publish
<1>5. QED
  BY <1>1, <1>2, <1>3, <1>4 DEF WorkerStep

\* A step of a worker keeps flag, channel and key file typed.
LEMMA MainStaysTyped ==
  ASSUME WorkersTyped, MainTyped, Derived, NEW w \in WorkerIds, WorkerStep(w)
  PROVE  MainTyped'
<1>0. index[w] \in Nat
  BY DEF WorkersTyped
<1>1. CASE Try(w)
  <2>1. index[w] \in Indexes
    BY <1>0, <1>1, InIndexes DEF Try
  <2>2. QED
    BY <1>1, <2>1 DEF Try, MainTyped, rival
<1>2. CASE Send(w)
  <2>1. (IF pc[w] = "send" THEN index[w] ELSE Failed) \in Indexes \cup {Failed}
    BY DEF Derived
  <2>2. channel' \in Seq(Indexes \cup {Failed})
    BY <1>2, <2>1, AppendIsSeq, Zenon DEF Send, MainTyped
  <2>3. QED
    BY <1>2, <2>2 DEF Send, MainTyped, rival
<1>3. CASE Claim(w)
  BY <1>3 DEF Claim, MainTyped, rival
<1>4. CASE Leave(w) \/ Found(w) \/ Publish(w) \/ LoadReport(w)
             \/ ExchangeReport(w) \/ PrintReport(w)
  BY <1>4 DEF Leave, Found, Publish, LoadReport, ExchangeReport, PrintReport, MainTyped, rival
<1>5. QED
  BY <1>1, <1>2, <1>3, <1>4 DEF WorkerStep

\* A worker sends only an index that it derived.
LEMMA StaysDerived ==
  ASSUME WorkersTyped, Derived, NEW w \in WorkerIds, WorkerStep(w)
  PROVE  Derived'
<1> USE DEF Derived, Goto
<1>0. index[w] \in Nat /\ pc \in [WorkerIds -> Labels] /\ index \in [WorkerIds -> Nat]
  BY DEF WorkersTyped
<1>1. CASE Try(w)
  <2>1. index[w] \in Indexes
    BY <1>0, <1>1, InIndexes DEF Try
  <2>2. QED
    BY <1>0, <1>1, <2>1 DEF Try
<1>2. CASE Leave(w)
  BY <1>0, <1>2 DEF Leave
<1>3. CASE Found(w)
  BY <1>0, <1>3 DEF Found
<1>4. CASE Claim(w)
  BY <1>0, <1>4 DEF Claim
<1>5. CASE Send(w)
  BY <1>0, <1>5 DEF Send
<1>6. CASE Publish(w)
  BY <1>0, <1>6 DEF Publish
<1>7. CASE LoadReport(w)
  BY <1>0, <1>7 DEF LoadReport
<1>8. CASE ExchangeReport(w)
  BY <1>0, <1>8 DEF ExchangeReport
<1>9. CASE PrintReport(w)
  BY <1>0, <1>9 DEF PrintReport
<1>10. QED
  BY <1>1, <1>2, <1>3, <1>4, <1>5, <1>6, <1>7, <1>8, <1>9 DEF WorkerStep

\* The waiting thread and another command keep everything typed.
LEMMA OthersTyped ==
  ASSUME SearchInv, MainStep \/ OtherInit
  PROVE  SearchInv'
<1> USE DEF SearchInv
<1>1. CASE Spawn
  <2>1. WorkersTyped'
    BY <1>1, Zenon DEF Spawn, WorkersTyped, Labels
  <2>2. CountsTyped' /\ ReportsTyped' /\ MainTyped'
    BY <1>1 DEF Spawn, CountsTyped, ReportsTyped, MainTyped, workerVars, rival
  <2>3. Derived'
    BY <1>1 DEF Spawn, Derived
  <2>4. QED
    BY <2>1, <2>2, <2>3
<1>2. ASSUME MainStep \/ OtherInit, ~Spawn
      PROVE  WorkersTyped' /\ CountsTyped' /\ ReportsTyped'
  BY <1>2, Zenon
  DEF MainStep, OtherInit, OtherPersist, OtherWrite, Refuse, Receive, Disconnected, Join,
      CheckPrefix, Persist, WritePhone, workerVars, WorkersTyped, CountsTyped,
      ReportsTyped
<1>3. CASE Refuse
  BY <1>2, <1>3 DEF Refuse, Spawn, MainStep, workerVars, MainTyped, Derived, rival
<1>4. CASE Receive
  <2>1. channel \in Seq(Indexes \cup {Failed}) /\ channel # <<>>
    BY <1>4 DEF Receive, MainTyped
  <2>2. Head(channel) \in Indexes \cup {Failed} /\ Tail(channel) \in Seq(Indexes \cup {Failed})
    BY <2>1
  <2>3. result' # None
    BY <1>4, <2>2, IndexesAreNat DEF Receive, None, Failed
  <2>4. MainTyped'
    BY <1>4, <2>2 DEF Receive, MainTyped, rival
  <2>5. Derived'
    BY <1>4, <2>3 DEF Receive, Derived, workerVars
  <2>6. QED
    BY <1>2, <1>4, <2>4, <2>5 DEF Receive, Spawn, MainStep
<1>5. CASE Disconnected
  <2>1. Failed # None
    BY DEF Failed, None
  <2>2. QED
    BY <1>2, <1>5, <2>1 DEF Disconnected, Spawn, MainStep, workerVars, MainTyped, Derived, rival
<1>6. CASE Join
  BY <1>2, <1>6 DEF Join, Spawn, MainStep, workerVars, MainTyped, Derived, rival
<1>7. CASE CheckPrefix
  BY <1>2, <1>7 DEF CheckPrefix, Spawn, MainStep, workerVars, MainTyped, Derived, rival
<1>8. CASE Persist \/ WritePhone
  BY <1>2, <1>8 DEF Persist, WritePhone, Spawn, MainStep, workerVars, MainTyped, Derived, rival
<1>9. CASE OtherInit
  BY <1>2, <1>9 DEF OtherInit, OtherPersist, OtherWrite, Spawn, MainStep, workerVars,
                    MainTyped, Derived, rival
<1>10. QED
  BY <1>1, <1>3, <1>4, <1>5, <1>6, <1>7, <1>8, <1>9 DEF MainStep

\* Every step keeps the search typed.
LEMMA SearchNext == SearchInv /\ [Next]_vars => SearchInv'
<1> SUFFICES ASSUME SearchInv, [Next]_vars PROVE SearchInv'
  OBVIOUS
<1>1. CASE \E w \in WorkerIds : WorkerStep(w)
  BY <1>1, WorkersStayTyped, CountsStayTyped, ReportsStayTyped, MainStaysTyped, StaysDerived
  DEF SearchInv
<1>2. CASE MainStep \/ OtherInit
  BY <1>2, OthersTyped
<1>3. CASE UNCHANGED vars
  BY <1>3, Zenon DEF vars, rival, workerVars, SearchInv, WorkersTyped, CountsTyped,
                     ReportsTyped, MainTyped, Derived
<1>4. QED
  BY <1>1, <1>2, <1>3 DEF Next

\* The search is typed in every state.
LEMMA SearchAlways == Spec => []SearchInv
  BY SearchInit, SearchNext, PTL DEF Spec

\* Every thread's state stays well typed: only derived indexes or an error
\* reach the channel of the vanity search, only an index the key file.
THEOREM SearchTyped == Spec => []TypeOK
<1>1. SearchInv => TypeOK
  BY Zenon DEF SearchInv, WorkersTyped, CountsTyped, ReportsTyped, MainTyped, TypeOK
<1>2. QED
  BY SearchAlways, <1>1, PTL

----------------------------------------------------------------------------
(* The race *)

Sending(w) == pc[w] \in {"send", "send_error"}

\* The first swap of the flag makes the one sender; until it has sent, and
\* until what it sent is received, the waiting thread waits.
RaceInv ==
  /\ \A v, w \in WorkerIds : Sending(v) /\ Sending(w) => v = w
  /\ \A w \in WorkerIds : Sending(w) => stopped /\ channel = <<>> /\ main = "receive"
  /\ channel # <<>> => stopped /\ main = "receive" /\ Len(channel) = 1
  /\ main \notin {"start", "receive"} =>
       stopped \/ \A w \in WorkerIds : pc[w] \in {"idle", "done"}
  /\ main = "start" => \A w \in WorkerIds : pc[w] = "idle"

\* At first nobody sends.
LEMMA RaceInit == Init => RaceInv
  BY Zenon DEF Init, RaceInv, Sending

\* A step that moves one worker between labels that do not send.
LEMMA QuietStep ==
  ASSUME WorkersTyped, RaceInv, NEW w \in WorkerIds, NEW label,
         pc[w] \notin {"idle", "done"}, ~Sending(w),
         label \notin {"send", "send_error", "idle"},
         pc' = [pc EXCEPT ![w] = label],
         UNCHANGED <<stopped, channel, main>>
  PROVE  RaceInv'
<1>1. \A v \in WorkerIds : pc'[v] = IF v = w THEN label ELSE pc[v]
  BY DEF WorkersTyped
<1>2. \A v \in WorkerIds : Sending(v)' => Sending(v)
  BY <1>1, Zenon DEF Sending
<1>3. main # "start"
  BY DEF RaceInv
<1>4. main \notin {"start", "receive"} => stopped
  BY DEF RaceInv
<1>5. QED
  BY <1>2, <1>3, <1>4 DEF RaceInv

\* The swap of the stop flag lets one worker send.
LEMMA RaceWorker ==
  ASSUME WorkersTyped, RaceInv, NEW w \in WorkerIds, WorkerStep(w)
  PROVE  RaceInv'
<1>1. CASE Claim(w)
  <2>1. CASE stopped
    BY <1>1, <2>1, QuietStep DEF Claim, Goto, Sending
  <2>2. CASE ~stopped
    <3>1. \A v \in WorkerIds : ~Sending(v)
      BY <2>2 DEF RaceInv
    <3>2. channel = <<>> /\ main = "receive"
      BY <1>1, <2>2 DEF RaceInv, Claim
    <3>3. \A v \in WorkerIds : v # w => pc'[v] = pc[v]
      BY <1>1 DEF Claim, Goto, WorkersTyped
    <3>4. \A v \in WorkerIds : Sending(v)' => v = w
      BY <3>1, <3>3 DEF Sending
    <3>5. stopped' /\ UNCHANGED <<channel, main>>
      BY <1>1 DEF Claim
    <3>6. QED
      BY <3>2, <3>4, <3>5 DEF RaceInv
  <2>3. QED
    BY <2>1, <2>2
<1>2. CASE Send(w)
  <2>1. stopped /\ channel = <<>> /\ main = "receive"
    BY <1>2 DEF Send, RaceInv, Sending
  <2>2. Len(channel') = 1 /\ UNCHANGED <<stopped, main>>
    BY <1>2, <2>1, LenOfOne, Zenon DEF Send
  <2>3. \A v \in WorkerIds : pc'[v] = IF v = w THEN "done" ELSE pc[v]
    BY <1>2 DEF Send, Goto, WorkersTyped
  <2>4. \A v \in WorkerIds : ~Sending(v)'
    BY <1>2, <2>3 DEF Send, RaceInv, Sending
  <2>5. QED
    BY <2>1, <2>2, <2>4 DEF RaceInv
<1>3. CASE Try(w)
  BY <1>3, QuietStep DEF Try, Goto, Sending
<1>4. CASE Leave(w) \/ Found(w) \/ Publish(w)
  BY <1>4, QuietStep DEF Leave, Found, Publish, Goto, Sending
<1>5. CASE LoadReport(w) \/ ExchangeReport(w) \/ PrintReport(w)
  BY <1>5, QuietStep DEF LoadReport, ExchangeReport, PrintReport, Goto, Sending
<1>6. QED
  BY <1>1, <1>2, <1>3, <1>4, <1>5 DEF WorkerStep

\* Receiving the result leaves nobody to send.
LEMMA RaceMain ==
  ASSUME SearchInv, RaceInv, MainStep \/ OtherInit
  PROVE  RaceInv'
<1>1. CASE Spawn
  BY <1>1 DEF Spawn, RaceInv, Sending
<1>2. CASE Refuse
  BY <1>2 DEF Refuse, RaceInv, Sending, workerVars
<1>3. CASE Receive
  <2>1. channel \in Seq(Indexes \cup {Failed}) /\ Len(channel) = 1 /\ stopped
    BY <1>3 DEF Receive, RaceInv, SearchInv, MainTyped
  <2>2. Tail(channel) = <<>>
    BY <2>1, TailOfOne
  <2>3. QED
    BY <1>3, <2>1, <2>2 DEF Receive, RaceInv, Sending, workerVars
<1>4. CASE Disconnected
  BY <1>4 DEF Disconnected, AllDone, RaceInv, Sending, workerVars
<1>5. CASE Join \/ CheckPrefix \/ Persist \/ WritePhone
  BY <1>5 DEF Join, CheckPrefix, Persist, WritePhone, RaceInv, Sending, workerVars
<1>6. CASE OtherInit
  BY <1>6 DEF OtherInit, OtherPersist, OtherWrite, RaceInv, Sending, workerVars
<1>7. QED
  BY <1>1, <1>2, <1>3, <1>4, <1>5, <1>6 DEF MainStep

\* Every step keeps the sender unique.
LEMMA RaceNext == SearchInv /\ RaceInv /\ [Next]_vars => RaceInv'
<1> SUFFICES ASSUME SearchInv, RaceInv, [Next]_vars PROVE RaceInv'
  OBVIOUS
<1>1. CASE \E w \in WorkerIds : WorkerStep(w)
  BY <1>1, RaceWorker DEF SearchInv
<1>2. CASE MainStep \/ OtherInit
  BY <1>2, RaceMain
<1>3. CASE UNCHANGED vars
  BY <1>3, Zenon DEF vars, rival, workerVars, RaceInv, Sending
<1>4. QED
  BY <1>1, <1>2, <1>3 DEF Next

\* The swap of the stop flag lets one result through: for any number of
\* workers, nothing is left in the channel when the search returns.
THEOREM OneWinner == Spec => []OneResult
<1>1. SearchInv /\ RaceInv => OneResult
  <2> SUFFICES ASSUME SearchInv, RaceInv PROVE OneResult
    OBVIOUS
  <2> DEFINE S == {w \in WorkerIds : pc[w] \in {"send", "send_error"}}
  <2>1. channel # <<>> => S = {}
    BY DEF RaceInv, Sending
  <2>2. S = {} \/ \E w \in S : S = {w}
    BY DEF RaceInv, Sending
  <2>3. Cardinality(S) \in {0, 1} /\ (channel # <<>> => Cardinality(S) = 0)
    BY <2>1, <2>2, FS_EmptySet, FS_Singleton
  <2> HIDE DEF S
  <2>4. Len(channel) + Cardinality(S) <= 1
    <3>1. channel = <<>> => Len(channel) = 0
      OBVIOUS
    <3>2. channel # <<>> => Len(channel) = 1
      BY DEF RaceInv
    <3>3. \/ Len(channel) = 0 /\ Cardinality(S) \in {0, 1}
          \/ Len(channel) = 1 /\ Cardinality(S) = 0
      BY <2>3, <3>1, <3>2, Zenon
    <3>4. QED
      BY <3>3
  <2>5. main \notin {"start", "receive"} =>
          channel = <<>> /\ \A w \in WorkerIds : pc[w] \notin {"send", "send_error"}
    BY DEF RaceInv, Sending
  <2>6. QED
    BY <2>4, <2>5 DEF OneResult, S
<1>2. QED
  BY SearchAlways, RaceInit, RaceNext, <1>1, PTL DEF Spec

\* As long as the two commands have not overlapped, one that is about to write
\* is alone and has no file before it, and one that has written is still in
\* place.
KeyInv ==
  ~overlap =>
    /\ ~(main = "write" /\ other = "write")
    /\ main = "write" \/ other = "write" => device = None
    /\ main = "done" => device = result
    /\ other = "done" => device = IndexBound

\* Only the looks and the writes of the two commands matter to it.
LEMMA KeyNext == SearchInv /\ KeyInv /\ [Next]_vars => KeyInv'
<1> SUFFICES ASSUME SearchInv, KeyInv, [Next]_vars PROVE KeyInv'
  OBVIOUS
<1>1. /\ None \notin Indexes /\ IndexBound # None
      /\ main \in {"persist", "write", "done"} => result \in Indexes
  BY IndexesAreNat, SearchAssumption DEF SearchInv, Derived, None
<1>2. CASE Persist
  BY <1>2 DEF Persist, KeyInv
<1>3. CASE WritePhone
  BY <1>1, <1>3 DEF WritePhone, KeyInv, rival
<1>4. CASE OtherPersist
  BY <1>1, <1>4 DEF OtherPersist, KeyInv
<1>5. CASE OtherWrite
  BY <1>1, <1>5 DEF OtherWrite, KeyInv
<1>6. CASE ~(Persist \/ WritePhone \/ OtherInit)
  <2>1. /\ UNCHANGED <<device, other, overlap>>
        /\ main' = main \/ main' \notin {"write", "done"}
        /\ main = "done" => result' = result
    BY <1>6
    DEF Next, WorkerStep, Try, Leave, Found, Claim, Send, Publish, LoadReport,
        ExchangeReport, PrintReport, MainStep, Spawn, Refuse, Receive, Disconnected,
        Join, CheckPrefix, vars, rival
  <2>2. QED
    BY <2>1 DEF KeyInv
<1>7. QED
  BY <1>2, <1>3, <1>4, <1>5, <1>6 DEF OtherInit

\* A key that was reported is lost only if the two commands overlapped between
\* look and write; however long the search took, its second look finds a file
\* that was written meanwhile.
THEOREM KeyFileKept == Spec => []ReportedKeyKept
<1>1. Init => KeyInv
  BY DEF Init, KeyInv
<1>2. KeyInv => ReportedKeyKept
  BY DEF KeyInv, ReportedKeyKept
<1>3. QED
  BY <1>1, <1>2, SearchAlways, KeyNext, PTL DEF Spec
----------------------------------------------------------------------------
(* Progress reports *)

Apart(a, b) == a - b >= ReportEvery \/ b - a >= ReportEvery

\* A count is claimed by a successful exchange and then printed: claims are at
\* most the last report, and apart from each other.  A worker about to exchange
\* has a count well beyond the report it read.
ReportInv ==
  /\ \A w \in WorkerIds : pc[w] = "exchange" => total[w] - previous[w] >= ReportEvery
  /\ \A w \in WorkerIds : pc[w] = "print" =>
       /\ total[w] <= lastReport
       /\ \A i \in DOMAIN reports : Apart(total[w], reports[i])
       /\ \A v \in WorkerIds : v # w /\ pc[v] = "print" => Apart(total[w], total[v])
  /\ \A i \in DOMAIN reports :
       /\ reports[i] <= lastReport
       /\ \A j \in DOMAIN reports : i # j => Apart(reports[i], reports[j])

\* A step after which its worker neither exchanges nor prints.
LEMMA SilentStep ==
  ASSUME SearchInv, ReportInv, NEW w \in WorkerIds, NEW label,
         label \notin {"exchange", "print"}, pc' = [pc EXCEPT ![w] = label],
         \A v \in WorkerIds : v # w => total'[v] = total[v] /\ previous'[v] = previous[v],
         UNCHANGED <<reports, lastReport>>
  PROVE  ReportInv'
<1>1. \A v \in WorkerIds : pc'[v] = IF v = w THEN label ELSE pc[v]
  BY DEF SearchInv, WorkersTyped
<1>2. QED
  BY <1>1 DEF ReportInv

\* One step per action; only a successful exchange makes a claim.
LEMMA ReportWorker ==
  ASSUME SearchInv, ReportInv, NEW w \in WorkerIds, WorkerStep(w)
  PROVE  ReportInv'
<1> USE DEF Goto
<1>0. /\ pc \in [WorkerIds -> Labels] /\ total \in [WorkerIds -> Nat]
      /\ previous \in [WorkerIds -> Nat] /\ lastReport \in Nat /\ reports \in Seq(Nat)
      /\ ReportEvery \in Nat \ {0}
  BY SearchAssumption DEF SearchInv, WorkersTyped, CountsTyped, ReportsTyped
<1>1. CASE Try(w)
  BY <1>1, SilentStep DEF Try
<1>2. CASE Leave(w) \/ Found(w)
  BY <1>2, SilentStep DEF Leave, Found
<1>3. CASE Claim(w) \/ Send(w)
  BY <1>3, SilentStep DEF Claim, Send
<1>4. CASE Publish(w)
  BY <1>0, <1>4, SilentStep DEF Publish
<1>5. CASE LoadReport(w)
  <2>1. CASE total[w] - lastReport >= ReportEvery
    <3>1. \A v \in WorkerIds : /\ pc'[v] = IF v = w THEN "exchange" ELSE pc[v]
                               /\ previous'[v] = IF v = w THEN lastReport ELSE previous[v]
      BY <1>0, <1>5, <2>1 DEF LoadReport
    <3>2. UNCHANGED <<total, reports, lastReport>>
      BY <1>5 DEF LoadReport
    <3>3. QED
      BY <2>1, <3>1, <3>2 DEF ReportInv
  <2>2. CASE ~(total[w] - lastReport >= ReportEvery)
    <3>1. pc' = [pc EXCEPT ![w] = "try"] /\ UNCHANGED <<total, reports, lastReport>>
      BY <1>5, <2>2 DEF LoadReport
    <3>2. \A v \in WorkerIds : v # w => previous'[v] = previous[v]
      BY <1>0, <1>5 DEF LoadReport
    <3>3. QED
      BY <3>1, <3>2, SilentStep
  <2>3. QED
    BY <2>1, <2>2
<1>6. CASE ExchangeReport(w)
  <2>1. CASE lastReport # previous[w]
    BY <1>6, <2>1, SilentStep DEF ExchangeReport
  <2>2. CASE lastReport = previous[w]
    <3>1. /\ \A v \in WorkerIds : pc'[v] = IF v = w THEN "print" ELSE pc[v]
          /\ lastReport' = total[w] /\ UNCHANGED <<total, reports, previous>>
          /\ pc[w] = "exchange"
      BY <1>0, <1>6, <2>2 DEF ExchangeReport
    <3>2. total[w] - lastReport >= ReportEvery
      BY <2>2, <3>1 DEF ReportInv
    <3>3. \A v \in WorkerIds : pc[v] = "print" =>
            total[v] <= lastReport' /\ Apart(total[w], total[v]) /\ Apart(total[v], total[w])
      BY <1>0, <3>1, <3>2 DEF ReportInv, Apart
    <3>4. \A i \in DOMAIN reports :
            reports[i] <= lastReport' /\ Apart(total[w], reports[i])
      <4>1. \A i \in DOMAIN reports : reports[i] \in Nat /\ reports[i] <= lastReport
        BY <1>0 DEF ReportInv
      <4>2. QED
        BY <1>0, <3>1, <3>2, <4>1 DEF Apart
    <3>5. QED
      BY <1>0, <3>1, <3>3, <3>4 DEF ReportInv
  <2>3. QED
    BY <2>1, <2>2
<1>7. CASE PrintReport(w)
  <2>1. /\ \A v \in WorkerIds : pc'[v] = IF v = w THEN "try" ELSE pc[v]
        /\ pc[w] = "print" /\ reports' = Append(reports, total[w])
        /\ UNCHANGED <<total, previous, lastReport>>
    BY <1>0, <1>7 DEF PrintReport
  <2>2. /\ DOMAIN reports' = DOMAIN reports \cup {Len(reports) + 1}
        /\ reports'[Len(reports) + 1] = total[w]
        /\ \A i \in DOMAIN reports : reports'[i] = reports[i]
    BY <1>0, <2>1
  <2>3. \A a, b : Apart(a, b) => Apart(b, a)
    BY DEF Apart
  <2>4. \A v \in WorkerIds : pc'[v] = "print" =>
          \A i \in DOMAIN reports' : Apart(total[v], reports'[i])
    BY <2>1, <2>2, <2>3 DEF ReportInv
  <2>5. \A i \in DOMAIN reports' :
          /\ reports'[i] <= lastReport
          /\ \A j \in DOMAIN reports' : i # j => Apart(reports'[i], reports'[j])
    BY <2>1, <2>2, <2>3 DEF ReportInv
  <2>6. QED
    BY <2>1, <2>4, <2>5 DEF ReportInv
<1>8. QED
  BY <1>1, <1>2, <1>3, <1>4, <1>5, <1>6, <1>7 DEF WorkerStep

\* The waiting thread leaves the reports alone.
LEMMA ReportNext == SearchInv /\ ReportInv /\ [Next]_vars => ReportInv'
<1> SUFFICES ASSUME SearchInv, ReportInv, [Next]_vars PROVE ReportInv'
  OBVIOUS
<1>1. CASE \E w \in WorkerIds : WorkerStep(w)
  BY <1>1, ReportWorker
<1>2. CASE Spawn
  BY <1>2 DEF Spawn, ReportInv
<1>3. CASE UNCHANGED <<workerVars, lastReport, reports>>
  BY <1>3 DEF workerVars, ReportInv
<1>4. QED
  BY <1>1, <1>2, <1>3
  DEF Next, MainStep, Refuse, Receive, Disconnected, Join, CheckPrefix, Persist, WritePhone,
      OtherInit, OtherPersist, OtherWrite, vars, rival

\* Progress reports are at least ReportEvery attempts apart, for any number of
\* workers: the compare-exchange lets one of them claim each interval.
THEOREM ReportsStayApart == Spec => []ReportsApart
<1>1. Init => ReportInv
  BY DEF Init, ReportInv
<1>2. ReportInv => ReportsApart
  BY DEF ReportInv, ReportsApart, Apart
<1>3. QED
  BY SearchAlways, ReportNext, <1>1, <1>2, PTL DEF Spec
----------------------------------------------------------------------------
(* The comparison of bits and the address *)

\* Two to the n, hidden from the provers.
Power(n) == 2^n

\* Powers of two are positive, and what PowersOfTwo says.
LEMMA PowerRules ==
  /\ Power(0) = 1
  /\ \A n \in 0 .. KeyBits : Power(n) \in Nat \ {0}
  /\ \A n \in 0 .. KeyBits : Power(n + 1) = 2 * Power(n)
PROOF
  <1>1. /\ Power(0) = 1
        /\ \A n \in 0 .. KeyBits : Power(n + 1) = 2 * Power(n)
    BY PowersOfTwo DEF Power
  <1> DEFINE S == {n \in 0 .. KeyBits : Power(n) \in Nat \ {0}}
  <1>2. KeyBits \in Nat
    BY KeyAssumption
  <1>3. 0 \in S
    BY <1>1, <1>2
  <1>4. ASSUME NEW n \in 0 .. KeyBits - 1, n \in S PROVE n + 1 \in S
    <2>1. Power(n + 1) = 2 * Power(n) /\ n + 1 \in 0 .. KeyBits
      BY <1>1, <1>2
    <2>2. 2 * Power(n) \in Nat \ {0}
      BY <1>4
    <2> QED
      BY <2>1, <2>2
  <1>5. 0 .. KeyBits \subseteq S
    BY <1>2, <1>3, <1>4, Induction
  <1> QED
    BY <1>1, <1>5

\* The law of exponents.
LEMMA PowerSum ==
  ASSUME NEW a \in Nat, NEW b \in Nat, a + b <= KeyBits
  PROVE  Power(a + b) = Power(a) * Power(b)
PROOF
  <1> DEFINE S == {c \in 0 .. b : Power(a + c) = Power(a) * Power(c)}
  <1>1. KeyBits \in Nat
    BY KeyAssumption
  <1>2. 0 \in S
    <2>1. Power(a) \in Nat
      BY <1>1, PowerRules
    <2>2. Power(a + 0) = Power(a) * Power(0)
      BY <2>1, PowerRules
    <2> QED
      BY <2>2
  <1>3. ASSUME NEW c \in 0 .. b - 1, c \in S PROVE c + 1 \in S
    <2>1. a + c \in 0 .. KeyBits /\ c \in 0 .. KeyBits /\ a \in 0 .. KeyBits
      BY <1>1
    <2>2. Power(a + c) = Power(a) * Power(c)
      BY <1>3
    <2>3. Power(a + c + 1) = 2 * Power(a + c) /\ Power(c + 1) = 2 * Power(c)
      BY <2>1, PowerRules
    <2>4. Power(a) \in Nat /\ Power(c) \in Nat
      BY <2>1, PowerRules
    <2>5. Power(a + c + 1) = Power(a) * Power(c + 1)
      <3>1. \A x, y \in Nat : 2 * (x * y) = x * (2 * y)
        OBVIOUS
      <3> QED
        BY <2>2, <2>3, <2>4, <3>1
    <2>6. a + (c + 1) = a + c + 1
      OBVIOUS
    <2> QED
      BY <2>5, <2>6
  <1>4. 0 .. b \subseteq S
    BY <1>2, <1>3, Induction
  <1> QED
    BY <1>4

\* The word after n turns of VanityTarget::new's loop.
Shifted(v, s) ==
  v = [n \in 0 .. Len(s) |->
         IF n = 0 THEN 0 ELSE (v[n - 1] * 2^CharBits + s[n]) % 2^WordBits]

\* The loop's recursion defines a function, and the target is its last value.
LEMMA LoopDefined ==
  ASSUME NEW s \in Seq(Nat)
  PROVE  \E v : Shifted(v, s) /\ TargetValue(s) = v[Len(s)]
PROOF
  <1> DEFINE Next1(x, n) == (x * 2^CharBits + s[n]) % 2^WordBits
             Upto(m) == \E v : v = [n \in 0 .. m |-> IF n = 0 THEN 0 ELSE Next1(v[n - 1], n)]
             S == {m \in 0 .. Len(s) : Upto(m)}
  <1>1. Len(s) \in Nat
    OBVIOUS
  <1> HIDE DEF Next1
  <1>2. 0 \in S
    <2> DEFINE v == [n \in 0 .. 0 |-> 0]
    <2>1. \A n \in 0 .. 0 : v[n] = IF n = 0 THEN 0 ELSE Next1(v[n - 1], n)
      OBVIOUS
    <2>2. v = [n \in 0 .. 0 |-> IF n = 0 THEN 0 ELSE Next1(v[n - 1], n)]
      <3>1. v = [n \in 0 .. 0 |-> v[n]]
        OBVIOUS
      <3> HIDE DEF v
      <3> QED
        BY <2>1, <3>1
    <2>3. Upto(0)
      <3> HIDE DEF v
      <3> QED
        BY <2>2
    <2>4. 0 \in 0 .. Len(s)
      BY <1>1
    <2> QED
      BY <2>3, <2>4
  <1>3. ASSUME NEW m \in 0 .. Len(s) - 1, m \in S PROVE m + 1 \in S
    <2>1. PICK v : v = [n \in 0 .. m |-> IF n = 0 THEN 0 ELSE Next1(v[n - 1], n)]
      BY <1>3
    <2> DEFINE u == [n \in 0 .. m + 1 |-> IF n = m + 1 THEN Next1(v[m], m + 1) ELSE v[n]]
    <2>2. \A n \in 0 .. m : u[n] = v[n]
      OBVIOUS
    <2>3. ASSUME NEW n \in 0 .. m + 1
          PROVE  u[n] = IF n = 0 THEN 0 ELSE Next1(u[n - 1], n)
      <3>1. CASE n = m + 1
        BY <2>2, <3>1
      <3>2. CASE n # m + 1
        <4>1. n \in 0 .. m
          BY <3>2
        <4>2. u[n] = v[n]
          BY <4>1, <2>2
        <4>3. v[n] = IF n = 0 THEN 0 ELSE Next1(v[n - 1], n)
          BY <2>1, <4>1
        <4>4. n # 0 => v[n - 1] = u[n - 1]
          BY <2>2, <4>1
        <4> QED
          BY <4>2, <4>3, <4>4
      <3> QED
        BY <3>1, <3>2
    <2>4. u = [n \in 0 .. m + 1 |-> IF n = 0 THEN 0 ELSE Next1(u[n - 1], n)]
      <3>1. DOMAIN u = 0 .. m + 1 /\ u = [n \in 0 .. m + 1 |-> u[n]]
        OBVIOUS
      <3> HIDE DEF u
      <3> QED
        BY <2>3, <3>1
    <2>5. Upto(m + 1)
      <3> HIDE DEF u
      <3> QED
        BY <2>4
    <2>6. m + 1 \in 0 .. Len(s)
      BY <1>1
    <2> QED
      BY <2>5, <2>6
  <1>4. Upto(Len(s))
    <2> HIDE DEF Upto
    <2>1. 0 .. Len(s) \subseteq S
      BY <1>1, <1>2, <1>3, Induction
    <2> QED
      BY <1>1, <2>1
  <1> QED
    BY <1>4, Zenon DEF Shifted, TargetValue, Next1

\* The first n characters of an address, as the number that their bits make.
Leading(k, n) == k \div Power(KeyBits - CharBits * n)

\* Division in two steps.
LEMMA DivisionTwice ==
  ASSUME NEW x \in Nat, NEW a \in Nat \ {0}, NEW b \in Nat \ {0}
  PROVE  (x \div a) \div b = x \div (a * b)
  OBVIOUS

\* One character taken off, or put on.
LEMMA DivisionSplits ==
  ASSUME NEW p \in Nat, NEW q \in Nat, NEW b \in Nat \ {0}, NEW d \in 0 .. b - 1
  PROVE  p = q * b + d <=> p \div b = q /\ p % b = d
  OBVIOUS

\* Bits of part of a suffix.
LEMMA ProductGrows ==
  ASSUME NEW c \in Nat, NEW m \in Nat, NEW n \in 0 .. m
  PROVE  c * n \in Nat /\ c * n <= c * m
  OBVIOUS

\* Bits of one more character.
LEMMA ProductStep ==
  ASSUME NEW c \in Nat, NEW n \in Nat
  PROVE  c * (n + 1) = c * n + c
  OBVIOUS

\* A suffix that is accepted fits the word.
LEMMA SuffixFits ==
  ASSUME NEW n \in 0 .. MaxSuffix
  PROVE  CharBits * n \in Nat /\ CharBits * n <= WordBits /\ CharBits * n <= KeyBits
  BY ProductGrows, KeyAssumption

\* Each character of the address is a digit of the leading bits.
LEMMA LeadingStep ==
  ASSUME NEW k \in Nat, NEW n \in 0 .. MaxSuffix - 1
  PROVE  /\ Leading(k, n + 1) \in Nat
         /\ Leading(k, n + 1) \div Power(CharBits) = Leading(k, n)
         /\ Leading(k, n + 1) % Power(CharBits) = Character(k, n + 1)
PROOF
  <1> DEFINE low == KeyBits - CharBits * (n + 1)
  <1>1. /\ CharBits * (n + 1) \in Nat /\ CharBits * (n + 1) <= KeyBits
        /\ CharBits \in Nat /\ KeyBits \in Nat /\ n \in Nat
    BY SuffixFits, KeyAssumption
  <1>2. CharBits * (n + 1) = CharBits * n + CharBits
    BY <1>1, ProductStep
  <1>3. CharBits * n \in Nat
    BY <1>1, SuffixFits, KeyAssumption
  <1>4. low \in 0 .. KeyBits /\ low + CharBits = KeyBits - CharBits * n /\ CharBits \in 0 .. KeyBits
        /\ low + CharBits <= KeyBits
    BY <1>1, <1>2, <1>3
  <1> HIDE DEF low
  <1>5. Power(low) \in Nat \ {0} /\ Power(CharBits) \in Nat \ {0}
    BY <1>4, PowerRules
  <1>6. Power(KeyBits - CharBits * n) = Power(low) * Power(CharBits)
    <2>1. Power(low + CharBits) = Power(low) * Power(CharBits)
      BY <1>1, <1>4, PowerSum
    <2> QED
      BY <1>4, <2>1
  <1>7. (k \div Power(low)) \div Power(CharBits) = k \div (Power(low) * Power(CharBits))
    BY <1>5, DivisionTwice
  <1>8. k \div Power(low) \in Nat
    BY <1>5
  <1>9. /\ Leading(k, n + 1) = k \div Power(low)
        /\ Leading(k, n) = k \div Power(KeyBits - CharBits * n)
    BY DEF Leading, low
  <1>10. Character(k, n + 1) = (k \div Power(low)) % Power(CharBits)
    BY DEF Character, Power, low
  <1> QED
    BY <1>6, <1>7, <1>8, <1>9, <1>10

\* A number below q with one more digit stays below q times the base.
LEMMA ProductBound ==
  ASSUME NEW q \in Nat, NEW b \in Nat \ {0}, NEW x \in 0 .. q - 1, NEW d \in 0 .. b - 1
  PROVE  x * b + d \in 0 .. (q * b) - 1
PROOF
  <1>1. x * b + d \in Nat
    OBVIOUS
  <1>2. (x + 1) * b <= q * b
    <2>1. x + 1 <= q
      OBVIOUS
    <2> QED
      BY <2>1
  <1>3. (x + 1) * b = x * b + b
    OBVIOUS
  <1>4. x * b \in Nat /\ q * b \in Nat
    OBVIOUS
  <1> QED
    BY <1>1, <1>2, <1>3, <1>4

\* No bit of an accepted suffix is shifted out of the word.
LEMMA LoopStep ==
  ASSUME NEW s \in Seq(0 .. Power(CharBits) - 1), Len(s) <= MaxSuffix,
         NEW v, Shifted(v, s)
  PROVE  /\ v[0] = 0
         /\ \A n \in 0 .. Len(s) : v[n] \in Nat
         /\ \A n \in 0 .. Len(s) - 1 : v[n + 1] = v[n] * Power(CharBits) + s[n + 1]
PROOF
  <1> DEFINE c == Power(CharBits)
             S == {n \in 0 .. Len(s) : v[n] \in 0 .. Power(CharBits * n) - 1}
  <1>0. Len(s) \in Nat /\ MaxSuffix \in Nat /\ CharBits \in Nat /\ WordBits \in Nat
        /\ KeyBits \in Nat /\ WordBits <= KeyBits
    BY KeyAssumption
  <1>1. v[0] = 0 /\ \A n \in 0 .. Len(s) - 1 : v[n + 1] = (v[n] * c + s[n + 1]) % Power(WordBits)
    <2>1. \A n \in 0 .. Len(s) :
            v[n] = IF n = 0 THEN 0 ELSE (v[n - 1] * c + s[n]) % Power(WordBits)
      BY DEF Shifted, Power
    <2> HIDE DEF c
    <2>2. v[0] = 0
      BY <2>1, <1>0
    <2>3. ASSUME NEW n \in 0 .. Len(s) - 1
          PROVE  v[n + 1] = (v[n] * c + s[n + 1]) % Power(WordBits)
      <3>1. n + 1 \in 0 .. Len(s) /\ n + 1 # 0 /\ (n + 1) - 1 = n
        BY <1>0
      <3>2. v[n + 1] = (v[(n + 1) - 1] * c + s[n + 1]) % Power(WordBits)
        BY <2>1, <3>1
      <3> QED
        BY <3>1, <3>2
    <2> QED
      BY <2>2, <2>3
  <1>2. ASSUME NEW n \in 0 .. Len(s) - 1, v[n] \in 0 .. Power(CharBits * n) - 1
        PROVE  /\ v[n + 1] = v[n] * c + s[n + 1]
               /\ v[n + 1] \in 0 .. Power(CharBits * (n + 1)) - 1
    <2> DEFINE q == Power(CharBits * n)
               m == CharBits * (n + 1)
    <2>1. /\ CharBits * n \in Nat /\ m \in Nat /\ m <= WordBits /\ m <= KeyBits
          /\ CharBits * n + CharBits = m
      <3>1. n \in 0 .. MaxSuffix /\ n + 1 \in 0 .. MaxSuffix /\ n \in Nat
        BY <1>0
      <3>2. m \in Nat /\ m <= WordBits /\ m <= KeyBits
        BY <3>1, SuffixFits
      <3>3. CharBits * n \in Nat
        BY <3>1, SuffixFits
      <3>4. m = CharBits * n + CharBits
        BY <1>0, <3>1, ProductStep
      <3> QED
        BY <3>2, <3>3, <3>4
    <2>2. Power(m) = q * c
      <3>1. CharBits * n + CharBits <= KeyBits
        BY <2>1
      <3> QED
        BY <1>0, <2>1, <3>1, PowerSum
    <2> HIDE DEF m
    <2>3. CharBits * n \in 0 .. KeyBits /\ CharBits \in 0 .. KeyBits /\ m \in 0 .. KeyBits
          /\ WordBits - m \in 0 .. KeyBits /\ m + (WordBits - m) = WordBits
      BY <1>0, <2>1
    <2>4. q \in Nat \ {0} /\ c \in Nat \ {0} /\ Power(m) \in Nat \ {0}
          /\ Power(WordBits - m) \in Nat \ {0}
      BY <2>3, PowerRules
    <2>5. Power(m) <= Power(WordBits)
      <3>1. Power(WordBits) = Power(m) * Power(WordBits - m)
        BY <1>0, <2>1, <2>3, PowerSum
      <3>2. \A x, y \in Nat \ {0} : x <= x * y
        OBVIOUS
      <3> QED
        BY <2>4, <3>1, <3>2
    <2>6. s[n + 1] \in 0 .. c - 1
      <3> DEFINE digits == 0 .. c - 1
      <3>1. s \in Seq(digits) /\ n + 1 \in 1 .. Len(s)
        BY <1>0
      <3> HIDE DEF digits
      <3>2. s[n + 1] \in digits
        BY <3>1
      <3> QED
        BY <3>2 DEF digits
    <2> HIDE DEF q, c
    <2>7. v[n] * c + s[n + 1] \in 0 .. Power(m) - 1
      <3>1. v[n] \in 0 .. q - 1
        BY <1>2 DEF q
      <3>2. v[n] * c + s[n + 1] \in 0 .. (q * c) - 1
        BY <2>4, <2>6, <3>1, ProductBound
      <3> QED
        BY <2>2, <3>2
    <2>8. Power(WordBits) \in Nat
      BY <1>0, PowerRules
    <2>9. \A x \in Nat, y \in Nat : x < y => x % y = x
      OBVIOUS
    <2>10. (v[n] * c + s[n + 1]) % Power(WordBits) = v[n] * c + s[n + 1]
      <3> DEFINE x == v[n] * c + s[n + 1]
      <3>1. x \in Nat /\ x < Power(WordBits)
        BY <2>4, <2>5, <2>7, <2>8
      <3> HIDE DEF x
      <3>2. x % Power(WordBits) = x
        BY <2>8, <2>9, <3>1
      <3> QED
        BY <3>2 DEF x
    <2> QED
      BY <1>1, <2>7, <2>10 DEF m
  <1>3. 0 \in S
    <2>1. CharBits * 0 = 0
      BY <1>0
    <2>2. v[0] \in 0 .. Power(CharBits * 0) - 1
      BY <1>1, <2>1, PowerRules
    <2> QED
      BY <1>0, <2>2
  <1> HIDE DEF c
  <1>4. \A n \in 0 .. Len(s) - 1 : n \in S => n + 1 \in S
    BY <1>0, <1>2
  <1>5. 0 .. Len(s) \subseteq S
    <2> HIDE DEF S
    <2> QED
      BY <1>0, <1>3, <1>4, Induction
  <1>6. \A n \in 0 .. Len(s) : v[n] \in 0 .. Power(CharBits * n) - 1
    BY <1>5
  <1>7. \A n \in 0 .. Len(s) : v[n] \in Nat
    BY <1>6
  <1>8. \A n \in 0 .. Len(s) - 1 : v[n + 1] = v[n] * c + s[n + 1]
    <2> SUFFICES ASSUME NEW n \in 0 .. Len(s) - 1 PROVE v[n + 1] = v[n] * c + s[n + 1]
      OBVIOUS
    <2>1. n \in 0 .. Len(s)
      BY <1>0
    <2> QED
      BY <2>1, <1>2, <1>6
  <1> QED
    BY <1>1, <1>7, <1>8 DEF c

\* VanityTarget::matches, a shift and a comparison of words, accepts exactly the
\* keys whose address starts with the suffix, for every suffix that is accepted.
LEMMA ComparisonsAgree ==
  ASSUME NEW k \in Keys, suffix \in Wanted, SuffixAccepted
  PROVE  Matches(k) <=> AddressStartsWith(k)
PROOF
  <1> DEFINE c == Power(CharBits)
  <1>1. suffix \in Seq(0 .. c - 1) /\ k \in 0 .. Power(KeyBits) - 1
    BY KeyAssumption DEF Power
  <1>2. /\ Len(suffix) \in Nat /\ Len(suffix) <= MaxSuffix /\ k \in Nat
        /\ MaxSuffix \in Nat /\ KeyBits \in Nat /\ WordBits \in Nat /\ WordBits <= KeyBits
        /\ CharBits \in Nat
    BY <1>1, KeyAssumption DEF SuffixAccepted
  <1>3. c \in Nat \ {0}
    <2>1. CharBits \in 0 .. KeyBits
      <3>1. CharBits * 1 <= KeyBits
        BY <1>2, SuffixFits, KeyAssumption DEF SuffixAccepted
      <3> QED
        BY <1>2, <3>1
    <2> QED
      BY <2>1, PowerRules
  <1>4. PICK v : Shifted(v, suffix) /\ TargetValue(suffix) = v[Len(suffix)]
    <2>1. suffix \in Seq(Nat)
      BY <1>1, <1>3
    <2> QED
      BY <2>1, LoopDefined
  <1>5. /\ v[0] = 0
        /\ \A n \in 0 .. Len(suffix) : v[n] \in Nat
        /\ \A n \in 0 .. Len(suffix) - 1 : v[n + 1] = v[n] * c + suffix[n + 1]
    BY <1>1, <1>2, <1>4, LoopStep
  <1>6. \A i \in 1 .. Len(suffix) : suffix[i] \in 0 .. c - 1
    <2> DEFINE digits == 0 .. c - 1
    <2>1. suffix \in Seq(digits)
      BY <1>1
    <2> HIDE DEF digits
    <2>2. \A i \in 1 .. Len(suffix) : suffix[i] \in digits
      BY <2>1
    <2> QED
      BY <2>2 DEF digits
  <1> HIDE DEF c
  <1> DEFINE Same(n) == Leading(k, n) = v[n] <=> \A i \in 1 .. n : Character(k, i) = suffix[i]
             S == {n \in 0 .. Len(suffix) : Same(n)}
  <1>7. 0 \in S
    <2>1. Leading(k, 0) = k \div Power(KeyBits)
      BY <1>2 DEF Leading
    <2>2. Power(KeyBits) \in Nat \ {0}
      BY <1>2, PowerRules
    <2>3. Leading(k, 0) = 0
      BY <1>1, <2>1, <2>2
    <2> QED
      BY <1>2, <1>5, <2>3
  <1>8. ASSUME NEW n \in 0 .. Len(suffix) - 1, n \in S PROVE n + 1 \in S
    <2>1. n \in 0 .. MaxSuffix - 1 /\ n + 1 \in 1 .. Len(suffix) /\ n + 1 \in 0 .. Len(suffix)
          /\ n \in 0 .. Len(suffix)
      BY <1>2
    <2>2. /\ Leading(k, n + 1) \in Nat
          /\ Leading(k, n + 1) \div c = Leading(k, n)
          /\ Leading(k, n + 1) % c = Character(k, n + 1)
      BY <1>2, <2>1, LeadingStep DEF c
    <2>3. v[n] \in Nat /\ suffix[n + 1] \in 0 .. c - 1
      BY <1>5, <1>6, <2>1
    <2>4. Leading(k, n + 1) = v[n] * c + suffix[n + 1]
            <=> Leading(k, n + 1) \div c = v[n] /\ Leading(k, n + 1) % c = suffix[n + 1]
      <3> DEFINE p == Leading(k, n + 1)
                 d == suffix[n + 1]
                 q == v[n]
      <3>1. p \in Nat /\ q \in Nat /\ d \in 0 .. c - 1
        BY <2>2, <2>3
      <3> HIDE DEF p, d, q
      <3>2. p = q * c + d <=> p \div c = q /\ p % c = d
        BY <1>3, <3>1, DivisionSplits
      <3> QED
        BY <3>2 DEF p, d, q
    <2>5. Leading(k, n + 1) = v[n + 1]
            <=> Leading(k, n) = v[n] /\ Character(k, n + 1) = suffix[n + 1]
      BY <1>5, <2>2, <2>4
    <2>6. Same(n)
      BY <1>8
    <2>7. (\A i \in 1 .. n + 1 : Character(k, i) = suffix[i])
            <=> /\ \A i \in 1 .. n : Character(k, i) = suffix[i]
                /\ Character(k, n + 1) = suffix[n + 1]
      BY <2>1
    <2>8. Same(n + 1)
      BY <2>5, <2>6, <2>7
    <2> QED
      BY <2>1, <2>8
  <1>9. Same(Len(suffix))
    <2> HIDE DEF Same
    <2>1. 0 .. Len(suffix) \subseteq S
      <3> HIDE DEF S
      <3> QED
        BY <1>2, <1>7, <1>8, Induction
    <2> QED
      BY <1>2, <2>1
  <1>10. Matches(k) <=> Leading(k, Len(suffix)) = v[Len(suffix)]
    <2> DEFINE high == KeyBits - WordBits
               rest == WordBits - CharBits * Len(suffix)
    <2>1. Matches(k) <=> (k \div Power(high)) \div Power(rest) = v[Len(suffix)]
      BY <1>4 DEF Matches, Power
    <2>2. high \in 0 .. KeyBits /\ rest \in 0 .. KeyBits /\ high + rest <= KeyBits
          /\ high + rest = KeyBits - CharBits * Len(suffix)
      <3> DEFINE bits == CharBits * Len(suffix)
      <3>1. bits \in Nat /\ bits <= WordBits
        <4>1. Len(suffix) \in 0 .. MaxSuffix
          BY <1>2
        <4> QED
          BY <4>1, SuffixFits
      <3> HIDE DEF bits
      <3>2. high + (WordBits - bits) = KeyBits - bits /\ WordBits - bits \in 0 .. KeyBits
            /\ high \in 0 .. KeyBits /\ KeyBits - bits <= KeyBits
        BY <1>2, <3>1
      <3> QED
        BY <3>2 DEF bits
    <2>3. Leading(k, Len(suffix)) = k \div Power(KeyBits - CharBits * Len(suffix))
      BY DEF Leading
    <2> HIDE DEF high, rest
    <2>4. Power(high) \in Nat \ {0} /\ Power(rest) \in Nat \ {0}
      BY <2>2, PowerRules
    <2>5. Power(high + rest) = Power(high) * Power(rest)
      BY <1>2, <2>2, PowerSum
    <2>6. (k \div Power(high)) \div Power(rest) = k \div (Power(high) * Power(rest))
      BY <1>2, <2>4, DivisionTwice
    <2> QED
      BY <2>1, <2>2, <2>3, <2>5, <2>6
  <1> QED
    BY <1>9, <1>10 DEF AddressStartsWith

----------------------------------------------------------------------------
(* The strides: every index is walked by one worker. *)

OnStride(w, i) == \E q \in Nat : i = w + (q * Workers)

\* Two indexes of a stride are a whole number of strides apart.
LEMMA StrideGap ==
  ASSUME NEW q \in Nat, NEW r \in Nat, q > r
  PROVE  q * Workers >= (r * Workers) + Workers
  BY SearchAssumption

\* The strides partition the indexes, and one starts at every worker's number.
LEMMA StrideOf ==
  \A i \in Nat : \E w \in WorkerIds : OnStride(w, i)
<1> SUFFICES ASSUME NEW i \in Nat PROVE \E w \in WorkerIds : OnStride(w, i)
  OBVIOUS
<1>1. i = ((i \div Workers) * Workers) + (i % Workers)
  BY SearchAssumption
<1>2. i \div Workers \in Nat /\ i % Workers \in 0 .. Workers - 1
  BY SearchAssumption
<1> DEFINE q == i \div Workers
           w == i % Workers
<1> HIDE DEF q, w
<1>3. i = w + (q * Workers)
  BY <1>1, <1>2, SearchAssumption DEF q, w
<1>4. QED
  BY <1>2, <1>3 DEF OnStride, WorkerIds, q, w

\* No index lies on two strides.
LEMMA StridesDisjoint ==
  ASSUME NEW v \in WorkerIds, NEW w \in WorkerIds, NEW i,
         OnStride(v, i), OnStride(w, i)
  PROVE  v = w
<1>1. PICK q \in Nat : i = v + (q * Workers)
  BY DEF OnStride
<1>2. PICK r \in Nat : i = w + (r * Workers)
  BY DEF OnStride
<1>3. /\ v \in Nat /\ w \in Nat /\ v < Workers /\ w < Workers
      /\ q * Workers \in Nat /\ r * Workers \in Nat /\ Workers \in Nat
  BY SearchAssumption DEF WorkerIds
<1>4. CASE q > r
  BY <1>1, <1>2, <1>3, <1>4, StrideGap
<1>5. CASE r > q
  BY <1>1, <1>2, <1>3, <1>5, StrideGap
<1>6. CASE q = r
  BY <1>1, <1>2, <1>3, <1>6
<1>7. QED
  BY <1>4, <1>5, <1>6

\* After an index of a stride comes the one Workers further, and none between.
LEMMA NextOnStride ==
  ASSUME NEW w \in WorkerIds, NEW n \in Nat, OnStride(w, n)
  PROVE  /\ OnStride(w, n + Workers)
         /\ \A i \in Nat : OnStride(w, i) /\ i < n + Workers => i < n \/ i = n
<1>1. PICK q \in Nat : n = w + (q * Workers)
  BY DEF OnStride
<1>2. w \in Nat /\ Workers \in Nat /\ q * Workers \in Nat
  BY SearchAssumption DEF WorkerIds
<1>3. n + Workers = w + ((q + 1) * Workers) /\ q + 1 \in Nat
  BY <1>1, <1>2
<1>4. ASSUME NEW i \in Nat, OnStride(w, i), i < n + Workers, ~(i < n)
      PROVE  i = n
  <2>1. PICK r \in Nat : i = w + (r * Workers)
    BY <1>4 DEF OnStride
  <2>2. r * Workers \in Nat
    BY <1>2
  <2>3. CASE r > q
    BY <1>1, <1>2, <1>4, <2>1, <2>2, <2>3, StrideGap
  <2>4. CASE q > r
    BY <1>1, <1>2, <1>4, <2>1, <2>2, <2>4, StrideGap, SearchAssumption
  <2>5. QED
    BY <1>1, <2>1, <2>3, <2>4
<1>5. QED
  BY <1>3, <1>4 DEF OnStride

\* A worker has compared what lies behind it on its stride and, unless it found
\* a match, nothing else.
CoverInv ==
  /\ \A w \in WorkerIds : OnStride(w, index[w])
  /\ \A w \in WorkerIds, i \in Indexes :
       OnStride(w, i) /\ i < index[w] => ~Matches(key[i])
  /\ \A w \in WorkerIds, i \in tried : OnStride(w, i) =>
       i < index[w] \/ (i = index[w] /\ pc[w] \in {"found", "claim", "send", "done"})

\* What is found, sent and received matches; an error is an error of some
\* derivation, or every index has been compared.
WinnerInv ==
  /\ \A w \in WorkerIds : pc[w] \in {"found", "claim", "send"} => Matches(key[index[w]])
  /\ \A j \in DOMAIN channel : channel[j] # Failed => Matches(key[channel[j]])
  /\ result \in Indexes => Matches(key[result])
  /\ bad = {} => /\ \A w \in WorkerIds : pc[w] \notin {"fail", "send_error"}
                 /\ \A j \in DOMAIN channel : channel[j] # Failed
                 /\ result = Failed => \A i \in Indexes : ~Matches(key[i])
  /\ main \notin {"start", "failed"} \/ result # None => SuffixAccepted

\* A worker that is done although nobody stopped it has come to the end, and a
\* stop has a sender whose result is still awaited or was received.
StopInv ==
  /\ \A w \in WorkerIds : pc[w] = "done" /\ ~stopped => index[w] >= IndexBound
  /\ stopped => \/ \E w \in WorkerIds : Sending(w)
                \/ channel # <<>>
                \/ main \notin {"start", "receive"}

\* The inputs of the command never change, and with them the comparisons.
LEMMA InputsFixed ==
  ASSUME [Next]_vars
  PROVE  /\ UNCHANGED inputVars
         /\ \A i : Matches(key[i])' <=> Matches(key[i])
         /\ SuffixAccepted' <=> SuffixAccepted
<1>1. UNCHANGED inputVars
  BY Zenon
  DEF Next, WorkerStep, Try, Leave, Found, Claim, Send, Publish, LoadReport,
      ExchangeReport, PrintReport, MainStep, Spawn, Refuse, Receive, Disconnected, Join,
      CheckPrefix, Persist, WritePhone, OtherInit, OtherPersist, OtherWrite, vars, rival
<1>2. QED
  BY <1>1 DEF inputVars, Matches, SuffixAccepted

\* A worker's step moves its own label only.
LEMMA OwnLabel ==
  ASSUME SearchInv, NEW w \in WorkerIds, WorkerStep(w)
  PROVE  /\ \A v \in WorkerIds : v # w => pc'[v] = pc[v] /\ index'[v] = index[v]
         /\ ~Try(w) => UNCHANGED <<index, tried>>
         /\ ~Send(w) => UNCHANGED channel
         /\ ~Claim(w) => UNCHANGED stopped
         /\ pc[w] \notin {"idle", "done"}
         /\ UNCHANGED <<main, result>>
<1>0. pc \in [WorkerIds -> Labels] /\ index \in [WorkerIds -> Nat]
  BY DEF SearchInv, WorkersTyped
<1>1. QED
  BY <1>0 DEF WorkerStep, Try, Leave, Found, Claim, Send, Publish, LoadReport,
              ExchangeReport, PrintReport, Goto

\* Where a step other than Try leaves a worker.
LEMMA Labelled ==
  ASSUME SearchInv, NEW w \in WorkerIds, WorkerStep(w)
  PROVE  \/ Try(w)
         \/ pc[w] = "try" /\ pc'[w] = "done" /\ Leave(w)
         \/ pc[w] = "found" /\ pc'[w] = "claim"
         \/ pc[w] = "claim" /\ pc'[w] = (IF stopped THEN "done" ELSE "send") /\ Claim(w)
         \/ pc[w] = "fail" /\ pc'[w] = (IF stopped THEN "done" ELSE "send_error") /\ Claim(w)
         \/ pc[w] \in {"send", "send_error"} /\ pc'[w] = "done" /\ Send(w)
         \/ /\ pc[w] \in {"publish", "load_report", "exchange", "print"}
            /\ pc'[w] \in {"try", "load_report", "exchange", "print"}
<1>0. pc \in [WorkerIds -> Labels]
  BY DEF SearchInv, WorkersTyped
<1>1. CASE Claim(w)
  BY <1>0, <1>1 DEF Claim, Goto
<1>2. CASE Publish(w) \/ LoadReport(w) \/ ExchangeReport(w) \/ PrintReport(w)
  BY <1>0, <1>2 DEF Publish, LoadReport, ExchangeReport, PrintReport, Goto
<1>3. CASE Leave(w) \/ Found(w) \/ Send(w)
  BY <1>0, <1>3 DEF Leave, Found, Send, Goto
<1>4. QED
  BY <1>1, <1>2, <1>3 DEF WorkerStep

\* The three outcomes of deriving and comparing one index.
LEMMA TryCases ==
  ASSUME SearchInv, NEW w \in WorkerIds, Try(w)
  PROVE  /\ pc[w] = "try" /\ index[w] \in Indexes /\ ~stopped
         /\ \/ /\ index[w] \in bad /\ pc'[w] = "fail"
               /\ UNCHANGED <<index, tried, pending>>
            \/ /\ tried' = tried \cup {index[w]} /\ pending'[w] = pending[w] + 1
               /\ \/ Matches(key[index[w]]) /\ pc'[w] = "found" /\ index' = index
                  \/ /\ ~Matches(key[index[w]]) /\ pc'[w] \in {"publish", "try"}
                     /\ index'[w] = index[w] + Workers
<1>0. /\ pc \in [WorkerIds -> Labels] /\ index \in [WorkerIds -> Nat]
      /\ pending \in [WorkerIds -> Nat]
  BY DEF SearchInv, WorkersTyped, CountsTyped
<1>1. index[w] \in Indexes
  BY <1>0, InIndexes DEF Try
<1>2. QED
  BY <1>0, <1>1 DEF Try, Goto, Stride

\* A worker's step keeps the coverage: a comparison moves it one stride on.
LEMMA CoverWorker ==
  ASSUME SearchInv, CoverInv, NEW w \in WorkerIds, WorkerStep(w)
  PROVE  CoverInv'
<1> DEFINE Held == {"found", "claim", "send", "done"}
<1>0. /\ \A v \in WorkerIds : index[v] \in Nat
      /\ \A i : Matches(key[i])' <=> Matches(key[i])
      /\ \A v \in WorkerIds : v # w => pc'[v] = pc[v] /\ index'[v] = index[v]
  BY InputsFixed, OwnLabel DEF SearchInv, WorkersTyped, Next
<1>1. CASE UNCHANGED <<index, tried>> /\ (pc[w] \in Held => pc'[w] \in Held)
  BY <1>0, <1>1 DEF CoverInv
<1>2. CASE /\ Try(w) /\ tried' = tried \cup {index[w]}
           /\ Matches(key[index[w]]) /\ pc'[w] = "found" /\ index' = index
  <2>1. pc[w] = "try"
    BY <1>2, TryCases
  <2>2. \A v \in WorkerIds : OnStride(v, index[w]) => v = w
    BY StridesDisjoint DEF CoverInv
  <2>3. \A v \in WorkerIds, i \in tried' : OnStride(v, i) =>
          i < index'[v] \/ (i = index'[v] /\ pc'[v] \in Held)
    BY <1>0, <1>2, <2>1, <2>2 DEF CoverInv
  <2>4. QED
    BY <1>0, <1>2, <2>3 DEF CoverInv
<1>3. CASE /\ Try(w) /\ tried' = tried \cup {index[w]}
           /\ ~Matches(key[index[w]]) /\ index'[w] = index[w] + Workers
  <2>1. /\ OnStride(w, index'[w])
        /\ \A i \in Nat : OnStride(w, i) /\ i < index'[w] => i < index[w] \/ i = index[w]
    BY <1>0, <1>3, NextOnStride DEF CoverInv
  <2>2. pc[w] = "try" /\ index[w] \in Nat /\ index[w] < index'[w] /\ Workers \in Nat
    BY <1>0, <1>3, TryCases, SearchAssumption
  <2>3. \A v \in WorkerIds : OnStride(v, index[w]) => v = w
    BY StridesDisjoint DEF CoverInv
  <2>4. \A v \in WorkerIds, i \in Indexes :
          OnStride(v, i) /\ i < index'[v] => ~Matches(key[i])
    BY <1>0, <1>3, <2>1, IndexesAreNat DEF CoverInv
  <2>5. \A v \in WorkerIds, i \in tried' : OnStride(v, i) =>
          i < index'[v] \/ (i = index'[v] /\ pc'[v] \in Held)
    <3>1. \A i \in tried : i \in Nat
      BY IndexesAreNat DEF SearchInv, MainTyped
    <3>2. \A i \in tried : OnStride(w, i) => i < index'[w]
      BY <2>2, <3>1, <1>3, <1>0 DEF CoverInv
    <3>3. QED
      BY <1>0, <1>3, <2>2, <2>3, <3>2 DEF CoverInv
  <2>6. QED
    BY <1>0, <2>1, <2>4, <2>5 DEF CoverInv
<1>4. CASE Try(w)
  BY <1>1, <1>2, <1>3, <1>4, TryCases
<1>5. CASE ~Try(w)
  BY <1>1, <1>5, OwnLabel, Labelled
<1>6. QED
  BY <1>4, <1>5

\* A worker stops the others only as it becomes the sender.
LEMMA StopWorker ==
  ASSUME SearchInv, RaceInv, StopInv, NEW w \in WorkerIds, WorkerStep(w)
  PROVE  StopInv'
<1>0. \A v \in WorkerIds : v # w => pc'[v] = pc[v] /\ index'[v] = index[v]
  BY OwnLabel
<1>1. CASE Try(w)
  <2>1. ~stopped /\ stopped' = stopped /\ pc'[w] # "done"
    BY <1>1, TryCases, OwnLabel DEF Try, Claim
  <2>2. QED
    BY <1>0, <2>1 DEF StopInv
<1>2. CASE Claim(w)
  <2>1. stopped' /\ UNCHANGED <<channel, main>>
    BY <1>2 DEF Claim
  <2>2. ~stopped => Sending(w)'
    BY <1>2, Labelled, TryCases DEF Sending, Claim, Try
  <2>3. \A v \in WorkerIds : Sending(v) => Sending(v)'
    BY <1>0, <1>2 DEF Sending, Claim
  <2>4. QED
    BY <2>1, <2>2, <2>3 DEF StopInv
<1>3. CASE Send(w)
  <2>1. stopped /\ stopped' = stopped
    BY <1>3 DEF Send, RaceInv, Sending
  <2>2. channel' # <<>>
    <3>1. channel \in Seq(Indexes \cup {Failed})
      BY DEF SearchInv, MainTyped
    <3>2. QED
      BY <1>3, <3>1 DEF Send
  <2>3. QED
    BY <2>1, <2>2 DEF StopInv
<1>4. CASE ~Try(w) /\ ~Claim(w) /\ ~Send(w)
  <2>1. UNCHANGED <<stopped, channel, main, index>>
    BY <1>4, OwnLabel
  <2>2. pc'[w] = "done" => index[w] >= IndexBound \/ stopped
    BY <1>4, Labelled DEF Leave
  <2>3. ~Sending(w)
    BY <1>4, Labelled DEF Sending
  <2>4. \A v \in WorkerIds : Sending(v) => Sending(v)'
    BY <1>0, <2>3 DEF Sending
  <2>5. QED
    BY <1>0, <2>1, <2>2, <2>4 DEF StopInv
<1>5. QED
  BY <1>1, <1>2, <1>3, <1>4

\* Only a match is found and sent as an index, only an error as an error.
LEMMA WinnerWorker ==
  ASSUME SearchInv, WinnerInv, NEW w \in WorkerIds, WorkerStep(w)
  PROVE  WinnerInv'
<1> DEFINE Hit == {"found", "claim", "send"}
<1>0. /\ \A i : Matches(key[i])' <=> Matches(key[i])
      /\ SuffixAccepted' <=> SuffixAccepted
      /\ \A v \in WorkerIds : v # w => pc'[v] = pc[v] /\ index'[v] = index[v]
      /\ UNCHANGED <<main, result>> /\ bad' = bad /\ key' = key
  BY InputsFixed, OwnLabel DEF Next, inputVars
<1>1. pc'[w] \in Hit => Matches(key[index'[w]])
  <2>1. CASE Try(w)
    BY <2>1, TryCases
  <2>2. CASE ~Try(w)
    BY <2>2, OwnLabel, Labelled DEF WinnerInv
  <2>3. QED
    BY <2>1, <2>2
<1>2. bad = {} => pc'[w] \notin {"fail", "send_error"}
  BY TryCases, Labelled DEF WinnerInv
<1>3. /\ \A j \in DOMAIN channel' : channel'[j] # Failed => Matches(key[channel'[j]])
      /\ bad = {} => \A j \in DOMAIN channel' : channel'[j] # Failed
  <2>1. CASE ~Send(w)
    BY <2>1, OwnLabel DEF WinnerInv
  <2>2. CASE Send(w)
    <3> DEFINE x == IF pc[w] = "send" THEN index[w] ELSE Failed
    <3>1. channel' = Append(channel, x) /\ channel \in Seq(Indexes \cup {Failed})
      BY <2>2 DEF Send, SearchInv, MainTyped
    <3>2. x # Failed => Matches(key[x])
      BY DEF WinnerInv
    <3>3. bad = {} => x # Failed
      <4>1. index[w] \in Nat
        BY DEF SearchInv, WorkersTyped
      <4>2. QED
        BY <2>2, <4>1 DEF WinnerInv, Failed, Send
    <3> HIDE DEF x
    <3>4. \A j \in DOMAIN channel' :
            channel'[j] = x \/ (j \in DOMAIN channel /\ channel'[j] = channel[j])
      BY <3>1
    <3>5. QED
      BY <3>2, <3>3, <3>4 DEF WinnerInv
  <2>3. QED
    BY <2>1, <2>2
<1>4. QED
  BY <1>0, <1>1, <1>2, <1>3 DEF WinnerInv

\* The waiting thread's steps, and the initialisation in another terminal.
LEMMA GrindMain ==
  ASSUME SearchInv, RaceInv, CoverInv, StopInv, WinnerInv, MainStep \/ OtherInit
  PROVE  CoverInv' /\ StopInv' /\ WinnerInv'
<1>0. /\ \A i : Matches(key[i])' <=> Matches(key[i])
      /\ SuffixAccepted' <=> SuffixAccepted
      /\ bad' = bad /\ key' = key
  BY InputsFixed DEF Next, inputVars
<1>1. CASE Spawn
  <2>1. ~stopped /\ \A w \in WorkerIds : pc[w] = "idle"
    BY <1>1 DEF Spawn, RaceInv, StopInv, Sending
  <2>2. \A w \in WorkerIds : pc'[w] = "try"
    BY <1>1 DEF Spawn
  <2>3. UNCHANGED <<index, tried, stopped, channel, result>> /\ SuffixAccepted
    BY <1>1 DEF Spawn, CanStart
  <2>4. CoverInv'
    BY <1>0, <2>1, <2>2, <2>3 DEF CoverInv
  <2>5. StopInv' /\ WinnerInv'
    BY <1>0, <2>1, <2>2, <2>3 DEF StopInv, WinnerInv
  <2>6. QED
    BY <2>4, <2>5
<1>2. ASSUME MainStep \/ OtherInit, ~Spawn
      PROVE  /\ UNCHANGED <<pc, index, tried, stopped>>
             /\ CoverInv'
  <2>1. UNCHANGED <<pc, index, tried, stopped>>
    BY <1>2 DEF MainStep, OtherInit, OtherPersist, OtherWrite, Refuse, Receive,
                Disconnected, Join, CheckPrefix, Persist, WritePhone, workerVars
  <2>2. QED
    BY <1>0, <2>1 DEF CoverInv
<1>3. CASE Receive
  <2>0. channel \in Seq(Indexes \cup {Failed}) /\ Len(channel) = 1
    BY <1>3 DEF Receive, RaceInv, SearchInv, MainTyped
  <2>1. channel' = <<>> /\ 1 \in DOMAIN channel /\ result' = channel[1]
    BY <1>3, <2>0, TailOfOne DEF Receive
  <2>2. main = "receive" /\ main' = "join" /\ result' \in Indexes \cup {Failed}
    BY <1>3, <2>0 DEF Receive
  <2>3. /\ result' \in Indexes => Matches(key[result'])
        /\ bad = {} => result' # Failed
    BY <2>1, IndexesAreNat DEF WinnerInv, Failed
  <2>4. WinnerInv'
    BY <1>0, <1>2, <1>3, <2>1, <2>2, <2>3 DEF WinnerInv, MainStep, Spawn
  <2>5. StopInv'
    BY <1>2, <1>3, <2>2 DEF StopInv, MainStep, Spawn
  <2>6. QED
    BY <1>2, <1>3, <2>2, <2>4, <2>5 DEF MainStep, Spawn
<1>4. CASE Disconnected
  <2>1. ~stopped
    BY <1>4 DEF Disconnected, AllDone, StopInv, Sending
  <2>2. \A w \in WorkerIds : index[w] >= IndexBound
    BY <1>4, <2>1 DEF Disconnected, AllDone, StopInv
  <2>3. \A i \in Indexes : ~Matches(key[i])
    <3> SUFFICES ASSUME NEW i \in Indexes PROVE ~Matches(key[i])
      OBVIOUS
    <3>1. i \in Nat /\ i < IndexBound
      BY SearchAssumption DEF Indexes
    <3>2. PICK w \in WorkerIds : OnStride(w, i)
      BY <3>1, StrideOf
    <3>3. i < index[w]
      BY <2>2, <3>1, SearchAssumption DEF SearchInv, WorkersTyped
    <3>4. QED
      BY <3>2, <3>3 DEF CoverInv
  <2>4. /\ main = "receive" /\ main' = "join" /\ result' = Failed /\ Failed \notin Indexes
        /\ UNCHANGED channel
    BY <1>4, IndexesAreNat DEF Disconnected, Failed
  <2>5. WinnerInv'
    BY <1>0, <1>2, <1>4, <2>3, <2>4 DEF WinnerInv, MainStep, Spawn
  <2>6. StopInv'
    BY <1>2, <1>4, <2>4 DEF StopInv, MainStep, Spawn
  <2>7. QED
    BY <1>2, <1>4, <2>4, <2>5, <2>6 DEF MainStep, Spawn
<1>5. CASE Refuse \/ Join \/ CheckPrefix \/ Persist \/ WritePhone \/ OtherInit
  <2>1. /\ UNCHANGED <<channel, result>> /\ (main' # main => main # "receive")
        /\ main' \in {"start", "failed"} \/ main \notin {"start", "failed"}
        /\ main' # main => main' \notin {"start", "receive"}
    BY <1>5 DEF Refuse, Join, CheckPrefix, Persist, WritePhone, OtherInit, OtherPersist,
                OtherWrite
  <2>2. ~Spawn
    BY <1>5 DEF Refuse, Join, CheckPrefix, Persist, WritePhone, OtherInit, OtherPersist,
                OtherWrite, Spawn, CanStart
  <2>3. WinnerInv'
    BY <1>0, <1>2, <2>1, <2>2 DEF WinnerInv
  <2>4. StopInv'
    BY <1>2, <2>1, <2>2 DEF StopInv, Sending
  <2>5. QED
    BY <1>2, <2>2, <2>3, <2>4
<1>6. QED
  BY <1>1, <1>3, <1>4, <1>5 DEF MainStep
GrindInv == SearchInv /\ RaceInv /\ CoverInv /\ StopInv /\ WinnerInv

\* Before the search every worker stands at the start of its stride.
LEMMA GrindInit == Init => CoverInv /\ StopInv /\ WinnerInv
<1> SUFFICES ASSUME Init PROVE CoverInv /\ StopInv /\ WinnerInv
  OBVIOUS
<1>1. \A w \in WorkerIds : OnStride(w, w) /\ w \in Nat /\ w < Workers
  <2>1. \A w \in WorkerIds : w = w + (0 * Workers) /\ w \in Nat /\ w < Workers
    BY SearchAssumption DEF WorkerIds
  <2>2. QED
    BY <2>1 DEF OnStride
<1>2. \A w \in WorkerIds, i \in Nat : OnStride(w, i) => ~(i < w)
  <2> SUFFICES ASSUME NEW w \in WorkerIds, NEW i \in Nat, NEW q \in Nat,
                      i = w + (q * Workers)
               PROVE  ~(i < w)
    BY DEF OnStride
  <2>1. q * Workers \in Nat /\ w \in Nat
    BY <1>1, SearchAssumption
  <2>2. QED
    BY <2>1
<1>3. CoverInv
  BY <1>1, <1>2, IndexesAreNat DEF Init, CoverInv
<1>4. None \notin Indexes /\ None # Failed
  BY IndexesAreNat DEF None, Failed
<1>5. StopInv /\ WinnerInv
  BY <1>4 DEF Init, StopInv, WinnerInv, Sending
<1>6. QED
  BY <1>3, <1>5

\* The coverage, the stop flag and the winner, through every step.
LEMMA GrindNext == GrindInv /\ [Next]_vars => CoverInv' /\ StopInv' /\ WinnerInv'
<1> SUFFICES ASSUME GrindInv, [Next]_vars PROVE CoverInv' /\ StopInv' /\ WinnerInv'
  OBVIOUS
<1>1. CASE \E w \in WorkerIds : WorkerStep(w)
  BY <1>1, CoverWorker, StopWorker, WinnerWorker DEF GrindInv
<1>2. CASE MainStep \/ OtherInit
  BY <1>2, GrindMain DEF GrindInv
<1>3. CASE UNCHANGED vars
  <2>1. /\ \A i : Matches(key[i])' <=> Matches(key[i])
        /\ SuffixAccepted' <=> SuffixAccepted
    BY <1>3, InputsFixed
  <2>2. UNCHANGED <<pc, index, tried, stopped, channel, main, result, bad, key>>
    BY <1>3 DEF vars, rival, workerVars, inputVars
  <2>3. QED
    BY <2>1, <2>2 DEF GrindInv, CoverInv, StopInv, WinnerInv, Sending
<1>4. QED
  BY <1>1, <1>2, <1>3 DEF Next

\* In every reachable state the search's invariant holds.
LEMMA GrindAlways == Spec => []GrindInv
  BY SearchAlways, RaceInit, RaceNext, GrindInit, GrindNext, PTL DEF Spec, GrindInv

\* The command's inputs are what the interface lets through.
InputsInv == key \in [Indexes -> Keys] /\ suffix \in Wanted

\* They stay so.
LEMMA InputsAlways == Spec => []InputsInv
<1>1. Init => InputsInv
  BY DEF Init, InputsInv
<1>2. InputsInv /\ [Next]_vars => InputsInv'
  BY InputsFixed DEF InputsInv, inputVars
<1>3. QED
  BY <1>1, <1>2, PTL DEF Spec

\* The check of the winner's address cannot fail: whatever worker finds a key
\* by the shifted word, its address starts with the suffix.
THEOREM PrefixAlwaysReproduced == Spec => []PrefixReproduced
<1>1. Init => PrefixReproduced
  BY DEF Init, PrefixReproduced
<1>2. ASSUME GrindInv, InputsInv, PrefixReproduced, [Next]_vars
      PROVE  PrefixReproduced'
  <2>1. CASE CheckPrefix
    <3>1. result \in Indexes /\ main = "check"
      BY <1>2, <2>1 DEF CheckPrefix, GrindInv, SearchInv, Derived
    <3>2. Matches(key[result]) /\ SuffixAccepted
      BY <1>2, <3>1 DEF GrindInv, WinnerInv
    <3>3. key[result] \in Keys /\ suffix \in Wanted
      BY <1>2, <3>1 DEF InputsInv
    <3>4. AddressStartsWith(key[result])
      BY <3>2, <3>3, ComparisonsAgree
    <3>5. QED
      BY <2>1, <3>4 DEF CheckPrefix, PrefixReproduced
  <2>2. CASE ~CheckPrefix
    BY <1>2, <2>2
    DEF PrefixReproduced, Next, WorkerStep, Try, Leave, Found, Claim, Send, Publish,
        LoadReport, ExchangeReport, PrintReport, MainStep, Spawn, Refuse, Receive,
        Disconnected, Join, Persist, WritePhone, OtherInit, OtherPersist, OtherWrite, vars,
        rival
  <2>3. QED
    BY <2>1, <2>2
<1>3. QED
  BY GrindAlways, InputsAlways, <1>1, <1>2, PTL DEF Spec

\* A search that fails without a derivation error has found that no index has
\* an address with the suffix: the stop flag, the strides, the channel and the
\* comparison lose nothing.
THEOREM FailureIsExhaustive == Spec => []ExhaustiveFailure
<1>1. GrindInv /\ InputsInv => ExhaustiveFailure
  <2> SUFFICES ASSUME GrindInv, InputsInv, main = "failed", result = Failed, bad = {},
                      NEW i \in Indexes
               PROVE  ~AddressStartsWith(key[i])
    BY DEF ExhaustiveFailure
  <2>1. Failed # None
    BY DEF Failed, None
  <2>2. ~Matches(key[i]) /\ SuffixAccepted
    BY <2>1 DEF GrindInv, WinnerInv
  <2>3. key[i] \in Keys /\ suffix \in Wanted
    BY DEF InputsInv
  <2>4. QED
    BY <2>2, <2>3, ComparisonsAgree
<1>2. QED
  BY <1>1, GrindAlways, InputsAlways, PTL

----------------------------------------------------------------------------
(* The attempts *)

\* Every derivation is published or still counted by its worker, and a worker
\* that found a key or came to the end has published all of its own.
AttemptInv ==
  /\ attempts + Total(pending) = Cardinality(tried)
  /\ \A w \in WorkerIds : pc[w] \in {"claim", "send"} => pending[w] = 0
  /\ bad = {} => \A w \in WorkerIds : pc[w] = "done" => pending[w] = 0
  /\ main \in {"check", "persist", "write", "done"} => AllDone

\* The workers and the derived indexes can be counted.
LEMMA Countable ==
  ASSUME SearchInv
  PROVE  /\ IsFiniteSet(WorkerIds) /\ pending \in [WorkerIds -> Nat] /\ attempts \in Nat
         /\ IsFiniteSet(tried) /\ Cardinality(tried) \in Nat
<1>1. IsFiniteSet(WorkerIds)
  BY FS_Interval, SearchAssumption DEF WorkerIds
<1>2. IsFiniteSet(Indexes)
  BY FS_Interval, SearchAssumption DEF Indexes
<1>3. IsFiniteSet(tried)
  BY <1>2, FS_Subset DEF SearchInv, MainTyped
<1>4. QED
  BY <1>1, <1>3, FS_CardinalityType DEF SearchInv, CountsTyped

\* An index is derived once, and its worker counts it.
LEMMA TriedCounted ==
  ASSUME SearchInv, CoverInv, NEW w \in WorkerIds, Try(w), index[w] \notin bad,
         attempts + Total(pending) = Cardinality(tried)
  PROVE  attempts' + Total(pending') = Cardinality(tried')
<1>1. pending[w] \in Nat
  BY Countable
<1>2. PICK n \in Nat : n = pending[w] + 1
  BY <1>1
<1>3. /\ pending' = [pending EXCEPT ![w] = n] /\ attempts' = attempts
      /\ tried' = tried \cup {index[w]}
  BY <1>2 DEF Try
<1>4. index[w] \notin tried
  BY TryCases DEF CoverInv, SearchInv, WorkersTyped
<1>5. Cardinality(tried') = Cardinality(tried) + 1
  BY <1>3, <1>4, Countable, FS_AddElement
<1>6. IsFiniteSet(WorkerIds) /\ pending \in [WorkerIds -> Nat]
  BY Countable
<1>7. /\ Total(pending) \in Nat /\ Total(pending') \in Nat
      /\ Total(pending') + pending[w] = Total(pending) + n
  <2>1. /\ pending' \in [WorkerIds -> Nat] /\ pending'[w] = n
        /\ \A x \in WorkerIds : x # w => pending'[x] = pending[x]
    BY <1>3, <1>6
  <2>2. QED
    BY <1>6, <2>1, TotalUpdate
<1>8. QED
  BY <1>1, <1>2, <1>3, <1>5, <1>7, Countable

\* A publication moves a worker's count to the shared one.
LEMMA PublishedCounted ==
  ASSUME SearchInv, NEW w \in WorkerIds, attempts + Total(pending) = Cardinality(tried),
         attempts' = attempts + pending[w], tried' = tried,
         pending' \in [WorkerIds -> Nat], pending'[w] = 0,
         \A x \in WorkerIds : x # w => pending'[x] = pending[x]
  PROVE  attempts' + Total(pending') = Cardinality(tried')
<1>1. IsFiniteSet(WorkerIds) /\ pending \in [WorkerIds -> Nat] /\ pending[w] \in Nat
  BY Countable
<1>2. /\ Total(pending) \in Nat /\ Total(pending') \in Nat
      /\ Total(pending') + pending[w] = Total(pending) + pending'[w]
  BY <1>1, TotalUpdate
<1>3. QED
  BY <1>1, <1>2, Countable

\* A worker's step loses no attempt and counts none twice.
LEMMA AttemptWorker ==
  ASSUME GrindInv, AttemptInv, NEW w \in WorkerIds, WorkerStep(w)
  PROVE  AttemptInv'
<1> USE DEF GrindInv
<1>1. attempts' + Total(pending') = Cardinality(tried')
  <2>1. CASE Try(w) /\ index[w] \notin bad
    BY <2>1, TriedCounted DEF AttemptInv
  <2>2. CASE Leave(w) \/ Found(w) \/ Publish(w)
    <3>1. /\ pending' \in [WorkerIds -> Nat] /\ pending'[w] = 0
          /\ \A x \in WorkerIds : x # w => pending'[x] = pending[x]
      BY <2>2, Countable DEF Leave, Found, Publish
    <3>2. attempts' = attempts + pending[w] /\ tried' = tried
      BY <2>2 DEF Leave, Found, Publish
    <3>3. QED
      BY <3>1, <3>2, PublishedCounted DEF AttemptInv
  <2>3. CASE UNCHANGED <<pending, attempts, tried>>
    BY <2>3 DEF AttemptInv
  <2>4. QED
    BY <2>1, <2>2, <2>3
    DEF WorkerStep, Try, Claim, Send, LoadReport, ExchangeReport, PrintReport
<1>2. /\ \A v \in WorkerIds : v # w => pc'[v] = pc[v] /\ pending'[v] = pending[v]
      /\ UNCHANGED <<main, bad>> /\ pc[w] # "done"
  <2>1. pending \in [WorkerIds -> Nat]
    BY DEF SearchInv, CountsTyped
  <2>2. \A v \in WorkerIds : v # w => pending'[v] = pending[v]
    BY <2>1 DEF WorkerStep, Try, Leave, Found, Claim, Send, Publish, LoadReport,
                ExchangeReport, PrintReport
  <2>3. QED
    BY <2>2, OwnLabel, InputsFixed DEF Next, inputVars
<1>3. pc'[w] \in {"claim", "send", "done"} => pending'[w] = 0 \/ pc[w] \in {"fail", "send_error"}
  <2>1. pending \in [WorkerIds -> Nat]
    BY DEF SearchInv, CountsTyped
  <2>2. CASE Try(w)
    BY <2>2, TryCases
  <2>3. CASE Leave(w) \/ Found(w) \/ Publish(w)
    BY <2>1, <2>3 DEF Leave, Found, Publish
  <2>4. CASE Claim(w) \/ Send(w) \/ LoadReport(w) \/ ExchangeReport(w) \/ PrintReport(w)
    <3>1. pending' = pending
      BY <2>4 DEF Claim, Send, LoadReport, ExchangeReport, PrintReport
    <3>2. ~Try(w) /\ ~Leave(w)
      BY <2>4 DEF Claim, Send, LoadReport, ExchangeReport, PrintReport, Try, Leave
    <3>3. pc[w] # "found"
      BY <2>4 DEF Claim, Send, LoadReport, ExchangeReport, PrintReport
    <3>4. QED
      BY <3>1, <3>2, <3>3, Labelled DEF AttemptInv
  <2>5. QED
    BY <2>2, <2>3, <2>4 DEF WorkerStep
<1>4. pc[w] \in {"fail", "send_error"} => bad # {} /\ pc'[w] \notin {"claim", "send"}
  BY Labelled DEF WinnerInv, Try
<1>5. main \notin {"check", "persist", "write", "done"}
  BY <1>2 DEF AttemptInv, AllDone
<1>6. QED
  BY <1>1, <1>2, <1>3, <1>4, <1>5 DEF AttemptInv

\* So does every step.
LEMMA AttemptNext == GrindInv /\ AttemptInv /\ [Next]_vars => AttemptInv'
<1> SUFFICES ASSUME GrindInv, AttemptInv, [Next]_vars PROVE AttemptInv'
  OBVIOUS
<1>1. CASE \E w \in WorkerIds : WorkerStep(w)
  BY <1>1, AttemptWorker
<1>2. CASE MainStep \/ OtherInit \/ UNCHANGED vars
  <2>1. UNCHANGED <<pending, attempts, tried, bad>>
    BY <1>2 DEF MainStep, OtherInit, OtherPersist, OtherWrite, Spawn, Refuse, Receive,
                Disconnected, Join, CheckPrefix, Persist, WritePhone, workerVars,
                inputVars, vars, rival
  <2>2. attempts' + Total(pending') = Cardinality(tried')
    BY <2>1 DEF AttemptInv
  <2>3. CASE Spawn
    <3>1. (\A w \in WorkerIds : pc'[w] = "try") /\ main' = "receive"
      BY <2>3 DEF Spawn
    <3>2. QED
      BY <2>1, <2>2, <3>1 DEF AttemptInv
  <2>4. CASE ~Spawn
    <3>1. pc' = pc
      BY <1>2, <2>4 DEF MainStep, OtherInit, OtherPersist, OtherWrite, Refuse, Receive,
                        Disconnected, Join, CheckPrefix, Persist, WritePhone, workerVars,
                        vars, rival
    <3>2. main' \in {"check", "persist", "write", "done"} =>
            AllDone \/ main \in {"check", "persist", "write", "done"}
      BY <1>2, <2>4 DEF MainStep, OtherInit, OtherPersist, OtherWrite, Refuse, Receive,
                        Disconnected, Join, CheckPrefix, Persist, WritePhone, vars, rival
    <3>3. QED
      BY <2>1, <2>2, <3>1, <3>2 DEF AttemptInv, AllDone
  <2>5. QED
    BY <2>3, <2>4
<1>3. QED
  BY <1>1, <1>2 DEF Next

\* No index is derived twice and no attempt is lost or counted twice, at any
\* moment: the counter lacks exactly what the workers have not published, and
\* the number printed with the key is the number of keys derived, for any number
\* of workers.
THEOREM AttemptsCounted == Spec => []AttemptsExact
<1>1. Init => AttemptInv
  <2> SUFFICES ASSUME Init PROVE AttemptInv
    OBVIOUS
  <2>1. pending \in [WorkerIds -> Nat] /\ \A w \in WorkerIds : pending[w] = 0
    BY DEF Init
  <2>2. IsFiniteSet(WorkerIds)
    BY FS_Interval, SearchAssumption DEF WorkerIds
  <2>3. Total(pending) = 0
    BY <2>1, <2>2, TotalZero
  <2>4. attempts + Total(pending) = Cardinality(tried)
    BY <2>3, FS_EmptySet DEF Init
  <2>5. QED
    BY <2>1, <2>4 DEF Init, AttemptInv
<1>2. GrindInv /\ AttemptInv => CountExact
  <2> SUFFICES ASSUME GrindInv, AttemptInv, bad = {}, main \in {"check", "persist", "write", "done"}
               PROVE  attempts = Cardinality(tried)
    BY DEF CountExact
  <2>1. \A w \in WorkerIds : pending[w] = 0
    BY DEF AttemptInv, AllDone
  <2>2. Total(pending) = 0
    BY <2>1, Countable, TotalZero DEF GrindInv
  <2>3. QED
    BY <2>2, Countable DEF GrindInv, AttemptInv
<1>3. GrindInv /\ AttemptInv => AttemptsExact
  BY <1>2 DEF AttemptInv, AttemptsExact, Total
<1>4. QED
  BY <1>1, <1>3, GrindAlways, AttemptNext, PTL DEF Spec
=============================================================================
