--------------------------- MODULE RunStoreProofs ---------------------------
(***************************************************************************)
(* A stored run keeps its promises for every number of ticks, every batch  *)
(* size, every set of model calls and any number of kills.                 *)
(*                                                                         *)
(* None of the properties is inductive alone.  That the stored events are  *)
(* a prefix of one execution says nothing about how far the engine is, so  *)
(* the next batch might leave a gap (EngineWrote ties the length of the    *)
(* table to the control point and the tick); nothing about what resume     *)
(* compared before it appends (RepairHolds); and the delete of resume      *)
(* could cut a tick of a run that its row calls finished or whose          *)
(* projections are stored, were those not known to have all their ticks    *)
(* (FinishedIsWhole, ProjectionsAreOfWholeRun), the last of which ends     *)
(* with a TICK_COMPLETED (LastDone).                                       *)
(***************************************************************************)
EXTENDS RunStore, SequenceTheorems, TLAPS

StoredEvent ==
  [tick : Nat, kind : {"run_started", "started", "acted", "completed", "invalidated"},
   drifted : BOOLEAN]

\* A process that writes the run as its engine, or is about to.
Writing == EngineAlive \/ engine = "idle"

\* Until it has returned or died nobody but the engine has written, and each of
\* its control points fixes how many events the table holds.
EngineWrote ==
  Writing =>
    /\ repair = "idle"
    /\ ~Finished
    /\ RunHas(events)
    /\ engine # "finish" => projected = "none"
    /\ engine \in {"idle", "genesis"} => tick = 0 /\ Len(events) = 0
    /\ engine = "sealGenesis" => tick = 0 /\ Len(events) = 1
    /\ engine = "tick" => tick < FinalTick /\ Len(events) = 3 * tick + 2
    /\ engine = "commit" => tick \in 1..FinalTick /\ Len(events) = 3 * tick - 1
    /\ engine = "complete" => tick \in 1..FinalTick /\ Len(events) = 3 * tick + 1
    /\ engine = "invalidate" => Invalidated /\ Len(events) = TicksLength
    /\ engine \in {"project", "finish"} => Len(events) = RunLength

\* What a resume or rebuild has established at each of its control points.
RepairHolds ==
  /\ repair # "idle" => drift \in DriftPoints
  /\ repair \in {"append", "clear", "project", "finish", "rebuildClear", "rebuildProject"}
       => ReplayHas(events, drift)
  /\ repair \in {"clear", "project", "finish", "rebuildClear", "rebuildProject"}
       => Len(events) = TicksLength

\* The row was closed by the engine, over the closing event too.  That event may be gone, but
\* the last tick is still the engine's: no replay, all of which differ from it, gets further
\* than its comparison.
SealedByEngine ==
  /\ Invalidated
  /\ terminal = RunLength
  /\ events[TicksLength] = EventAt(TicksLength)

\* A row that says the run has ended stands for all of its ticks.
FinishedIsWhole ==
  Finished => /\ Len(events) >= TicksLength
              /\ terminal = TicksLength \/ SealedByEngine

IInv ==
  /\ TypeOK
  /\ StoredIsPrefix
  /\ ProjectionsAreOfWholeRun
  /\ EngineWrote
  /\ RepairHolds
  /\ FinishedIsWhole

\* The last TICK_COMPLETED among the first n events of a run.
LastDone(n) == IF n < 2 THEN 0 ELSE n - ((n + 1) % 3)

-----------------------------------------------------------------------------
(* Lemmas about runs, their prefixes and their last complete tick *)

\* An event of a run, or of a replay of it, is well formed; it completes a tick
\* exactly if it is the third of one.
LEMMA ReplayAtType ==
  ASSUME NEW i \in Nat, NEW k \in Int
  PROVE  /\ ReplayAt(i, k) \in StoredEvent
         /\ ReplayAt(i, k).kind = "completed" <=> i % 3 = 2
         /\ i < k => ReplayAt(i, k) = EventAt(i)
<1>1. Kind(i) \in {"run_started", "started", "acted", "completed"}
  BY DEF Kind
<1>2. Kind(i) = "completed" <=> i % 3 = 2
  BY DEF Kind
<1>3. i \div 3 \in Nat
  OBVIOUS
<1>4. ReplayAt(i, k) = [tick |-> i \div 3, kind |-> Kind(i), drifted |-> (i >= k)]
  BY DEF ReplayAt, EventAt
<1>5. i < k => ReplayAt(i, k) = EventAt(i)
  <2>1. i < k => (i >= k) = FALSE
    OBVIOUS
  <2> QED
    BY <1>4, <2>1 DEF EventAt
<1>6. (i >= k) \in BOOLEAN
  OBVIOUS
<1>7. ReplayAt(i, k) \in StoredEvent
  BY <1>1, <1>3, <1>4, <1>6 DEF StoredEvent
<1> QED
  BY <1>2, <1>4, <1>5, <1>7

\* The length of the run, by the configuration and the tick that halts it.
LEMMA RunLengthFacts ==
  ASSUME TypeOK
  PROVE  /\ FinalTick \in 0..LastTick
         /\ TicksLength \in Nat /\ TicksLength = 3 * FinalTick + 2
         /\ RunLength \in Nat /\ RunLength \in {TicksLength, TicksLength + 1}
         /\ RunLength = TicksLength + 1 <=> Invalidated
         /\ DriftPoints \subseteq Nat
         /\ Invalidated => \A k \in DriftPoints : k < TicksLength
<1>1. LastTick \in Nat /\ haltTick \in 0..(LastTick + 1)
  BY RunConstants DEF TypeOK
<1>2. FinalTick \in 0..LastTick
  BY <1>1 DEF FinalTick
<1>3. TicksLength \in Nat /\ TicksLength = 3 * FinalTick + 2
  BY <1>1, <1>2 DEF TicksLength
<1>4. /\ RunLength \in Nat /\ RunLength \in {TicksLength, TicksLength + 1}
      /\ RunLength = TicksLength + 1 <=> Invalidated
  BY <1>3 DEF RunLength
<1>5. Invalidated => missed
  BY DEF Invalidated
<1> QED
  BY <1>2, <1>3, <1>4, <1>5 DEF DriftPoints

\* An event of the run as its engine writes it is well formed, and completes a tick exactly
\* if it is the third of one.
LEMMA RunAtType ==
  ASSUME TypeOK, NEW i \in 1..RunLength
  PROVE  /\ RunAt(i) \in StoredEvent
         /\ RunAt(i).kind = "completed" <=> i % 3 = 2
<1>1. /\ FinalTick \in Nat /\ TicksLength = 3 * FinalTick + 2 /\ TicksLength \in Nat
      /\ RunLength \in Nat /\ RunLength \in {TicksLength, TicksLength + 1}
  BY RunLengthFacts, RunConstants
<1>2. CASE i <= TicksLength
  <2>1. RunAt(i) = EventAt(i) /\ i \in Nat /\ i + 1 \in Int
    BY <1>1, <1>2 DEF RunAt
  <2>2. ReplayAt(i, i + 1) = EventAt(i)
    BY <2>1, ReplayAtType
  <2> QED
    BY <2>1, <2>2, ReplayAtType
<1>3. CASE i > TicksLength
  <2>1. i = 3 * FinalTick + 3 /\ RunAt(i) = Invalidation
    BY <1>1, <1>3 DEF RunAt
  <2>2. i % 3 = 0
    BY <1>1, <2>1
  <2>3. Invalidation \in StoredEvent /\ Invalidation.kind = "invalidated"
    BY <1>1 DEF Invalidation, StoredEvent
  <2> QED
    BY <2>1, <2>2, <2>3
<1> QED
  BY <1>1, <1>2, <1>3

\* Appending the next m events of a replay keeps a prefix of it one.
LEMMA PrefixGrows ==
  ASSUME NEW s \in Seq(StoredEvent), NEW m \in Nat, NEW k \in Int,
         TicksLength \in Nat, ReplayHas(s, k), Len(s) + m <= TicksLength
  PROVE  LET w == s \o [i \in 1..m |-> ReplayAt(Len(s) + i, k)]
         IN  /\ w \in Seq(StoredEvent)
             /\ Len(w) = Len(s) + m
             /\ ReplayHas(w, k)
             /\ SubSeq(w, 1, Len(s)) = s
<1> DEFINE u == [i \in 1..m |-> ReplayAt(Len(s) + i, k)]
           w == s \o u
<1>1. \A i \in 1..m : ReplayAt(Len(s) + i, k) \in StoredEvent
  BY ReplayAtType
<1>2. u \in Seq(StoredEvent) /\ Len(u) = m
  BY <1>1
<1>3. \A i \in 1..m : u[i] = ReplayAt(Len(s) + i, k)
  OBVIOUS
<1> HIDE DEF u
<1>4. w \in Seq(StoredEvent) /\ Len(w) = Len(s) + m
  BY <1>2
<1>5. \A i \in 1..Len(s) : w[i] = s[i]
  BY <1>2
<1>6. \A i \in (Len(s) + 1)..(Len(s) + m) : w[i] = u[i - Len(s)]
  BY <1>2
<1> HIDE DEF w
<1>7. ReplayHas(w, k)
  <2> SUFFICES ASSUME NEW i \in 1..Len(w) PROVE w[i] = ReplayAt(i, k)
    BY <1>4 DEF ReplayHas
  <2>1. CASE i <= Len(s)
    BY <1>5, <2>1 DEF ReplayHas
  <2>2. CASE i > Len(s)
    <3>1. i \in (Len(s) + 1)..(Len(s) + m) /\ i - Len(s) \in 1..m
      BY <1>4, <2>2
    <3>2. w[i] = ReplayAt(Len(s) + (i - Len(s)), k)
      BY <1>3, <1>6, <3>1
    <3>3. Len(s) + (i - Len(s)) = i
      OBVIOUS
    <3> QED
      BY <3>2, <3>3
  <2> QED
    BY <2>1, <2>2
<1>8. SubSeq(w, 1, Len(s)) = s
  <2>1. /\ SubSeq(w, 1, Len(s)) \in Seq(StoredEvent)
        /\ Len(SubSeq(w, 1, Len(s))) = Len(s)
        /\ \A i \in 1..Len(s) : SubSeq(w, 1, Len(s))[i] = w[i]
    BY <1>4
  <2> QED
    BY <1>5, <2>1
<1> QED
  BY <1>4, <1>7, <1>8 DEF w, u

\* A prefix of a prefix.
LEMMA PrefixCut ==
  ASSUME NEW s \in Seq(StoredEvent), NEW n \in 0..Len(s)
  PROVE  /\ SubSeq(s, 1, n) \in Seq(StoredEvent)
         /\ Len(SubSeq(s, 1, n)) = n
         /\ \A i \in 1..n : SubSeq(s, 1, n)[i] = s[i]
         /\ n = Len(s) => SubSeq(s, 1, n) = s
  OBVIOUS

\* The value of LastDone, and that no later event completes a tick.
LEMMA LastDoneFacts ==
  ASSUME NEW n \in Nat
  PROVE  /\ LastDone(n) \in 0..n
         /\ LastDone(n) = 0 \/ LastDone(n) % 3 = 2
         /\ \A i \in 1..n : i % 3 = 2 => i <= LastDone(n)
         /\ LastDone(LastDone(n)) = LastDone(n)
         /\ \A m \in Nat : n <= m => LastDone(n) <= LastDone(m)
         /\ n % 3 = 2 => LastDone(n) = n
  BY DEF LastDone

\* What CompleteSeq finds in a prefix of a run or of a replay.
LEMMA CompleteSeqOfPrefix ==
  ASSUME NEW s \in Seq(StoredEvent),
         \A i \in 1..Len(s) : s[i].kind = "completed" <=> i % 3 = 2
  PROVE  CompleteSeq(s) = LastDone(Len(s))
<1> DEFINE complete == {i \in 1..Len(s) : s[i].kind = "completed"}
           c == LastDone(Len(s))
<1>0. Len(s) \in Nat
  OBVIOUS
<1>1. \A i \in 1..Len(s) : s[i].kind = "completed" <=> i % 3 = 2
  OBVIOUS
<1>2. \A i \in complete : i \in 1..Len(s) /\ i <= c
  BY <1>0, <1>1, LastDoneFacts
<1>3. c \in 0..Len(s)
  BY <1>0, LastDoneFacts
<1>4. CASE c = 0
  <2>1. complete = {}
    BY <1>2, <1>4
  <2> QED
    BY <1>4, <2>1 DEF CompleteSeq
<1>5. CASE c # 0
  <2>1. c \in complete
    BY <1>0, <1>1, <1>3, <1>5, LastDoneFacts
  <2>2. (CHOOSE i \in complete : \A j \in complete : j <= i) = c
    <3>1. \A i \in complete : (\A j \in complete : j <= i) => i = c
      <4> SUFFICES ASSUME NEW i \in complete, \A j \in complete : j <= i
                   PROVE  i = c
        OBVIOUS
      <4>1. c <= i /\ i <= c /\ i \in Nat /\ c \in Nat
        BY <1>2, <1>3, <2>1
      <4> QED
        BY <4>1
    <3>2. \A j \in complete : j <= c
      BY <1>2
    <3> HIDE DEF c, complete
    <3> QED
      BY <2>1, <3>1, <3>2
  <2> QED
    BY <2>1, <2>2 DEF CompleteSeq
<1> QED
  BY <1>4, <1>5

-----------------------------------------------------------------------------
(* The inductive invariant *)

\* The values of TypeOK and of the run that a proof about a step starts from.
LEMMA Facts ==
  ASSUME IInv
  PROVE  /\ events \in Seq(StoredEvent) /\ Len(events) \in Nat
         /\ LastTick \in Nat /\ tick \in 0..LastTick
         /\ FinalTick \in 0..LastTick
         /\ TicksLength \in Nat /\ TicksLength = 3 * FinalTick + 2
         /\ RunLength \in Nat /\ RunLength \in {TicksLength, TicksLength + 1}
         /\ RunLength = TicksLength + 1 <=> Invalidated
         /\ DriftPoints \subseteq Nat
         /\ Invalidated => \A k \in DriftPoints : k < TicksLength
  BY RunConstants, RunLengthFacts DEF IInv, TypeOK, StoredEvent

\* No step changes the run itself.
LEMMA SameRun ==
  ASSUME UNCHANGED runVars
  PROVE  /\ FinalTick' = FinalTick
         /\ TicksLength' = TicksLength
         /\ Invalidated' = Invalidated
         /\ RunLength' = RunLength
         /\ DriftPoints' = DriftPoints
         /\ Calls' = Calls
         /\ ReportStatus' = ReportStatus
         /\ Invalidation' = Invalidation
         /\ UNCHANGED <<haltTick, calls, drifts, missed>>
  BY DEF runVars, FinalTick, TicksLength, Invalidated, RunLength, DriftPoints, Calls,
         ReportStatus, Invalidation

\* While the events stay, they stay a prefix of whatever they were one of.
LEMMA SameEvents ==
  ASSUME UNCHANGED <<runVars, events>>
  PROVE  /\ \A k : ReplayHas(events, k)' <=> ReplayHas(events, k)
         /\ RunHas(events)' <=> RunHas(events)
         /\ StoredIsPrefix' <=> StoredIsPrefix
<1>1. /\ RunLength' = RunLength /\ DriftPoints' = DriftPoints
      /\ TicksLength' = TicksLength /\ Invalidation' = Invalidation
  BY SameRun
<1>2. \A k : ReplayHas(events, k)' <=> ReplayHas(events, k)
  BY <1>1 DEF ReplayHas
<1>3. RunHas(events)' <=> RunHas(events)
  BY <1>1 DEF RunHas, RunAt
<1> QED
  BY <1>1, <1>2, <1>3 DEF StoredIsPrefix

\* What is stored, the run's or a replay's, has its TICK_COMPLETED where a run has them.
LEMMA StoredCompletes ==
  ASSUME IInv
  PROVE  /\ Len(events) <= RunLength
         /\ \A i \in 1..Len(events) : events[i].kind = "completed" <=> i % 3 = 2
<1>1. /\ events \in Seq(StoredEvent) /\ Len(events) \in Nat /\ DriftPoints \subseteq Nat
      /\ RunLength \in Nat /\ TicksLength \in Nat /\ TicksLength <= RunLength /\ TypeOK
  BY Facts DEF IInv
<1>2. CASE RunHas(events)
  BY <1>1, <1>2, RunAtType DEF RunHas
<1>3. CASE \E k \in DriftPoints : ReplayHas(events, k)
  <2>1. PICK k \in DriftPoints : ReplayHas(events, k)
    BY <1>3
  <2> QED
    BY <1>1, <2>1, ReplayAtType DEF ReplayHas
<1> QED
  BY <1>2, <1>3 DEF IInv, StoredIsPrefix

\* A new run has stored nothing.
LEMMA InitIInv == Init => IInv
<1> SUFFICES ASSUME Init PROVE IInv
  OBVIOUS
<1>1. TypeOK
  <2>1. haltTick \in 0..(LastTick + 1) /\ LastTick \in Nat
    BY RunConstants DEF Init
  <2>2. TicksLength + 1 \in Nat
    BY <2>1 DEF TicksLength, FinalTick
  <2> QED
    BY <2>1, <2>2, RunConstants DEF Init, TypeOK, EngineAt, RepairAt
<1>2. RunLength \in Nat /\ Len(events) = 0
  BY <1>1, RunLengthFacts DEF Init
<1>3. RunHas(events)
  BY <1>2 DEF RunHas
<1>4. StoredIsPrefix
  BY <1>3 DEF StoredIsPrefix
<1>5. EngineWrote
  BY <1>2, <1>3 DEF EngineWrote, Init, Finished
<1>6. RepairHolds /\ FinishedIsWhole /\ ProjectionsAreOfWholeRun
  BY <1>2 DEF RepairHolds, FinishedIsWhole, ProjectionsAreOfWholeRun, Init, Finished
<1> QED
  BY <1>1, <1>4, <1>5, <1>6 DEF IInv

\* The engine at work stores the events up to the n-th in one transaction.
LEMMA AppendThroughGrows ==
  ASSUME IInv, UNCHANGED runVars, Writing,
         NEW n \in Nat, Len(events) <= n, n <= RunLength, AppendThrough(n)
  PROVE  /\ events' \in Seq(StoredEvent)
         /\ Len(events') = n
         /\ RunHas(events)'
         /\ StoredIsPrefix'
<1> DEFINE m == n - Len(events)
           u == [i \in 1..m |-> RunAt(Len(events) + i)]
<1>1. /\ events \in Seq(StoredEvent) /\ Len(events) \in Nat
      /\ RunLength \in Nat /\ TypeOK
  BY Facts DEF IInv
<1>2. m \in Nat /\ Len(events) + m = n
  BY <1>1
<1>3. RunHas(events)
  BY DEF IInv, EngineWrote
<1>4. events' = events \o u
  BY DEF AppendThrough
<1> HIDE DEF m
<1>5. \A i \in 1..m : RunAt(Len(events) + i) \in StoredEvent
  <2> TAKE i \in 1..m
  <2>1. Len(events) + i \in 1..RunLength
    BY <1>1, <1>2
  <2> QED
    BY <1>1, <2>1, RunAtType
<1>6. u \in Seq(StoredEvent) /\ Len(u) = m
  BY <1>2, <1>5
<1>7. \A i \in 1..m : u[i] = RunAt(Len(events) + i)
  OBVIOUS
<1> HIDE DEF u
<1>8. /\ events' \in Seq(StoredEvent) /\ Len(events') = n
      /\ \A i \in 1..Len(events) : events'[i] = events[i]
      /\ \A i \in (Len(events) + 1)..n : events'[i] = u[i - Len(events)]
  BY <1>1, <1>2, <1>4, <1>6
<1>9. /\ RunLength' = RunLength /\ \A i : RunAt(i)' = RunAt(i)
  BY SameRun DEF RunAt
<1>10. \A i \in 1..n : events'[i] = RunAt(i)
  <2> TAKE i \in 1..n
  <2>1. CASE i <= Len(events)
    BY <1>1, <1>3, <1>8, <2>1 DEF RunHas
  <2>2. CASE i > Len(events)
    <3>1. i \in (Len(events) + 1)..n /\ i - Len(events) \in 1..m
      BY <1>1, <1>2, <2>2
    <3>2. events'[i] = RunAt(Len(events) + (i - Len(events)))
      BY <1>7, <1>8, <3>1
    <3>3. Len(events) + (i - Len(events)) = i
      BY <1>1
    <3> QED
      BY <3>2, <3>3
  <2> QED
    BY <1>1, <2>1, <2>2
<1>11. RunHas(events)'
  BY <1>8, <1>9, <1>10 DEF RunHas
<1> QED
  BY <1>8, <1>11 DEF StoredIsPrefix

\* A step of the engine.
LEMMA EngineStepPreserves ==
  ASSUME IInv, EngineStep
  PROVE  IInv'
<1>0. /\ events \in Seq(StoredEvent) /\ Len(events) \in Nat
      /\ LastTick \in Nat /\ tick \in 0..LastTick
      /\ FinalTick \in 0..LastTick
      /\ TicksLength \in Nat /\ TicksLength = 3 * FinalTick + 2
      /\ RunLength \in Nat /\ RunLength \in {TicksLength, TicksLength + 1}
      /\ RunLength = TicksLength + 1 <=> Invalidated
  BY Facts
<1>1. UNCHANGED <<runVars, repairVars, kills>>
  BY DEF EngineStep, StartRun, CommitGenesis, SealGenesis, Decide, CommitTick,
         CompleteTick, Invalidate, Project, Finish
<1>2. /\ FinalTick' = FinalTick /\ RunLength' = RunLength /\ DriftPoints' = DriftPoints
      /\ TicksLength' = TicksLength /\ Invalidated' = Invalidated
      /\ UNCHANGED <<haltTick, calls, drifts, missed, repair, drift, refusal, kills>>
      /\ ReportStatus' = ReportStatus
  BY <1>1, SameRun DEF repairVars
<1>3. /\ engine \in {"idle", "genesis", "sealGenesis", "tick", "commit", "complete",
                     "invalidate", "project", "finish"}
      /\ Writing
  BY DEF EngineStep, StartRun, CommitGenesis, SealGenesis, Decide, CommitTick,
         CompleteTick, Invalidate, Project, Finish, Writing, EngineAlive
<1>4. repair = "idle" /\ ~Finished /\ RunHas(events)
  BY <1>3 DEF IInv, EngineWrote
<1>5. CASE StartRun
  <2>1. UNCHANGED events /\ StoredIsPrefix' /\ RunHas(events)'
    BY <1>1, <1>2, <1>4, <1>5, SameEvents DEF StartRun, IInv
  <2>2. TypeOK'
    BY <1>2, <1>5 DEF StartRun, IInv, TypeOK, cacheVars, EngineAt
  <2>3. EngineWrote'
    BY <1>2, <1>4, <1>5, <2>1 DEF StartRun, IInv, EngineWrote, Writing, EngineAlive, Finished
  <2>4. RepairHolds' /\ FinishedIsWhole' /\ ProjectionsAreOfWholeRun'
    BY <1>2, <1>4, <1>5 DEF StartRun, IInv, RepairHolds, FinishedIsWhole,
       ProjectionsAreOfWholeRun, Finished
  <2> QED
    BY <2>1, <2>2, <2>3, <2>4 DEF IInv
<1>6. CASE CommitGenesis
  <2>1. /\ AppendThrough(1) /\ Len(events) = 0
        /\ 1 \in Nat /\ Len(events) <= 1 /\ 1 <= RunLength
    BY <1>0, <1>3, <1>6 DEF CommitGenesis, IInv, EngineWrote
  <2>2. /\ events' \in Seq(StoredEvent) /\ Len(events') = 1
        /\ RunHas(events)' /\ StoredIsPrefix'
    BY <1>1, <1>3, <2>1, AppendThroughGrows
  <2>3. TypeOK'
    BY <1>2, <1>6, <2>2 DEF CommitGenesis, IInv, TypeOK, cacheVars, rowVars, EngineAt, StoredEvent
  <2>4. EngineWrote'
    BY <1>2, <1>3, <1>4, <1>6, <2>2
       DEF CommitGenesis, IInv, EngineWrote, Writing, EngineAlive, Finished, rowVars
  <2>5. RepairHolds' /\ FinishedIsWhole' /\ ProjectionsAreOfWholeRun'
    BY <1>2, <1>3, <1>4, <1>6, <2>4 DEF CommitGenesis, IInv, RepairHolds, FinishedIsWhole,
       ProjectionsAreOfWholeRun, Finished, EngineWrote, rowVars
  <2> QED
    BY <2>2, <2>3, <2>4, <2>5 DEF IInv
<1>7. CASE SealGenesis
  <2>1. /\ AppendThrough(2) /\ Len(events) = 1 /\ tick = 0
        /\ 2 \in Nat /\ Len(events) <= 2 /\ 2 <= RunLength
    <3>1. engine = "sealGenesis" /\ AppendThrough(2)
      BY <1>7 DEF SealGenesis
    <3>2. Len(events) = 1 /\ tick = 0
      BY <1>3, <3>1 DEF IInv, EngineWrote
    <3> QED
      BY <1>0, <3>1, <3>2
  <2>2. /\ events' \in Seq(StoredEvent) /\ Len(events') = 2
        /\ RunHas(events)' /\ StoredIsPrefix'
    BY <1>1, <1>3, <2>1, AppendThroughGrows
  <2>3. TypeOK'
    BY <1>2, <1>7, <2>2 DEF SealGenesis, IInv, TypeOK, cacheVars, rowVars, EngineAt,
       StoredEvent, AfterTick
  <2>4. EngineWrote'
    BY <1>0, <1>2, <1>3, <1>4, <1>7, <2>1, <2>2
       DEF SealGenesis, IInv, EngineWrote, Writing, EngineAlive, Finished, rowVars, AfterTick
  <2>5. RepairHolds' /\ FinishedIsWhole' /\ ProjectionsAreOfWholeRun'
    BY <1>2, <1>3, <1>4, <1>7 DEF SealGenesis, IInv, RepairHolds, FinishedIsWhole,
       ProjectionsAreOfWholeRun, Finished, EngineWrote, rowVars
  <2> QED
    BY <2>2, <2>3, <2>4, <2>5 DEF IInv
<1>8. CASE Decide
  <2>0. engine = "tick" /\ tick < FinalTick /\ Len(events) = 3 * tick + 2
    BY <1>3, <1>8 DEF Decide, IInv, EngineWrote
  <2>1. UNCHANGED events /\ StoredIsPrefix' /\ RunHas(events)'
    BY <1>1, <1>2, <1>4, <1>8, SameEvents DEF Decide, IInv
  <2>2. durable' \in Nat /\ pending' \in Nat
    <3>1. durable \in Nat /\ pending \in Nat
      BY DEF IInv, TypeOK
    <3> QED
      BY <1>8, <3>1 DEF Decide
  <2>3. TypeOK'
    BY <1>0, <1>2, <1>8, <2>0, <2>1, <2>2 DEF Decide, IInv, TypeOK, rowVars, EngineAt
  <2>4. EngineWrote'
    BY <1>0, <1>2, <1>3, <1>4, <1>8, <2>0, <2>1
       DEF Decide, IInv, EngineWrote, Writing, EngineAlive, Finished, rowVars
  <2>5. RepairHolds' /\ FinishedIsWhole' /\ ProjectionsAreOfWholeRun'
    BY <1>2, <1>3, <1>4, <1>8 DEF Decide, IInv, RepairHolds, FinishedIsWhole,
       ProjectionsAreOfWholeRun, Finished, EngineWrote, rowVars
  <2> QED
    BY <2>1, <2>3, <2>4, <2>5 DEF IInv
<1>9. CASE CommitTick
  <2>1. /\ engine = "commit" /\ AppendThrough(3 * tick + 1)
        /\ tick \in 1..FinalTick /\ Len(events) = 3 * tick - 1
        /\ 3 * tick + 1 \in Nat /\ 3 * tick + 1 <= RunLength
    BY <1>0, <1>3, <1>9 DEF CommitTick, IInv, EngineWrote
  <2>2. /\ events' \in Seq(StoredEvent) /\ Len(events') = 3 * tick + 1
        /\ RunHas(events)' /\ StoredIsPrefix'
    BY <1>0, <1>1, <1>3, <2>1, AppendThroughGrows
  <2>3. TypeOK'
    BY <1>2, <1>9, <2>2 DEF CommitTick, IInv, TypeOK, cacheVars, rowVars, EngineAt, StoredEvent
  <2>4. EngineWrote'
    BY <1>0, <1>2, <1>3, <1>4, <1>9, <2>1, <2>2
       DEF CommitTick, IInv, EngineWrote, Writing, EngineAlive, Finished, rowVars
  <2>5. RepairHolds' /\ FinishedIsWhole' /\ ProjectionsAreOfWholeRun'
    BY <1>2, <1>3, <1>4, <1>9 DEF CommitTick, IInv, RepairHolds, FinishedIsWhole,
       ProjectionsAreOfWholeRun, Finished, EngineWrote, rowVars
  <2> QED
    BY <2>2, <2>3, <2>4, <2>5 DEF IInv
<1>10. CASE CompleteTick
  <2>1. /\ engine = "complete" /\ AppendThrough(3 * tick + 2)
        /\ tick \in 1..FinalTick /\ Len(events) = 3 * tick + 1
        /\ 3 * tick + 2 \in Nat /\ 3 * tick + 2 <= RunLength
    BY <1>0, <1>3, <1>10 DEF CompleteTick, IInv, EngineWrote
  <2>2. /\ events' \in Seq(StoredEvent) /\ Len(events') = 3 * tick + 2
        /\ RunHas(events)' /\ StoredIsPrefix'
    BY <1>0, <1>1, <1>3, <2>1, AppendThroughGrows
  <2>3. TypeOK'
    BY <1>2, <1>10, <2>2 DEF CompleteTick, IInv, TypeOK, cacheVars, rowVars, EngineAt,
       StoredEvent, AfterTick
  <2>4. EngineWrote'
    BY <1>0, <1>2, <1>3, <1>4, <1>10, <2>1, <2>2
       DEF CompleteTick, IInv, EngineWrote, Writing, EngineAlive, Finished, rowVars, AfterTick
  <2>5. RepairHolds' /\ FinishedIsWhole' /\ ProjectionsAreOfWholeRun'
    BY <1>2, <1>3, <1>4, <1>10 DEF CompleteTick, IInv, RepairHolds, FinishedIsWhole,
       ProjectionsAreOfWholeRun, Finished, EngineWrote, rowVars
  <2> QED
    BY <2>2, <2>3, <2>4, <2>5 DEF IInv
<1>13. CASE Invalidate
  <2>1. /\ engine = "invalidate" /\ AppendThrough(RunLength) /\ Len(events) <= RunLength
    BY <1>0, <1>3, <1>13 DEF Invalidate, IInv, EngineWrote
  <2>2. /\ events' \in Seq(StoredEvent) /\ Len(events') = RunLength
        /\ RunHas(events)' /\ StoredIsPrefix'
    BY <1>0, <1>1, <1>3, <2>1, AppendThroughGrows
  <2>3. TypeOK'
    BY <1>2, <1>13, <2>2 DEF Invalidate, IInv, TypeOK, cacheVars, rowVars, EngineAt, StoredEvent
  <2>4. EngineWrote'
    BY <1>0, <1>2, <1>3, <1>4, <1>13, <2>1, <2>2
       DEF Invalidate, IInv, EngineWrote, Writing, EngineAlive, Finished, rowVars
  <2>5. RepairHolds' /\ FinishedIsWhole' /\ ProjectionsAreOfWholeRun'
    BY <1>2, <1>3, <1>4, <1>13 DEF Invalidate, IInv, RepairHolds, FinishedIsWhole,
       ProjectionsAreOfWholeRun, Finished, EngineWrote, rowVars
  <2> QED
    BY <2>2, <2>3, <2>4, <2>5 DEF IInv
<1>11. CASE Project
  <2>0. engine = "project" /\ Len(events) = RunLength
    BY <1>3, <1>11 DEF Project, IInv, EngineWrote
  <2>1. UNCHANGED events /\ StoredIsPrefix' /\ RunHas(events)'
    BY <1>1, <1>2, <1>4, <1>11, SameEvents DEF Project, IInv
  <2>2. TypeOK'
    BY <1>2, <1>11 DEF Project, IInv, TypeOK, cacheVars, rowVars, EngineAt
  <2>3. EngineWrote'
    BY <1>2, <1>4, <1>11, <2>0, <2>1
       DEF Project, IInv, EngineWrote, Writing, EngineAlive, Finished, rowVars
  <2>4. RepairHolds' /\ FinishedIsWhole' /\ ProjectionsAreOfWholeRun'
    BY <1>0, <1>2, <1>4, <1>11, <2>0 DEF Project, IInv, RepairHolds, FinishedIsWhole,
       ProjectionsAreOfWholeRun, Finished, rowVars
  <2> QED
    BY <2>1, <2>2, <2>3, <2>4 DEF IInv
<1>12. CASE Finish
  <2>0. engine = "finish" /\ Len(events) = RunLength /\ ReportStatus \in {"completed", "halted"}
    BY <1>3, <1>12 DEF Finish, IInv, EngineWrote, ReportStatus
  <2>1. UNCHANGED events /\ StoredIsPrefix'
    BY <1>1, <1>12, SameEvents DEF Finish, IInv
  <2>2. TypeOK'
    BY <1>0, <1>2, <1>12, <2>0 DEF Finish, IInv, TypeOK, rowVars, EngineAt
  <2>3. EngineWrote'
    BY <1>12 DEF Finish, EngineWrote, Writing, EngineAlive
  <2>4. RepairHolds' /\ ProjectionsAreOfWholeRun'
    BY <1>0, <1>2, <1>4, <1>12, <2>0, <2>1 DEF Finish, IInv, RepairHolds,
       ProjectionsAreOfWholeRun
  <2>5. events[TicksLength] = EventAt(TicksLength)
    BY <1>0, <1>4, <2>0 DEF RunHas, RunAt
  <2>6. FinishedIsWhole'
    BY <1>0, <1>2, <1>4, <1>12, <2>0, <2>1, <2>5 DEF Finish, FinishedIsWhole, SealedByEngine,
       Finished, rowVars
  <2> QED
    BY <2>1, <2>2, <2>3, <2>4, <2>6 DEF IInv
<1> QED
  BY <1>5, <1>6, <1>7, <1>8, <1>9, <1>10, <1>11, <1>12, <1>13 DEF EngineStep

\* A refused start, a failure and a kill of the engine, and the death of a
\* repair: no event is written, and a row is at most marked failed.
LEMMA DeathPreserves ==
  ASSUME IInv, StartAgain \/ Fail \/ Kill \/ KillRepair
  PROVE  IInv'
<1>0. LastTick \in Nat /\ MaxKills \in Nat /\ RunLength \in Nat
  BY RunConstants, Facts
<1>1. UNCHANGED <<runVars, events, terminal, projected, drift, refusal, tick>>
  BY DEF StartAgain, Fail, Kill, KillRepair, rowVars, engineVars, repairVars
<1>2. /\ FinalTick' = FinalTick /\ RunLength' = RunLength /\ DriftPoints' = DriftPoints
      /\ TicksLength' = TicksLength /\ Invalidated' = Invalidated
      /\ UNCHANGED <<haltTick, calls, drifts, missed, events, terminal, projected, drift,
                     refusal, tick>>
  BY <1>1, SameRun
<1>3. /\ \A k : ReplayHas(events, k)' <=> ReplayHas(events, k)
      /\ RunHas(events)' <=> RunHas(events)
      /\ StoredIsPrefix'
  BY <1>1, SameEvents DEF IInv
<1>4. Finished' => Finished
  BY DEF StartAgain, Fail, Kill, KillRepair, rowVars, Finished
<1>5. FinishedIsWhole' /\ ProjectionsAreOfWholeRun'
  <2>1. engine' = "finish" => engine = "finish"
    BY DEF StartAgain, Fail, Kill, KillRepair, engineVars
  <2> QED
    BY <1>2, <1>4, <2>1 DEF IInv, FinishedIsWhole, SealedByEngine, ProjectionsAreOfWholeRun
<1>6. RepairHolds'
  BY <1>2, <1>3 DEF IInv, RepairHolds, StartAgain, Fail, Kill, KillRepair, repairVars
<1>7. EngineWrote'
  <2>1. CASE StartAgain
    <3>1. UNCHANGED <<engine, repair>>
      BY <2>1 DEF StartAgain, engineVars, repairVars
    <3> QED
      BY <1>2, <1>3, <1>4, <3>1 DEF IInv, EngineWrote, Writing, EngineAlive
  <2>2. CASE Fail \/ Kill
    BY <2>2 DEF Fail, Kill, EngineWrote, Writing, EngineAlive
  <2>3. CASE KillRepair
    <3>1. UNCHANGED engine /\ repair # "idle"
      BY <2>3 DEF KillRepair, engineVars
    <3> QED
      BY <3>1 DEF IInv, EngineWrote, Writing, EngineAlive
  <2> QED
    BY <2>1, <2>2, <2>3
<1>8. TypeOK'
  <2>0. durable \in Nat /\ pending \in Nat /\ manifest \in Nat /\ kills \in 0..MaxKills
    BY DEF IInv, TypeOK
  <2>1. /\ durable' \in Nat /\ pending' \in Nat /\ manifest' \in Nat
        /\ kills' \in 0..MaxKills
    BY <1>0, <2>0 DEF StartAgain, Fail, Kill, KillRepair, rowVars, cacheVars
  <2>2. /\ status' \in {"absent", "running", "completed", "halted", "failed"}
        /\ engine' \in EngineAt /\ repair' \in RepairAt
    BY DEF IInv, TypeOK, StartAgain, Fail, Kill, KillRepair, rowVars, engineVars,
       repairVars, EngineAt, RepairAt
  <2> QED
    BY <1>2, <2>1, <2>2 DEF IInv, TypeOK
<1> QED
  BY <1>3, <1>5, <1>6, <1>7, <1>8 DEF IInv

\* The operator starts a resume or a rebuild, or is refused.
LEMMA StartRepairPreserves ==
  ASSUME IInv,
         \/ \E k \in DriftPoints : StartResume(k) \/ StartRebuild(k)
         \/ RefuseResume
  PROVE  IInv'
<1>0. DriftPoints \subseteq Nat /\ RunLength \in Nat /\ TicksLength \in Nat
  BY Facts
<1>1. /\ UNCHANGED <<runVars, events, rowVars, cacheVars, engineVars, kills>>
      /\ Quiet
  BY DEF StartResume, StartRebuild, RefuseResume
<1>2. /\ FinalTick' = FinalTick /\ RunLength' = RunLength /\ DriftPoints' = DriftPoints
      /\ TicksLength' = TicksLength /\ Invalidated' = Invalidated
      /\ UNCHANGED <<haltTick, calls, drifts, missed, events, status, terminal, manifest,
                     durable, pending, engine, tick, kills>>
  BY <1>1, SameRun DEF rowVars, cacheVars, engineVars
<1>3. StoredIsPrefix' /\ \A k : ReplayHas(events, k)' <=> ReplayHas(events, k)
  BY <1>1, SameEvents DEF IInv
<1>4. EngineWrote'
  BY <1>1, <1>2 DEF Quiet, EngineWrote, Writing, EngineAlive
<1>5. FinishedIsWhole'
  BY <1>2 DEF IInv, FinishedIsWhole, SealedByEngine, Finished
<1>6. /\ drift' \in Nat /\ (repair' # "idle" => drift' \in DriftPoints)
      /\ repair' \in {"idle", "delete", "rebuildClear"}
      /\ repair' = "rebuildClear" => Len(events) = TicksLength /\ ReplayHas(events, drift')
      /\ projected' \in {projected, "partial"}
      /\ projected' # "none" => projected # "none"
      /\ refusal' \in {refusal, "none", "no_run_started", "cache_miss", "manifest"}
  BY <1>0, <1>1 DEF IInv, TypeOK, RepairHolds, StartResume, StartRebuild, RefuseResume, Quiet,
     Refusal
<1>7. RepairHolds' /\ ProjectionsAreOfWholeRun'
  BY <1>1, <1>2, <1>3, <1>6 DEF IInv, RepairHolds, ProjectionsAreOfWholeRun, Quiet
<1>8. TypeOK'
  BY <1>0, <1>2, <1>6 DEF IInv, TypeOK, RepairAt
<1> QED
  BY <1>3, <1>4, <1>5, <1>7, <1>8 DEF IInv

\* What the delete of resume leaves: the events of the complete ticks, of all ticks if the run
\* has them.
LEMMA DeleteKeepsTicks ==
  ASSUME IInv
  PROVE  /\ CompleteSeq(events) = LastDone(Len(events))
         /\ CompleteSeq(events) \in 0..Len(events)
         /\ CompleteSeq(events) <= TicksLength
         /\ Len(events) >= TicksLength => CompleteSeq(events) = TicksLength
<1>1. /\ events \in Seq(StoredEvent) /\ Len(events) \in Nat
      /\ FinalTick \in Nat
      /\ TicksLength \in Nat /\ TicksLength = 3 * FinalTick + 2
      /\ RunLength \in {TicksLength, TicksLength + 1}
  BY Facts
<1>2. /\ Len(events) <= RunLength
      /\ \A i \in 1..Len(events) : events[i].kind = "completed" <=> i % 3 = 2
  BY StoredCompletes
<1>3. CompleteSeq(events) = LastDone(Len(events))
  BY <1>1, <1>2, CompleteSeqOfPrefix
<1>4. LastDone(Len(events)) \in 0..Len(events)
  BY <1>1, LastDoneFacts
<1>5. Len(events) <= TicksLength + 1
  BY <1>1, <1>2
<1>6. /\ Len(events) = TicksLength => LastDone(Len(events)) = TicksLength
      /\ Len(events) = TicksLength + 1 => LastDone(Len(events)) = TicksLength
  <2>1. \A f \in Nat : LastDone(3 * f + 2) = 3 * f + 2 /\ LastDone(3 * f + 3) = 3 * f + 2
    BY DEF LastDone
  <2> QED
    BY <1>1, <2>1
<1> QED
  BY <1>1, <1>3, <1>4, <1>5, <1>6

\* A step of resume or of rebuild.
LEMMA ResumeStepPreserves ==
  ASSUME IInv, ResumeStep
  PROVE  IInv'
<1>0. /\ events \in Seq(StoredEvent) /\ Len(events) \in Nat
      /\ TicksLength \in Nat /\ RunLength \in Nat /\ DriftPoints \subseteq Nat
      /\ RunLength \in {TicksLength, TicksLength + 1}
      /\ Invalidated => \A k \in DriftPoints : k < TicksLength
      /\ TicksLength > 0
  BY Facts
<1>1. /\ UNCHANGED <<runVars, manifest, cacheVars, engineVars, drift, kills>>
      /\ repair # "idle"
  BY DEF ResumeStep, ResumeDelete, ResumeCompare, ResumeAppend, ResumeClear,
         ClearDone, RepairProject, ResumeFinish, rowVars, repairVars
<1>2. /\ FinalTick' = FinalTick /\ RunLength' = RunLength /\ DriftPoints' = DriftPoints
      /\ TicksLength' = TicksLength /\ Invalidated' = Invalidated
      /\ UNCHANGED <<haltTick, calls, drifts, missed, manifest, durable, pending, engine, tick,
                     drift, kills>>
  BY <1>1, SameRun DEF cacheVars, engineVars
<1>3. ~Writing /\ engine # "finish"
  BY <1>1 DEF IInv, EngineWrote, Writing, EngineAlive
<1>4. EngineWrote'
  BY <1>2, <1>3 DEF EngineWrote, Writing, EngineAlive
<1>5. drift \in DriftPoints /\ drift \in Int
  <2>1. drift \in DriftPoints
    BY <1>1 DEF IInv, RepairHolds
  <2> QED
    BY <1>0, <2>1
<1>6. CASE ResumeDelete
  <2> DEFINE c == CompleteSeq(events)
  <2>1. /\ events' = SubSeq(events, 1, c) /\ repair' = "compare"
        /\ UNCHANGED <<status, terminal, projected, refusal>>
    BY <1>6 DEF ResumeDelete, rowVars
  <2>2. /\ c \in 0..Len(events) /\ c <= TicksLength
        /\ Len(events) >= TicksLength => c = TicksLength
    BY DeleteKeepsTicks
  <2> HIDE DEF c
  <2>3. /\ events' \in Seq(StoredEvent) /\ Len(events') = c
        /\ \A i \in 1..c : events'[i] = events[i]
    BY <1>0, <2>1, <2>2, PrefixCut
  <2>4. StoredIsPrefix'
    <3>1. CASE RunHas(events)
      <4>1. \A i : RunAt(i)' = RunAt(i)
        BY <1>1, SameRun DEF RunAt
      <4>2. RunHas(events)'
        BY <1>0, <1>2, <2>2, <2>3, <3>1, <4>1 DEF RunHas
      <4> QED
        BY <4>2 DEF StoredIsPrefix
    <3>2. CASE \E k \in DriftPoints : ReplayHas(events, k)
      <4>1. PICK k \in DriftPoints : ReplayHas(events, k)
        BY <3>2
      <4>2. ReplayHas(events, k)'
        BY <1>0, <1>2, <2>2, <2>3, <4>1 DEF ReplayHas
      <4> QED
        BY <1>2, <4>2 DEF StoredIsPrefix
    <3> QED
      BY <3>1, <3>2 DEF IInv, StoredIsPrefix
  <2>5. Len(events) >= TicksLength =>
          Len(events') >= TicksLength /\ events'[TicksLength] = events[TicksLength]
    BY <1>0, <2>2, <2>3
  <2>6. FinishedIsWhole' /\ ProjectionsAreOfWholeRun'
    BY <1>2, <1>3, <2>1, <2>5 DEF IInv, FinishedIsWhole, SealedByEngine,
       ProjectionsAreOfWholeRun, Finished
  <2>7. RepairHolds'
    BY <1>2, <1>5, <2>1 DEF RepairHolds
  <2>8. TypeOK'
    BY <1>2, <2>1, <2>3 DEF IInv, TypeOK, StoredEvent, RepairAt
  <2> QED
    BY <1>4, <2>4, <2>6, <2>7, <2>8 DEF IInv
<1>7. CASE ResumeAppend
  <2> DEFINE left == TicksLength - Len(events)
             size == IF left < BatchSize THEN left ELSE BatchSize
             u == [i \in 1..size |-> ReplayAt(Len(events) + i, drift)]
  <2>1. /\ repair = "append" /\ left > 0 /\ events' = events \o u
        /\ UNCHANGED <<status, terminal, projected, refusal, repair>>
    BY <1>7 DEF ResumeAppend, rowVars, repairVars
  <2>2. size \in Nat /\ size > 0 /\ Len(events) + size <= TicksLength
    BY <1>0, <2>1, RunConstants
  <2>3. ReplayHas(events, drift) /\ ~(Len(events) >= TicksLength)
    BY <1>0, <2>1 DEF IInv, RepairHolds
  <2>4. events' \in Seq(StoredEvent) /\ ReplayHas(events', drift)
    <3> HIDE DEF size
    <3>1. LET w == events \o u
          IN  /\ w \in Seq(StoredEvent)
              /\ Len(w) = Len(events) + size
              /\ ReplayHas(w, drift)
              /\ SubSeq(w, 1, Len(events)) = events
      BY <1>0, <1>5, <2>2, <2>3, PrefixGrows
    <3> QED
      BY <2>1, <3>1
  <2>5. ReplayHas(events, drift)'
    BY <1>2, <2>4 DEF ReplayHas
  <2>6. StoredIsPrefix'
    BY <1>2, <1>5, <2>5 DEF StoredIsPrefix
  <2> HIDE DEF u, size, left
  <2>7. FinishedIsWhole' /\ ProjectionsAreOfWholeRun'
    BY <2>1, <2>3 DEF IInv, FinishedIsWhole, ProjectionsAreOfWholeRun, Finished
  <2>8. RepairHolds'
    BY <1>2, <1>5, <2>1, <2>5 DEF RepairHolds
  <2>9. TypeOK'
    BY <1>2, <2>1, <2>4 DEF IInv, TypeOK, StoredEvent
  <2> QED
    BY <1>4, <2>6, <2>7, <2>8, <2>9 DEF IInv
<1>8. CASE ResumeCompare \/ ResumeClear \/ ClearDone \/ RepairProject \/ ResumeFinish
  <2>1. UNCHANGED events
    BY <1>8 DEF ResumeCompare, ResumeClear, ClearDone, RepairProject, ResumeFinish
  <2>2. StoredIsPrefix' /\ \A k : ReplayHas(events, k)' <=> ReplayHas(events, k)
    BY <1>1, <2>1, SameEvents DEF IInv
  <2>3. RepairHolds'
    BY <1>2, <1>5, <1>8, <2>1, <2>2 DEF IInv, RepairHolds, ResumeCompare, ResumeClear,
       ClearDone, RepairProject, ResumeFinish
  <2>4. ProjectionsAreOfWholeRun'
    BY <1>0, <1>2, <1>3, <1>8, <2>1 DEF IInv, ProjectionsAreOfWholeRun, RepairHolds,
       ResumeCompare, ResumeClear, ClearDone, RepairProject, ResumeFinish
  <2>5. FinishedIsWhole'
    BY <1>0, <1>2, <1>8, <2>1 DEF IInv, FinishedIsWhole, SealedByEngine, Finished, RepairHolds,
       ResumeCompare, ResumeClear, ClearDone, RepairProject, ResumeFinish, rowVars
  <2>6. TypeOK'
    BY <1>0, <1>2, <1>8, <2>1 DEF IInv, TypeOK, ResumeCompare, ResumeClear, ClearDone,
       RepairProject, ResumeFinish, rowVars, RepairAt
  <2> QED
    BY <1>4, <2>2, <2>3, <2>4, <2>5, <2>6 DEF IInv
<1> QED
  BY <1>6, <1>7, <1>8 DEF ResumeStep

\* Every step keeps the invariant.
LEMMA NextPreserves == IInv /\ [Next]_vars => IInv'
<1> SUFFICES ASSUME IInv, [Next]_vars PROVE IInv'
  OBVIOUS
<1>1. CASE EngineStep
  BY <1>1, EngineStepPreserves
<1>2. CASE StartAgain \/ Fail \/ Kill \/ KillRepair
  BY <1>2, DeathPreserves
<1>3. CASE (\E k \in DriftPoints : StartResume(k) \/ StartRebuild(k)) \/ RefuseResume
  BY <1>3, StartRepairPreserves
<1>4. CASE ResumeStep
  BY <1>4, ResumeStepPreserves
<1>5. CASE UNCHANGED vars
  <2>1. UNCHANGED <<runVars, events, rowVars, projected, cacheVars, engineVars, repairVars, kills>>
    BY <1>5 DEF vars
  <2>2. /\ FinalTick' = FinalTick /\ RunLength' = RunLength /\ DriftPoints' = DriftPoints
        /\ TicksLength' = TicksLength /\ Invalidated' = Invalidated
        /\ UNCHANGED <<haltTick, calls, drifts, missed, events, status, terminal, manifest, projected,
                       durable, pending, engine, tick, repair, drift, refusal, kills>>
    BY <2>1, SameRun DEF rowVars, cacheVars, engineVars, repairVars
  <2>3. /\ StoredIsPrefix' /\ \A k : ReplayHas(events, k)' <=> ReplayHas(events, k)
        /\ RunHas(events)' <=> RunHas(events)
    BY <2>1, SameEvents DEF IInv
  <2>4. TypeOK' /\ RepairHolds' /\ FinishedIsWhole' /\ ProjectionsAreOfWholeRun'
    BY <2>2, <2>3 DEF IInv, TypeOK, RepairHolds, FinishedIsWhole, SealedByEngine, Finished,
       ProjectionsAreOfWholeRun
  <2>5. EngineWrote'
    BY <2>2, <2>3 DEF IInv, EngineWrote, Writing, EngineAlive, Finished
  <2> QED
    BY <2>3, <2>4, <2>5 DEF IInv
<1> QED
  BY <1>1, <1>2, <1>3, <1>4, <1>5 DEF Next

\* The inductive invariant holds of every run, whenever and however often its
\* processes are killed.
LEMMA Invariance == Spec => []IInv
<1> QED
  BY InitIInv, NextPreserves, PTL DEF Spec

\* The tables, the cache and the control points stay well formed (tick.py,
\* store/living_city.py, operations.py).
THEOREM TypeCorrect == Spec => []TypeOK
<1>1. IInv => TypeOK
  BY DEF IInv
<1> QED
  BY Invariance, <1>1, PTL

\* The stored events are always the first events of one execution of the run, without a gap
\* or a repetition, whoever wrote them (tick.py:224-296, living_city.py:1673-1687,
\* operations.py:166-180).
THEOREM PrefixStored == Spec => []StoredIsPrefix
<1>1. IInv => StoredIsPrefix
  BY DEF IInv
<1> QED
  BY Invariance, <1>1, PTL

\* Projections are stored only for runs with all their ticks, and the engine writes them behind
\* the closing EXTERNAL_ARENA_INVALIDATED of a run that has one (living_city.py:1673-1687,
\* store/living_city.py:1703, operations.py:181).
THEOREM ProjectedWhole == Spec => []ProjectionsAreOfWholeRun
<1>1. IInv => ProjectionsAreOfWholeRun
  BY DEF IInv
<1> QED
  BY Invariance, <1>1, PTL

-----------------------------------------------------------------------------
(* The stored run implements the journal *)

Kept == SubSeq(events, 1, CompleteSeq(events))

\* The journal read off the tables: as many entries as the complete ticks have.
LEMMA KeptFacts ==
  ASSUME IInv
  PROVE  /\ Kept \in Seq(StoredEvent)
         /\ Len(Kept) = LastDone(Len(events))
         /\ \A i \in 1..Len(Kept) : Kept[i] = events[i]
         /\ Len(Kept) <= TicksLength
         /\ Len(events) >= TicksLength => Len(Kept) = TicksLength
<1>1. events \in Seq(StoredEvent) /\ Len(events) \in Nat
  BY Facts
<1>2. /\ CompleteSeq(events) = LastDone(Len(events))
      /\ CompleteSeq(events) \in 0..Len(events)
      /\ CompleteSeq(events) <= TicksLength
      /\ Len(events) >= TicksLength => CompleteSeq(events) = TicksLength
  BY DeleteKeepsTicks
<1>3. /\ Kept \in Seq(StoredEvent)
      /\ Len(Kept) = CompleteSeq(events)
      /\ \A i \in 1..CompleteSeq(events) : Kept[i] = events[i]
  BY <1>1, <1>2, PrefixCut DEF Kept
<1> QED
  BY <1>2, <1>3

\* Events added behind the stored ones add complete ticks, or none.
LEMMA GrowthRecords ==
  ASSUME IInv, IInv', UNCHANGED runVars, Len(events) <= Len(events'),
         \A i \in 1..Len(events) : events'[i] = events[i]
  PROVE  \/ Kept' = Kept
         \/ /\ Len(Kept) < Len(Kept') /\ Len(Kept') <= TicksLength
            /\ SubSeq(Kept', 1, Len(Kept)) = Kept
<1>1. /\ Len(events) \in Nat /\ TicksLength' = TicksLength /\ TicksLength \in Nat
  BY Facts, SameRun
<1>2. Len(events') \in Nat
  BY Facts DEF IInv, TypeOK
<1>3. /\ Kept \in Seq(StoredEvent) /\ Len(Kept) = LastDone(Len(events))
      /\ \A i \in 1..Len(Kept) : Kept[i] = events[i]
  BY KeptFacts
<1>4. /\ Kept' \in Seq(StoredEvent) /\ Len(Kept') = LastDone(Len(events'))
      /\ \A i \in 1..Len(Kept') : Kept'[i] = events'[i]
      /\ Len(Kept') <= TicksLength'
  <2>1. (IInv => /\ Kept \in Seq(StoredEvent) /\ Len(Kept) = LastDone(Len(events))
                 /\ \A i \in 1..Len(Kept) : Kept[i] = events[i]
                 /\ Len(Kept) <= TicksLength)'
    BY KeptFacts, PTL
  <2> QED
    BY <2>1
<1>5. Len(Kept) <= Len(Kept') /\ Len(Kept) \in 0..Len(events)
  BY <1>1, <1>2, <1>3, <1>4, LastDoneFacts
<1>6. \A i \in 1..Len(Kept) : Kept'[i] = Kept[i]
  BY <1>3, <1>4, <1>5
<1>7. SubSeq(Kept', 1, Len(Kept)) = Kept
  <2> HIDE DEF Kept
  <2>1. /\ SubSeq(Kept', 1, Len(Kept)) \in Seq(StoredEvent)
        /\ Len(SubSeq(Kept', 1, Len(Kept))) = Len(Kept)
        /\ \A i \in 1..Len(Kept) : SubSeq(Kept', 1, Len(Kept))[i] = Kept'[i]
    BY <1>3, <1>4, <1>5
  <2> QED
    BY <1>3, <1>6, <2>1
<1>8. CASE Len(Kept) = Len(Kept')
  BY <1>3, <1>4, <1>6, <1>8
<1>9. CASE Len(Kept) < Len(Kept')
  BY <1>1, <1>4, <1>7, <1>9
<1> QED
  BY <1>3, <1>4, <1>5, <1>8, <1>9

\* A step that leaves the events and the row alone is a stutter of the journal.
LEMMA QuietStutters ==
  ASSUME UNCHANGED <<runVars, events, terminal>>, Finished' = Finished
  PROVE  UNCHANGED J!journalVars
  BY SameRun DEF J!journalVars, CompleteSeq

\* A step that adds events records them, or leaves the journal as it was.
LEMMA AppendImplements ==
  ASSUME IInv, IInv', UNCHANGED <<runVars, rowVars>>,
         NEW u \in Seq(StoredEvent), events' = events \o u
  PROVE  [J!Next]_(J!journalVars)
<1>1. events \in Seq(StoredEvent)
  BY Facts
<1>2. /\ Len(events) <= Len(events')
      /\ \A i \in 1..Len(events) : events'[i] = events[i]
  BY <1>1
<1>3. \/ Kept' = Kept
      \/ /\ Len(Kept) < Len(Kept') /\ Len(Kept') <= TicksLength
         /\ SubSeq(Kept', 1, Len(Kept)) = Kept
  BY <1>2, GrowthRecords
<1>4. /\ TicksLength' = TicksLength /\ Invalidated' = Invalidated
      /\ terminal' = terminal /\ Finished' = Finished
  BY SameRun DEF rowVars, Finished
<1> QED
  BY <1>3, <1>4 DEF Kept, J!Next, J!Record, J!journalVars

\* The row of a run with all its ticks is closed, or has been before under the same hash.
LEMMA CloseImplements ==
  ASSUME IInv, UNCHANGED <<runVars, events>>, Finished',
         terminal' \in {TicksLength, RunLength},
         Finished => terminal' = terminal,
         Len(events) >= TicksLength
  PROVE  [J!Next]_(J!journalVars)
<1>1. /\ TicksLength' = TicksLength /\ Invalidated' = Invalidated
      /\ CompleteSeq(events)' = CompleteSeq(events)
  BY SameRun DEF CompleteSeq
<1>2. Len(Kept) = TicksLength /\ Kept' = Kept
  BY <1>1, KeptFacts DEF Kept
<1>3. Finished \in BOOLEAN /\ Finished' \in BOOLEAN
  BY DEF Finished
<1>4. CASE Finished
  BY <1>1, <1>2, <1>3, <1>4 DEF Kept, J!journalVars
<1>5. CASE ~Finished
  <2>1. terminal' \in {Len(Kept), IF Invalidated THEN Len(Kept) + 1 ELSE Len(Kept)}
    BY <1>2 DEF RunLength
  <2> QED
    BY <1>1, <1>2, <1>3, <1>5, <2>1 DEF Kept, J!Next, J!Close
<1> QED
  BY <1>4, <1>5

\* What an engine appends is a sequence of events, whatever it has stored.
LEMMA AppendThroughType ==
  ASSUME IInv, NEW n \in Nat, n <= RunLength, AppendThrough(n)
  PROVE  \E u \in Seq(StoredEvent) : events' = events \o u
<1> DEFINE m == n - Len(events)
           u == [i \in 1..m |-> RunAt(Len(events) + i)]
<1>1. Len(events) \in Nat /\ m \in Int /\ RunLength \in Nat /\ TypeOK
  BY Facts DEF IInv
<1>2. \A i \in 1..m : RunAt(Len(events) + i) \in StoredEvent
  <2> TAKE i \in 1..m
  <2>1. Len(events) + i \in 1..RunLength
    BY <1>1
  <2> QED
    BY <1>1, <2>1, RunAtType
<1>3. u \in Seq(StoredEvent)
  <2>1. CASE m \in Nat
    BY <1>2, <2>1
  <2>2. CASE m \notin Nat
    <3>1. 1..m = 1..0
      BY <1>1, <2>2
    <3>2. u = [i \in 1..0 |-> RunAt(Len(events) + i)]
      BY <3>1
    <3>3. u \in [1..0 -> StoredEvent] /\ 0 \in Nat
      BY <3>2
    <3> HIDE DEF u
    <3> QED
      BY <3>3, SeqDef
  <2> QED
    BY <2>1, <2>2
<1> QED
  BY <1>3 DEF AppendThrough

\* Every step of a stored run is a step of the journal or leaves it unchanged.
LEMMA StepImplements ==
  ASSUME IInv, IInv', [Next]_vars
  PROVE  [J!Next]_(J!journalVars)
<1>0. /\ events \in Seq(StoredEvent) /\ Len(events) \in Nat
      /\ LastTick \in Nat /\ tick \in 0..LastTick /\ FinalTick \in 0..LastTick
      /\ TicksLength \in Nat /\ TicksLength = 3 * FinalTick + 2
      /\ RunLength \in Nat /\ RunLength \in {TicksLength, TicksLength + 1}
      /\ DriftPoints \subseteq Nat
      /\ Invalidated => \A k \in DriftPoints : k < TicksLength
  BY Facts
<1>1. CASE CommitGenesis \/ SealGenesis \/ CommitTick \/ CompleteTick \/ Invalidate
  <2>1. UNCHANGED <<runVars, rowVars>> /\ \E n \in Nat : n <= RunLength /\ AppendThrough(n)
    <3>1. CASE CommitGenesis \/ SealGenesis
      BY <1>0, <3>1 DEF CommitGenesis, SealGenesis
    <3>2. CASE CommitTick \/ CompleteTick
      <4>1. engine \in {"commit", "complete"} /\ tick \in 1..FinalTick
        BY <3>2 DEF CommitTick, CompleteTick, IInv, EngineWrote, Writing, EngineAlive
      <4>2. /\ 3 * tick + 1 \in Nat /\ 3 * tick + 1 <= RunLength
            /\ 3 * tick + 2 \in Nat /\ 3 * tick + 2 <= RunLength
        BY <1>0, <4>1
      <4> QED
        BY <3>2, <4>2 DEF CommitTick, CompleteTick
    <3>3. CASE Invalidate
      BY <1>0, <3>3 DEF Invalidate
    <3> QED
      BY <1>1, <3>1, <3>2, <3>3
  <2>2. PICK u \in Seq(StoredEvent) : events' = events \o u
    BY <2>1, AppendThroughType
  <2> QED
    BY <2>1, <2>2, AppendImplements
<1>2. CASE ResumeAppend
  <2> DEFINE left == TicksLength - Len(events)
             size == IF left < BatchSize THEN left ELSE BatchSize
             u == [i \in 1..size |-> ReplayAt(Len(events) + i, drift)]
  <2>1. /\ left > 0 /\ events' = events \o u /\ UNCHANGED <<runVars, rowVars>>
    BY <1>2 DEF ResumeAppend
  <2>2. size \in Nat /\ drift \in Int
    BY <1>0, <2>1, RunConstants DEF IInv, TypeOK
  <2>3. u \in Seq(StoredEvent)
    <3> HIDE DEF size
    <3>1. \A i \in 1..size : ReplayAt(Len(events) + i, drift) \in StoredEvent
      BY <1>0, <2>2, ReplayAtType
    <3> QED
      BY <2>2, <3>1
  <2> HIDE DEF u
  <2> QED
    BY <2>1, <2>3, AppendImplements
<1>3. CASE ResumeDelete
  <2> DEFINE c == CompleteSeq(events)
  <2>1. events' = SubSeq(events, 1, c) /\ UNCHANGED <<runVars, rowVars>>
    BY <1>3 DEF ResumeDelete
  <2>2. c = LastDone(Len(events)) /\ c \in 0..Len(events)
    BY DeleteKeepsTicks
  <2>3. events' \in Seq(StoredEvent) /\ Len(events') = c
    <3> HIDE DEF c
    <3> QED
      BY <1>0, <2>1, <2>2, PrefixCut
  <2>4. CompleteSeq(events') = c
    <3>1. CompleteSeq(events') = LastDone(Len(events'))
      <4>1. (IInv => CompleteSeq(events) = LastDone(Len(events)))'
        BY DeleteKeepsTicks, PTL
      <4> QED
        BY <4>1 DEF CompleteSeq
    <3>2. LastDone(LastDone(Len(events))) = LastDone(Len(events))
      BY <1>0, LastDoneFacts
    <3> QED
      BY <2>2, <2>3, <3>1, <3>2
  <2>5. SubSeq(events', 1, CompleteSeq(events')) = events'
    <3> HIDE DEF c
    <3>1. c \in 0..Len(events')
      BY <2>2, <2>3
    <3> QED
      BY <2>3, <2>4, <3>1, PrefixCut
  <2>6. /\ TicksLength' = TicksLength /\ Invalidated' = Invalidated
        /\ terminal' = terminal /\ Finished' = Finished
    BY <2>1, SameRun DEF rowVars, Finished
  <2> QED
    BY <2>1, <2>5, <2>6 DEF J!journalVars
<1>4. CASE Finish
  <2>1. engine = "finish" /\ Len(events) = RunLength /\ ~Finished
    BY <1>4 DEF Finish, IInv, EngineWrote, Writing, EngineAlive
  <2>2. CASE status = "running"
    <3>1. /\ UNCHANGED <<runVars, events>> /\ terminal' = RunLength
          /\ Finished'
      BY <1>4, <2>1, <2>2 DEF Finish, Finished, ReportStatus
    <3>2. Len(events) >= TicksLength
      BY <1>0, <2>1
    <3> QED
      BY <2>1, <3>1, <3>2, CloseImplements
  <2>3. CASE status # "running"
    <3>1. UNCHANGED <<runVars, events, terminal>> /\ Finished' = Finished
      BY <1>4, <2>3 DEF Finish, rowVars, Finished
    <3> QED
      BY <3>1, QuietStutters
  <2> QED
    BY <2>2, <2>3
<1>5. CASE ResumeFinish
  <2>1. /\ UNCHANGED <<runVars, events>> /\ terminal' = TicksLength /\ Finished'
        /\ Len(events) = TicksLength /\ ReplayHas(events, drift) /\ drift \in DriftPoints
    BY <1>5 DEF ResumeFinish, Finished, IInv, RepairHolds
  <2>2. Finished => terminal = TicksLength
    <3> SUFFICES ASSUME SealedByEngine PROVE FALSE
      BY DEF IInv, FinishedIsWhole
    <3>1. TicksLength \in 1..Len(events) /\ TicksLength >= drift
      BY <1>0, <2>1 DEF SealedByEngine
    <3>2. events[TicksLength] = ReplayAt(TicksLength, drift)
      BY <2>1, <3>1 DEF ReplayHas
    <3>3. events[TicksLength].drifted = TRUE
      BY <3>1, <3>2 DEF ReplayAt, EventAt
    <3>4. EventAt(TicksLength).drifted = FALSE
      BY DEF EventAt
    <3> QED
      BY <3>3, <3>4 DEF SealedByEngine
  <2>3. Len(events) >= TicksLength
    BY <1>0, <2>1
  <2> QED
    BY <2>1, <2>2, <2>3, CloseImplements
<1>6. CASE \/ StartRun \/ Decide \/ Project
           \/ StartAgain \/ Fail \/ Kill \/ KillRepair
           \/ \E k \in DriftPoints : StartResume(k) \/ StartRebuild(k)
           \/ RefuseResume
           \/ ResumeCompare \/ ResumeClear \/ ClearDone \/ RepairProject
           \/ UNCHANGED vars
  <2>1. UNCHANGED <<runVars, events, terminal>> /\ Finished' = Finished
    BY <1>6 DEF StartRun, Decide, Project, StartAgain, Fail, Kill, KillRepair,
       StartResume, StartRebuild, RefuseResume, ResumeCompare, ResumeClear, ClearDone,
       RepairProject, vars, rowVars, Finished
  <2> QED
    BY <2>1, QuietStutters
<1> QED
  BY <1>1, <1>2, <1>3, <1>4, <1>5, <1>6 DEF Next, EngineStep, ResumeStep

\* A stored run implements the journal: what its complete ticks stored is only ever extended,
\* and its row is closed once, over all of its ticks, through every kill, failure, resume,
\* refused resume and diverging replay.  Of the closing EXTERNAL_ARENA_INVALIDATED it says that
\* the row may be sealed over it, not that the event is kept: a resume deletes it
\* (operations.py:157-189, living_city.py:1673-1687, store/living_city.py:1776).
THEOREM ImplementsJournal == Spec => KeepsJournal
<1>1. Init => J!Init
  <2> SUFFICES ASSUME Init PROVE J!Init
    OBVIOUS
  <2>1. IInv /\ events = <<>> /\ status = "absent" /\ terminal = 0
    BY InitIInv DEF Init
  <2>2. TicksLength \in Nat /\ CompleteSeq(events) \in 0..Len(events)
    BY <2>1, Facts, DeleteKeepsTicks
  <2>3. SubSeq(events, 1, CompleteSeq(events)) = <<>>
    BY <2>1, <2>2
  <2>4. Invalidated \in BOOLEAN
    BY DEF Invalidated
  <2> QED
    BY <2>1, <2>2, <2>3, <2>4 DEF J!Init, Finished
<1>2. IInv /\ IInv' /\ [Next]_vars => [J!Next]_(J!journalVars)
  BY StepImplements
<1> QED
  BY <1>1, <1>2, Invariance, PTL DEF Spec, KeepsJournal, J!Spec
=============================================================================
