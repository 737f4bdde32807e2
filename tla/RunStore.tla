------------------------------ MODULE RunStore ------------------------------
(***************************************************************************)
(* One stored run: the engine that ticks it (TickLoop inside               *)
(* run_living_city inside run_persistent), the tables and the completion   *)
(* cache it writes, and `polis resume` and `polis rebuild`, which replay   *)
(* the run and repair the tables.  Each process may be killed between two  *)
(* writes; the engine may also leave by its exception handler.             *)
(*                                                                         *)
(* A run is deterministic: its events are EventAt(1), EventAt(2), ...      *)
(* whatever its process lived through.  A replay reproduces them, or       *)
(* differs from some event on (a run driven by external agents is replayed *)
(* without them), after which every hash differs; it is taken to end with  *)
(* the same tick.  Of the events of a tick the model keeps TICK_STARTED,   *)
(* one for all that the first batch adds to it, and TICK_COMPLETED for the *)
(* whole second batch.  A run that was halted early and whose external     *)
(* agents missed too many deadlines has one event more: the engine appends *)
(* EXTERNAL_ARENA_INVALIDATED after the last TICK_COMPLETED.  No replay    *)
(* has it, and all differ from the run in a tick the agents drove.         *)
(*                                                                         *)
(* Nothing in the code stops an operator from resuming a run whose engine  *)
(* is alive; the model assumes the operator does not.                      *)
(***************************************************************************)
EXTENDS Integers, Sequences, FiniteSets

CONSTANTS LastTick,      \* settings.run.ticks
          BatchSize,     \* batch_size of resume
          FlushEvery,    \* puts between two commits of the completion cache
          CallTicks,     \* sets of ticks that may ask a model for a completion
          Drifts,        \* whether replays may differ from the run
          Arenas,        \* whether external agents may have missed too many deadlines
          MaxKills       \* bound: kills and failures

ASSUME RunConstants ==
  /\ LastTick \in Nat
  /\ BatchSize \in Nat \ {0}
  /\ FlushEvery \in Nat \ {0}
  /\ CallTicks \subseteq SUBSET (1..LastTick)
  /\ Drifts \subseteq BOOLEAN
  /\ Arenas \subseteq BOOLEAN
  /\ MaxKills \in Nat

VARIABLES haltTick,   \* the tick whose invariants halt the run; none if > LastTick
          calls,      \* the ticks that ask a model for a completion
          drifts,     \* whether its replays may differ
          missed,     \* whether its external agents missed too many deadlines
          events,     \* table events, in the order of seq
          status,     \* runs.status; "absent" while there is no row
          terminal,   \* runs.terminal_hash: the events it covers, 0 for NULL
          manifest,   \* runs.completion_cache_manifest_hash: completions it covers
          projected,  \* the projection tables: "none", "partial" or "whole"
          durable,    \* completions in the cache file
          pending,    \* completions put since its last commit
          engine,     \* control point of the engine process
          tick,       \* Clock.tick of the engine
          repair,     \* control point of resume or rebuild
          drift,      \* the event from which its replay differs
          refusal,    \* why the last resume was refused
          kills       \* kills and failures so far

runVars == <<haltTick, calls, drifts, missed>>
rowVars == <<status, terminal, manifest>>
cacheVars == <<durable, pending>>
engineVars == <<engine, tick>>
repairVars == <<repair, drift, refusal>>
vars == <<runVars, events, rowVars, projected, cacheVars, engineVars,
          repairVars, kills>>

EngineAt == {"idle", "genesis", "sealGenesis", "tick", "commit", "complete",
             "invalidate", "project", "finish", "returned", "dead"}
RepairAt == {"idle", "delete", "compare", "append", "clear", "project", "finish",
             "rebuildClear", "rebuildProject"}

-----------------------------------------------------------------------------
(* The run and its replay *)

\* Tick 0 stores RUN_STARTED and TICK_COMPLETED, every later tick t the events
\* 3t, 3t + 1 (first batch) and 3t + 2 (second batch).
Kind(i) ==
  CASE i = 1      -> "run_started"
    [] i % 3 = 2  -> "completed"
    [] i % 3 = 0  -> "started"
    [] OTHER      -> "acted"

EventAt(i) == [tick |-> i \div 3, kind |-> Kind(i), drifted |-> FALSE]

FinalTick == IF haltTick < LastTick THEN haltTick ELSE LastTick

\* The events of all ticks of the run: all events of a replay.
TicksLength == 3 * FinalTick + 2

\* The run ends before its last tick, in whose MEASURE phase the check would have been made,
\* and external agents missed too many deadlines.
Invalidated == missed /\ haltTick < LastTick

Invalidation == [tick |-> FinalTick, kind |-> "invalidated", drifted |-> FALSE]

\* The events of the run as its engine writes it.
RunLength == IF Invalidated THEN TicksLength + 1 ELSE TicksLength
RunAt(i) == IF i > TicksLength THEN Invalidation ELSE EventAt(i)

RunHas(s) ==
  /\ Len(s) <= RunLength
  /\ \A i \in 1..Len(s) : s[i] = RunAt(i)

\* The i-th event of a replay that differs from event k on.
ReplayAt(i, k) == [EventAt(i) EXCEPT !.drifted = (i >= k)]

ReplayHas(s, k) ==
  /\ Len(s) <= TicksLength
  /\ \A i \in 1..Len(s) : s[i] = ReplayAt(i, k)

\* COALESCE(MAX(seq), 0) of the TICK_COMPLETED events.
CompleteSeq(s) ==
  LET complete == {i \in 1..Len(s) : s[i].kind = "completed"}
  IN  IF complete = {} THEN 0
      ELSE CHOOSE i \in complete : \A j \in complete : j <= i

\* Completions the replay of the whole run looks up.
Calls == Cardinality({t \in calls : t <= FinalTick})

ReportStatus == IF haltTick <= LastTick THEN "halted" ELSE "completed"

-----------------------------------------------------------------------------
(* The engine process *)

Init ==
  /\ haltTick \in 0..(LastTick + 1)
  /\ calls \in CallTicks
  /\ drifts \in Drifts
  /\ missed \in Arenas /\ (missed => drifts /\ haltTick > 0)
  /\ events = <<>>
  /\ status = "absent"
  /\ terminal = 0
  /\ manifest = 0
  /\ projected = "none"
  /\ durable = 0
  /\ pending = 0
  /\ engine = "idle"
  /\ tick = 0
  /\ repair = "idle"
  /\ drift = TicksLength + 1
  /\ refusal = "none"
  /\ kills = 0

\* run_persistent up to runs.create.
StartRun ==
  /\ engine = "idle"
  /\ status = "absent"
  /\ status' = "running"
  /\ manifest' = 0
  /\ engine' = "genesis"
  /\ UNCHANGED <<runVars, events, terminal, projected, cacheVars, tick,
                 repairVars, kills>>

\* run_persistent of a run whose row exists.  The refusal is raised inside the
\* try block, whose handler marks a running run failed with an empty manifest.
StartAgain ==
  /\ status = "running"
  /\ status' = "failed"
  /\ manifest' = 0
  /\ UNCHANGED <<runVars, events, terminal, projected, cacheVars, engineVars,
                 repairVars, kills>>

\* The engine appends the events from Len(events) + 1 to n in one transaction.
AppendThrough(n) ==
  events' = events \o [i \in 1..(n - Len(events)) |-> RunAt(Len(events) + i)]

\* The genesis batch: log.commit(0).
CommitGenesis ==
  /\ engine = "genesis"
  /\ AppendThrough(1)
  /\ engine' = "sealGenesis"
  /\ UNCHANGED <<runVars, rowVars, projected, cacheVars, tick, repairVars, kills>>

\* Mutant: the loop ends one tick late.
AfterTickLate(t) ==
  IF t <= FinalTick THEN "tick" ELSE IF Invalidated THEN "invalidate" ELSE "project"

\* What the loop does after tick t: stop on a violation or at the last tick; then
\* run_living_city checks the deadlines of the external agents, if no tick has done so.
AfterTick(t) ==
  IF t < FinalTick THEN "tick" ELSE IF Invalidated THEN "invalidate" ELSE "project"

\* complete_genesis_tick.
SealGenesis ==
  /\ engine = "sealGenesis"
  /\ AppendThrough(2)
  /\ engine' = AfterTick(0)
  /\ UNCHANGED <<runVars, rowVars, projected, cacheVars, tick, repairVars, kills>>

\* run_tick up to DECIDE: the completions asked for are put in the cache, which
\* commits its rows when enough of them are pending.
Decide ==
  LET asks == IF tick + 1 \in calls THEN 1 ELSE 0
      full == pending + asks >= FlushEvery
  IN
  /\ engine = "tick"
  /\ tick' = tick + 1
  /\ durable' = IF full THEN durable + pending + asks ELSE durable
  /\ pending' = IF full THEN 0 ELSE pending + asks
  /\ engine' = "commit"
  /\ UNCHANGED <<runVars, events, rowVars, projected, repairVars, kills>>

\* The commit of PHASE 6.
CommitTick ==
  /\ engine = "commit"
  /\ AppendThrough(3 * tick + 1)
  /\ engine' = "complete"
  /\ UNCHANGED <<runVars, rowVars, projected, cacheVars, tick, repairVars, kills>>

\* Phases 7 to 9, the invariants and the second commit, with TICK_COMPLETED.
CompleteTick ==
  /\ engine = "complete"
  /\ AppendThrough(3 * tick + 2)
  /\ engine' = AfterTick(tick)
  /\ UNCHANGED <<runVars, rowVars, projected, cacheVars, tick, repairVars, kills>>

\* The end of run_living_city: EXTERNAL_ARENA_INVALIDATED, in a commit of its own.
Invalidate ==
  /\ engine = "invalidate"
  /\ AppendThrough(RunLength)
  /\ engine' = "project"
  /\ UNCHANGED <<runVars, rowVars, projected, cacheVars, tick, repairVars, kills>>

\* write_living_city_projections: one transaction.
Project ==
  /\ engine = "project"
  /\ projected' = "whole"
  /\ engine' = "finish"
  /\ UNCHANGED <<runVars, events, rowVars, cacheVars, tick, repairVars, kills>>

\* The last UPDATE of runs, which matches a running row only; then the cache is
\* closed.
Finish ==
  /\ engine = "finish"
  /\ IF status = "running"
     THEN /\ status' = ReportStatus
          /\ terminal' = Len(events)
          /\ manifest' = durable + pending
     ELSE UNCHANGED rowVars
  /\ durable' = durable + pending
  /\ pending' = 0
  /\ engine' = "returned"
  /\ UNCHANGED <<runVars, events, projected, tick, repairVars, kills>>

EngineAlive == engine \notin {"idle", "returned", "dead"}

\* An exception: the handler records it, and closing the cache saves its rows.
Fail ==
  /\ EngineAlive
  /\ kills < MaxKills
  /\ IF status = "running"
     THEN status' = "failed" /\ manifest' = durable + pending
     ELSE UNCHANGED <<status, manifest>>
  /\ durable' = durable + pending
  /\ pending' = 0
  /\ engine' = "dead"
  /\ kills' = kills + 1
  /\ UNCHANGED <<runVars, events, terminal, projected, tick, repairVars>>

\* The engine is killed: the handler does not run, uncommitted rows are gone.
Kill ==
  /\ EngineAlive
  /\ kills < MaxKills
  /\ pending' = 0
  /\ engine' = "dead"
  /\ kills' = kills + 1
  /\ UNCHANGED <<runVars, events, rowVars, projected, durable, tick, repairVars>>

-----------------------------------------------------------------------------
(* resume_stored_run and rebuild_stored_run *)

\* A repair is started when no process works on the run.
Quiet == engine \in {"returned", "dead"} /\ repair = "idle"

HasRunStarted == \E i \in 1..Len(events) : events[i].kind = "run_started"

\* Why resume gives up before it writes: no RUN_STARTED event to take the
\* identity from, a completion missing in the replay, another cache manifest.
Refusal ==
  CASE ~HasRunStarted      -> "no_run_started"
    [] durable < Calls     -> "cache_miss"
    [] manifest # durable  -> "manifest"
    [] OTHER               -> "none"

\* Mutant: only a row that still says running is resumed.
StartResumeOfRunning(k) ==
  /\ Quiet
  /\ Refusal = "none"
  /\ status = "running"
  /\ repair' = "delete"
  /\ drift' = k
  /\ refusal' = "none"
  /\ UNCHANGED <<runVars, events, rowVars, projected, cacheVars, engineVars, kills>>

StartResume(k) ==
  /\ Quiet
  /\ Refusal = "none"
  /\ repair' = "delete"
  /\ drift' = k
  /\ refusal' = "none"
  /\ UNCHANGED <<runVars, events, rowVars, projected, cacheVars, engineVars, kills>>

RefuseResume ==
  /\ Quiet
  /\ Refusal # "none"
  /\ refusal' = Refusal
  /\ UNCHANGED <<runVars, events, rowVars, projected, cacheVars, engineVars,
                 repair, drift, kills>>

\* Mutant: the last TICK_COMPLETED is deleted too.
ResumeDeleteInclusive ==
  /\ repair = "delete"
  /\ events' = SubSeq(events, 1, CompleteSeq(events) - 1)
  /\ repair' = "compare"
  /\ UNCHANGED <<runVars, rowVars, projected, cacheVars, engineVars, drift,
                 refusal, kills>>

\* delete_after_seq of the last TICK_COMPLETED.
ResumeDelete ==
  /\ repair = "delete"
  /\ events' = SubSeq(events, 1, CompleteSeq(events))
  /\ repair' = "compare"
  /\ UNCHANGED <<runVars, rowVars, projected, cacheVars, engineVars, drift,
                 refusal, kills>>

\* Every stored event is compared with the replay, by hash.
ResumeCompare ==
  /\ repair = "compare"
  /\ IF ReplayHas(events, drift)
     THEN repair' = "append" /\ UNCHANGED refusal
     ELSE repair' = "idle" /\ refusal' = "diverged"
  /\ UNCHANGED <<runVars, events, rowVars, projected, cacheVars, engineVars,
                 drift, kills>>

\* Mutant: the tail starts one event late.
ResumeAppendSkips ==
  LET left == TicksLength - Len(events)
      size == IF left < BatchSize THEN left ELSE BatchSize
  IN
  /\ repair = "append"
  /\ left > 0
  /\ events' = events \o
       [i \in 1..size |-> ReplayAt(Len(events) + i + 1, drift)]
  /\ UNCHANGED <<runVars, rowVars, projected, cacheVars, engineVars, repairVars,
                 kills>>

\* The rest of the replay is appended, a batch at a time.
ResumeAppend ==
  LET left == TicksLength - Len(events)
      size == IF left < BatchSize THEN left ELSE BatchSize
  IN
  /\ repair = "append"
  /\ left > 0
  /\ events' = events \o
       [i \in 1..size |-> ReplayAt(Len(events) + i, drift)]
  /\ UNCHANGED <<runVars, rowVars, projected, cacheVars, engineVars, repairVars,
                 kills>>

\* Mutant: the projections are replaced before the tail is stored.
ResumeClearEarly ==
  /\ repair = "append"
  /\ projected' = IF projected = "none" THEN "none" ELSE "partial"
  /\ repair' = "clear"
  /\ UNCHANGED <<runVars, events, rowVars, cacheVars, engineVars, drift, refusal,
                 kills>>

\* _clear_projections: table after table, each a transaction of its own.
ResumeClear ==
  /\ repair = "append"
  /\ Len(events) = TicksLength
  /\ projected' = IF projected = "none" THEN "none" ELSE "partial"
  /\ repair' = "clear"
  /\ UNCHANGED <<runVars, events, rowVars, cacheVars, engineVars, drift, refusal,
                 kills>>

ClearDone ==
  /\ repair \in {"clear", "rebuildClear"}
  /\ projected' = "none"
  /\ repair' = IF repair = "clear" THEN "project" ELSE "rebuildProject"
  /\ UNCHANGED <<runVars, events, rowVars, cacheVars, engineVars, drift, refusal,
                 kills>>

RepairProject ==
  /\ repair \in {"project", "rebuildProject"}
  /\ projected' = "whole"
  /\ repair' = IF repair = "project" THEN "finish" ELSE "idle"
  /\ UNCHANGED <<runVars, events, rowVars, cacheVars, engineVars, drift, refusal,
                 kills>>

\* The UPDATE of runs: 'completed', whatever the replay reported.
ResumeFinish ==
  /\ repair = "finish"
  /\ status' = "completed"
  /\ terminal' = TicksLength
  /\ repair' = "idle"
  /\ UNCHANGED <<runVars, events, manifest, projected, cacheVars, engineVars,
                 drift, refusal, kills>>

\* rebuild_stored_run: the projections are replaced if the replay is exact, by
\* event count and terminal hash; the terminal hash chains every event.
StartRebuild(k) ==
  /\ Quiet
  /\ Refusal = "none"
  /\ terminal = TicksLength
  /\ Len(events) = TicksLength
  /\ ReplayHas(events, k)
  /\ projected' = IF projected = "none" THEN "none" ELSE "partial"
  /\ repair' = "rebuildClear"
  /\ drift' = k
  /\ UNCHANGED <<runVars, events, rowVars, cacheVars, engineVars, refusal, kills>>

\* A repair is killed, or raises: it has no handler.
KillRepair ==
  /\ repair # "idle"
  /\ kills < MaxKills
  /\ repair' = "idle"
  /\ kills' = kills + 1
  /\ UNCHANGED <<runVars, events, rowVars, projected, cacheVars, engineVars,
                 drift, refusal>>

\* The events from which a replay may differ; TicksLength + 1 for none.  Missed deadlines
\* are events of a tick that no replay has.
DriftPoints ==
  IF missed THEN 1..(TicksLength - 1)
  ELSE IF drifts THEN 1..(TicksLength + 1) ELSE {TicksLength + 1}

EngineStep ==
  \/ StartRun
  \/ CommitGenesis
  \/ SealGenesis
  \/ Decide
  \/ CommitTick
  \/ CompleteTick
  \/ Invalidate
  \/ Project
  \/ Finish

ResumeStep ==
  \/ ResumeDelete
  \/ ResumeCompare
  \/ ResumeAppend
  \/ ResumeClear
  \/ ClearDone
  \/ RepairProject
  \/ ResumeFinish

Next ==
  \/ EngineStep
  \/ StartAgain
  \/ Fail
  \/ Kill
  \/ \E k \in DriftPoints : StartResume(k)
  \/ RefuseResume
  \/ ResumeStep
  \/ \E k \in DriftPoints : StartRebuild(k)
  \/ KillRepair

Spec == Init /\ [][Next]_vars

\* The run has ended and its row says so.
Finished == status \in {"completed", "halted"}

\* Each process runs on until it is killed, and the operator resumes a run that
\* is left unfinished.
FairSpec ==
  /\ Spec
  /\ WF_vars(EngineStep)
  /\ WF_vars(ResumeStep)
  /\ WF_vars(~Finished /\ \E k \in DriftPoints : StartResume(k))

-----------------------------------------------------------------------------
(* Properties *)

\* The tables, the cache and the control points are well formed.
TypeOK ==
  /\ haltTick \in 0..(LastTick + 1)
  /\ calls \in CallTicks /\ drifts \in Drifts
  /\ missed \in Arenas /\ (missed => drifts /\ haltTick > 0)
  /\ events \in Seq([tick : Nat, drifted : BOOLEAN,
                     kind : {"run_started", "started", "acted", "completed", "invalidated"}])
  /\ status \in {"absent", "running", "completed", "halted", "failed"}
  /\ terminal \in Nat
  /\ manifest \in Nat
  /\ projected \in {"none", "partial", "whole"}
  /\ durable \in Nat
  /\ pending \in Nat
  /\ engine \in EngineAt
  /\ tick \in 0..LastTick
  /\ repair \in RepairAt
  /\ drift \in Nat
  /\ refusal \in {"none", "no_run_started", "cache_miss", "manifest", "diverged"}
  /\ kills \in 0..MaxKills

\* Whoever wrote them and whatever was killed in between, the stored events are
\* those of one execution of the run, the engine's or a replay that agreed with it
\* so far, from the first one on and without a gap or a repetition
\* (tick.py:224-296, living_city.py:1673-1687, operations.py:166-180).
StoredIsPrefix == RunHas(events) \/ \E k \in DriftPoints : ReplayHas(events, k)

\* The events up to the last TICK_COMPLETED and the row of the run are a journal: neither a
\* kill, nor a resume, nor one that is refused after its delete, nor one whose replay differs,
\* removes or changes an event of a complete tick, and a row that says the run has ended stands
\* for all of its ticks, whose last hash it holds, or the hash of the closing
\* EXTERNAL_ARENA_INVALIDATED, and stays so.  The closing event itself is not kept: a resume
\* deletes it before it is refused (operations.py:157-189, living_city.py:1673-1687,
\* store/living_city.py:1776).
J == INSTANCE Journal WITH goal   <- TicksLength,
                           closing <- Invalidated,
                           kept   <- SubSeq(events, 1, CompleteSeq(events)),
                           closed <- Finished,
                           seal   <- terminal

KeepsJournal == J!Spec

\* Projections are those of a run with all its ticks, never of one that is still being
\* written or repaired, and the engine writes them when the closing
\* EXTERNAL_ARENA_INVALIDATED is stored (living_city.py:1673-1687,
\* store/living_city.py:1703, operations.py:181).  That event alone may be missing behind
\* them later: a resume deletes it.
ProjectionsAreOfWholeRun ==
  projected # "none" =>
    /\ Len(events) >= TicksLength
    /\ engine = "finish" => Len(events) = RunLength

\* Under resumes that are retried, a run without model calls and external agents whose
\* genesis tick is complete reaches its end, whenever and however often its processes are
\* killed (operations.py:149-208).
GenesisThenFinished ==
  (CompleteSeq(events) > 0 /\ Calls = 0 /\ ~drifts) ~> Finished
=============================================================================
