------------------------------ MODULE EventLog ------------------------------
(***************************************************************************)
(* The hash-chained event log of one run (polis/events/log.py), the sealing*)
(* of an event (hashing.py), the verifier (verify.py) and the two sinks a  *)
(* batch is written to.                                                    *)
(*                                                                         *)
(* A SHA-256 digest is modelled by what it is used for, a value that       *)
(* differs as soon as anything sealed before it differs: the hash of an    *)
(* event is the sequence of the contents sealed up to and including it.    *)
(* `_staged` is kept as commit() partitions it (log.py:168-169): the sealed*)
(* events in order, and the number of ephemeral ones, which never chain.   *)
(* A batch token, `object()` in the code, is the number of batches begun.  *)
(*                                                                         *)
(* No caller in the repository catches an exception of commit(): it ends   *)
(* the run, and a later process reopens the log from the last stored event *)
(* (simulation.py:43-57).  `open` says whether a process holds the log.    *)
(***************************************************************************)
EXTENDS Naturals, Sequences

CONSTANTS Draft,          \* what a staged event says: kind, actor, payload, signature
          MaxSeq,         \* bound: events ever sealed in the run
          MaxTick,        \* bound: ticks
          MaxBatch,       \* bound: batches begun, over all processes
          MaxSavepoint,   \* bound: savepoints held at once
          MaxUnsealed     \* bound: ephemeral, and dropped, events of a batch

ASSUME BoundsAreNatural ==
  /\ MaxSeq \in Nat
  /\ MaxTick \in Nat
  /\ MaxBatch \in Nat
  /\ MaxSavepoint \in Nat
  /\ MaxUnsealed \in Nat

VARIABLES open,          \* a process holds the log
          tick,          \* Clock.tick of that process
          lastSeq,       \* _last_seq
          chainHash,     \* _chain_hash
          staged,        \* _staged, the sealed events
          ephemeral,     \* _staged, how many are ephemeral
          dropped,       \* _dropped_sampled
          rollbackSeq,   \* _rollback_seq
          rollbackHash,  \* _rollback_hash
          batchToken,    \* _batch_token
          savepoints,    \* the savepoints callers hold, innermost last
          sink           \* the events table

logVars == <<lastSeq, chainHash, staged, ephemeral, dropped>>
batchVars == <<rollbackSeq, rollbackHash, batchToken>>
vars == <<open, tick, logVars, batchVars, savepoints, sink>>

-----------------------------------------------------------------------------
(* Sealing and verifying *)

GenesisPrevHash == <<>>

Content == [seq : Nat, tick : Nat, draft : Draft]
Hash == Seq(Content)
Event == [seq : Nat, tick : Nat, draft : Draft, prev : Hash, hash : Hash]
Savepoint == [len : Nat, ephemeral : Nat, lastSeq : Nat, hash : Hash,
              dropped : Nat, token : Nat]

EventHash(seq, t, draft, prev) ==
  Append(prev, [seq |-> seq, tick |-> t, draft |-> draft])

Seal(draft, seq, t, prev) ==
  [seq |-> seq, tick |-> t, draft |-> draft, prev |-> prev,
   hash |-> EventHash(seq, t, draft, prev)]

Recompute(event) == EventHash(event.seq, event.tick, event.draft, event.prev)

TerminalHash(events, startPrevHash) ==
  IF events = <<>> THEN startPrevHash ELSE events[Len(events)].hash

TerminalTick(events, startTick) ==
  IF events = <<>> THEN startTick ELSE events[Len(events)].tick

TerminalSeq(events) ==
  IF events = <<>> THEN 0 ELSE events[Len(events)].seq

\* The report of verify_batch has no failure.
VerifyBatch(events, startPrevHash, startSeq, startTick) ==
  \A i \in 1..Len(events) :
    /\ events[i].seq = startSeq + i
    /\ events[i].prev = IF i = 1 THEN startPrevHash ELSE events[i-1].hash
    /\ events[i].hash = Recompute(events[i])
    /\ events[i].tick >= IF i = 1 THEN startTick ELSE events[i-1].tick

-----------------------------------------------------------------------------
(* The life of a process that holds the log *)

Init ==
  /\ open = TRUE
  /\ tick = 0
  /\ lastSeq = 0
  /\ chainHash = GenesisPrevHash
  /\ staged = <<>>
  /\ ephemeral = 0
  /\ dropped = 0
  /\ rollbackSeq = 0
  /\ rollbackHash = GenesisPrevHash
  /\ batchToken = 0
  /\ savepoints = <<>>
  /\ sink = <<>>

AdvanceClock ==
  /\ open
  /\ tick < MaxTick
  /\ tick' = tick + 1
  /\ UNCHANGED <<open, logVars, batchVars, savepoints, sink>>

\* stage() of a persisted kind, or of a sampled kind the sampler keeps.
Stage(draft) ==
  LET event == Seal(draft, lastSeq + 1, tick, chainHash) IN
  /\ open
  /\ lastSeq < MaxSeq
  /\ lastSeq' = lastSeq + 1
  /\ chainHash' = event.hash
  /\ staged' = Append(staged, event)
  /\ UNCHANGED <<open, tick, ephemeral, dropped, batchVars, savepoints, sink>>

\* stage() of an ephemeral kind: no sequence number, no hash.
StageEphemeral ==
  /\ open
  /\ ephemeral < MaxUnsealed
  /\ ephemeral' = ephemeral + 1
  /\ UNCHANGED <<open, tick, lastSeq, chainHash, staged, dropped, batchVars,
                 savepoints, sink>>

\* Mutant: a dropped candidate uses up a sequence number.
DropSampledNumbered ==
  /\ open
  /\ dropped < MaxUnsealed
  /\ dropped' = dropped + 1
  /\ lastSeq' = lastSeq + 1
  /\ UNCHANGED <<open, tick, chainHash, staged, ephemeral, batchVars,
                 savepoints, sink>>

\* stage() of a sampled kind the sampler drops: the candidate is only counted.
DropSampled ==
  /\ open
  /\ dropped < MaxUnsealed
  /\ dropped' = dropped + 1
  /\ UNCHANGED <<open, tick, lastSeq, chainHash, staged, ephemeral, batchVars,
                 savepoints, sink>>

TakeSavepoint ==
  /\ open
  /\ Len(savepoints) < MaxSavepoint
  /\ savepoints' = Append(savepoints,
                     [len |-> Len(staged), ephemeral |-> ephemeral,
                      lastSeq |-> lastSeq, hash |-> chainHash,
                      dropped |-> dropped, token |-> batchToken])
  /\ UNCHANGED <<open, tick, logVars, batchVars, sink>>

\* Mutant: the token of the batch is not compared.
RestorableAnyBatch(savepoint) ==
  /\ savepoint.len <= Len(staged)
  /\ savepoint.ephemeral <= ephemeral

\* The check of rollback_to (log.py:158): the batch the savepoint was taken in
\* is still the current one, and no shorter than the savepoint.
Restorable(savepoint) ==
  /\ savepoint.token = batchToken
  /\ savepoint.len <= Len(staged)
  /\ savepoint.ephemeral <= ephemeral

\* Mutant: the chain hash is not restored.
RollbackToKeepsHash(i) ==
  LET savepoint == savepoints[i] IN
  /\ open
  /\ Restorable(savepoint)
  /\ staged' = SubSeq(staged, 1, savepoint.len)
  /\ ephemeral' = savepoint.ephemeral
  /\ lastSeq' = savepoint.lastSeq
  /\ dropped' = savepoint.dropped
  /\ savepoints' = SubSeq(savepoints, 1, i - 1)
  /\ UNCHANGED <<open, tick, chainHash, batchVars, sink>>

\* rollback_to of the i-th savepoint held: the callers are nested try blocks, so
\* the ones taken inside it are abandoned with it.
RollbackTo(i) ==
  LET savepoint == savepoints[i] IN
  /\ open
  /\ Restorable(savepoint)
  /\ staged' = SubSeq(staged, 1, savepoint.len)
  /\ ephemeral' = savepoint.ephemeral
  /\ lastSeq' = savepoint.lastSeq
  /\ chainHash' = savepoint.hash
  /\ dropped' = savepoint.dropped
  /\ savepoints' = SubSeq(savepoints, 1, i - 1)
  /\ UNCHANGED <<open, tick, batchVars, sink>>

\* The innermost try block ends well, or rollback_to rejects its savepoint.
ReleaseSavepoint ==
  /\ open
  /\ savepoints # <<>>
  /\ savepoints' = SubSeq(savepoints, 1, Len(savepoints) - 1)
  /\ UNCHANGED <<open, tick, logVars, batchVars, sink>>

NewBatch ==
  /\ staged' = <<>>
  /\ ephemeral' = 0
  /\ dropped' = 0
  /\ batchToken' = batchToken + 1

Commit ==
  /\ open
  /\ batchToken < MaxBatch
  /\ sink' = sink \o staged
  /\ rollbackSeq' = lastSeq
  /\ rollbackHash' = chainHash
  /\ NewBatch
  /\ UNCHANGED <<open, tick, lastSeq, chainHash, savepoints>>

\* Mutant: the log steps back to before the last committed event.
RollbackOneMore ==
  /\ lastSeq' = rollbackSeq - 1
  /\ chainHash' = rollbackHash
  /\ NewBatch

Rollback ==
  /\ lastSeq' = rollbackSeq
  /\ chainHash' = rollbackHash
  /\ NewBatch

\* commit() raises.  Either nothing was stored, or the batch was: the database
\* committed and its answer was lost, or publish() of the ephemerals failed.
\* The exception ends the process that holds the log.
CommitFails ==
  /\ open
  /\ batchToken < MaxBatch
  /\ sink' \in {sink, sink \o staged}
  /\ Rollback
  /\ open' = FALSE
  /\ savepoints' = <<>>
  /\ UNCHANGED <<tick, rollbackSeq, rollbackHash>>

\* The process is killed: what it staged is gone.
Crash ==
  /\ open
  /\ open' = FALSE
  /\ staged' = <<>>
  /\ ephemeral' = 0
  /\ dropped' = 0
  /\ savepoints' = <<>>
  /\ UNCHANGED <<tick, lastSeq, chainHash, batchVars, sink>>

\* A new process: the log and the clock start from the last stored event.
Reopen ==
  /\ ~open
  /\ batchToken < MaxBatch
  /\ open' = TRUE
  /\ lastSeq' = TerminalSeq(sink)
  /\ chainHash' = TerminalHash(sink, GenesisPrevHash)
  /\ tick' = TerminalTick(sink, 0)
  /\ rollbackSeq' = lastSeq'
  /\ rollbackHash' = chainHash'
  /\ NewBatch
  /\ UNCHANGED <<savepoints, sink>>

Next ==
  \/ AdvanceClock
  \/ \E draft \in Draft : Stage(draft)
  \/ StageEphemeral
  \/ DropSampled
  \/ TakeSavepoint
  \/ \E i \in 1..Len(savepoints) : RollbackTo(i)
  \/ ReleaseSavepoint
  \/ Commit
  \/ CommitFails
  \/ Crash
  \/ Reopen

Spec == Init /\ [][Next]_vars

-----------------------------------------------------------------------------
(* Properties *)

\* The state of an EventLog and of the table it writes to is well formed.
TypeOK ==
  /\ open \in BOOLEAN
  /\ tick \in Nat
  /\ lastSeq \in Nat
  /\ chainHash \in Hash
  /\ staged \in Seq(Event)
  /\ ephemeral \in Nat
  /\ dropped \in Nat
  /\ rollbackSeq \in Nat
  /\ rollbackHash \in Hash
  /\ batchToken \in Nat
  /\ savepoints \in Seq(Savepoint)
  /\ sink \in Seq(Event)

\* Whatever was staged, dropped, rolled back, committed, lost in a failed commit
\* or in a crash, verify_run accepts the stored events: no gap in seq, every
\* prev_hash the hash before it, every hash the digest of its event, no tick
\* going backwards (verify.py:41-104).
ChainVerifies == VerifyBatch(sink, GenesisPrevHash, 0, 0)

\* The batch in memory continues the stored chain: committing it now would leave
\* a chain that verifies, and the next event would be sealed onto its end.
StagedContinuesChain ==
  open =>
    /\ VerifyBatch(staged, TerminalHash(sink, GenesisPrevHash), Len(sink),
                   TerminalTick(sink, 0))
    /\ lastSeq = Len(sink) + Len(staged)
    /\ chainHash = TerminalHash(staged, TerminalHash(sink, GenesisPrevHash))

\* Any savepoint rollback_to accepts stands for a prefix of the current batch:
\* its sequence number and its hash are those of the event it cuts after.
SavepointsMatchBatch ==
  \A i \in 1..Len(savepoints) :
    LET savepoint == savepoints[i] IN
    open /\ Restorable(savepoint) =>
      /\ savepoint.lastSeq = Len(sink) + savepoint.len
      /\ savepoint.hash = TerminalHash(SubSeq(staged, 1, savepoint.len),
                                       TerminalHash(sink, GenesisPrevHash))

=============================================================================
