--------------------------- MODULE EventLogProofs ---------------------------
(***************************************************************************)
(* The event log keeps a chain that verifies, for every set of drafts and  *)
(* every bound.  ChainVerifies alone is not inductive: a commit stores the *)
(* batch in memory, so the batch must be known to continue the stored chain*)
(* (StagedContinuesChain); a rollback cuts the batch and restores numbers  *)
(* saved earlier, so every savepoint that is still accepted must describe  *)
(* the batch it would leave (HeldSavepoints), also after an outer one has  *)
(* cut the batch shorter (Nested).                                         *)
(***************************************************************************)
EXTENDS EventLog, TLAPS

\* A savepoint of the current batch describes a prefix of it.
HeldSavepoints ==
  \A i \in 1..Len(savepoints) :
    /\ savepoints[i].token <= batchToken
    /\ open /\ savepoints[i].token = batchToken =>
         /\ savepoints[i].len <= Len(staged)
         /\ savepoints[i].ephemeral <= ephemeral
         /\ savepoints[i].lastSeq = Len(sink) + savepoints[i].len
         /\ savepoints[i].hash =
              IF savepoints[i].len = 0
              THEN TerminalHash(sink, GenesisPrevHash)
              ELSE staged[savepoints[i].len].hash

\* Savepoints of the current batch are nested: an inner one is never shorter.
Nested ==
  \A i, j \in 1..Len(savepoints) :
    /\ i < j
    /\ savepoints[i].token = batchToken
    /\ savepoints[j].token = batchToken
    => /\ savepoints[i].len <= savepoints[j].len
       /\ savepoints[i].ephemeral <= savepoints[j].ephemeral

\* The clock of a live process is not behind the events it holds.
ClockAhead ==
  open =>
    /\ TerminalTick(sink, 0) <= tick
    /\ \A i \in 1..Len(staged) : staged[i].tick <= tick

IInv ==
  /\ TypeOK
  /\ ChainVerifies
  /\ StagedContinuesChain
  /\ HeldSavepoints
  /\ Nested
  /\ ClockAhead

-----------------------------------------------------------------------------
(* Lemmas about sealing, terminal values and concatenated batches *)

\* The seal of a draft is an event whose hash recomputes.
LEMMA SealType ==
  ASSUME NEW draft \in Draft, NEW seq \in Nat, NEW t \in Nat, NEW prev \in Hash
  PROVE  /\ Seal(draft, seq, t, prev) \in Event
         /\ Seal(draft, seq, t, prev).seq = seq
         /\ Seal(draft, seq, t, prev).tick = t
         /\ Seal(draft, seq, t, prev).prev = prev
         /\ Seal(draft, seq, t, prev).hash = Recompute(Seal(draft, seq, t, prev))
<1>1. [seq |-> seq, tick |-> t, draft |-> draft] \in Content
  BY DEF Content
<1>2. EventHash(seq, t, draft, prev) \in Hash
  BY <1>1 DEF EventHash, Hash
<1> QED
  BY <1>2 DEF Seal, Event, Recompute

\* The terminal hash and tick of a sequence of events.
LEMMA TerminalTypes ==
  ASSUME NEW s \in Seq(Event), NEW h \in Hash, NEW t \in Nat
  PROVE  TerminalHash(s, h) \in Hash /\ TerminalTick(s, t) \in Nat
<1>1. CASE s = <<>>
  BY <1>1 DEF TerminalHash, TerminalTick
<1>2. CASE s # <<>>
  <2>1. s[Len(s)] \in Event
    BY <1>2
  <2> QED
    BY <1>2, <2>1 DEF TerminalHash, TerminalTick, Event
<1> QED
  BY <1>1, <1>2

\* Two batches that verify one after the other verify as one.
LEMMA VerifyConcat ==
  ASSUME NEW s \in Seq(Event), NEW u \in Seq(Event), NEW h \in Hash,
         NEW n \in Nat, NEW t \in Nat,
         VerifyBatch(s, h, n, t),
         VerifyBatch(u, TerminalHash(s, h), n + Len(s), TerminalTick(s, t))
  PROVE  VerifyBatch(s \o u, h, n, t)
<1> DEFINE w == s \o u
<1>1. w \in Seq(Event) /\ Len(w) = Len(s) + Len(u)
  OBVIOUS
<1>2. \A i \in 1..Len(s) : w[i] = s[i]
  OBVIOUS
<1>3. \A i \in (Len(s) + 1)..Len(w) : w[i] = u[i - Len(s)]
  OBVIOUS
<1> SUFFICES ASSUME NEW i \in 1..Len(w)
             PROVE  /\ w[i].seq = n + i
                    /\ w[i].prev = IF i = 1 THEN h ELSE w[i-1].hash
                    /\ w[i].hash = Recompute(w[i])
                    /\ w[i].tick >= IF i = 1 THEN t ELSE w[i-1].tick
  BY DEF VerifyBatch
<1> HIDE DEF w
<1>4. CASE i <= Len(s)
  <2>1. i \in 1..Len(s) /\ w[i] = s[i] /\ (i # 1 => w[i-1] = s[i-1])
    BY <1>1, <1>2, <1>4
  <2> QED
    BY <2>1 DEF VerifyBatch
<1>5. CASE i > Len(s)
  <2> DEFINE j == i - Len(s)
  <2>1. j \in 1..Len(u) /\ i = Len(s) + j
    BY <1>1, <1>5
  <2>1a. w[i] = u[j]
    BY <1>1, <1>3, <1>5
  <2>2. /\ u[j].seq = n + Len(s) + j
        /\ u[j].prev = IF j = 1 THEN TerminalHash(s, h) ELSE u[j-1].hash
        /\ u[j].hash = Recompute(u[j])
        /\ u[j].tick >= IF j = 1 THEN TerminalTick(s, t) ELSE u[j-1].tick
    BY <2>1 DEF VerifyBatch
  <2>3. CASE j = 1
    <3>1. CASE s = <<>>
      BY <2>1, <2>1a, <2>2, <2>3, <3>1 DEF TerminalHash, TerminalTick
    <3>2. CASE s # <<>>
      <4>0. Len(s) \in 1..Len(s) /\ i # 1 /\ i - 1 = Len(s)
        BY <2>1, <2>3, <3>2
      <4>1. w[i-1] = s[Len(s)]
        BY <1>2, <4>0
      <4> QED
        BY <2>1, <2>1a, <2>2, <2>3, <3>2, <4>0, <4>1 DEF TerminalHash, TerminalTick
    <3> QED
      BY <3>1, <3>2
  <2>4. CASE j # 1
    <3>0. Len(s) \in Nat /\ Len(u) \in Nat /\ Len(w) = Len(s) + Len(u)
      BY <1>1
    <3> HIDE DEF j
    <3>1. i # 1 /\ i - 1 \in (Len(s) + 1)..Len(w) /\ (i - 1) - Len(s) = j - 1
      BY <2>1, <2>4, <3>0
    <3>2. w[i-1] = u[j-1]
      BY <1>3, <3>1
    <3> QED
      BY <2>1, <2>1a, <2>2, <2>4, <3>1, <3>2
  <2> QED
    BY <2>3, <2>4
<1> QED
  BY <1>1, <1>4, <1>5

\* Terminal values of a concatenation.
LEMMA TerminalConcat ==
  ASSUME NEW s \in Seq(Event), NEW u \in Seq(Event), NEW h \in Hash, NEW t \in Nat
  PROVE  /\ TerminalHash(s \o u, h) = TerminalHash(u, TerminalHash(s, h))
         /\ TerminalTick(s \o u, t) = TerminalTick(u, TerminalTick(s, t))
         /\ Len(s \o u) = Len(s) + Len(u)
         /\ s \o u \in Seq(Event)
<1>1. CASE u = <<>>
  <2>1. s \o u = s
    BY <1>1
  <2> QED
    BY <1>1, <2>1 DEF TerminalHash, TerminalTick
<1>2. CASE u # <<>>
  <2>1. /\ Len(s \o u) = Len(s) + Len(u)
        /\ s \o u # <<>>
        /\ (s \o u)[Len(s \o u)] = u[Len(u)]
    BY <1>2
  <2> QED
    BY <1>2, <2>1 DEF TerminalHash, TerminalTick
<1> QED
  BY <1>1, <1>2

\* A prefix of a batch that verifies verifies.
LEMMA VerifyPrefix ==
  ASSUME NEW s \in Seq(Event), NEW h \in Hash, NEW n \in Nat, NEW t \in Nat,
         NEW k \in 0..Len(s), VerifyBatch(s, h, n, t)
  PROVE  /\ VerifyBatch(SubSeq(s, 1, k), h, n, t)
         /\ SubSeq(s, 1, k) \in Seq(Event)
         /\ Len(SubSeq(s, 1, k)) = k
         /\ \A i \in 1..k : SubSeq(s, 1, k)[i] = s[i]
         /\ TerminalHash(SubSeq(s, 1, k), h) = IF k = 0 THEN h ELSE s[k].hash
<1>1. /\ SubSeq(s, 1, k) \in Seq(Event)
      /\ Len(SubSeq(s, 1, k)) = k
      /\ \A i \in 1..k : SubSeq(s, 1, k)[i] = s[i]
  OBVIOUS
<1>2. VerifyBatch(SubSeq(s, 1, k), h, n, t)
  BY <1>1 DEF VerifyBatch
<1>3. TerminalHash(SubSeq(s, 1, k), h) = IF k = 0 THEN h ELSE s[k].hash
  BY <1>1 DEF TerminalHash
<1> QED
  BY <1>1, <1>2, <1>3

\* Sealing a draft onto the end of a batch that verifies.
LEMMA VerifyAppend ==
  ASSUME NEW s \in Seq(Event), NEW h \in Hash, NEW n \in Nat, NEW t \in Nat,
         NEW e \in Event, VerifyBatch(s, h, n, t),
         e.seq = n + Len(s) + 1,
         e.prev = TerminalHash(s, h),
         e.hash = Recompute(e),
         e.tick >= TerminalTick(s, t)
  PROVE  VerifyBatch(Append(s, e), h, n, t)
<1> DEFINE w == Append(s, e)
<1>1. Len(w) = Len(s) + 1 /\ w[Len(s) + 1] = e /\ \A i \in 1..Len(s) : w[i] = s[i]
  OBVIOUS
<1> SUFFICES ASSUME NEW i \in 1..Len(w)
             PROVE  /\ w[i].seq = n + i
                    /\ w[i].prev = IF i = 1 THEN h ELSE w[i-1].hash
                    /\ w[i].hash = Recompute(w[i])
                    /\ w[i].tick >= IF i = 1 THEN t ELSE w[i-1].tick
  BY DEF VerifyBatch
<1> HIDE DEF w
<1>2. CASE i <= Len(s)
  <2>1. i \in 1..Len(s) /\ w[i] = s[i] /\ (i # 1 => w[i-1] = s[i-1])
    BY <1>1, <1>2
  <2> QED
    BY <2>1 DEF VerifyBatch
<1>3. CASE i = Len(s) + 1
  <2>1. CASE s = <<>>
    BY <1>1, <1>3, <2>1 DEF TerminalHash, TerminalTick
  <2>2. CASE s # <<>>
    <3>1. i # 1 /\ w[i] = e /\ w[i-1] = s[Len(s)]
      BY <1>1, <1>3, <2>2
    <3> QED
      BY <1>3, <2>2, <3>1 DEF TerminalHash, TerminalTick
  <2> QED
    BY <2>1, <2>2
<1> QED
  BY <1>1, <1>2, <1>3

-----------------------------------------------------------------------------
(* The inductive invariant *)

\* A newly opened log satisfies the invariant.
LEMMA InitIInv == Init => IInv
<1> SUFFICES ASSUME Init PROVE IInv
  OBVIOUS
<1>1. TypeOK
  BY DEF Init, TypeOK, GenesisPrevHash, Hash
<1>2. ChainVerifies /\ StagedContinuesChain /\ ClockAhead
  BY DEF Init, ChainVerifies, StagedContinuesChain, ClockAhead, VerifyBatch,
         TerminalHash, TerminalTick, GenesisPrevHash
<1>3. HeldSavepoints /\ Nested
  BY DEF Init, HeldSavepoints, Nested
<1> QED
  BY <1>1, <1>2, <1>3 DEF IInv

\* Sealing and staging one more event.
LEMMA StagePreserves ==
  ASSUME IInv, NEW draft \in Draft, Stage(draft)
  PROVE  IInv'
<1> DEFINE e == Seal(draft, lastSeq + 1, tick, chainHash)
           h == TerminalHash(sink, GenesisPrevHash)
           t == TerminalTick(sink, 0)
<1>0. /\ lastSeq \in Nat /\ tick \in Nat /\ chainHash \in Hash
      /\ staged \in Seq(Event) /\ sink \in Seq(Event) /\ open
      /\ GenesisPrevHash \in Hash
  BY DEF IInv, TypeOK, Stage, GenesisPrevHash, Hash
<1>1. /\ e \in Event
      /\ e.seq = lastSeq + 1 /\ e.tick = tick /\ e.prev = chainHash
      /\ e.hash = Recompute(e)
  BY <1>0, SealType
<1>2. h \in Hash /\ t \in Nat
  BY <1>0, TerminalTypes
<1>3. /\ lastSeq' = lastSeq + 1 /\ chainHash' = e.hash
      /\ staged' = Append(staged, e)
      /\ UNCHANGED <<open, tick, ephemeral, dropped, rollbackSeq, rollbackHash,
                     batchToken, savepoints, sink>>
  BY DEF Stage, batchVars
<1>4. /\ lastSeq = Len(sink) + Len(staged) /\ chainHash = TerminalHash(staged, h)
      /\ VerifyBatch(staged, h, Len(sink), t)
  BY <1>0 DEF IInv, StagedContinuesChain
<1>5. e.tick >= TerminalTick(staged, t)
  <2>1. t <= tick /\ (staged # <<>> => staged[Len(staged)].tick <= tick)
    BY <1>0 DEF IInv, ClockAhead
  <2>2. TerminalTick(staged, t) <= tick
    BY <2>1 DEF TerminalTick
  <2> QED
    BY <1>0, <1>1, <1>2, <2>2, TerminalTypes
<1> HIDE DEF e, h, t
<1>6. VerifyBatch(staged', h, Len(sink), t)
  BY <1>0, <1>1, <1>2, <1>3, <1>4, <1>5, VerifyAppend
<1>7. /\ staged' \in Seq(Event) /\ Len(staged') = Len(staged) + 1 /\ staged' # <<>>
      /\ staged'[Len(staged')] = e
      /\ \A i \in 1..Len(staged) : staged'[i] = staged[i]
  BY <1>0, <1>1, <1>3
<1>8. TerminalHash(staged', h) = e.hash
  BY <1>7 DEF TerminalHash
<1>9. TypeOK'
  BY <1>0, <1>1, <1>3, <1>7 DEF IInv, TypeOK, Event
<1>10. ChainVerifies'
  BY <1>3 DEF IInv, ChainVerifies
<1>11. StagedContinuesChain'
  BY <1>0, <1>3, <1>4, <1>6, <1>7, <1>8 DEF StagedContinuesChain, h, t
<1>12. ClockAhead'
  BY <1>0, <1>1, <1>3, <1>7 DEF IInv, ClockAhead
<1>13. HeldSavepoints'
  <2> SUFFICES ASSUME NEW i \in 1..Len(savepoints)
               PROVE  /\ savepoints[i].token <= batchToken
                      /\ savepoints[i].token = batchToken =>
                           /\ savepoints[i].len <= Len(staged')
                           /\ savepoints[i].ephemeral <= ephemeral
                           /\ savepoints[i].lastSeq = Len(sink) + savepoints[i].len
                           /\ savepoints[i].hash =
                                IF savepoints[i].len = 0
                                THEN h ELSE staged'[savepoints[i].len].hash
    BY <1>3 DEF HeldSavepoints, h
  <2>1. savepoints[i] \in Savepoint
    BY DEF IInv, TypeOK
  <2>2. savepoints[i].len \in Nat
    BY <2>1 DEF Savepoint
  <2> QED
    BY <1>0, <1>7, <2>2 DEF IInv, HeldSavepoints, h
<1>14. Nested'
  BY <1>3 DEF IInv, Nested
<1> QED
  BY <1>9, <1>10, <1>11, <1>12, <1>13, <1>14 DEF IInv

\* Taking a savepoint describes the batch as it is.
LEMMA TakeSavepointPreserves ==
  ASSUME IInv, TakeSavepoint
  PROVE  IInv'
<1> DEFINE sp == [len |-> Len(staged), ephemeral |-> ephemeral,
                  lastSeq |-> lastSeq, hash |-> chainHash,
                  dropped |-> dropped, token |-> batchToken]
<1>0. /\ savepoints' = Append(savepoints, sp) /\ open
      /\ UNCHANGED <<open, tick, lastSeq, chainHash, staged, ephemeral, dropped,
                     rollbackSeq, rollbackHash, batchToken, sink>>
  BY DEF TakeSavepoint, logVars, batchVars
<1>1. sp \in Savepoint
  BY DEF IInv, TypeOK, Savepoint
<1>2. /\ sp.len = Len(staged) /\ sp.ephemeral = ephemeral /\ sp.lastSeq = lastSeq
      /\ sp.hash = chainHash /\ sp.token = batchToken
  OBVIOUS
<1> HIDE DEF sp
<1>3. /\ savepoints \in Seq(Savepoint) /\ savepoints' \in Seq(Savepoint)
      /\ Len(savepoints') = Len(savepoints) + 1
      /\ savepoints'[Len(savepoints) + 1] = sp
      /\ \A i \in 1..Len(savepoints) : savepoints'[i] = savepoints[i]
  BY <1>0, <1>1 DEF IInv, TypeOK
<1>4. TypeOK'
  BY <1>0, <1>3 DEF IInv, TypeOK
<1>5. ChainVerifies' /\ StagedContinuesChain' /\ ClockAhead'
  BY <1>0 DEF IInv, ChainVerifies, StagedContinuesChain, ClockAhead
<1>6. HeldSavepoints'
  <2> SUFFICES ASSUME NEW i \in 1..Len(savepoints')
               PROVE  /\ savepoints'[i].token <= batchToken
                      /\ savepoints'[i].token = batchToken =>
                           /\ savepoints'[i].len <= Len(staged)
                           /\ savepoints'[i].ephemeral <= ephemeral
                           /\ savepoints'[i].lastSeq = Len(sink) + savepoints'[i].len
                           /\ savepoints'[i].hash =
                                IF savepoints'[i].len = 0
                                THEN TerminalHash(sink, GenesisPrevHash)
                                ELSE staged[savepoints'[i].len].hash
    BY <1>0 DEF HeldSavepoints
  <2>1. CASE i = Len(savepoints) + 1
    <3>1. chainHash = IF Len(staged) = 0 THEN TerminalHash(sink, GenesisPrevHash)
                      ELSE staged[Len(staged)].hash
      <4>1. staged = <<>> <=> Len(staged) = 0
        BY DEF IInv, TypeOK
      <4> QED
        BY <1>0, <4>1 DEF IInv, StagedContinuesChain, TerminalHash
    <3>2. lastSeq = Len(sink) + Len(staged)
      BY <1>0 DEF IInv, StagedContinuesChain
    <3>3. batchToken \in Nat /\ ephemeral \in Nat /\ Len(staged) \in Nat
      BY DEF IInv, TypeOK
    <3> QED
      BY <1>2, <1>3, <2>1, <3>1, <3>2, <3>3
  <2>2. CASE i \in 1..Len(savepoints)
    BY <1>0, <1>3, <2>2 DEF IInv, HeldSavepoints
  <2> QED
    BY <1>3, <2>1, <2>2
<1>7. Nested'
  <2> SUFFICES ASSUME NEW i \in 1..Len(savepoints'), NEW j \in 1..Len(savepoints'),
                      i < j,
                      savepoints'[i].token = batchToken,
                      savepoints'[j].token = batchToken
               PROVE  /\ savepoints'[i].len <= savepoints'[j].len
                      /\ savepoints'[i].ephemeral <= savepoints'[j].ephemeral
    BY <1>0 DEF Nested
  <2>1. i \in 1..Len(savepoints) /\ savepoints'[i] = savepoints[i]
    BY <1>3
  <2>2. CASE j = Len(savepoints) + 1
    BY <1>0, <1>2, <1>3, <2>1, <2>2 DEF IInv, HeldSavepoints
  <2>3. CASE j \in 1..Len(savepoints)
    BY <1>3, <2>1, <2>3 DEF IInv, Nested
  <2> QED
    BY <1>3, <2>2, <2>3
<1> QED
  BY <1>4, <1>5, <1>6, <1>7 DEF IInv

\* A cut of the stack of savepoints.
LEMMA StackPrefix ==
  ASSUME NEW s \in Seq(Savepoint), NEW k \in 0..Len(s)
  PROVE  /\ SubSeq(s, 1, k) \in Seq(Savepoint)
         /\ Len(SubSeq(s, 1, k)) = k
         /\ \A i \in 1..k : SubSeq(s, 1, k)[i] = s[i]
  OBVIOUS

\* The fields of the savepoints callers hold.
LEMMA SavepointFields ==
  ASSUME TypeOK, NEW i \in 1..Len(savepoints)
  PROVE  /\ savepoints[i].len \in Nat
         /\ savepoints[i].ephemeral \in Nat
         /\ savepoints[i].token \in Nat
<1>1. savepoints[i] \in Savepoint
  BY DEF TypeOK
<1> QED
  BY <1>1 DEF Savepoint

\* Rolling back to a savepoint that is accepted.
LEMMA RollbackToPreserves ==
  ASSUME IInv, NEW i \in 1..Len(savepoints), RollbackTo(i)
  PROVE  IInv'
<1> DEFINE sp == savepoints[i]
           h == TerminalHash(sink, GenesisPrevHash)
           t == TerminalTick(sink, 0)
<1>0. /\ open /\ sp.token = batchToken
      /\ staged' = SubSeq(staged, 1, sp.len) /\ ephemeral' = sp.ephemeral
      /\ lastSeq' = sp.lastSeq /\ chainHash' = sp.hash /\ dropped' = sp.dropped
      /\ savepoints' = SubSeq(savepoints, 1, i - 1)
      /\ UNCHANGED <<open, tick, rollbackSeq, rollbackHash, batchToken, sink>>
  BY DEF RollbackTo, Restorable, batchVars
<1>1. /\ staged \in Seq(Event) /\ sink \in Seq(Event) /\ tick \in Nat
      /\ savepoints \in Seq(Savepoint) /\ GenesisPrevHash \in Hash
  BY DEF IInv, TypeOK, GenesisPrevHash, Hash
<1>2. /\ i \in Nat /\ i - 1 \in 0..Len(savepoints)
      /\ \A j \in 1..Len(savepoints) :
           savepoints[j].len \in Nat /\ savepoints[j].ephemeral \in Nat
  BY <1>1, SavepointFields DEF IInv
<1>3. sp \in Savepoint
  BY <1>1
<1>4. /\ sp.len \in 0..Len(staged) /\ sp.lastSeq = Len(sink) + sp.len
      /\ sp.hash = IF sp.len = 0 THEN h ELSE staged[sp.len].hash
  BY <1>0, <1>1, <1>2 DEF IInv, HeldSavepoints
<1>5. h \in Hash /\ t \in Nat
  BY <1>1, TerminalTypes
<1>6. VerifyBatch(staged, h, Len(sink), t)
  BY <1>0 DEF IInv, StagedContinuesChain
<1>7. \A j \in 1..(i - 1) : savepoints[j].token = batchToken =>
         savepoints[j].len <= sp.len /\ savepoints[j].ephemeral <= sp.ephemeral
  <2> SUFFICES ASSUME NEW j \in 1..(i - 1), savepoints[j].token = batchToken
               PROVE  savepoints[j].len <= sp.len /\ savepoints[j].ephemeral <= sp.ephemeral
    OBVIOUS
  <2>1. j \in 1..Len(savepoints) /\ j < i
    BY <1>1, <1>2
  <2>2. Nested
    BY DEF IInv
  <2> QED
    BY <1>0, <2>1, <2>2 DEF Nested
<1> HIDE DEF sp, h, t
<1>8. /\ VerifyBatch(staged', h, Len(sink), t)
      /\ staged' \in Seq(Event) /\ Len(staged') = sp.len
      /\ \A j \in 1..sp.len : staged'[j] = staged[j]
      /\ TerminalHash(staged', h) = sp.hash
  <2> DEFINE k == sp.len
  <2>1. k \in 0..Len(staged) /\ Len(sink) \in Nat
    BY <1>1, <1>4
  <2> HIDE DEF k
  <2>2. /\ VerifyBatch(SubSeq(staged, 1, k), h, Len(sink), t)
        /\ SubSeq(staged, 1, k) \in Seq(Event)
        /\ Len(SubSeq(staged, 1, k)) = k
        /\ \A j \in 1..k : SubSeq(staged, 1, k)[j] = staged[j]
        /\ TerminalHash(SubSeq(staged, 1, k), h) = IF k = 0 THEN h ELSE staged[k].hash
    BY <1>1, <1>5, <1>6, <2>1, VerifyPrefix
  <2>3. staged' = SubSeq(staged, 1, k) /\ sp.hash = IF k = 0 THEN h ELSE staged[k].hash
    BY <1>0, <1>4 DEF k
  <2> QED
    BY <2>2, <2>3 DEF k
<1>9. /\ savepoints' \in Seq(Savepoint) /\ Len(savepoints') = i - 1
      /\ \A j \in 1..(i - 1) : savepoints'[j] = savepoints[j]
  BY <1>0, <1>1, <1>2, StackPrefix
<1>10. TypeOK'
  BY <1>0, <1>3, <1>8, <1>9 DEF IInv, TypeOK, Savepoint
<1>11. ChainVerifies'
  BY <1>0 DEF IInv, ChainVerifies
<1>12. StagedContinuesChain'
  BY <1>0, <1>4, <1>8 DEF StagedContinuesChain, h, t
<1>13. ClockAhead'
  BY <1>0, <1>4, <1>8 DEF IInv, ClockAhead
<1>14. HeldSavepoints'
  <2> SUFFICES ASSUME NEW j \in 1..(i - 1)
               PROVE  /\ savepoints[j].token <= batchToken
                      /\ savepoints[j].token = batchToken =>
                           /\ savepoints[j].len <= sp.len
                           /\ savepoints[j].ephemeral <= sp.ephemeral
                           /\ savepoints[j].lastSeq = Len(sink) + savepoints[j].len
                           /\ savepoints[j].hash =
                                IF savepoints[j].len = 0
                                THEN h ELSE staged'[savepoints[j].len].hash
    <3>1. Len(savepoints') = i - 1 /\ batchToken' = batchToken /\ sink' = sink
          /\ open' /\ Len(staged') = sp.len /\ ephemeral' = sp.ephemeral
      BY <1>0, <1>8, <1>9
    <3> QED
      BY <1>9, <3>1 DEF HeldSavepoints, h
  <2>1. j \in 1..Len(savepoints) /\ savepoints[j].len \in Nat
    BY <1>2
  <2>2. /\ savepoints[j].token <= batchToken
        /\ savepoints[j].token = batchToken =>
             /\ savepoints[j].lastSeq = Len(sink) + savepoints[j].len
             /\ savepoints[j].hash = IF savepoints[j].len = 0
                                     THEN h ELSE staged[savepoints[j].len].hash
    BY <1>0, <2>1 DEF IInv, HeldSavepoints, h
  <2> QED
    BY <1>4, <1>7, <1>8, <2>1, <2>2
<1>15. Nested'
  BY <1>0, <1>2, <1>9 DEF IInv, Nested
<1> QED
  BY <1>10, <1>11, <1>12, <1>13, <1>14, <1>15 DEF IInv

\* Letting go of the innermost savepoint.
LEMMA ReleasePreserves ==
  ASSUME IInv, ReleaseSavepoint
  PROVE  IInv'
<1> DEFINE k == Len(savepoints) - 1
<1>0. /\ savepoints \in Seq(Savepoint) /\ savepoints # <<>>
      /\ savepoints' = SubSeq(savepoints, 1, k)
      /\ UNCHANGED <<open, tick, lastSeq, chainHash, staged, ephemeral, dropped,
                     rollbackSeq, rollbackHash, batchToken, sink>>
  BY DEF IInv, TypeOK, ReleaseSavepoint, logVars, batchVars
<1>1. k \in 0..Len(savepoints)
  BY <1>0
<1> HIDE DEF k
<1>2. /\ savepoints' \in Seq(Savepoint) /\ Len(savepoints') = k
      /\ \A j \in 1..k : savepoints'[j] = savepoints[j]
  BY <1>0, <1>1, StackPrefix
<1>3. TypeOK'
  BY <1>0, <1>2 DEF IInv, TypeOK
<1>4. ChainVerifies' /\ StagedContinuesChain' /\ ClockAhead'
  BY <1>0 DEF IInv, ChainVerifies, StagedContinuesChain, ClockAhead
<1>5. HeldSavepoints' /\ Nested'
  BY <1>0, <1>1, <1>2 DEF IInv, HeldSavepoints, Nested
<1> QED
  BY <1>3, <1>4, <1>5 DEF IInv

\* A batch that is stored extends a chain that verifies.
LEMMA StoredBatchVerifies ==
  ASSUME IInv, open, sink' = sink \o staged
  PROVE  /\ ChainVerifies'
         /\ sink' \in Seq(Event)
         /\ Len(sink') = lastSeq
         /\ TerminalHash(sink', GenesisPrevHash) = chainHash
         /\ TerminalTick(sink', 0) <= tick
<1> DEFINE h == TerminalHash(sink, GenesisPrevHash)
           t == TerminalTick(sink, 0)
<1>1. /\ staged \in Seq(Event) /\ sink \in Seq(Event) /\ GenesisPrevHash \in Hash
      /\ 0 \in Nat /\ tick \in Nat
  BY DEF IInv, TypeOK, GenesisPrevHash, Hash
<1>2. /\ VerifyBatch(sink, GenesisPrevHash, 0, 0)
      /\ VerifyBatch(staged, h, 0 + Len(sink), t)
      /\ lastSeq = Len(sink) + Len(staged) /\ chainHash = TerminalHash(staged, h)
  BY <1>1 DEF IInv, ChainVerifies, StagedContinuesChain
<1>3. ChainVerifies'
  BY <1>1, <1>2, VerifyConcat DEF ChainVerifies
<1>4. /\ TerminalHash(sink', GenesisPrevHash) = TerminalHash(staged, h)
      /\ TerminalTick(sink', 0) = TerminalTick(staged, t)
      /\ Len(sink') = Len(sink) + Len(staged) /\ sink' \in Seq(Event)
  BY <1>1, TerminalConcat
<1>5. TerminalTick(staged, t) <= tick
  BY <1>1 DEF IInv, ClockAhead, TerminalTick
<1> QED
  BY <1>2, <1>3, <1>4, <1>5

\* commit() that succeeds.
LEMMA CommitPreserves ==
  ASSUME IInv, Commit
  PROVE  IInv'
<1>0. /\ open /\ sink' = sink \o staged /\ staged' = <<>> /\ ephemeral' = 0
      /\ dropped' = 0 /\ batchToken' = batchToken + 1
      /\ rollbackSeq' = lastSeq /\ rollbackHash' = chainHash
      /\ UNCHANGED <<open, tick, lastSeq, chainHash, savepoints>>
  BY DEF Commit, NewBatch
<1>1. /\ ChainVerifies' /\ sink' \in Seq(Event) /\ Len(sink') = lastSeq
      /\ TerminalHash(sink', GenesisPrevHash) = chainHash
      /\ TerminalTick(sink', 0) <= tick
  BY <1>0, StoredBatchVerifies
<1>2. TypeOK'
  BY <1>0, <1>1 DEF IInv, TypeOK
<1>3. StagedContinuesChain' /\ ClockAhead'
  BY <1>0, <1>1, <1>2 DEF StagedContinuesChain, ClockAhead, VerifyBatch,
                          TerminalHash, TypeOK
<1>4. \A i \in 1..Len(savepoints) : savepoints[i].token \in Nat
                                    /\ savepoints[i].token <= batchToken
  BY SavepointFields DEF IInv, HeldSavepoints
<1>5. HeldSavepoints' /\ Nested'
  BY <1>0, <1>4 DEF IInv, TypeOK, HeldSavepoints, Nested
<1> QED
  BY <1>1, <1>2, <1>3, <1>5 DEF IInv

\* commit() that raises, whether or not the batch was stored.
LEMMA CommitFailsPreserves ==
  ASSUME IInv, CommitFails
  PROVE  IInv'
<1>0. /\ open /\ sink' \in {sink, sink \o staged} /\ staged' = <<>>
      /\ ephemeral' = 0 /\ dropped' = 0 /\ batchToken' = batchToken + 1
      /\ lastSeq' = rollbackSeq /\ chainHash' = rollbackHash
      /\ open' = FALSE /\ savepoints' = <<>>
      /\ UNCHANGED <<tick, rollbackSeq, rollbackHash>>
  BY DEF CommitFails, Rollback, NewBatch
<1>1. ChainVerifies' /\ sink' \in Seq(Event)
  <2>1. CASE sink' = sink
    BY <2>1 DEF IInv, ChainVerifies, TypeOK
  <2>2. CASE sink' = sink \o staged
    BY <1>0, <2>2, StoredBatchVerifies
  <2> QED
    BY <1>0, <2>1, <2>2
<1>2. open' \in BOOLEAN /\ staged' \in Seq(Event) /\ savepoints' \in Seq(Savepoint)
  <2>1. open' \in BOOLEAN
    BY <1>0
  <2>2. staged' \in Seq(Event) /\ savepoints' \in Seq(Savepoint)
    BY <1>0
  <2> QED
    BY <2>1, <2>2
<1>3. TypeOK'
  BY <1>0, <1>1, <1>2 DEF IInv, TypeOK
<1>4. StagedContinuesChain' /\ ClockAhead' /\ HeldSavepoints' /\ Nested'
  BY <1>0 DEF StagedContinuesChain, ClockAhead, HeldSavepoints, Nested
<1> QED
  BY <1>1, <1>3, <1>4 DEF IInv

\* A process that is killed.
LEMMA CrashPreserves ==
  ASSUME IInv, Crash
  PROVE  IInv'
<1>0. /\ open' = FALSE /\ staged' = <<>> /\ ephemeral' = 0 /\ dropped' = 0
      /\ savepoints' = <<>>
      /\ UNCHANGED <<tick, lastSeq, chainHash, rollbackSeq, rollbackHash,
                     batchToken, sink>>
  BY DEF Crash, batchVars
<1>1. open' \in BOOLEAN /\ staged' \in Seq(Event) /\ savepoints' \in Seq(Savepoint)
  <2>1. open' \in BOOLEAN
    BY <1>0
  <2>2. staged' \in Seq(Event) /\ savepoints' \in Seq(Savepoint)
    BY <1>0
  <2> QED
    BY <2>1, <2>2
<1>2. TypeOK' /\ ChainVerifies'
  BY <1>0, <1>1 DEF IInv, TypeOK, ChainVerifies
<1>3. StagedContinuesChain' /\ ClockAhead' /\ HeldSavepoints' /\ Nested'
  BY <1>0 DEF StagedContinuesChain, ClockAhead, HeldSavepoints, Nested
<1> QED
  BY <1>2, <1>3 DEF IInv

\* A new process that continues the stored chain.
LEMMA ReopenPreserves ==
  ASSUME IInv, Reopen
  PROVE  IInv'
<1>a. Len(sink) \in Nat /\ TerminalSeq(sink) = Len(sink)
  <2>1. sink \in Seq(Event)
    BY DEF IInv, TypeOK
  <2>2. CASE sink = <<>>
    BY <2>2 DEF TerminalSeq
  <2>3. CASE sink # <<>>
    <3>1. Len(sink) \in 1..Len(sink)
      BY <2>1, <2>3
    <3>2. sink[Len(sink)].seq = 0 + Len(sink)
      BY <3>1 DEF IInv, ChainVerifies, VerifyBatch
    <3> QED
      BY <2>1, <2>3, <3>2 DEF TerminalSeq
  <2> QED
    BY <2>1, <2>2, <2>3
<1>0. /\ ~open /\ open' = TRUE /\ lastSeq' = Len(sink)
      /\ chainHash' = TerminalHash(sink, GenesisPrevHash)
      /\ tick' = TerminalTick(sink, 0)
      /\ rollbackSeq' = lastSeq' /\ rollbackHash' = chainHash'
      /\ staged' = <<>> /\ ephemeral' = 0 /\ dropped' = 0
      /\ batchToken' = batchToken + 1
      /\ UNCHANGED <<savepoints, sink>>
  BY <1>a DEF Reopen, NewBatch
<1>1. /\ sink \in Seq(Event) /\ batchToken \in Nat
      /\ TerminalHash(sink, GenesisPrevHash) \in Hash
      /\ TerminalTick(sink, 0) \in Nat
  <2>1. sink \in Seq(Event) /\ batchToken \in Nat /\ GenesisPrevHash \in Hash /\ 0 \in Nat
    BY DEF IInv, TypeOK, GenesisPrevHash, Hash
  <2> QED
    BY <2>1, TerminalTypes
<1>2. TypeOK' /\ ChainVerifies'
  BY <1>0, <1>1 DEF IInv, TypeOK, ChainVerifies
<1>3. StagedContinuesChain' /\ ClockAhead'
  BY <1>0, <1>1 DEF StagedContinuesChain, ClockAhead, VerifyBatch, TerminalHash
<1>4. \A i \in 1..Len(savepoints) : savepoints[i].token \in Nat
                                    /\ savepoints[i].token <= batchToken
  BY SavepointFields DEF IInv, HeldSavepoints
<1>5. HeldSavepoints' /\ Nested'
  BY <1>0, <1>1, <1>4 DEF HeldSavepoints, Nested
<1> QED
  BY <1>2, <1>3, <1>5 DEF IInv

\* Every step of the log preserves the invariant.
LEMMA NextIInv == IInv /\ [Next]_vars => IInv'
<1> SUFFICES ASSUME IInv, [Next]_vars PROVE IInv'
  OBVIOUS
<1>1. CASE AdvanceClock
  <2>1. /\ tick' = tick + 1 /\ tick \in Nat
        /\ UNCHANGED <<open, lastSeq, chainHash, staged, ephemeral, dropped,
                       rollbackSeq, rollbackHash, batchToken, savepoints, sink>>
    BY <1>1 DEF AdvanceClock, logVars, batchVars, IInv, TypeOK
  <2>2. TypeOK' /\ ChainVerifies' /\ StagedContinuesChain' /\ HeldSavepoints' /\ Nested'
    BY <2>1 DEF IInv, TypeOK, ChainVerifies, StagedContinuesChain, HeldSavepoints,
                Nested
  <2>3. ClockAhead'
    <3>1. TerminalTick(sink, 0) \in Nat
      BY TerminalTypes DEF IInv, TypeOK, Hash
    <3>2. \A i \in 1..Len(staged) : staged[i] \in Event
      BY DEF IInv, TypeOK
    <3>3. \A i \in 1..Len(staged) : staged[i].tick \in Nat
      BY <3>2 DEF Event
    <3> QED
      BY <2>1, <3>1, <3>3 DEF IInv, ClockAhead
  <2> QED
    BY <2>2, <2>3 DEF IInv
<1>2. CASE \E draft \in Draft : Stage(draft)
  BY <1>2, StagePreserves
<1>3. CASE StageEphemeral \/ DropSampled
  <2>1. /\ ephemeral' \in Nat /\ dropped' \in Nat /\ ephemeral <= ephemeral'
        /\ UNCHANGED <<open, tick, lastSeq, chainHash, staged, rollbackSeq,
                       rollbackHash, batchToken, savepoints, sink>>
    BY <1>3 DEF StageEphemeral, DropSampled, batchVars, IInv, TypeOK
  <2>2. \A i \in 1..Len(savepoints) : savepoints[i].ephemeral \in Nat
    BY SavepointFields DEF IInv
  <2>3. TypeOK' /\ ChainVerifies' /\ StagedContinuesChain' /\ Nested' /\ ClockAhead'
    BY <2>1 DEF IInv, TypeOK, ChainVerifies, StagedContinuesChain, Nested, ClockAhead
  <2>4. HeldSavepoints'
    BY <2>1, <2>2 DEF IInv, TypeOK, HeldSavepoints
  <2> QED
    BY <2>3, <2>4 DEF IInv
<1>4. CASE TakeSavepoint
  BY <1>4, TakeSavepointPreserves
<1>5. CASE \E i \in 1..Len(savepoints) : RollbackTo(i)
  BY <1>5, RollbackToPreserves
<1>6. CASE ReleaseSavepoint
  BY <1>6, ReleasePreserves
<1>7. CASE Commit
  BY <1>7, CommitPreserves
<1>8. CASE CommitFails
  BY <1>8, CommitFailsPreserves
<1>9. CASE Crash
  BY <1>9, CrashPreserves
<1>10. CASE Reopen
  BY <1>10, ReopenPreserves
<1>11. CASE UNCHANGED vars
  BY <1>11 DEF vars, logVars, batchVars, IInv, TypeOK, ChainVerifies,
               StagedContinuesChain, HeldSavepoints, Nested, ClockAhead
<1> QED
  BY <1>1, <1>2, <1>3, <1>4, <1>5, <1>6, <1>7, <1>8, <1>9, <1>10, <1>11 DEF Next

\* The invariant holds in every reachable state.
LEMMA IInvariance == Spec => []IInv
  BY InitIInv, NextIInv, PTL DEF Spec

\* Every field of the log keeps its type (log.py:57-198).
THEOREM TypeCorrect == Spec => []TypeOK
<1>1. IInv => TypeOK
  BY DEF IInv
<1> QED
  BY <1>1, IInvariance, PTL

\* verify_run accepts the stored events of every run, whatever was rolled back,
\* lost in a failed commit or in a crash (verify.py:41-104).
THEOREM ChainAlwaysVerifies == Spec => []ChainVerifies
<1>1. IInv => ChainVerifies
  BY DEF IInv
<1> QED
  BY <1>1, IInvariance, PTL

\* The batch in memory always continues the stored chain (log.py:132-143).
THEOREM StagedAlwaysContinues == Spec => []StagedContinuesChain
<1>1. IInv => StagedContinuesChain
  BY DEF IInv
<1> QED
  BY <1>1, IInvariance, PTL

\* A savepoint that rollback_to accepts describes the prefix it restores
\* (log.py:157-165).
THEOREM SavepointsAlwaysMatch == Spec => []SavepointsMatchBatch
<1>1. IInv => SavepointsMatchBatch
  <2> SUFFICES ASSUME IInv, NEW i \in 1..Len(savepoints), open,
                      Restorable(savepoints[i])
               PROVE  /\ savepoints[i].lastSeq = Len(sink) + savepoints[i].len
                      /\ savepoints[i].hash =
                           TerminalHash(SubSeq(staged, 1, savepoints[i].len),
                                        TerminalHash(sink, GenesisPrevHash))
    BY DEF SavepointsMatchBatch
  <2> DEFINE k == savepoints[i].len
             h == TerminalHash(sink, GenesisPrevHash)
             t == TerminalTick(sink, 0)
  <2>1. k \in Nat /\ savepoints[i].token = batchToken /\ k <= Len(staged)
    BY SavepointFields DEF IInv, Restorable
  <2>2. staged \in Seq(Event) /\ sink \in Seq(Event) /\ GenesisPrevHash \in Hash
        /\ 0 \in Nat
    BY DEF IInv, TypeOK, GenesisPrevHash, Hash
  <2>3. h \in Hash /\ t \in Nat /\ VerifyBatch(staged, h, Len(sink), t)
    BY <2>2, TerminalTypes DEF IInv, StagedContinuesChain
  <2>4. /\ savepoints[i].lastSeq = Len(sink) + k
        /\ savepoints[i].hash = IF k = 0 THEN h ELSE staged[k].hash
    BY <2>1 DEF IInv, HeldSavepoints
  <2>5. k \in 0..Len(staged) /\ Len(sink) \in Nat
    BY <2>1, <2>2
  <2> HIDE DEF k, h, t
  <2>6. TerminalHash(SubSeq(staged, 1, k), h) = IF k = 0 THEN h ELSE staged[k].hash
    BY <2>2, <2>3, <2>5, VerifyPrefix
  <2> QED
    BY <2>4, <2>6 DEF k, h
<1> QED
  BY <1>1, IInvariance, PTL

=============================================================================
