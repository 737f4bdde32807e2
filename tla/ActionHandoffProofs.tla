------------------------ MODULE ActionHandoffProofs ------------------------
(***************************************************************************)
(* What reaches Redis reaches the engine, for every set of agents, ids and *)
(* settings, and any number of ticks, tries and faults.                    *)
(*                                                                         *)
(* An accepted action was stored (RequestsHold), and what is stored leaves *)
(* Redis only once it was decided on (DeliveredIsDecided).  That it is     *)
(* stored in time needs the clocks: a request was sent before the seal of  *)
(* its tick and waits no longer than its timeout, so that none of the tick *)
(* waits when the list is drained (EngineHolds, RequestsHold), and after   *)
(* the drain nothing of the tick is left to store (DrainedHolds).          *)
(***************************************************************************)
EXTENDS ActionHandoff, FiniteSetTheorems, TLAPS

\* The lists of Redis and the batches of the drain hold actions, and a window is
\* open only for a tick of the run.
Typed ==
  /\ TypeOK
  /\ queue \in [Ticks -> Seq(Action)]
  /\ processing \in [Ticks -> Seq(Action)]
  /\ delivered \in [Ticks -> Seq(Action)]
  /\ seen \in Seq(Ids)
  /\ mirror.tick = 0 => mirror.sealed

\* What the engine took or refused.
Decided == applied \cup rejected

\* A batch that may be acknowledged has been decided on.
DeliveredIsDecided == \A t \in Ticks : ToSet(delivered[t]) \subseteq Decided

\* How far the engine is, what the window says, and which batches are claimed.
EngineHolds ==
  /\ mirror.tick <= tick
  /\ phase = "opening" => mirror.tick < tick
  /\ mirror.tick = tick => mirror.sealAt = opened + Deadline - SealMargin
  /\ phase = "sealed" => mirror.tick = tick /\ mirror.sealed
  /\ opened <= now
  /\ \A t \in drained :
       /\ t <= tick
       /\ t = tick => phase \in {"decided", "done"}
       /\ mirror.tick = t => mirror.sealed
  /\ \A t \in Ticks :
       t > tick \/ (t = tick /\ phase \in {"opening", "open", "sealed"})
         => processing[t] = <<>>

\* An action is in Redis, or the engine has decided on it.
Known(x) ==
  x \in ToSet(queue[x.tick]) \cup ToSet(processing[x.tick]) \cup Decided

\* A request waits no longer than its timeout, was sent before the seal of its
\* tick, and was told "queued" only if its action was stored.
RequestsHold ==
  /\ \A w \in waiting :
       /\ w.sent <= now /\ now <= w.sent + PushTimeout
       /\ w.request.try <= tries[w.request.action.id]
       /\ w.request.action.tick <= mirror.tick
       /\ w.request.action.tick = tick => w.sent < opened + Deadline - SealMargin
       /\ w.answer = "queued" => Known(w.request.action)
       /\ w.request \in wire => w.answer = "none"
  /\ \A x \in accepted : Known(x)
  /\ ~Unreliable => \A request \in wire : \E w \in waiting : w.request = request

\* Once the batch of a tick is drained, nothing of that tick is under way.
DrainedHolds ==
  Orderly /\ SealMargin >= PushTimeout =>
    \A t \in drained :
      /\ queue[t] = <<>>
      /\ ToSet(processing[t]) \subseteq Decided
      /\ \A w \in waiting : w.request.action.tick # t

IInv ==
  /\ Typed
  /\ DeliveredIsDecided
  /\ EngineHolds
  /\ RequestsHold
  /\ DrainedHolds

-----------------------------------------------------------------------------
(* Lemmas about settings, lists and the verifier's records *)

\* What every setting of a run satisfies.
LEMMA Settings ==
  ASSUME config \in Configs
  PROVE  /\ LastTick \in Nat /\ LastTick > 0 /\ Slack \in Nat /\ MaxTries \in Nat
         /\ Slots \in Nat /\ Slots > 0 /\ PushTimeout \in Nat /\ PushTimeout > 0
         /\ Ids \subseteq Nat /\ MaxNonce \in Nat /\ SealMargin \in Nat /\ MaxFaults \in Nat
         /\ QueueCap \in Nat /\ QueueCap > 0 /\ SeenCap \in Nat /\ SeenCap > 0
         /\ Deadline \in Nat /\ PauseMax \in Nat /\ NaturaliseAfter \in Nat
         /\ SealMargin < Deadline
         /\ Pause \in BOOLEAN /\ Unreliable \in BOOLEAN
<1>1. /\ {config.max_nonce, config.seal_margin, config.max_faults} \subseteq Nat
      /\ {config.max_queued, config.seen_cap, config.deadline, config.pause_max,
          config.naturalise_after} \subseteq Nat \ {0}
      /\ config.ids \subseteq Nat /\ config.seal_margin < config.deadline
      /\ {config.pause, config.unreliable} \subseteq BOOLEAN
  BY HandoffConstants
<1>2. /\ {Slack, MaxTries} \subseteq Nat
      /\ {LastTick, Slots, PushTimeout} \subseteq Nat \ {0}
  BY HandoffConstants
<1> QED
  BY <1>1, <1>2 DEF Ids, MaxNonce, SealMargin, MaxFaults, QueueCap, SeenCap, Deadline,
     PauseMax, NaturaliseAfter, Pause, Unreliable

\* No step changes the settings.
LEMMA SameConfig ==
  ASSUME config' = config
  PROVE  /\ Agents' = Agents /\ Ids' = Ids /\ MaxNonce' = MaxNonce
         /\ QueueCap' = QueueCap /\ SeenCap' = SeenCap /\ Deadline' = Deadline
         /\ SealMargin' = SealMargin /\ Pause' = Pause /\ PauseMax' = PauseMax
         /\ NaturaliseAfter' = NaturaliseAfter /\ MaxFaults' = MaxFaults
         /\ Unreliable' = Unreliable /\ Action' = Action /\ Orderly' = Orderly
  BY DEF Agents, Ids, MaxNonce, QueueCap, SeenCap, Deadline, SealMargin, Pause, PauseMax,
     NaturaliseAfter, MaxFaults, Unreliable, Action, Orderly

LEMMA ConfigKept == Next => config' = config
  BY DEF Next, Submit, SubmitLate, Push, Accept, RefuseFull, TimeOut, LosePush,
     RestartGateway, EngineStep, OpenTick, OpenTickFails, Seal, PeekFails, Drain, DrainFails,
     SkipDrain, NextTick, EndRun, PassTime

\* The elements of an empty and of an extended list.
LEMMA ListElements ==
  ASSUME NEW S, NEW s \in Seq(S)
  PROVE  /\ ToSet(s) \subseteq S
         /\ ToSet(s) = {s[i] : i \in 1..Len(s)}
         /\ Len(s) \in Nat
         /\ ToSet(<<>>) = {}
         /\ \A x \in S : /\ ToSet(Append(s, x)) = ToSet(s) \cup {x}
                         /\ Append(s, x) \in Seq(S) /\ Len(Append(s, x)) = Len(s) + 1
<1>1. ToSet(s) = {s[i] : i \in 1..Len(s)} /\ Len(s) \in Nat
  BY DEF ToSet
<1>2. ToSet(s) \subseteq S
  BY <1>1
<1>3. ToSet(<<>>) = {}
  BY DEF ToSet
<1>4. ASSUME NEW x \in S
      PROVE  /\ ToSet(Append(s, x)) = ToSet(s) \cup {x}
             /\ Append(s, x) \in Seq(S) /\ Len(Append(s, x)) = Len(s) + 1
  <2> DEFINE w == Append(s, x)
  <2>1. w \in Seq(S) /\ Len(w) = Len(s) + 1
    OBVIOUS
  <2>2. w[Len(s) + 1] = x /\ \A i \in 1..Len(s) : w[i] = s[i]
    OBVIOUS
  <2>3. ToSet(w) = {w[i] : i \in 1..Len(w)}
    BY <2>1 DEF ToSet
  <2> HIDE DEF w
  <2>4. ToSet(w) \subseteq ToSet(s) \cup {x}
    <3> SUFFICES ASSUME NEW i \in 1..Len(w) PROVE w[i] \in ToSet(s) \cup {x}
      BY <2>3
    <3>1. i \in 1..Len(s) \/ i = Len(s) + 1
      BY <1>1, <2>1
    <3> QED
      BY <1>1, <2>2, <3>1
  <2>5. ToSet(s) \cup {x} \subseteq ToSet(w)
    <3>1. x \in ToSet(w)
      BY <1>1, <2>1, <2>2, <2>3
    <3>2. ASSUME NEW i \in 1..Len(s) PROVE s[i] \in ToSet(w)
      <4>1. i \in 1..Len(w) /\ w[i] = s[i]
        BY <1>1, <2>1, <2>2
      <4> QED
        BY <2>3, <4>1
    <3> QED
      BY <1>1, <3>1, <3>2
  <2> QED
    BY <2>1, <2>4, <2>5 DEF w
<1> QED
  BY <1>1, <1>2, <1>3, <1>4

\* The elements of two lists put together.
LEMMA ConcatElements ==
  ASSUME NEW S, NEW u \in Seq(S), NEW v \in Seq(S)
  PROVE  /\ u \o v \in Seq(S) /\ Len(u \o v) = Len(u) + Len(v)
         /\ \A i \in 1..Len(u) : (u \o v)[i] = u[i]
         /\ \A i \in (Len(u)+1)..(Len(u)+Len(v)) : (u \o v)[i] = v[i - Len(u)]
  OBVIOUS

\* Forgetting an id shortens the memory by it, if it is there.
LEMMA ForgetKeeps ==
  ASSUME NEW S, seen \in Seq(S), NEW id
  PROVE  /\ Forget(id) \in Seq(S)
         /\ Len(Forget(id)) <= Len(seen)
         /\ ToSet(Forget(id)) \subseteq ToSet(seen)
         /\ ToSet(seen) \subseteq ToSet(Forget(id)) \cup {id}
         /\ IsInjective(seen) => IsInjective(Forget(id))
<1>1. CASE id \notin ToSet(seen)
  BY <1>1 DEF Forget
<1>2. CASE id \in ToSet(seen)
  <2> DEFINE k == CHOOSE i \in DOMAIN seen : seen[i] = id
             w == RemoveAt(seen, k)
             n == Len(seen)
  <2>1. k \in 1..n /\ seen[k] = id /\ n \in Nat
    BY <1>2 DEF ToSet
  <2> HIDE DEF k
  <2>2. /\ SubSeq(seen, 1, k-1) \in Seq(S) /\ Len(SubSeq(seen, 1, k-1)) = k - 1
        /\ \A i \in 1..(k-1) : SubSeq(seen, 1, k-1)[i] = seen[i]
    BY <2>1
  <2>3. /\ SubSeq(seen, k+1, n) \in Seq(S) /\ Len(SubSeq(seen, k+1, n)) = n - k
        /\ \A i \in 1..(n-k) : SubSeq(seen, k+1, n)[i] = seen[k + i]
    BY <2>1
  <2>4. /\ w \in Seq(S) /\ Len(w) = n - 1
        /\ \A i \in 1..(k-1) : w[i] = seen[i]
        /\ \A i \in k..(n-1) : w[i] = seen[i+1]
    <3> DEFINE u == SubSeq(seen, 1, k-1)
               v == SubSeq(seen, k+1, n)
    <3>1. w = u \o v
      BY DEF RemoveAt
    <3> HIDE DEF u, v, w
    <3>2. /\ u \in Seq(S) /\ Len(u) = k - 1 /\ v \in Seq(S) /\ Len(v) = n - k
          /\ \A i \in 1..(k-1) : u[i] = seen[i]
          /\ \A i \in 1..(n-k) : v[i] = seen[k + i]
      BY <2>2, <2>3 DEF u, v
    <3>3. /\ w \in Seq(S) /\ Len(w) = Len(u) + Len(v)
          /\ \A i \in 1..Len(u) : w[i] = u[i]
          /\ \A i \in (Len(u)+1)..(Len(u)+Len(v)) : w[i] = v[i - Len(u)]
      <4>1. u \in Seq(S) /\ v \in Seq(S)
        BY <3>2
      <4> QED
        BY <3>1, <4>1, ConcatElements
    <3>4. ASSUME NEW i \in k..(n-1) PROVE w[i] = seen[i+1]
      <4>1. i \in (Len(u)+1)..(Len(u)+Len(v)) /\ i - Len(u) \in 1..(n-k)
            /\ k + (i - Len(u)) = i + 1
        BY <2>1, <3>2
      <4> QED
        BY <3>2, <3>3, <4>1
    <3> QED
      BY <2>1, <3>2, <3>3, <3>4
  <2> HIDE DEF w
  <2>5. ToSet(w) = {w[i] : i \in 1..(n-1)} /\ ToSet(seen) = {seen[i] : i \in 1..n}
    BY <2>4 DEF ToSet
  <2>6. ToSet(w) \subseteq ToSet(seen)
    <3> SUFFICES ASSUME NEW i \in 1..(n-1) PROVE w[i] \in ToSet(seen)
      BY <2>5
    <3>1. i \in 1..(k-1) \/ i \in k..(n-1)
      BY <2>1
    <3>2. i \in 1..n /\ i+1 \in 1..n
      BY <2>1
    <3> QED
      BY <2>4, <2>5, <3>1, <3>2
  <2>7. ToSet(seen) \subseteq ToSet(w) \cup {id}
    <3> SUFFICES ASSUME NEW i \in 1..n, seen[i] # id PROVE seen[i] \in ToSet(w)
      BY <2>5
    <3>1. i # k
      BY <2>1
    <3>2. CASE i < k
      <4>1. i \in 1..(k-1) /\ i \in 1..(n-1)
        BY <2>1, <3>2
      <4> QED
        BY <2>4, <2>5, <4>1
    <3>3. CASE i > k
      <4>1. i - 1 \in k..(n-1) /\ i - 1 \in 1..(n-1) /\ (i - 1) + 1 = i
        BY <2>1, <3>3
      <4>2. w[i - 1] = seen[i]
        BY <2>4, <4>1
      <4> QED
        BY <2>5, <4>1, <4>2
    <3> QED
      BY <2>1, <3>1, <3>2, <3>3
  <2>8. Forget(id) = w
    BY <1>2 DEF Forget, w, k
  <2>9. ASSUME IsInjective(seen) PROVE IsInjective(w)
    <3>1. \A i \in 1..n, j \in 1..n : seen[i] = seen[j] => i = j
      BY <2>9 DEF IsInjective
    <3>2. ASSUME NEW i \in 1..(n-1)
          PROVE  \/ (i < k /\ w[i] = seen[i] /\ i \in 1..n)
                 \/ (i >= k /\ w[i] = seen[i+1] /\ i+1 \in 1..n)
      <4>1. CASE i < k
        <5>1. i \in 1..(k-1) /\ i \in 1..n
          BY <2>1, <4>1
        <5>2. w[i] = seen[i]
          BY <2>4, <5>1
        <5> QED
          BY <4>1, <5>1, <5>2
      <4>2. CASE i >= k
        <5>1. i \in k..(n-1) /\ i+1 \in 1..n
          BY <2>1, <4>2
        <5>2. w[i] = seen[i+1]
          BY <2>4, <5>1
        <5> QED
          BY <4>2, <5>1, <5>2
      <4> QED
        BY <2>1, <4>1, <4>2
    <3>3. ASSUME NEW i \in 1..(n-1), NEW j \in 1..(n-1), w[i] = w[j] PROVE i = j
      BY <2>1, <3>1, <3>2, <3>3
    <3>4. DOMAIN w = 1..(n-1)
      BY <2>4
    <3> QED
      BY <3>3, <3>4 DEF IsInjective
  <2> QED
    BY <2>1, <2>4, <2>6, <2>7, <2>8, <2>9
<1> QED
  BY <1>1, <1>2

-----------------------------------------------------------------------------
(* Types, process by process *)

Request == [action : Action, try : 1..MaxTries]
Wait == [request : Request, sent : Nat, answer : {"none", "queued", "full"}]

EngineTyped ==
  /\ config \in Configs
  /\ now \in Nat /\ opened \in Nat
  /\ tick \in Ticks
  /\ phase \in {"opening", "open", "sealed", "decided", "done"}
  /\ drained \subseteq Ticks
  /\ applied \subseteq Action /\ rejected \subseteq Action
  /\ misses \in [Agents -> Nat]
  /\ naturalised \subseteq Agents
  /\ faults \in 0..MaxFaults

ShortLists == {list \in Seq(Action) : Len(list) <= QueueCap}

RedisTyped ==
  /\ mirror \in [tick : 0..LastTick, sealed : BOOLEAN, sealAt : Nat]
  /\ mirror.tick = 0 => mirror.sealed
  /\ queue \in [Ticks -> ShortLists]
  /\ processing \in [Ticks -> ShortLists]
  /\ delivered \in [Ticks -> ShortLists]

VerifierTyped ==
  /\ nonces \in [Agents -> -1..MaxNonce]
  /\ seen \in Seq(Ids) /\ Len(seen) <= SeenCap
  /\ reservations \subseteq [action : Action, previous : -1..MaxNonce]
  /\ slots \in [Agents -> 0..Slots]
  /\ slotTick \in -1..LastTick

RequestTyped ==
  /\ accepted \subseteq Action
  /\ wire \subseteq Request
  /\ waiting \subseteq Wait
  /\ late \subseteq Ids
  /\ tries \in [Ids -> 0..MaxTries]

LEMMA TypedParts ==
  Typed <=> EngineTyped /\ RedisTyped /\ VerifierTyped /\ RequestTyped
<1>1. ASSUME Typed PROVE EngineTyped /\ RedisTyped /\ VerifierTyped /\ RequestTyped
  <2>1. \A t \in Ticks : /\ queue[t] \in ShortLists /\ processing[t] \in ShortLists
                         /\ delivered[t] \in ShortLists
    BY <1>1 DEF Typed, TypeOK, ShortLists
  <2>2. RedisTyped
    BY <1>1, <2>1 DEF Typed, TypeOK, RedisTyped
  <2>3. EngineTyped
    BY <1>1 DEF Typed, TypeOK, EngineTyped
  <2>4. VerifierTyped
    BY <1>1 DEF Typed, TypeOK, VerifierTyped
  <2>5. RequestTyped
    BY <1>1 DEF Typed, TypeOK, RequestTyped, Request, Wait
  <2> QED
    BY <2>2, <2>3, <2>4, <2>5
<1>2. ASSUME EngineTyped, RedisTyped, VerifierTyped, RequestTyped PROVE Typed
  <2>1. /\ queue \in [Ticks -> Seq(Action)] /\ processing \in [Ticks -> Seq(Action)]
        /\ delivered \in [Ticks -> Seq(Action)]
    BY <1>2 DEF RedisTyped, ShortLists
  <2>2. ASSUME NEW t \in Ticks, NEW list \in {queue[t], processing[t], delivered[t]}
        PROVE  Len(list) <= QueueCap /\ ToSet(list) \subseteq Action
    <3>1. list \in ShortLists
      BY <1>2, <2>2 DEF RedisTyped
    <3> QED
      BY <3>1, ListElements DEF ShortLists
  <2>3. ToSet(seen) \subseteq Ids
    BY <1>2, ListElements DEF VerifierTyped
  <2>4. TypeOK
    BY <1>2, <2>2, <2>3
       DEF TypeOK, EngineTyped, RedisTyped, VerifierTyped, RequestTyped, Request, Wait
  <2> QED
    BY <1>2, <2>1, <2>4 DEF Typed, RedisTyped, VerifierTyped
<1> QED
  BY <1>1, <1>2

LEMMA InitTyped == Init => Typed
<1> SUFFICES ASSUME Init PROVE Typed
  OBVIOUS
<1>0. config \in Configs
  BY DEF Init
<1>1. EngineTyped
  BY <1>0, Settings DEF Init, EngineTyped, Ticks
<1>2. RedisTyped
  <2>1. <<>> \in ShortLists
    BY <1>0, Settings DEF ShortLists
  <2> QED
    BY <1>0, <2>1, Settings DEF Init, RedisTyped
<1>3. VerifierTyped
  BY <1>0, Settings DEF Init, VerifierTyped
<1>4. RequestTyped
  BY <1>0, Settings DEF Init, RequestTyped
<1> QED
  BY <1>1, <1>2, <1>3, <1>4, TypedParts

\* Who is taken or refused is among the records.
LEMMA TakenFacts ==
  ASSUME NEW records
  PROVE  Taken(records) \subseteq records /\ Taken(records) \cup Refused(records) = records
  BY DEF Taken, Refused

\* A step of the engine keeps its own state typed.
LEMMA EngineTypedKept ==
  ASSUME Typed, Next
  PROVE  EngineTyped'
<1>0. EngineTyped /\ RedisTyped
  BY TypedParts
<1>1. config' = config /\ Agents' = Agents /\ Action' = Action /\ MaxFaults' = MaxFaults
  BY ConfigKept, SameConfig
<1>2. /\ LastTick \in Nat /\ MaxFaults \in Nat /\ Ticks = 1..LastTick
      /\ config \in Configs
  BY <1>0, Settings DEF EngineTyped, Ticks
<1>3. \A records \in SUBSET Action : Decide(records) =>
        /\ applied' \subseteq Action /\ rejected' \subseteq Action
        /\ misses' \in [Agents -> Nat] /\ naturalised' \subseteq Agents
        /\ phase' = "decided"
  <2> SUFFICES ASSUME NEW records \in SUBSET Action, Decide(records)
               PROVE  /\ applied' \subseteq Action /\ rejected' \subseteq Action
                      /\ misses' \in [Agents -> Nat] /\ naturalised' \subseteq Agents
                      /\ phase' = "decided"
    OBVIOUS
  <2>1. applied' \subseteq Action /\ rejected' \subseteq Action /\ phase' = "decided"
    BY <1>0, TakenFacts DEF Decide, EngineTyped
  <2> DEFINE acting == {r.agent : r \in Taken(records)}
             missing == Controlled \ acting
  <2>2. FallBack(acting, missing) /\ missing \subseteq Agents
    BY DEF Decide, Controlled
  <2> HIDE DEF acting, missing
  <2>3. misses' \in [Agents -> Nat]
    BY <1>0, <2>2 DEF FallBack, EngineTyped
  <2>4. naturalised' \subseteq Agents
    BY <1>0, <2>2 DEF FallBack, EngineTyped
  <2> QED
    BY <2>1, <2>3, <2>4
<1>4. CASE Drain
  <2>1. processing'[tick] \in ShortLists
    BY <1>0, <1>4 DEF Drain, Claim, RedisTyped, EngineTyped
  <2>2. ToSet(processing'[tick]) \in SUBSET Action
    BY <2>1, ListElements DEF ShortLists
  <2>3. /\ applied' \subseteq Action /\ rejected' \subseteq Action
        /\ misses' \in [Agents -> Nat] /\ naturalised' \subseteq Agents
        /\ phase' = "decided"
    BY <1>3, <1>4, <2>2 DEF Drain
  <2> QED
    BY <1>0, <1>1, <1>4, <2>3 DEF Drain, EngineTyped, verifierVars, requestVars
<1>5. CASE DrainFails
  <2>1. Decide({}) /\ {} \in SUBSET Action
    BY <1>5 DEF DrainFails
  <2>2. /\ applied' \subseteq Action /\ rejected' \subseteq Action
        /\ misses' \in [Agents -> Nat] /\ naturalised' \subseteq Agents
        /\ phase' = "decided"
    BY <1>3, <2>1
  <2> QED
    BY <1>0, <1>1, <1>2, <1>5, <2>2 DEF DrainFails, EngineTyped
<1>6. CASE OpenTick \/ OpenTickFails \/ Seal \/ PeekFails \/ SkipDrain \/ NextTick \/ EndRun
  <2>1. UNCHANGED <<now, drained, applied, rejected, misses, naturalised>>
    BY <1>6 DEF OpenTick, OpenTickFails, Seal, PeekFails, SkipDrain, NextTick, EndRun
  <2>2. opened' \in Nat /\ phase' \in {"opening", "open", "sealed", "decided", "done"}
    BY <1>0, <1>6 DEF OpenTick, OpenTickFails, Seal, PeekFails, SkipDrain, NextTick,
       EndRun, EngineTyped
  <2>3. tick' \in Ticks
    BY <1>0, <1>2, <1>6 DEF OpenTick, OpenTickFails, Seal, PeekFails, SkipDrain, NextTick,
       EndRun, EngineTyped
  <2>4. faults' \in 0..MaxFaults
    <3>1. faults' = faults \/ (faults' = faults + 1 /\ faults < MaxFaults)
      BY <1>6 DEF OpenTick, OpenTickFails, Seal, PeekFails, SkipDrain, NextTick, EndRun
    <3> QED
      BY <1>0, <1>2, <3>1 DEF EngineTyped
  <2> QED
    BY <1>0, <1>1, <2>1, <2>2, <2>3, <2>4 DEF EngineTyped
<1>7. CASE PassTime
  BY <1>0, <1>1, <1>7 DEF PassTime, EngineTyped, engineVars
<1>8. CASE UNCHANGED <<now, engineVars>> /\ faults' \in {faults, faults + 1}
           /\ (faults' # faults => faults < MaxFaults)
  BY <1>0, <1>1, <1>2, <1>8 DEF EngineTyped, engineVars
<1>9. ASSUME \/ \E a \in Agents, id \in Ids, nonce \in 0..MaxNonce : Submit(a, id, nonce)
             \/ \E id \in Ids : SubmitLate(id)
             \/ \E request \in wire : Push(request) \/ LosePush(request)
             \/ \E w \in waiting : Accept(w) \/ RefuseFull(w) \/ TimeOut(w)
             \/ RestartGateway
      PROVE  UNCHANGED <<now, engineVars>> /\ faults' \in {faults, faults + 1}
             /\ (faults' # faults => faults < MaxFaults)
  BY <1>9 DEF Submit, SubmitLate, Push, LosePush, Accept, RefuseFull, TimeOut, RestartGateway
<1> QED
  BY <1>4, <1>5, <1>6, <1>7, <1>8, <1>9 DEF Next, EngineStep

\* Acknowledging and claiming leave short lists.
LEMMA AckTyped ==
  ASSUME RedisTyped, NEW t \in Int, Ack(t), QueueCap \in Nat
  PROVE  processing' \in [Ticks -> ShortLists] /\ delivered' \in [Ticks -> ShortLists]
<1>1. <<>> \in ShortLists
  BY DEF ShortLists
<1> QED
  BY <1>1 DEF Ack, RedisTyped

LEMMA ClaimTyped ==
  ASSUME RedisTyped, NEW t \in Ticks, QueueCap \in Nat,
         Claim(t) \/ UNCHANGED <<processing, queue>>
  PROVE  processing' \in [Ticks -> ShortLists] /\ queue' \in [Ticks -> ShortLists]
<1>1. <<>> \in ShortLists
  BY DEF ShortLists
<1> QED
  BY <1>1 DEF Claim, RedisTyped

LEMMA RedisTypedKept ==
  ASSUME Typed, Next
  PROVE  RedisTyped'
<1>0. EngineTyped /\ RedisTyped /\ RequestTyped
  BY TypedParts
<1>1. /\ config' = config /\ Agents' = Agents /\ Action' = Action /\ QueueCap' = QueueCap
      /\ ShortLists' = ShortLists
  BY ConfigKept, SameConfig DEF ShortLists
<1>2. /\ LastTick \in Nat /\ Ticks = 1..LastTick /\ config \in Configs
      /\ QueueCap \in Nat /\ Deadline \in Nat /\ SealMargin \in Nat /\ SealMargin < Deadline
      /\ tick \in Ticks /\ tick \in Int /\ tick - 1 \in Int /\ now \in Nat /\ opened \in Nat
  BY <1>0, Settings DEF EngineTyped, Ticks
<1>3. /\ now + Deadline - SealMargin \in Nat
      /\ opened + Deadline - SealMargin \in Nat
  BY <1>2
<1>3a. tick # 0 /\ tick \in 0..LastTick
  BY <1>2
<1>4. CASE OpenTick \/ OpenTickFails
  <2>1. /\ mirror' \in {mirror, [tick |-> tick, sealed |-> FALSE,
                                 sealAt |-> now + Deadline - SealMargin]}
        /\ queue' = queue
        /\ Ack(tick - 1) \/ UNCHANGED <<processing, delivered>>
    BY <1>4 DEF OpenTick, OpenTickFails
  <2>2. processing' \in [Ticks -> ShortLists] /\ delivered' \in [Ticks -> ShortLists]
    <3>1. CASE Ack(tick - 1)
      BY <1>0, <1>2, <3>1, AckTyped
    <3>2. CASE UNCHANGED <<processing, delivered>>
      BY <1>0, <3>2 DEF RedisTyped
    <3> QED
      BY <2>1, <3>1, <3>2
  <2>3. /\ mirror' \in [tick : 0..LastTick, sealed : BOOLEAN, sealAt : Nat]
        /\ mirror'.tick = 0 => mirror'.sealed
    <3>1. CASE mirror' = mirror
      BY <1>0, <3>1 DEF RedisTyped
    <3>2. CASE mirror' = [tick |-> tick, sealed |-> FALSE,
                          sealAt |-> now + Deadline - SealMargin]
      BY <1>3, <1>3a, <3>2
    <3> QED
      BY <2>1, <3>1, <3>2
  <2> QED
    BY <1>0, <1>1, <2>1, <2>2, <2>3 DEF RedisTyped
<1>5. CASE Seal \/ PeekFails
  <2>1. /\ mirror' = [tick |-> tick, sealed |-> TRUE, sealAt |-> opened + Deadline - SealMargin]
        /\ UNCHANGED <<queue, processing, delivered>>
    BY <1>5 DEF Seal, PeekFails
  <2>2. mirror' \in [tick : 0..LastTick, sealed : BOOLEAN, sealAt : Nat] /\ mirror'.sealed
    BY <1>3, <1>3a, <2>1
  <2> QED
    BY <1>0, <1>1, <2>1, <2>2 DEF RedisTyped
<1>6. CASE Drain
  <2>1. processing' \in [Ticks -> ShortLists] /\ queue' \in [Ticks -> ShortLists]
    BY <1>0, <1>2, <1>6, ClaimTyped DEF Drain
  <2>2. <<>> \in ShortLists
    BY <1>2 DEF ShortLists
  <2>3. delivered' \in [Ticks -> ShortLists]
    BY <1>0, <1>6, <2>1, <2>2 DEF Drain, RedisTyped
  <2> QED
    BY <1>0, <1>1, <1>6, <2>1, <2>3 DEF Drain, RedisTyped
<1>7. CASE DrainFails
  <2>1. processing' \in [Ticks -> ShortLists] /\ queue' \in [Ticks -> ShortLists]
    BY <1>0, <1>2, <1>7, ClaimTyped DEF DrainFails
  <2>2. mirror' \in {mirror, [mirror EXCEPT !.sealed = TRUE]} /\ delivered' = delivered
    BY <1>7 DEF DrainFails
  <2>3. /\ mirror' \in [tick : 0..LastTick, sealed : BOOLEAN, sealAt : Nat]
        /\ mirror'.tick = 0 => mirror'.sealed
    BY <1>0, <2>2 DEF RedisTyped
  <2> QED
    BY <1>0, <1>1, <2>1, <2>2, <2>3 DEF RedisTyped
<1>8. CASE EndRun
  <2>1. processing' \in [Ticks -> ShortLists] /\ delivered' \in [Ticks -> ShortLists]
    BY <1>0, <1>2, <1>8, AckTyped DEF EndRun
  <2> QED
    BY <1>0, <1>1, <1>8, <2>1 DEF EndRun, RedisTyped
<1>9. CASE \E request \in wire : Push(request)
  <2>1. PICK request \in wire : Push(request)
    BY <1>9
  <2> DEFINE t == request.action.tick
             s == queue[t]
  <2>2. request.action \in Action /\ t \in Ticks
    BY <1>0 DEF RequestTyped, Request, Action
  <2>3. s \in Seq(Action) /\ Len(s) <= QueueCap /\ queue \in [Ticks -> ShortLists]
    BY <1>0, <2>2 DEF RedisTyped, ShortLists
  <2>4. CASE Len(s) >= QueueCap
    BY <1>0, <1>1, <2>1, <2>4 DEF Push, RedisTyped
  <2>5. CASE ~(Len(s) >= QueueCap)
    <3>1. Append(s, request.action) \in ShortLists
      <4>1. Append(s, request.action) \in Seq(Action)
            /\ Len(Append(s, request.action)) = Len(s) + 1 /\ Len(s) \in Nat
        BY <2>2, <2>3
      <4> QED
        BY <1>2, <2>5, <4>1 DEF ShortLists
    <3>2. queue' = [queue EXCEPT ![t] = Append(s, request.action)]
          /\ UNCHANGED <<mirror, processing, delivered>>
      BY <2>1, <2>5 DEF Push
    <3>3. queue' \in [Ticks -> ShortLists]
      BY <2>2, <2>3, <3>1, <3>2
    <3> QED
      BY <1>0, <1>1, <3>2, <3>3 DEF RedisTyped
  <2> QED
    BY <2>4, <2>5
<1>10. CASE UNCHANGED <<mirror, queue, processing, delivered>>
  BY <1>0, <1>1, <1>10 DEF RedisTyped
<1>11. ASSUME \/ \E a \in Agents, id \in Ids, nonce \in 0..MaxNonce : Submit(a, id, nonce)
              \/ \E id \in Ids : SubmitLate(id)
              \/ \E request \in wire : LosePush(request)
              \/ \E w \in waiting : Accept(w) \/ RefuseFull(w) \/ TimeOut(w)
              \/ RestartGateway \/ SkipDrain \/ NextTick \/ PassTime
       PROVE  UNCHANGED <<mirror, queue, processing, delivered>>
  BY <1>11 DEF Submit, SubmitLate, LosePush, Accept, RefuseFull, TimeOut, RestartGateway,
     SkipDrain, NextTick, PassTime, redisVars
<1> QED
  BY <1>4, <1>5, <1>6, <1>7, <1>8, <1>9, <1>10, <1>11 DEF Next, EngineStep

\* A submission that passes carries an action of a tick of the run.
LEMMA SubmitFacts ==
  ASSUME Typed, NEW a \in Agents, NEW id \in Ids, NEW nonce \in 0..MaxNonce,
         Submit(a, id, nonce)
  PROVE  /\ mirror.tick \in Ticks /\ ~mirror.sealed /\ now < mirror.sealAt
         /\ [agent |-> a, id |-> id, nonce |-> nonce, tick |-> mirror.tick] \in Action
         /\ tries[id] + 1 \in 1..MaxTries
<1>0. EngineTyped /\ RedisTyped /\ RequestTyped
  BY TypedParts
<1>1. LastTick \in Nat /\ MaxTries \in Nat
  BY <1>0, Settings DEF EngineTyped
<1>2. ~mirror.sealed /\ ~(now >= mirror.sealAt) /\ tries[id] < MaxTries
  BY DEF Submit, Sealed
<1>3. mirror.tick \in 0..LastTick /\ mirror.sealAt \in Nat /\ now \in Nat /\ mirror.tick # 0
  BY <1>0, <1>2 DEF RedisTyped, EngineTyped
<1>4. mirror.tick \in Ticks
  BY <1>1, <1>3 DEF Ticks
<1>5. tries[id] + 1 \in 1..MaxTries
  BY <1>0, <1>1, <1>2 DEF RequestTyped
<1> QED
  BY <1>2, <1>3, <1>4, <1>5 DEF Action

LEMMA RequestTypedKept ==
  ASSUME Typed, Next
  PROVE  RequestTyped'
<1>0. EngineTyped /\ RedisTyped /\ RequestTyped
  BY TypedParts
<1>1. /\ config' = config /\ Ids' = Ids /\ Action' = Action /\ Request' = Request
      /\ Wait' = Wait
  BY ConfigKept, SameConfig DEF Request, Wait
<1>2. MaxTries \in Nat /\ now \in Nat
  BY <1>0, Settings DEF EngineTyped
<1>3. CASE \E a \in Agents, id \in Ids, nonce \in 0..MaxNonce : Submit(a, id, nonce)
  <2>1. PICK a \in Agents, id \in Ids, nonce \in 0..MaxNonce : Submit(a, id, nonce)
    BY <1>3
  <2> DEFINE action == [agent |-> a, id |-> id, nonce |-> nonce, tick |-> mirror.tick]
             request == [action |-> action, try |-> tries[id] + 1]
             w == [request |-> request, sent |-> now, answer |-> "none"]
  <2>2. request \in Request
    BY <2>1, SubmitFacts DEF Request
  <2>3. w \in Wait
    BY <1>2, <2>2 DEF Wait
  <2>4. /\ wire' = wire \cup {request} /\ waiting' = waiting \cup {w}
        /\ tries' = [tries EXCEPT ![id] = tries[id] + 1]
        /\ UNCHANGED <<accepted, late>>
    BY <2>1 DEF Submit
  <2>5. tries' \in [Ids -> 0..MaxTries]
    <3>1. tries[id] + 1 \in 1..MaxTries
      BY <2>1, SubmitFacts
    <3>2. tries[id] + 1 \in 0..MaxTries
      BY <1>2, <3>1
    <3> QED
      BY <1>0, <2>4, <3>2 DEF RequestTyped
  <2> HIDE DEF request, w
  <2> QED
    BY <1>0, <1>1, <2>2, <2>3, <2>4, <2>5 DEF RequestTyped
<1>4. CASE \E id \in Ids : SubmitLate(id)
  <2>1. PICK id \in Ids : SubmitLate(id)
    BY <1>4
  <2>2. tries[id] \in 0..MaxTries /\ tries[id] < MaxTries
    BY <1>0, <2>1 DEF RequestTyped, SubmitLate
  <2>3. tries[id] + 1 \in 0..MaxTries
    BY <1>2, <2>2
  <2> QED
    BY <1>0, <1>1, <2>1, <2>3 DEF RequestTyped, SubmitLate
<1>5. CASE \E request \in wire : Push(request)
  <2>1. PICK request \in wire : Push(request)
    BY <1>5
  <2>2. waiting' \subseteq Wait
    <3> DEFINE full == Len(queue[request.action.tick]) >= QueueCap
    <3>1. \A w \in waiting : [w EXCEPT !.answer = IF full THEN "full" ELSE "queued"] \in Wait
      BY <1>0 DEF RequestTyped, Wait
    <3>2. waiting' = {IF w.request = request
                      THEN [w EXCEPT !.answer = IF full THEN "full" ELSE "queued"] ELSE w
                      : w \in waiting}
      BY <2>1 DEF Push
    <3> HIDE DEF full
    <3> SUFFICES ASSUME NEW v \in waiting' PROVE v \in Wait
      OBVIOUS
    <3>3. PICK w \in waiting :
            v = IF w.request = request
                THEN [w EXCEPT !.answer = IF full THEN "full" ELSE "queued"] ELSE w
      BY <3>2
    <3> QED
      BY <1>0, <3>1, <3>3 DEF RequestTyped
  <2> QED
    BY <1>0, <1>1, <2>1, <2>2 DEF RequestTyped, Push
<1>6. CASE \E w \in waiting : Accept(w)
  <2>1. PICK w \in waiting : Accept(w)
    BY <1>6
  <2>2. w.request.action \in Action
    BY <1>0 DEF RequestTyped, Wait, Request
  <2> QED
    BY <1>0, <1>1, <2>1, <2>2 DEF RequestTyped, Accept
<1>7. CASE /\ wire' \subseteq wire /\ waiting' \subseteq waiting
           /\ UNCHANGED <<accepted, late, tries>>
  BY <1>0, <1>1, <1>7 DEF RequestTyped
<1>8. ASSUME \/ \E request \in wire : LosePush(request)
             \/ \E w \in waiting : RefuseFull(w) \/ TimeOut(w)
             \/ RestartGateway \/ EngineStep \/ OpenTickFails \/ PeekFails \/ DrainFails
             \/ PassTime
      PROVE  /\ wire' \subseteq wire /\ waiting' \subseteq waiting
             /\ UNCHANGED <<accepted, late, tries>>
  <2>1. CASE \/ \E request \in wire : LosePush(request)
             \/ \E w \in waiting : RefuseFull(w) \/ TimeOut(w)
             \/ RestartGateway
    BY <2>1 DEF LosePush, RefuseFull, TimeOut, RestartGateway
  <2>2. CASE EngineStep \/ OpenTickFails \/ PeekFails \/ DrainFails \/ PassTime
    BY <2>2 DEF EngineStep, OpenTickFails, PeekFails, DrainFails, PassTime, OpenTick, Seal,
       Drain, SkipDrain, NextTick, EndRun, requestVars
  <2> QED
    BY <1>8, <2>1, <2>2
<1> QED
  BY <1>3, <1>4, <1>5, <1>6, <1>7, <1>8 DEF Next

\* Remembering an id: the memory stays within its capacity, and forgets only
\* when it is full.
LEMMA RememberKeeps ==
  ASSUME NEW S, seen \in Seq(S), NEW id \in S, SeenCap \in Nat, SeenCap > 0,
         Len(seen) <= SeenCap
  PROVE  /\ Remember(id) \in Seq(S) /\ Len(Remember(id)) <= SeenCap
         /\ Len(seen) < SeenCap => Remember(id) = Append(seen, id)
<1> DEFINE items == Append(seen, id)
<1>1. items \in Seq(S) /\ Len(items) = Len(seen) + 1 /\ Len(seen) \in Nat
  OBVIOUS
<1>2. CASE Len(items) > SeenCap
  <2>1. items # <<>> /\ Len(items) <= SeenCap + 1
    BY <1>1
  <2> HIDE DEF items
  <2>2. Tail(items) \in Seq(S) /\ Len(Tail(items)) = Len(items) - 1
    BY <1>1, <2>1
  <2> QED
    BY <1>1, <1>2, <2>1, <2>2 DEF Remember, items
<1>3. CASE ~(Len(items) > SeenCap)
  BY <1>1, <1>3 DEF Remember
<1> QED
  BY <1>2, <1>3

\* What a rollback gives back: nothing, or what one reservation with the id took.
LEMMA RollbackFacts ==
  ASSUME NEW action, Rollback(action)
  PROVE  \/ /\ \A r \in reservations : r.action.id # action.id
            /\ UNCHANGED <<nonces, seen, reservations, slots, slotTick>>
         \/ \E r \in reservations :
              /\ r.action.id = action.id
              /\ nonces' = RollbackNonce(r.action.agent, r.action.nonce, r.previous)
              /\ seen' = Forget(action.id)
              /\ reservations' = {s \in reservations : s.action.id # action.id}
              /\ slots' = IF slotTick = r.action.tick /\ slots[r.action.agent] > 0
                          THEN [slots EXCEPT ![r.action.agent] = @ - 1] ELSE slots
              /\ slotTick' = slotTick
<1> DEFINE held == {r \in reservations : r.action.id = action.id}
<1>1. CASE held = {}
  BY <1>1 DEF Rollback, verifierVars
<1>2. CASE held # {}
  <2> DEFINE r == CHOOSE r \in held : TRUE
  <2>1. r \in held
    BY <1>2
  <2>2. /\ nonces' = RollbackNonce(r.action.agent, r.action.nonce, r.previous)
        /\ seen' = Forget(action.id)
        /\ reservations' = reservations \ held
        /\ slots' = IF slotTick = r.action.tick /\ slots[r.action.agent] > 0
                    THEN [slots EXCEPT ![r.action.agent] = @ - 1] ELSE slots
        /\ slotTick' = slotTick
    BY <1>2 DEF Rollback
  <2>3. reservations \ held = {s \in reservations : s.action.id # action.id}
    OBVIOUS
  <2> HIDE DEF r
  <2> QED
    BY <2>1, <2>2, <2>3
<1> QED
  BY <1>1, <1>2

LEMMA VerifierTypedKept ==
  ASSUME Typed, Next
  PROVE  VerifierTyped'
<1>0. EngineTyped /\ RedisTyped /\ VerifierTyped /\ RequestTyped
  BY TypedParts
<1>1. /\ config' = config /\ Agents' = Agents /\ Ids' = Ids /\ Action' = Action
      /\ MaxNonce' = MaxNonce /\ SeenCap' = SeenCap
  BY ConfigKept, SameConfig
<1>2. /\ MaxNonce \in Nat /\ SeenCap \in Nat /\ SeenCap > 0 /\ Slots \in Nat
      /\ LastTick \in Nat
  BY <1>0, Settings DEF EngineTyped
<1>3. CASE \E a \in Agents, id \in Ids, nonce \in 0..MaxNonce : Submit(a, id, nonce)
  <2>1. PICK a \in Agents, id \in Ids, nonce \in 0..MaxNonce : Submit(a, id, nonce)
    BY <1>3
  <2> DEFINE t == mirror.tick
             action == [agent |-> a, id |-> id, nonce |-> nonce, tick |-> t]
  <2>2. action \in Action /\ t \in Ticks /\ action.agent = a /\ action.id = id
        /\ action.nonce = nonce
    BY <2>1, SubmitFacts
  <2>3. /\ SlotsTaken(t)[a] < Slots
        /\ slots' = [SlotsTaken(t) EXCEPT ![a] = SlotsTaken(t)[a] + 1]
        /\ slotTick' = t
        /\ nonces' = [nonces EXCEPT ![a] = nonce]
        /\ seen' = Remember(id)
        /\ reservations' = {r \in reservations : r.action.tick >= t /\ r.action.id # id}
                             \cup {[action |-> action, previous |-> nonces[a]]}
    BY <2>1 DEF Submit, Reserve
  <2> HIDE DEF action
  <2>4. SlotsTaken(t) \in [Agents -> 0..Slots]
    BY <1>0, <1>2 DEF SlotsTaken, VerifierTyped
  <2>5. slots' \in [Agents -> 0..Slots]
    <3>1. SlotsTaken(t)[a] + 1 \in 0..Slots
      BY <1>2, <2>3, <2>4
    <3> QED
      BY <2>3, <2>4, <3>1
  <2>6. nonces' \in [Agents -> -1..MaxNonce] /\ nonces[a] \in -1..MaxNonce
    BY <1>0, <1>2, <2>3 DEF VerifierTyped
  <2>7. seen' \in Seq(Ids) /\ Len(seen') <= SeenCap
    BY <1>0, <1>2, <2>3, RememberKeeps DEF VerifierTyped
  <2>8. reservations' \subseteq [action : Action, previous : -1..MaxNonce]
    BY <1>0, <2>2, <2>3, <2>6 DEF VerifierTyped
  <2>9. slotTick' \in -1..LastTick
    BY <1>2, <2>2, <2>3 DEF Ticks
  <2> QED
    BY <1>1, <2>5, <2>6, <2>7, <2>8, <2>9 DEF VerifierTyped
<1>4. CASE \E w \in waiting : RefuseFull(w) \/ TimeOut(w)
  <2>1. PICK w \in waiting : Rollback(w.request.action)
    BY <1>4 DEF RefuseFull, TimeOut
  <2>2. CASE UNCHANGED <<nonces, seen, reservations, slots, slotTick>>
    BY <1>0, <1>1, <2>2 DEF VerifierTyped
  <2>3. CASE \E r \in reservations :
              /\ nonces' = RollbackNonce(r.action.agent, r.action.nonce, r.previous)
              /\ seen' = Forget(w.request.action.id)
              /\ reservations' = {s \in reservations : s.action.id # w.request.action.id}
              /\ slots' = IF slotTick = r.action.tick /\ slots[r.action.agent] > 0
                          THEN [slots EXCEPT ![r.action.agent] = @ - 1] ELSE slots
              /\ slotTick' = slotTick
    <3>1. PICK r \in reservations :
              /\ nonces' = RollbackNonce(r.action.agent, r.action.nonce, r.previous)
              /\ seen' = Forget(w.request.action.id)
              /\ reservations' = {s \in reservations : s.action.id # w.request.action.id}
              /\ slots' = IF slotTick = r.action.tick /\ slots[r.action.agent] > 0
                          THEN [slots EXCEPT ![r.action.agent] = @ - 1] ELSE slots
              /\ slotTick' = slotTick
      BY <2>3
    <3>2. r.action.agent \in Agents /\ r.previous \in -1..MaxNonce
      BY <1>0 DEF VerifierTyped, Action
    <3>3. nonces' \in [Agents -> -1..MaxNonce]
      BY <1>0, <3>1, <3>2 DEF VerifierTyped, RollbackNonce
    <3>4. seen' \in Seq(Ids) /\ Len(seen') <= SeenCap
      <4>1. Forget(w.request.action.id) \in Seq(Ids)
            /\ Len(Forget(w.request.action.id)) <= Len(seen)
            /\ Len(Forget(w.request.action.id)) \in Nat /\ Len(seen) \in Nat
            /\ Len(seen) <= SeenCap
        BY <1>0, ForgetKeeps DEF VerifierTyped
      <4> QED
        BY <1>2, <3>1, <4>1
    <3>5. slots' \in [Agents -> 0..Slots]
      <4>1. slots \in [Agents -> 0..Slots]
        BY <1>0 DEF VerifierTyped
      <4>2. slots[r.action.agent] > 0 => slots[r.action.agent] - 1 \in 0..Slots
        BY <1>2, <3>2, <4>1
      <4> QED
        BY <3>1, <3>2, <4>1, <4>2
    <3> QED
      BY <1>0, <1>1, <3>1, <3>3, <3>4, <3>5 DEF VerifierTyped
  <2> QED
    BY <2>1, <2>2, <2>3, RollbackFacts
<1>5. CASE RestartGateway
  <2>1. /\ nonces' = [a \in Agents |-> -1] /\ seen' = <<>> /\ reservations' = {}
        /\ slots' = [a \in Agents |-> 0] /\ slotTick' = -1
    BY <1>5 DEF RestartGateway
  <2>2. -1 \in -1..MaxNonce /\ 0 \in 0..Slots /\ -1 \in -1..LastTick
    BY <1>2
  <2>3. <<>> \in Seq(Ids) /\ Len(<<>>) <= SeenCap
    BY <1>2
  <2> QED
    BY <1>1, <2>1, <2>2, <2>3 DEF VerifierTyped
<1>6. CASE /\ UNCHANGED <<nonces, seen, slots, slotTick>> /\ reservations' \subseteq reservations
  BY <1>0, <1>1, <1>6 DEF VerifierTyped
<1>7. ASSUME \/ \E id \in Ids : SubmitLate(id)
             \/ \E request \in wire : Push(request) \/ LosePush(request)
             \/ \E w \in waiting : Accept(w)
             \/ EngineStep \/ OpenTickFails \/ PeekFails \/ DrainFails \/ PassTime
      PROVE  UNCHANGED <<nonces, seen, slots, slotTick>> /\ reservations' \subseteq reservations
  <2>1. CASE \/ \E id \in Ids : SubmitLate(id)
             \/ \E request \in wire : Push(request) \/ LosePush(request)
             \/ \E w \in waiting : Accept(w)
    BY <2>1 DEF SubmitLate, Push, LosePush, Accept, verifierVars
  <2>2. CASE EngineStep \/ OpenTickFails \/ PeekFails \/ DrainFails \/ PassTime
    BY <2>2 DEF EngineStep, OpenTickFails, PeekFails, DrainFails, PassTime, OpenTick, Seal,
       Drain, SkipDrain, NextTick, EndRun, verifierVars
  <2> QED
    BY <1>7, <2>1, <2>2
<1> QED
  BY <1>3, <1>4, <1>5, <1>6, <1>7 DEF Next

LEMMA TypedKept == Typed /\ [Next]_vars => Typed'
<1> SUFFICES ASSUME Typed, [Next]_vars PROVE Typed'
  OBVIOUS
<1>1. CASE Next
  <2>1. EngineTyped' /\ RedisTyped' /\ VerifierTyped' /\ RequestTyped'
    BY <1>1, EngineTypedKept, RedisTypedKept, VerifierTypedKept, RequestTypedKept
  <2>2. (Typed <=> EngineTyped /\ RedisTyped /\ VerifierTyped /\ RequestTyped)'
    BY TypedParts, PTL
  <2> QED
    BY <2>1, <2>2
<1>2. CASE UNCHANGED vars
  <2>1. /\ UNCHANGED <<config, now, tick, phase, opened, drained, applied, rejected, misses,
                       naturalised, mirror, queue, processing, delivered, nonces, seen,
                       reservations, slots, slotTick, wire, waiting, accepted, late, tries,
                       faults>>
    BY <1>2 DEF vars, engineVars, redisVars, verifierVars, requestVars
  <2>2. /\ Agents' = Agents /\ Ids' = Ids /\ MaxNonce' = MaxNonce /\ QueueCap' = QueueCap
        /\ SeenCap' = SeenCap /\ MaxFaults' = MaxFaults /\ Action' = Action
    BY <2>1, SameConfig
  <2> QED
    BY <2>1, <2>2 DEF Typed, TypeOK
<1> QED
  BY <1>1, <1>2

-----------------------------------------------------------------------------
(* What leaves Redis has been decided on *)

LEMMA DecidedGrows == Next => Decided \subseteq Decided'
<1> SUFFICES ASSUME Next PROVE applied \subseteq applied' /\ rejected \subseteq rejected'
  BY DEF Decided
<1>1. CASE Drain \/ DrainFails
  BY <1>1 DEF Drain, DrainFails, Decide
<1>2. CASE UNCHANGED <<applied, rejected>>
  BY <1>2
<1>3. ASSUME \/ \E a \in Agents, id \in Ids, nonce \in 0..MaxNonce : Submit(a, id, nonce)
             \/ \E id \in Ids : SubmitLate(id)
             \/ \E request \in wire : Push(request) \/ LosePush(request)
             \/ \E w \in waiting : Accept(w) \/ RefuseFull(w) \/ TimeOut(w)
             \/ RestartGateway
      PROVE  UNCHANGED <<applied, rejected>>
  BY <1>3 DEF Submit, SubmitLate, Push, LosePush, Accept, RefuseFull, TimeOut,
     RestartGateway, engineVars
<1>4. ASSUME OpenTick \/ OpenTickFails \/ Seal \/ PeekFails \/ SkipDrain \/ NextTick
             \/ EndRun \/ PassTime
      PROVE  UNCHANGED <<applied, rejected>>
  BY <1>4 DEF OpenTick, OpenTickFails, Seal, PeekFails, SkipDrain, NextTick, EndRun,
     PassTime, engineVars
<1> QED
  BY <1>1, <1>2, <1>3, <1>4 DEF Next, EngineStep

\* What the engine decides on is what it drained.
LEMMA DrainDecides ==
  ASSUME Drain
  PROVE  Decided' = Decided \cup ToSet(processing'[tick])
  BY TakenFacts DEF Drain, Decide, Decided

\* An acknowledgement deletes a batch that was delivered, and keeps the others.
LEMMA AckDeletesDecided ==
  ASSUME Typed, DeliveredIsDecided, NEW n \in Int, Ack(n)
  PROVE  \A t \in Ticks :
           /\ processing'[t] = processing[t]
              \/ (processing'[t] = <<>> /\ ToSet(processing[t]) \subseteq Decided)
           /\ delivered'[t] = delivered[t] \/ delivered'[t] = <<>>
<1> TAKE t \in Ticks
<1>1. CASE n \in Ticks /\ delivered[n] # <<>> /\ processing[n] = delivered[n]
  <2>1. /\ processing' = [processing EXCEPT ![n] = <<>>]
        /\ delivered' = [delivered EXCEPT ![n] = <<>>]
    BY <1>1 DEF Ack
  <2>2. t = n => ToSet(processing[t]) \subseteq Decided
    BY <1>1 DEF DeliveredIsDecided
  <2> QED
    BY <2>1, <2>2 DEF Typed
<1>2. CASE ~(n \in Ticks /\ delivered[n] # <<>> /\ processing[n] = delivered[n])
  BY <1>2 DEF Ack
<1> QED
  BY <1>1, <1>2

\* A claim moves the list of a tick as it is.
LEMMA ClaimMoves ==
  ASSUME Typed, NEW n \in Ticks, Claim(n) \/ UNCHANGED <<processing, queue>>
  PROVE  \A t \in Ticks :
           ToSet(queue'[t]) \cup ToSet(processing'[t])
             = ToSet(queue[t]) \cup ToSet(processing[t])
<1> TAKE t \in Ticks
<1>1. CASE UNCHANGED <<processing, queue>>
  BY <1>1
<1>2. CASE Claim(n) /\ processing[n] = <<>>
  <2>1. /\ processing' = [processing EXCEPT ![n] = queue[n]]
        /\ queue' = [queue EXCEPT ![n] = <<>>]
    BY <1>2 DEF Claim
  <2>2. CASE t = n
    BY <1>2, <2>1, <2>2 DEF Typed
  <2>3. CASE t # n
    BY <2>1, <2>3 DEF Typed
  <2> QED
    BY <2>2, <2>3
<1>3. CASE Claim(n) /\ processing[n] # <<>>
  BY <1>3 DEF Claim
<1> QED
  BY <1>1, <1>2, <1>3

\* A push adds its action to the list of its tick, or changes no list.
LEMMA PushAdds ==
  ASSUME Typed, NEW request \in wire, Push(request)
  PROVE  LET n == request.action.tick IN
         /\ n \in Ticks /\ request.action \in Action
         /\ \/ /\ queue' = queue
               /\ Len(queue[n]) >= QueueCap
            \/ /\ Len(queue[n]) < QueueCap
               /\ queue' = [queue EXCEPT ![n] = Append(queue[n], request.action)]
               /\ ToSet(queue'[n]) = ToSet(queue[n]) \cup {request.action}
               /\ \A t \in Ticks \ {n} : queue'[t] = queue[t]
         /\ UNCHANGED <<processing, delivered>>
<1> DEFINE n == request.action.tick
<1>0. EngineTyped /\ RedisTyped /\ RequestTyped
  BY TypedParts
<1>1. n \in Ticks /\ request.action \in Action
  BY <1>0 DEF RequestTyped, Request, Action
<1>2. queue \in [Ticks -> Seq(Action)] /\ queue[n] \in Seq(Action) /\ Len(queue[n]) \in Nat
      /\ QueueCap \in Nat
  <2>1. QueueCap \in Nat
    BY <1>0, Settings DEF EngineTyped
  <2>2. queue \in [Ticks -> Seq(Action)]
    BY DEF Typed
  <2>3. queue[n] \in Seq(Action)
    BY <1>1, <2>2
  <2> QED
    BY <2>1, <2>2, <2>3
<1>3. UNCHANGED <<processing, delivered>>
  BY DEF Push
<1>4. CASE Len(queue[n]) >= QueueCap
  <2>1. queue' = queue
    BY <1>4 DEF Push
  <2> QED
    BY <1>1, <1>3, <1>4, <2>1
<1>5. CASE ~(Len(queue[n]) >= QueueCap)
  <2>1. queue' = [queue EXCEPT ![n] = Append(queue[n], request.action)]
    BY <1>5 DEF Push
  <2>2. queue'[n] = Append(queue[n], request.action)
        /\ \A t \in Ticks \ {n} : queue'[t] = queue[t]
    BY <1>1, <1>2, <2>1
  <2>3. ToSet(queue'[n]) = ToSet(queue[n]) \cup {request.action}
    BY <1>1, <1>2, <2>2, ListElements
  <2> QED
    BY <1>1, <1>2, <1>3, <1>5, <2>1, <2>2, <2>3
<1> QED
  BY <1>4, <1>5

\* What a step does to the lists of Redis: nothing they held is gone unless it
\* has been decided on.
LEMMA ListsStep ==
  ASSUME Typed, DeliveredIsDecided, Next
  PROVE  \A t \in Ticks : \A x \in ToSet(queue[t]) \cup ToSet(processing[t]) :
           \/ x \in ToSet(queue'[t]) \cup ToSet(processing'[t])
           \/ x \in Decided
<1> TAKE t \in Ticks
<1> TAKE x \in ToSet(queue[t]) \cup ToSet(processing[t])
<1>0. tick \in Ticks /\ tick \in Int /\ tick - 1 \in Int
  BY DEF Typed, TypeOK, Ticks
<1>1. CASE \E request \in wire : Push(request)
  <2>1. PICK request \in wire : Push(request)
    BY <1>1
  <2> QED
    BY <2>1, PushAdds
<1>2. CASE OpenTick \/ OpenTickFails \/ EndRun
  <2>1. queue' = queue /\ ((\E n \in Int : Ack(n)) \/ processing' = processing)
    BY <1>0, <1>2 DEF OpenTick, OpenTickFails, EndRun
  <2> QED
    BY <2>1, AckDeletesDecided
<1>3. CASE Drain \/ DrainFails
  <2>1. Claim(tick) \/ UNCHANGED <<processing, queue>>
    BY <1>3 DEF Drain, DrainFails
  <2> QED
    BY <1>0, <2>1, ClaimMoves
<1>4. CASE UNCHANGED <<queue, processing>>
  BY <1>4
<1>5. ASSUME \/ \E a \in Agents, id \in Ids, nonce \in 0..MaxNonce : Submit(a, id, nonce)
             \/ \E id \in Ids : SubmitLate(id)
             \/ \E request \in wire : LosePush(request)
             \/ \E w \in waiting : Accept(w) \/ RefuseFull(w) \/ TimeOut(w)
             \/ RestartGateway \/ Seal \/ PeekFails \/ SkipDrain \/ NextTick \/ PassTime
      PROVE  UNCHANGED <<queue, processing>>
  BY <1>5 DEF Submit, SubmitLate, LosePush, Accept, RefuseFull, TimeOut, RestartGateway,
     Seal, PeekFails, SkipDrain, NextTick, PassTime, redisVars
<1> QED
  BY <1>1, <1>2, <1>3, <1>4, <1>5 DEF Next, EngineStep

LEMMA DeliveredKept ==
  ASSUME Typed, DeliveredIsDecided, Next
  PROVE  DeliveredIsDecided'
<1>0. tick \in Ticks /\ tick \in Int /\ tick - 1 \in Int
  BY DEF Typed, TypeOK, Ticks
<1>1. Decided \subseteq Decided'
  BY DecidedGrows
<1> SUFFICES ASSUME NEW t \in Ticks PROVE ToSet(delivered'[t]) \subseteq Decided'
  BY DEF DeliveredIsDecided
<1>2. ToSet(delivered[t]) \subseteq Decided /\ ToSet(<<>>) = {}
  BY DEF DeliveredIsDecided, ToSet
<1>3. CASE Drain
  <2>1. delivered'[t] \in {processing'[t], delivered[t], <<>>}
        /\ (delivered'[t] = processing'[t] \/ delivered'[t] = delivered[t] \/ delivered'[t] = <<>>)
        /\ (t = tick => delivered'[t] = processing'[t])
        /\ (t # tick => delivered'[t] \in {delivered[t], <<>>})
    BY <1>3 DEF Drain
  <2>2. Decided' = Decided \cup ToSet(processing'[tick])
    BY <1>3, DrainDecides
  <2> QED
    BY <1>1, <1>2, <2>1, <2>2
<1>4. CASE OpenTick \/ OpenTickFails \/ EndRun
  <2>1. (\E n \in Int : Ack(n)) \/ delivered' = delivered
    BY <1>0, <1>4 DEF OpenTick, OpenTickFails, EndRun
  <2>2. delivered'[t] = delivered[t] \/ delivered'[t] = <<>>
    BY <2>1, AckDeletesDecided
  <2> QED
    BY <1>1, <1>2, <2>2
<1>5. CASE delivered' = delivered
  BY <1>1, <1>2, <1>5
<1>6. ASSUME \/ \E a \in Agents, id \in Ids, nonce \in 0..MaxNonce : Submit(a, id, nonce)
             \/ \E id \in Ids : SubmitLate(id)
             \/ \E request \in wire : Push(request) \/ LosePush(request)
             \/ \E w \in waiting : Accept(w) \/ RefuseFull(w) \/ TimeOut(w)
             \/ RestartGateway \/ Seal \/ PeekFails \/ SkipDrain \/ NextTick \/ DrainFails
             \/ PassTime
      PROVE  delivered' = delivered
  BY <1>6 DEF Submit, SubmitLate, Push, LosePush, Accept, RefuseFull, TimeOut, RestartGateway,
     Seal, PeekFails, SkipDrain, NextTick, DrainFails, PassTime
<1> QED
  BY <1>3, <1>4, <1>5, <1>6 DEF Next, EngineStep

\* The engine, Redis and the gateway stay well formed, and no list outgrows max_queued
\* (gateway/queue.py:36-60, verify.py:64-82).
THEOREM TypeCorrect == Spec => []TypeOK
<1>1. Typed => TypeOK
  BY DEF Typed
<1> QED
  BY <1>1, InitTyped, TypedKept, PTL DEF Spec

\* An action leaves Redis only after the engine took or refused it, whatever fails and
\* whenever a batch is claimed, redelivered or acknowledged (gateway/queue.py:398-440).
THEOREM DeletedWasSeen == Spec => NothingDeletedUnseen
<1> DEFINE Inv == Typed /\ DeliveredIsDecided
           A == \A t \in Ticks : \A x \in ToSet(queue[t]) \cup ToSet(processing[t]) :
                  \/ x \in ToSet(queue'[t]) \cup ToSet(processing'[t])
                  \/ x \in applied \cup rejected
<1>1. Init => Inv
  <2>1. Init => DeliveredIsDecided
    BY DEF Init, DeliveredIsDecided, ToSet
  <2> QED
    BY <2>1, InitTyped
<1>2. Inv /\ [Next]_vars => Inv'
  <2>1. ASSUME Inv, UNCHANGED vars PROVE DeliveredIsDecided'
    BY <2>1 DEF DeliveredIsDecided, Decided, vars, engineVars
  <2> QED
    BY <2>1, TypedKept, DeliveredKept
<1>3. Inv /\ [Next]_vars => [A]_vars
  BY ListsStep DEF Decided
<1> QED
  BY <1>1, <1>2, <1>3, PTL DEF Spec, NothingDeletedUnseen

-----------------------------------------------------------------------------
(* How far the engine is *)

LEMMA EngineKept ==
  ASSUME Typed, EngineHolds, Next
  PROVE  EngineHolds'
<1>0. EngineTyped /\ RedisTyped
  BY TypedParts
<1>1. /\ Deadline' = Deadline /\ SealMargin' = SealMargin
      /\ Deadline \in Nat /\ SealMargin \in Nat
  BY <1>0, ConfigKept, SameConfig, Settings DEF EngineTyped
<1>2. /\ tick \in Ticks /\ Ticks \subseteq Int /\ now \in Nat /\ opened \in Nat
      /\ drained \subseteq Ticks
      /\ processing \in [Ticks -> ShortLists] /\ mirror.tick \in Int
      /\ mirror \in [tick : 0..LastTick, sealed : BOOLEAN, sealAt : Nat]
      /\ phase \in {"opening", "open", "sealed", "decided", "done"}
  BY <1>0 DEF EngineTyped, RedisTyped, Ticks
<1>3. CASE OpenTick \/ OpenTickFails
  <2>1. /\ phase = "opening" /\ phase' = "open" /\ opened' = now
        /\ UNCHANGED <<now, tick, drained>>
    BY <1>3 DEF OpenTick, OpenTickFails
  <2>2. \/ mirror' = mirror
        \/ mirror' = [tick |-> tick, sealed |-> FALSE, sealAt |-> now + Deadline - SealMargin]
    BY <1>3 DEF OpenTick, OpenTickFails
  <2>3. processing' = processing \/ \E t \in Ticks : processing' = [processing EXCEPT ![t] = <<>>]
    BY <1>3 DEF OpenTick, OpenTickFails, Ack
  <2>4. \A t \in Ticks : processing[t] = <<>> => processing'[t] = <<>>
    BY <1>2, <2>3
  <2>5. mirror.tick < tick /\ \A t \in drained : t <= tick /\ t # tick
    BY <2>1 DEF EngineHolds
  <2>6. CASE mirror' = mirror
    BY <1>1, <1>2, <2>1, <2>4, <2>5, <2>6 DEF EngineHolds
  <2>7. CASE mirror' = [tick |-> tick, sealed |-> FALSE, sealAt |-> now + Deadline - SealMargin]
    <3>1. mirror'.tick = tick /\ mirror'.sealAt = now + Deadline - SealMargin
      BY <2>7
    <3> QED
      BY <1>1, <1>2, <2>1, <2>4, <2>5, <3>1 DEF EngineHolds
  <2> QED
    BY <2>2, <2>6, <2>7
<1>4. CASE Seal \/ PeekFails
  <2>1. /\ phase = "open" /\ phase' = "sealed"
        /\ UNCHANGED <<now, tick, opened, drained, processing>>
        /\ mirror' = [tick |-> tick, sealed |-> TRUE, sealAt |-> opened + Deadline - SealMargin]
    BY <1>4 DEF Seal, PeekFails
  <2>2. /\ mirror'.tick = tick /\ mirror'.sealed
        /\ mirror'.sealAt = opened + Deadline - SealMargin
    BY <2>1
  <2>3. \A t \in drained : t # tick
    BY <2>1 DEF EngineHolds
  <2> QED
    BY <1>1, <1>2, <2>1, <2>2, <2>3 DEF EngineHolds
<1>5. CASE Drain
  <2>1. /\ phase = "sealed" /\ phase' = "decided" /\ drained' = drained \cup {tick}
        /\ UNCHANGED <<now, tick, opened, mirror>>
    BY <1>5 DEF Drain, Decide
  <2>2. \A t \in Ticks : t > tick => processing'[t] = processing[t]
    BY <1>2, <1>5 DEF Drain, Claim
  <2>3. mirror.tick = tick /\ mirror.sealed
    BY <2>1 DEF EngineHolds
  <2> QED
    BY <1>1, <1>2, <2>1, <2>2, <2>3 DEF EngineHolds
<1>6. CASE DrainFails
  <2>1. /\ phase \in {"open", "sealed"} /\ phase' = "decided"
        /\ UNCHANGED <<now, tick, opened, drained>>
    BY <1>6 DEF DrainFails, Decide
  <2>2. \A t \in Ticks : t > tick => processing'[t] = processing[t]
    BY <1>2, <1>6 DEF DrainFails, Claim
  <2>3. /\ mirror'.tick = mirror.tick /\ mirror'.sealAt = mirror.sealAt
        /\ mirror.sealed => mirror'.sealed
    <3>1. mirror' = mirror \/ mirror' = [mirror EXCEPT !.sealed = TRUE]
      BY <1>6 DEF DrainFails
    <3> QED
      BY <1>2, <3>1
  <2> QED
    BY <1>1, <1>2, <2>1, <2>2, <2>3 DEF EngineHolds
<1>7. CASE SkipDrain \/ NextTick \/ EndRun
  <2>1. /\ phase \in {"open", "decided"}
        /\ UNCHANGED <<now, opened, drained, mirror>>
        /\ \/ tick' = tick /\ phase' \in {"decided", "done"}
           \/ phase = "decided" /\ tick' = tick + 1 /\ phase' = "opening"
    BY <1>7 DEF SkipDrain, NextTick, EndRun, redisVars
  <2>2. processing' = processing \/ \E t \in Ticks : processing' = [processing EXCEPT ![t] = <<>>]
    BY <1>7 DEF SkipDrain, NextTick, EndRun, Ack, redisVars
  <2>3. \A t \in Ticks : processing[t] = <<>> => processing'[t] = <<>>
    BY <1>2, <2>2
  <2>4. CASE tick' = tick /\ phase' \in {"decided", "done"}
    BY <1>1, <1>2, <2>1, <2>3, <2>4 DEF EngineHolds
  <2>5. CASE phase = "decided" /\ tick' = tick + 1 /\ phase' = "opening"
    <3>1. tick' \in Int /\ \A t \in Ticks : t >= tick' => t > tick
      BY <1>2, <2>5
    <3>2. \A t \in drained : t <= tick' /\ t # tick'
      BY <1>2, <2>5 DEF EngineHolds
    <3>3. mirror.tick < tick'
      BY <1>2, <2>5 DEF EngineHolds
    <3> QED
      BY <1>1, <1>2, <2>1, <2>3, <2>5, <3>1, <3>2, <3>3 DEF EngineHolds
  <2> QED
    BY <2>1, <2>4, <2>5
<1>8. CASE UNCHANGED <<tick, opened, phase, drained, mirror, processing>>
           /\ now' \in {now, now + 1}
  BY <1>1, <1>2, <1>8 DEF EngineHolds
<1>9. ASSUME \/ \E a \in Agents, id \in Ids, nonce \in 0..MaxNonce : Submit(a, id, nonce)
             \/ \E id \in Ids : SubmitLate(id)
             \/ \E request \in wire : Push(request) \/ LosePush(request)
             \/ \E w \in waiting : Accept(w) \/ RefuseFull(w) \/ TimeOut(w)
             \/ RestartGateway \/ PassTime
      PROVE  UNCHANGED <<tick, opened, phase, drained, mirror, processing>>
             /\ now' \in {now, now + 1}
  BY <1>9 DEF Submit, SubmitLate, Push, LosePush, Accept, RefuseFull, TimeOut, RestartGateway,
     PassTime, engineVars, redisVars
<1> QED
  BY <1>3, <1>4, <1>5, <1>6, <1>7, <1>8, <1>9 DEF Next, EngineStep

-----------------------------------------------------------------------------
(* Requests under way *)

LEMMA KnownKept ==
  ASSUME Typed, DeliveredIsDecided, Next, NEW x \in Action, Known(x)
  PROVE  Known(x)'
<1>1. x.tick \in Ticks
  BY DEF Action
<1>2. Decided \subseteq Decided'
  BY DecidedGrows
<1> QED
  BY <1>1, <1>2, ListsStep DEF Known

\* The counters and clocks a request is compared with.
LEMMA ClocksStep ==
  ASSUME Typed, EngineHolds, RequestsHold, Next
  PROVE  /\ now' = now \/ (now' = now + 1 /\ \A w \in waiting : now - w.sent < PushTimeout)
         /\ mirror.tick <= mirror'.tick
         /\ \/ tick' = tick /\ opened' = opened
            \/ mirror.tick < tick'
         /\ \A id \in Ids : tries[id] <= tries'[id]
<1>0. EngineTyped /\ RedisTyped /\ RequestTyped
  BY TypedParts
<1>1. /\ tick \in Int /\ mirror.tick \in Int
      /\ mirror \in [tick : 0..LastTick, sealed : BOOLEAN, sealAt : Nat]
      /\ tries \in [Ids -> 0..MaxTries]
  BY <1>0 DEF EngineTyped, RedisTyped, RequestTyped, Ticks
<1>2. CASE OpenTick \/ OpenTickFails
  <2>1. phase = "opening" /\ UNCHANGED <<now, tick, tries>>
    BY <1>2 DEF OpenTick, OpenTickFails, requestVars
  <2>2. mirror.tick < tick
    BY <2>1 DEF EngineHolds
  <2>3. mirror'.tick \in {mirror.tick, tick}
    BY <1>2 DEF OpenTick, OpenTickFails
  <2> QED
    BY <1>1, <2>1, <2>2, <2>3
<1>3. CASE Seal \/ PeekFails
  <2>1. UNCHANGED <<now, tick, opened, tries>> /\ mirror'.tick = tick
    BY <1>3 DEF Seal, PeekFails, requestVars
  <2>2. mirror.tick <= tick
    BY DEF EngineHolds
  <2> QED
    BY <1>1, <2>1, <2>2
<1>4. CASE Drain \/ DrainFails \/ SkipDrain \/ EndRun
  <2>1. UNCHANGED <<now, tick, opened, tries>>
    BY <1>4 DEF Drain, DrainFails, SkipDrain, EndRun, requestVars
  <2>2. mirror' = mirror \/ mirror' = [mirror EXCEPT !.sealed = TRUE]
    BY <1>4 DEF Drain, DrainFails, SkipDrain, EndRun, redisVars
  <2>3. mirror'.tick = mirror.tick
    BY <1>1, <2>2
  <2> QED
    BY <1>1, <2>1, <2>3
<1>5. CASE NextTick
  <2>1. UNCHANGED <<now, opened, tries, mirror>> /\ tick' = tick + 1
    BY <1>5 DEF NextTick, redisVars, requestVars
  <2>2. mirror.tick <= tick
    BY DEF EngineHolds
  <2> QED
    BY <1>1, <2>1, <2>2
<1>6. CASE PassTime
  <2>1. UNCHANGED <<tick, opened, tries, mirror>> /\ now' = now + 1
        /\ \A w \in waiting : now - w.sent < PushTimeout
    BY <1>6 DEF PassTime, redisVars, requestVars, engineVars
  <2> QED
    BY <1>1, <2>1
<1>7. CASE \/ \E a \in Agents, id \in Ids, nonce \in 0..MaxNonce : Submit(a, id, nonce)
           \/ \E id \in Ids : SubmitLate(id)
  <2>1. /\ UNCHANGED <<now, tick, opened, mirror>>
        /\ \E id \in Ids : tries' = [tries EXCEPT ![id] = tries[id] + 1]
    BY <1>7 DEF Submit, SubmitLate, redisVars, engineVars
  <2>2. \A id \in Ids : tries[id] <= tries'[id]
    BY <1>1, <2>1
  <2> QED
    BY <1>1, <2>1, <2>2
<1>8. CASE \/ \E request \in wire : Push(request) \/ LosePush(request)
           \/ \E w \in waiting : Accept(w) \/ RefuseFull(w) \/ TimeOut(w)
           \/ RestartGateway
  <2>1. UNCHANGED <<now, tick, opened, mirror, tries>>
    BY <1>8 DEF Push, LosePush, Accept, RefuseFull, TimeOut, RestartGateway, redisVars, engineVars
  <2> QED
    BY <1>1, <2>1
<1> QED
  BY <1>2, <1>3, <1>4, <1>5, <1>6, <1>7, <1>8 DEF Next, EngineStep

\* What is true of a request that waits stays true as long as it waits.
LEMMA WaitKept ==
  ASSUME Typed, DeliveredIsDecided, EngineHolds, RequestsHold, Next, NEW w \in waiting
  PROVE  /\ w.sent <= now' /\ now' <= w.sent + PushTimeout
         /\ w.request.try <= tries'[w.request.action.id]
         /\ w.request.action.tick <= mirror'.tick
         /\ w.request.action.tick = tick' => w.sent < opened' + Deadline - SealMargin
         /\ w.answer = "queued" => Known(w.request.action)'
<1>0. EngineTyped /\ RedisTyped /\ RequestTyped
  BY TypedParts
<1>1. /\ w.request.action \in Action /\ w.request.action.id \in Ids
      /\ w.request.action.tick \in Int /\ w.sent \in Nat /\ w.request.try \in Int
  BY <1>0 DEF RequestTyped, Wait, Request, Action, Ticks
<1>2. /\ mirror.tick \in Int /\ now \in Nat /\ PushTimeout \in Nat
  BY <1>0, Settings DEF EngineTyped, RedisTyped
<1>3. RequestTyped' /\ RedisTyped' /\ EngineTyped'
  BY RequestTypedKept, RedisTypedKept, EngineTypedKept
<1>4. tries[w.request.action.id] \in Int /\ tries'[w.request.action.id] \in Int
  <2>1. tries' \in [Ids -> 0..MaxTries]
    BY <1>3, ConfigKept, SameConfig DEF RequestTyped
  <2> QED
    BY <1>0, <1>1, <2>1 DEF RequestTyped
<1>5. mirror'.tick \in Int /\ tick' \in Int
  BY <1>3 DEF RedisTyped, EngineTyped, Ticks
<1>6. /\ w.sent <= now /\ now <= w.sent + PushTimeout
      /\ w.request.try <= tries[w.request.action.id]
      /\ w.request.action.tick <= mirror.tick
      /\ w.request.action.tick = tick => w.sent < opened + Deadline - SealMargin
      /\ w.answer = "queued" => Known(w.request.action)
  BY DEF RequestsHold
<1>7. w.answer = "queued" => Known(w.request.action)'
  BY <1>1, <1>6, KnownKept
<1>8. /\ now' = now \/ (now' = now + 1 /\ now - w.sent < PushTimeout)
      /\ mirror.tick <= mirror'.tick
      /\ \/ tick' = tick /\ opened' = opened
         \/ mirror.tick < tick'
      /\ tries[w.request.action.id] <= tries'[w.request.action.id]
  BY <1>1, ClocksStep
<1>9. w.sent <= now' /\ now' <= w.sent + PushTimeout
  BY <1>1, <1>2, <1>6, <1>8
<1>10. /\ w.request.try <= tries'[w.request.action.id]
       /\ w.request.action.tick <= mirror'.tick
  BY <1>1, <1>2, <1>4, <1>5, <1>6, <1>8
<1>11. w.request.action.tick = tick' => w.sent < opened' + Deadline - SealMargin
  BY <1>1, <1>2, <1>5, <1>6, <1>8
<1> QED
  BY <1>7, <1>9, <1>10, <1>11

LEMMA RequestsKept ==
  ASSUME Typed, DeliveredIsDecided, EngineHolds, RequestsHold, Next
  PROVE  RequestsHold'
<1>0. EngineTyped /\ RedisTyped /\ RequestTyped
  BY TypedParts
<1>1. /\ Deadline' = Deadline /\ SealMargin' = SealMargin /\ Unreliable' = Unreliable
  BY ConfigKept, SameConfig
<1> DEFINE Timely(w) ==
             /\ w.sent <= now' /\ now' <= w.sent + PushTimeout
             /\ w.request.try <= tries'[w.request.action.id]
             /\ w.request.action.tick <= mirror'.tick
             /\ w.request.action.tick = tick' => w.sent < opened' + Deadline - SealMargin
             /\ w.answer = "queued" => Known(w.request.action)'
           Unsent(w) == w.request \in wire' => w.answer = "none"
           Traced == ~Unreliable => \A request \in wire' : \E w \in waiting' : w.request = request
<1>2. \A w \in waiting : Timely(w)
  BY WaitKept
<1>3. \A x \in accepted : Known(x)'
  BY <1>0, KnownKept DEF RequestsHold, RequestTyped
<1> SUFFICES /\ \A w \in waiting' : Timely(w) /\ Unsent(w)
             /\ \A x \in accepted' : Known(x)'
             /\ Traced
  BY <1>1 DEF RequestsHold
<1>4. \A w \in waiting : w.request \in wire => w.answer = "none"
  BY DEF RequestsHold
<1>5. ~Unreliable => \A request \in wire : \E w \in waiting : w.request = request
  BY DEF RequestsHold
<1> HIDE DEF Timely
<1>6. CASE \E a \in Agents, id \in Ids, nonce \in 0..MaxNonce : Submit(a, id, nonce)
  <2>1. PICK a \in Agents, id \in Ids, nonce \in 0..MaxNonce : Submit(a, id, nonce)
    BY <1>6
  <2> DEFINE action == [agent |-> a, id |-> id, nonce |-> nonce, tick |-> mirror.tick]
             request == [action |-> action, try |-> tries[id] + 1]
             v == [request |-> request, sent |-> now, answer |-> "none"]
  <2>2. /\ wire' = wire \cup {request} /\ waiting' = waiting \cup {v}
        /\ tries' = [tries EXCEPT ![id] = tries[id] + 1] /\ UNCHANGED accepted
        /\ UNCHANGED <<now, tick, opened, mirror>>
    BY <2>1 DEF Submit, redisVars, engineVars
  <2>3. /\ v.request = request /\ v.sent = now /\ v.answer = "none"
        /\ request.try = tries[id] + 1 /\ request.action.id = id
        /\ request.action.tick = mirror.tick
    OBVIOUS
  <2> HIDE DEF v, request
  <2>4. tries'[id] = tries[id] + 1 /\ tries[id] \in Nat
    BY <1>0, <2>2 DEF RequestTyped
  <2>5. now \in Nat /\ PushTimeout \in Nat /\ mirror.tick \in Nat /\ now < mirror.sealAt
    <3>1. now < mirror.sealAt
      BY <2>1, SubmitFacts
    <3>2. PushTimeout \in Nat /\ LastTick \in Nat
      BY <1>0, Settings DEF EngineTyped
    <3> QED
      BY <1>0, <3>1, <3>2 DEF EngineTyped, RedisTyped
  <2>6. mirror.tick = tick => mirror.sealAt = opened + Deadline - SealMargin
    BY DEF EngineHolds
  <2>7. Timely(v)
    BY <2>2, <2>3, <2>4, <2>5, <2>6 DEF Timely
  <2>8. \A w \in waiting : w.request # request
    <3> SUFFICES ASSUME NEW w \in waiting, w.request = request PROVE FALSE
      OBVIOUS
    <3>1. w.request.try <= tries[w.request.action.id]
      BY DEF RequestsHold
    <3> QED
      BY <2>3, <2>4, <3>1
  <2>9. \A w \in waiting' : Timely(w) /\ Unsent(w)
    BY <1>2, <1>4, <2>2, <2>3, <2>7, <2>8
  <2>10. Traced
    BY <1>5, <2>2, <2>3
  <2> QED
    BY <1>3, <2>2, <2>9, <2>10
<1>7. CASE \E request \in wire : Push(request)
  <2>1. PICK request \in wire : Push(request)
    BY <1>7
  <2> DEFINE full == Len(queue[request.action.tick]) >= QueueCap
             told(w) == [w EXCEPT !.answer = IF full THEN "full" ELSE "queued"]
  <2>2. /\ wire' = wire \ {request} /\ UNCHANGED accepted
        /\ waiting' = {IF w.request = request THEN told(w) ELSE w : w \in waiting}
    BY <2>1 DEF Push
  <2>3. \A w \in waiting : /\ told(w).request = w.request /\ told(w).sent = w.sent
                           /\ told(w).answer = "queued" => ~full
    BY <1>0 DEF RequestTyped, Wait
  <2>4. ~full => Known(request.action)'
    <3>1. ASSUME ~full PROVE request.action \in ToSet(queue'[request.action.tick])
      <4>1. /\ \/ queue' = queue /\ full
               \/ ToSet(queue'[request.action.tick])
                    = ToSet(queue[request.action.tick]) \cup {request.action}
        BY <2>1, PushAdds
      <4> QED
        BY <3>1, <4>1
    <3> QED
      BY <3>1 DEF Known
  <2> HIDE DEF full, told
  <2>5. ASSUME NEW w \in waiting, w.request = request, NEW v,
               v.request = w.request, v.sent = w.sent, v.answer = "queued" => ~full
        PROVE  Timely(v)
    <3>1. Timely(w)
      BY <1>2
    <3>2. v.answer = "queued" => Known(v.request.action)'
      BY <2>4, <2>5
    <3> QED
      BY <2>5, <3>1, <3>2 DEF Timely
  <2>6. \A v \in waiting' : Timely(v) /\ Unsent(v)
    <3> TAKE v \in waiting'
    <3>1. PICK w \in waiting : v = IF w.request = request THEN told(w) ELSE w
      BY <2>2
    <3>2. CASE w.request = request
      <4>1. v.request = w.request /\ v.sent = w.sent /\ (v.answer = "queued" => ~full)
        BY <2>3, <3>1, <3>2
      <4> QED
        BY <2>2, <2>5, <3>2, <4>1
    <3>3. CASE w.request # request
      BY <1>2, <1>4, <2>2, <3>1, <3>3
    <3> QED
      BY <3>2, <3>3
  <2>7. Traced
    <3> SUFFICES ASSUME ~Unreliable, NEW q \in wire' PROVE \E v \in waiting' : v.request = q
      OBVIOUS
    <3>1. PICK w \in waiting : w.request = q
      BY <1>5, <2>2
    <3>2. (IF w.request = request THEN told(w) ELSE w) \in waiting'
      BY <2>2
    <3> QED
      BY <2>3, <3>1, <3>2
  <2> QED
    BY <1>3, <2>2, <2>6, <2>7
<1>8. CASE \E w \in waiting : Accept(w)
  <2>1. PICK w \in waiting : Accept(w)
    BY <1>8
  <2>2. /\ w.answer = "queued" /\ waiting' = waiting \ {w} /\ UNCHANGED wire
        /\ accepted' = accepted \cup {w.request.action}
    BY <2>1 DEF Accept
  <2>3. Known(w.request.action)'
    BY <1>2, <2>2 DEF Timely
  <2>4. w.request \notin wire
    BY <1>4, <2>2
  <2> QED
    BY <1>2, <1>3, <1>4, <1>5, <2>2, <2>3, <2>4
<1>9. CASE \E w \in waiting : RefuseFull(w) \/ TimeOut(w)
  <2>1. PICK w \in waiting : RefuseFull(w) \/ TimeOut(w)
    BY <1>9
  <2>2. /\ waiting' = waiting \ {w} /\ wire' \subseteq wire /\ UNCHANGED accepted
        /\ ~Unreliable => w.request \notin wire'
    BY <1>4, <2>1 DEF RefuseFull, TimeOut
  <2> QED
    BY <1>2, <1>3, <1>4, <1>5, <2>2
<1>10. CASE RestartGateway
  <2>1. waiting' = {} /\ UNCHANGED <<wire, accepted>> /\ Unreliable
    BY <1>10 DEF RestartGateway
  <2> QED
    BY <1>3, <2>1
<1>11. CASE UNCHANGED <<waiting, accepted>> /\ wire' \subseteq wire
  BY <1>2, <1>3, <1>4, <1>5, <1>11
<1>12. ASSUME \/ \E id \in Ids : SubmitLate(id)
              \/ \E request \in wire : LosePush(request)
              \/ EngineStep \/ OpenTickFails \/ PeekFails \/ DrainFails \/ PassTime
       PROVE  UNCHANGED <<waiting, accepted>> /\ wire' \subseteq wire
  <2>1. CASE (\E id \in Ids : SubmitLate(id)) \/ \E request \in wire : LosePush(request)
    BY <2>1 DEF SubmitLate, LosePush
  <2>2. CASE EngineStep \/ OpenTickFails \/ PeekFails \/ DrainFails \/ PassTime
    BY <2>2 DEF EngineStep, OpenTickFails, PeekFails, DrainFails, PassTime, OpenTick, Seal,
       Drain, SkipDrain, NextTick, EndRun, requestVars
  <2> QED
    BY <1>12, <2>1, <2>2
<1> QED
  BY <1>6, <1>7, <1>8, <1>9, <1>10, <1>11, <1>12 DEF Next

\* What a push leaves of a request that waits: only the answer of its own one changes.
Told(w, request) ==
  IF w.request = request
  THEN [w EXCEPT !.answer = IF Len(queue[request.action.tick]) >= QueueCap
                            THEN "full" ELSE "queued"]
  ELSE w

LEMMA PushAnswers ==
  ASSUME RequestTyped, NEW request \in wire, Push(request)
  PROVE  /\ waiting' = {Told(w, request) : w \in waiting}
         /\ \A w \in waiting :
              /\ Told(w, request).request = w.request /\ Told(w, request).sent = w.sent
              /\ w.request # request => Told(w, request) = w
              /\ w.request = request /\ Len(queue[request.action.tick]) >= QueueCap
                   => Told(w, request).answer = "full"
              /\ w.request = request /\ ~(Len(queue[request.action.tick]) >= QueueCap)
                   => Told(w, request).answer = "queued"
<1>1. waiting' = {Told(w, request) : w \in waiting}
  BY DEF Push, Told
<1>2. waiting \subseteq Wait
  BY DEF RequestTyped
<1> QED
  BY <1>1, <1>2 DEF Told, Wait

\* Nothing of a tick is on its way any more when its list is drained in time.
LEMMA NothingLate ==
  ASSUME Typed, EngineHolds, RequestsHold, Drain, Orderly, SealMargin >= PushTimeout
  PROVE  \A w \in waiting : w.request.action.tick # tick
<1>0. EngineTyped /\ RedisTyped /\ RequestTyped
  BY TypedParts
<1>1. now \in Nat /\ opened \in Nat /\ Deadline \in Nat /\ SealMargin \in Nat /\ PushTimeout \in Nat
  BY <1>0, Settings DEF EngineTyped
<1>2. now >= opened + Deadline /\ ~Unreliable
  BY DEF Drain, DrainDue, Orderly
<1> SUFFICES ASSUME NEW w \in waiting, w.request.action.tick = tick PROVE FALSE
  OBVIOUS
<1>4. w.sent \in Nat /\ now <= w.sent + PushTimeout /\ w.sent < opened + Deadline - SealMargin
  BY <1>0 DEF RequestsHold, RequestTyped, Wait
<1> QED
  BY <1>1, <1>2, <1>4

LEMMA DrainedKept ==
  ASSUME Typed, DeliveredIsDecided, EngineHolds, RequestsHold, DrainedHolds, Next
  PROVE  DrainedHolds'
<1>0. EngineTyped /\ RedisTyped /\ RequestTyped
  BY TypedParts
<1>1. SealMargin' = SealMargin /\ Orderly' = Orderly
  BY ConfigKept, SameConfig
<1>2. Decided \subseteq Decided'
  BY DecidedGrows
<1>3. tick \in Ticks /\ tick \in Int /\ tick - 1 \in Int /\ drained \subseteq Ticks
  BY <1>0 DEF EngineTyped, Ticks
<1> SUFFICES ASSUME Orderly, SealMargin >= PushTimeout, NEW t \in drained'
             PROVE  /\ queue'[t] = <<>>
                    /\ ToSet(processing'[t]) \subseteq Decided'
                    /\ \A w \in waiting' : w.request.action.tick # t
  BY <1>1 DEF DrainedHolds
<1>4. t \in drained => /\ queue[t] = <<>> /\ ToSet(processing[t]) \subseteq Decided
                       /\ \A w \in waiting : w.request.action.tick # t
  BY DEF DrainedHolds
<1>5. CASE Drain
  <2>1. UNCHANGED <<tick, waiting>> /\ drained' = drained \cup {tick} /\ Claim(tick)
        /\ phase = "sealed"
    BY <1>5 DEF Drain, requestVars
  <2>2. processing[tick] = <<>> /\ tick \notin drained
    BY <1>3, <2>1 DEF EngineHolds
  <2>3. /\ processing' = [processing EXCEPT ![tick] = queue[tick]]
        /\ queue' = [queue EXCEPT ![tick] = <<>>]
    BY <2>1, <2>2 DEF Claim
  <2>4. Decided' = Decided \cup ToSet(processing'[tick])
    BY <1>5, DrainDecides
  <2>5. \A w \in waiting : w.request.action.tick # tick
    BY <1>5, NothingLate
  <2>6. CASE t = tick
    BY <1>3, <2>1, <2>3, <2>4, <2>5, <2>6 DEF Typed
  <2>7. CASE t # tick
    <3>1. t \in drained /\ t \in Ticks
      BY <1>3, <2>1, <2>7
    <3>2. queue'[t] = queue[t] /\ processing'[t] = processing[t]
      BY <2>3, <2>7, <3>1 DEF Typed
    <3> QED
      BY <1>2, <1>4, <2>1, <3>1, <3>2
  <2> QED
    BY <2>6, <2>7
<1>6. ASSUME ~Drain PROVE drained' = drained
  <2>1. CASE \/ \E a \in Agents, id \in Ids, nonce \in 0..MaxNonce : Submit(a, id, nonce)
             \/ \E id \in Ids : SubmitLate(id)
             \/ \E request \in wire : Push(request) \/ LosePush(request)
             \/ \E w \in waiting : Accept(w) \/ RefuseFull(w) \/ TimeOut(w)
             \/ RestartGateway
    BY <2>1 DEF Submit, SubmitLate, Push, LosePush, Accept, RefuseFull, TimeOut,
       RestartGateway, engineVars
  <2>2. CASE OpenTick \/ OpenTickFails \/ Seal \/ PeekFails \/ DrainFails \/ SkipDrain
             \/ NextTick \/ EndRun \/ PassTime
    BY <2>2 DEF OpenTick, OpenTickFails, Seal, PeekFails, DrainFails, SkipDrain, NextTick,
       EndRun, PassTime, engineVars
  <2> QED
    BY <1>6, <2>1, <2>2 DEF Next, EngineStep
<1>7. CASE \E a \in Agents, id \in Ids, nonce \in 0..MaxNonce : Submit(a, id, nonce)
  <2>1. PICK a \in Agents, id \in Ids, nonce \in 0..MaxNonce : Submit(a, id, nonce)
    BY <1>7
  <2>2. UNCHANGED <<drained, queue, processing, applied, rejected>>
        /\ ~mirror.sealed
        /\ waiting' = waiting \cup {[request |-> [action |-> [agent |-> a, id |-> id,
                                           nonce |-> nonce, tick |-> mirror.tick],
                                           try |-> tries[id] + 1],
                                     sent |-> now, answer |-> "none"]}
    BY <2>1 DEF Submit, Sealed, engineVars, redisVars
  <2>3. t # mirror.tick
    BY <2>2 DEF EngineHolds
  <2> QED
    BY <1>2, <1>4, <2>2, <2>3
<1>8. CASE \E request \in wire : Push(request)
  <2>1. PICK request \in wire : Push(request)
    BY <1>8
  <2>2. UNCHANGED <<drained, processing>>
    BY <2>1 DEF Push, engineVars
  <2>3. request.action.tick # t /\ t \in Ticks
    BY <1>3, <1>4, <2>2 DEF RequestsHold, Orderly
  <2>4. queue'[t] = queue[t]
    BY <2>1, <2>3, PushAdds
  <2>5. \A v \in waiting' : \E w \in waiting : v.request = w.request
    <3>1. waiting' = {Told(w, request) : w \in waiting}
          /\ \A w \in waiting : Told(w, request).request = w.request
      BY <1>0, <2>1, PushAnswers
    <3> HIDE DEF Told
    <3> QED
      BY <3>1
  <2> QED
    BY <1>2, <1>4, <2>2, <2>4, <2>5
<1>9. CASE OpenTick \/ OpenTickFails \/ EndRun
  <2>1. /\ UNCHANGED <<drained, queue, waiting>>
        /\ (\E n \in Int : Ack(n)) \/ processing' = processing
    BY <1>3, <1>9 DEF OpenTick, OpenTickFails, EndRun, requestVars
  <2>2. processing'[t] = processing[t] \/ processing'[t] = <<>>
    BY <1>3, <2>1, AckDeletesDecided
  <2>3. ToSet(<<>>) = {}
    BY DEF ToSet
  <2> QED
    BY <1>2, <1>4, <2>1, <2>2, <2>3
<1>10. CASE DrainFails
  <2>1. /\ UNCHANGED <<drained, waiting>>
        /\ Claim(tick) \/ UNCHANGED <<processing, queue>>
        /\ phase \in {"open", "sealed"}
    BY <1>10 DEF DrainFails, requestVars
  <2>2. t \in drained /\ t \in Ticks /\ t # tick
    BY <1>3, <2>1 DEF EngineHolds
  <2>3. queue'[t] = queue[t] /\ processing'[t] = processing[t]
    BY <2>1, <2>2 DEF Claim, Typed
  <2> QED
    BY <1>2, <1>4, <2>1, <2>2, <2>3
<1>11. CASE UNCHANGED <<drained, queue, processing>> /\ waiting' \subseteq waiting
  BY <1>2, <1>4, <1>11
<1>12. ASSUME \/ \E id \in Ids : SubmitLate(id)
              \/ \E request \in wire : LosePush(request)
              \/ \E w \in waiting : Accept(w) \/ RefuseFull(w) \/ TimeOut(w)
              \/ RestartGateway \/ Seal \/ PeekFails \/ SkipDrain \/ NextTick \/ PassTime
       PROVE  UNCHANGED <<drained, queue, processing>> /\ waiting' \subseteq waiting
  BY <1>12 DEF SubmitLate, LosePush, Accept, RefuseFull, TimeOut, RestartGateway, Seal,
     PeekFails, SkipDrain, NextTick, PassTime, engineVars, redisVars, requestVars
<1> QED
  BY <1>5, <1>7, <1>8, <1>9, <1>10, <1>11, <1>12 DEF Next, EngineStep

\* The whole of the inductive invariant.
LEMMA InvariantHolds == Spec => []IInv
<1>1. Init => IInv
  <2> SUFFICES ASSUME Init PROVE IInv
    OBVIOUS
  <2>1. Typed
    BY InitTyped
  <2>2. DeliveredIsDecided
    BY DEF Init, DeliveredIsDecided, ToSet
  <2>3. EngineHolds
    BY DEF Init, EngineHolds, Ticks
  <2>4. RequestsHold
    BY DEF Init, RequestsHold
  <2>5. DrainedHolds
    BY DEF Init, DrainedHolds
  <2> QED
    BY <2>1, <2>2, <2>3, <2>4, <2>5 DEF IInv
<1>2. IInv /\ [Next]_vars => IInv'
  <2>1. CASE UNCHANGED vars
    <3> SUFFICES ASSUME IInv PROVE IInv'
      BY <2>1
    <3>1. Typed'
      BY <2>1, TypedKept DEF IInv
    <3>2. /\ UNCHANGED <<now, tick, phase, opened, drained, applied, rejected, mirror, queue,
                         processing, delivered, wire, waiting, accepted, tries>>
          /\ config' = config
      BY <2>1 DEF vars, engineVars, redisVars, requestVars
    <3>3. /\ Deadline' = Deadline /\ SealMargin' = SealMargin /\ Unreliable' = Unreliable
          /\ Orderly' = Orderly
      BY <3>2, SameConfig
    <3>4. DeliveredIsDecided'
      BY <3>2 DEF IInv, DeliveredIsDecided, Decided
    <3>5. EngineHolds'
      BY <3>2, <3>3 DEF IInv, EngineHolds
    <3>6. RequestsHold'
      BY <3>2, <3>3 DEF IInv, RequestsHold, Known, Decided
    <3>7. DrainedHolds'
      BY <3>2, <3>3 DEF IInv, DrainedHolds, Decided
    <3> QED
      BY <3>1, <3>4, <3>5, <3>6, <3>7 DEF IInv
  <2>2. CASE Next
    BY <2>2, TypedKept, DeliveredKept, EngineKept, RequestsKept, DrainedKept DEF IInv
  <2> QED
    BY <2>1, <2>2
<1> QED
  BY <1>1, <1>2, PTL DEF Spec

\* What the gateway accepted for a tick whose batch the engine got, the engine took or
\* refused (tools.py:332, external.py:141, living_city.py:936), for every setting in which
\* the seal comes at least a push timeout before the drain; the default margin does not.
THEOREM AcceptedWasSeen == Spec => []AcceptedReachesEngine
<1>1. IInv => AcceptedReachesEngine
  <2> SUFFICES ASSUME IInv, SealMargin >= PushTimeout, Orderly,
                      NEW x \in accepted, x.tick \in drained
               PROVE  x \in applied \cup rejected
    BY DEF AcceptedReachesEngine
  <2>1. Known(x)
    BY DEF IInv, RequestsHold
  <2>2. queue[x.tick] = <<>> /\ ToSet(processing[x.tick]) \subseteq Decided
    BY DEF IInv, DrainedHolds
  <2>3. ToSet(<<>>) = {}
    BY DEF ToSet
  <2> QED
    BY <2>1, <2>2, <2>3 DEF Known, Decided
<1> QED
  BY <1>1, InvariantHolds, PTL


(***************************************************************************)
(* Nonces and slots: what the verifier reserves for a request and gives    *)
(* back when the request is refused, for every set of agents, ids and      *)
(* settings.                                                               *)
(*                                                                         *)
(* A refused request gives its nonce back while later ones of the agent    *)
(* may be under way or accepted.  The order of nonces survives because the *)
(* action of a refused request was stored nowhere (UnstoredWaits), a       *)
(* nonce is given back only if it is the last one (NoncesBound), and every *)
(* other action has a nonce below the one it gives back to or above its    *)
(* own (GapsHold).  The ids tell the requests apart (OneEach), which is    *)
(* why the id of a request that waits must be remembered.                  *)
(***************************************************************************)

\* The id of a request that waits has not been pushed out of the ActionIdLRU, whose
\* capacity is far above the number of requests that can wait (verify.py:64-82).
WaitingRemembered == \A w \in waiting : w.request.action.id \in ToSet(seen)

\* The actions of the requests that wait; those that were stored or accepted.
Asked == {w.request.action : w \in waiting}
Stored == accepted \cup Decided \cup UNION {ToSet(queue[t]) \cup ToSet(processing[t]) : t \in Ticks}
Sent == Asked \cup Stored

\* One request waits with an id.
OneEach == \A v, w \in waiting : v.request.action.id = w.request.action.id => v = w

\* What can be given back belongs to a request that waits.
ReservedWaits == \A r \in reservations : r.action \in Asked

\* Of the requests that wait, only those told so are stored.
UnstoredWaits == \A w \in waiting : w.request.action \in Stored => w.answer = "queued"

\* The last nonce of an agent is its largest, and no action is of a later tick.
NoncesBound == \A x \in Sent : x.nonce <= nonces[x.agent] /\ x.tick <= mirror.tick

\* Nobody else used the nonces between a reserved one and the one before it.
GapsHold ==
  \A r \in reservations :
    /\ r.previous < r.action.nonce
    /\ \A x \in Sent : x.agent = r.action.agent /\ x # r.action =>
         x.nonce <= r.previous \/ x.nonce > r.action.nonce

\* Nonces grow from tick to tick.
NoncesGrow ==
  \A x \in Sent : \A y \in Sent : x.agent = y.agent /\ x.tick < y.tick => x.nonce < y.nonce

NoncesHold ==
  ~Unreliable =>
    /\ OneEach
    /\ ReservedWaits
    /\ UnstoredWaits
    /\ NoncesBound
    /\ GapsHold
    /\ NoncesGrow

-----------------------------------------------------------------------------
(* The actions of an agent and the steps of the verifier *)

LEMMA SentTyped ==
  ASSUME Typed
  PROVE  Sent \subseteq Action /\ Asked \subseteq Action /\ accepted \subseteq Action
<1>0. EngineTyped /\ RedisTyped /\ RequestTyped
  BY TypedParts
<1>1. accepted \cup Decided \subseteq Action
  BY <1>0 DEF EngineTyped, RequestTyped, Decided
<1>2. Asked \subseteq Action
  BY <1>0 DEF Asked, RequestTyped, Wait, Request
<1>3. ASSUME NEW t \in Ticks PROVE ToSet(queue[t]) \cup ToSet(processing[t]) \subseteq Action
  <2>1. queue[t] \in Seq(Action) /\ processing[t] \in Seq(Action)
    BY DEF Typed
  <2> QED
    BY <2>1, ListElements
<1> QED
  BY <1>1, <1>2, <1>3 DEF Sent, Stored

LEMMA SameStored ==
  ASSUME UNCHANGED <<queue, processing, applied, rejected, accepted>>
  PROVE  Stored' = Stored
  BY DEF Stored, Decided

\* Only a push adds to what is stored: the action it carries.
LEMMA StoredStep ==
  ASSUME Typed, DeliveredIsDecided, RequestsHold, Next
  PROVE  \A x \in Stored' :
           \/ x \in Stored
           \/ \E request \in wire : /\ Push(request) /\ x = request.action
                                    /\ Len(queue[request.action.tick]) < QueueCap
<1> TAKE x \in Stored'
<1> SUFFICES ASSUME x \notin Stored
             PROVE  \E request \in wire : /\ Push(request) /\ x = request.action
                                          /\ Len(queue[request.action.tick]) < QueueCap
  OBVIOUS
<1>0. tick \in Ticks /\ tick \in Int /\ tick - 1 \in Int
  BY DEF Typed, TypeOK, Ticks
<1>1. CASE \E request \in wire : Push(request)
  <2>1. PICK request \in wire : Push(request)
    BY <1>1
  <2>2. UNCHANGED <<processing, applied, rejected, accepted>>
    BY <2>1 DEF Push, engineVars
  <2>3. PICK t \in Ticks : x \in ToSet(queue'[t]) /\ x \notin ToSet(queue[t])
    BY <2>2 DEF Stored, Decided
  <2> QED
    BY <2>1, <2>3, PushAdds
<1>2. CASE OpenTick \/ OpenTickFails \/ EndRun
  <2>1. queue' = queue /\ ((\E n \in Int : Ack(n)) \/ processing' = processing)
        /\ UNCHANGED <<applied, rejected, accepted>>
    BY <1>0, <1>2 DEF OpenTick, OpenTickFails, EndRun, requestVars
  <2>2. PICK t \in Ticks : x \in ToSet(processing'[t]) /\ x \notin ToSet(processing[t])
    BY <2>1 DEF Stored, Decided
  <2>3. processing'[t] = processing[t] \/ processing'[t] = <<>>
    BY <2>1, AckDeletesDecided
  <2> QED
    BY <2>2, <2>3 DEF ToSet
<1>3. CASE Drain \/ DrainFails
  <2>1. Claim(tick) \/ UNCHANGED <<processing, queue>>
    BY <1>3 DEF Drain, DrainFails
  <2>2. \A t \in Ticks : ToSet(queue'[t]) \cup ToSet(processing'[t])
                           = ToSet(queue[t]) \cup ToSet(processing[t])
    BY <1>0, <2>1, ClaimMoves
  <2>3. Decided' \subseteq Decided \cup ToSet(processing'[tick]) /\ accepted' = accepted
    <3>1. CASE Drain
      BY <3>1, DrainDecides DEF Drain, requestVars
    <3>2. CASE DrainFails
      BY <3>2 DEF DrainFails, requestVars, Decide, Decided, Taken, Refused
    <3> QED
      BY <1>3, <3>1, <3>2
  <2> QED
    BY <1>0, <2>2, <2>3 DEF Stored
<1>4. CASE \E w \in waiting : Accept(w)
  <2>1. PICK w \in waiting : Accept(w)
    BY <1>4
  <2>2. /\ UNCHANGED <<queue, processing, applied, rejected>> /\ w.answer = "queued"
        /\ accepted' = accepted \cup {w.request.action}
    BY <2>1 DEF Accept, engineVars, redisVars
  <2>3. Known(w.request.action) /\ w.request.action.tick \in Ticks
    BY <2>2, TypedParts DEF RequestsHold, RequestTyped, Wait, Request, Action
  <2>4. w.request.action \in Stored
    BY <2>3 DEF Known, Stored
  <2> QED
    BY <2>2, <2>4 DEF Stored, Decided
<1>5. CASE UNCHANGED <<queue, processing, applied, rejected, accepted>>
  BY <1>5, SameStored
<1>6. ASSUME \/ \E a \in Agents, id \in Ids, nonce \in 0..MaxNonce : Submit(a, id, nonce)
             \/ \E id \in Ids : SubmitLate(id)
             \/ \E request \in wire : LosePush(request)
             \/ \E w \in waiting : RefuseFull(w) \/ TimeOut(w)
             \/ RestartGateway \/ Seal \/ PeekFails \/ SkipDrain \/ NextTick \/ PassTime
      PROVE  UNCHANGED <<queue, processing, applied, rejected, accepted>>
  BY <1>6 DEF Submit, SubmitLate, LosePush, RefuseFull, TimeOut, RestartGateway,
     Seal, PeekFails, SkipDrain, NextTick, PassTime, engineVars, redisVars, requestVars
<1> QED
  BY <1>1, <1>2, <1>3, <1>4, <1>5, <1>6 DEF Next, EngineStep

\* The steps of the verifier while answers arrive: a request is made, accepted or given
\* up, and no other step takes anything.
LEMMA VerifierStep ==
  ASSUME Typed, RequestsHold, ~Unreliable, Next
  PROVE  \/ \E a \in Agents, id \in Ids, nonce \in 0..MaxNonce : Submit(a, id, nonce)
         \/ \E w \in waiting : Accept(w)
         \/ \E w \in waiting : /\ waiting' = waiting \ {w} /\ w.answer # "queued"
                               /\ Rollback(w.request.action)
                               /\ UNCHANGED <<queue, processing, applied, rejected, accepted,
                                              faults, naturalised, phase, tick, drained>>
         \/ /\ waiting' = waiting \/ \E request \in wire : Push(request)
            /\ reservations' \in {reservations,
                                  {r \in reservations : r.action.tick >= mirror.tick}}
            /\ UNCHANGED <<nonces, seen, slots, slotTick, accepted>>
<1>1. CASE \E w \in waiting : RefuseFull(w) \/ TimeOut(w)
  <2>1. PICK w \in waiting : RefuseFull(w) \/ TimeOut(w)
    BY <1>1
  <2>2. /\ waiting' = waiting \ {w} /\ w.answer # "queued" /\ Rollback(w.request.action)
        /\ UNCHANGED <<queue, processing, applied, rejected, accepted,
                       faults, naturalised, phase, tick, drained>>
    BY <2>1 DEF RefuseFull, TimeOut, engineVars, redisVars
  <2> QED
    BY <2>2
<1>2. ASSUME \/ \E id \in Ids : SubmitLate(id)
             \/ \E request \in wire : LosePush(request)
             \/ EngineStep \/ OpenTickFails \/ PeekFails \/ DrainFails \/ PassTime
      PROVE  /\ waiting' = waiting
             /\ reservations' \in {reservations,
                                   {r \in reservations : r.action.tick >= mirror.tick}}
             /\ UNCHANGED <<nonces, seen, slots, slotTick, accepted>>
  <2>1. CASE (\E id \in Ids : SubmitLate(id)) \/ \E request \in wire : LosePush(request)
    BY <2>1 DEF SubmitLate, LosePush, verifierVars
  <2>2. CASE EngineStep \/ OpenTickFails \/ PeekFails \/ DrainFails \/ PassTime
    BY <2>2 DEF EngineStep, OpenTickFails, PeekFails, DrainFails, PassTime, OpenTick, Seal,
       Drain, SkipDrain, NextTick, EndRun, requestVars, verifierVars
  <2> QED
    BY <1>2, <2>1, <2>2
<1>3. ASSUME NEW request \in wire, Push(request)
      PROVE  UNCHANGED <<nonces, seen, slots, slotTick, accepted, reservations>>
  BY <1>3 DEF Push, verifierVars
<1>4. ~RestartGateway
  BY DEF RestartGateway
<1> QED
  BY <1>1, <1>2, <1>3, <1>4 DEF Next

\* A push leaves the actions that are asked for as they are, and adds one of them to those
\* that are stored.
LEMMA PushKeepsAsked ==
  ASSUME Typed, RequestsHold, ~Unreliable, NEW request \in wire, Push(request)
  PROVE  Asked' = Asked /\ request.action \in Asked
<1>1. waiting' = {Told(w, request) : w \in waiting}
      /\ \A w \in waiting : Told(w, request).request = w.request
  BY TypedParts, PushAnswers
<1>2. \A v \in waiting' : \E w \in waiting : v.request = w.request
  BY <1>1
<1>3. \A w \in waiting : \E v \in waiting' : v.request = w.request
  BY <1>1
<1>4. request.action \in Asked
  BY DEF RequestsHold, Asked
<1> QED
  BY <1>2, <1>3, <1>4 DEF Asked

\* When no nonce and no reservation is added and no action is new, the order of the nonces
\* stays as it is.
LEMMA NonceOrderKept ==
  ASSUME Typed, NoncesBound, GapsHold, NoncesGrow, Sent' \subseteq Sent, nonces' = nonces,
         reservations' \subseteq reservations, mirror.tick <= mirror'.tick,
         mirror.tick \in Int, mirror'.tick \in Int
  PROVE  NoncesBound' /\ GapsHold' /\ NoncesGrow'
<1>1. \A x \in Sent : x.tick \in Int
  BY SentTyped DEF Action, Ticks
<1>2. NoncesBound'
  BY <1>1 DEF NoncesBound
<1>3. GapsHold'
  BY DEF GapsHold
<1>4. NoncesGrow'
  BY DEF NoncesGrow
<1> QED
  BY <1>2, <1>3, <1>4

LEMMA NoncesAfterSubmit ==
  ASSUME Typed, ~Unreliable, NoncesHold, WaitingRemembered,
         NEW a \in Agents, NEW id \in Ids, NEW nonce \in 0..MaxNonce, Submit(a, id, nonce)
  PROVE  /\ OneEach' /\ ReservedWaits' /\ UnstoredWaits'
         /\ NoncesBound' /\ GapsHold' /\ NoncesGrow'
<1> DEFINE x == [agent |-> a, id |-> id, nonce |-> nonce, tick |-> mirror.tick]
           request == [action |-> x, try |-> tries[id] + 1]
           v == [request |-> request, sent |-> now, answer |-> "none"]
<1>0. VerifierTyped /\ RedisTyped
  BY TypedParts
<1>1. /\ waiting' = waiting \cup {v}
      /\ UNCHANGED <<queue, processing, applied, rejected, accepted, mirror>>
      /\ nonce > nonces[a] /\ id \notin ToSet(seen) /\ Reserve(x, mirror.tick)
  BY DEF Submit, engineVars, redisVars, Fresh
<1>2. /\ v.request.action = x /\ v.answer = "none"
      /\ x.agent = a /\ x.id = id /\ x.nonce = nonce /\ x.tick = mirror.tick
  OBVIOUS
<1>3. /\ nonces' = [nonces EXCEPT ![a] = nonce]
      /\ \A r \in reservations' : r \in reservations
                                  \/ r = [action |-> x, previous |-> nonces[a]]
  BY <1>1, <1>2 DEF Reserve
<1>4. nonce \in Int /\ nonces[a] \in Int /\ mirror.tick \in Int
      /\ \A y \in Sent : y.nonce \in Int /\ y.tick \in Int /\ y.agent \in Agents
  BY <1>0, SentTyped DEF VerifierTyped, RedisTyped, Action, Ticks
<1>5. nonces'[a] = nonce /\ \A b \in Agents \ {a} : nonces'[b] = nonces[b]
  BY <1>0, <1>3 DEF VerifierTyped
<1>6. Stored' = Stored
  BY <1>1, SameStored
<1> HIDE DEF v, x
<1>7. Asked' = Asked \cup {x} /\ Sent' = Sent \cup {x}
  BY <1>1, <1>2, <1>6 DEF Asked, Sent
<1>8. \A y \in Sent : y.agent = a => y.nonce < nonce
  <2> SUFFICES ASSUME NEW y \in Sent, y.agent = a PROVE y.nonce < nonce
    OBVIOUS
  <2>1. y.nonce <= nonces[a]
    BY DEF NoncesHold, NoncesBound
  <2> QED
    BY <1>1, <1>4, <2>1
<1>9. OneEach'
  <2>1. \A w \in waiting : w.request.action.id # id
    BY <1>1 DEF WaitingRemembered
  <2> QED
    BY <1>1, <1>2, <2>1 DEF NoncesHold, OneEach
<1>10. ReservedWaits'
  BY <1>3, <1>7 DEF NoncesHold, ReservedWaits
<1>11. UnstoredWaits'
  <2>1. x \notin Stored
    BY <1>2, <1>4, <1>8 DEF Sent
  <2> QED
    BY <1>1, <1>2, <1>6, <2>1 DEF NoncesHold, UnstoredWaits
<1>12. NoncesBound'
  <2> SUFFICES ASSUME NEW y \in Sent' PROVE y.nonce <= nonces'[y.agent] /\ y.tick <= mirror'.tick
    BY DEF NoncesBound
  <2>1. CASE y = x
    BY <1>1, <1>2, <1>4, <1>5, <2>1
  <2>2. CASE y \in Sent
    <3>1. y.nonce <= nonces[y.agent] /\ y.tick <= mirror.tick
      BY <2>2 DEF NoncesHold, NoncesBound
    <3> QED
      BY <1>1, <1>4, <1>5, <1>8, <2>2, <3>1
  <2> QED
    BY <1>7, <2>1, <2>2
<1>13. GapsHold'
  <2>0. \A r \in reservations' : r.previous < r.action.nonce
    BY <1>1, <1>2, <1>3, <1>4 DEF NoncesHold, GapsHold
  <2> SUFFICES ASSUME NEW r \in reservations', NEW y \in Sent',
                      y.agent = r.action.agent, y # r.action
               PROVE  y.nonce <= r.previous \/ y.nonce > r.action.nonce
    BY <2>0 DEF GapsHold
  <2>1. CASE r \in reservations /\ y \in Sent
    BY <2>1 DEF NoncesHold, GapsHold
  <2>2. CASE r \in reservations /\ y = x
    <3>1. r.action \in Sent
      BY <2>2 DEF NoncesHold, ReservedWaits, Sent
    <3> QED
      BY <1>2, <1>4, <1>8, <2>2, <3>1
  <2>3. CASE r = [action |-> x, previous |-> nonces[a]] /\ y \in Sent
    BY <1>2, <2>3 DEF NoncesHold, NoncesBound
  <2> QED
    BY <1>3, <1>7, <2>1, <2>2, <2>3
<1>14. NoncesGrow'
  <2> SUFFICES ASSUME NEW y \in Sent', NEW z \in Sent', y.agent = z.agent, y.tick < z.tick
               PROVE  y.nonce < z.nonce
    BY DEF NoncesGrow
  <2>1. CASE y \in Sent /\ z \in Sent
    BY <2>1 DEF NoncesHold, NoncesGrow
  <2>2. CASE y \in Sent /\ z = x
    BY <1>2, <1>8, <2>2
  <2>3. CASE y = x /\ z \in Sent
    <3>1. z.tick <= mirror.tick
      BY <2>3 DEF NoncesHold, NoncesBound
    <3> QED
      BY <1>2, <1>4, <2>3, <3>1
  <2>4. CASE y = x /\ z = x
    BY <1>2, <1>4, <2>4
  <2> QED
    BY <1>7, <2>1, <2>2, <2>3, <2>4
<1> QED
  BY <1>9, <1>10, <1>11, <1>12, <1>13, <1>14

\* A request that is given up takes its action with it, and its own reservation.
LEMMA GivenUp ==
  ASSUME Typed, ~Unreliable, NoncesHold, NEW w \in waiting,
         waiting' = waiting \ {w}, w.answer # "queued", Rollback(w.request.action),
         UNCHANGED <<queue, processing, applied, rejected, accepted>>
  PROVE  LET x == w.request.action IN
         /\ x \in Action /\ x \notin Stored /\ Stored' = Stored
         /\ Asked' = Asked \ {x} /\ Sent' = Sent \ {x}
         /\ reservations' = {r \in reservations : r.action # x}
         /\ \A r \in reservations' : r \in reservations /\ r.action \in Asked'
         /\ \/ /\ \A r \in reservations : r.action # x
               /\ UNCHANGED <<nonces, slots, slotTick, reservations>>
            \/ \E r \in reservations :
                 /\ r.action = x
                 /\ nonces' = RollbackNonce(x.agent, x.nonce, r.previous)
                 /\ slots' = IF slotTick = x.tick /\ slots[x.agent] > 0
                             THEN [slots EXCEPT ![x.agent] = @ - 1] ELSE slots
                 /\ slotTick' = slotTick
<1> DEFINE x == w.request.action
<1>1. OneEach /\ ReservedWaits /\ UnstoredWaits
  BY DEF NoncesHold
<1>2. x \in Action /\ x \in Asked
  BY SentTyped DEF Asked
<1>3. x \notin Stored /\ Stored' = Stored
  BY <1>1, SameStored DEF UnstoredWaits
<1>4. Asked' = Asked \ {x}
  <2>1. \A v \in waiting : v # w => v.request.action.id # x.id
    BY <1>1 DEF OneEach
  <2> QED
    BY <2>1 DEF Asked
<1>5. Sent' = Sent \ {x}
  BY <1>3, <1>4 DEF Sent
<1>6. \A r \in reservations : r.action.id = x.id => r.action = x
  BY <1>1 DEF OneEach, ReservedWaits, Asked
<1>7. reservations' = {r \in reservations : r.action # x}
  <2>1. \/ reservations' = reservations /\ \A r \in reservations : r.action.id # x.id
        \/ reservations' = {r \in reservations : r.action.id # x.id}
    BY RollbackFacts
  <2> QED
    BY <1>6, <2>1
<1>8. \A r \in reservations' : r.action \in Asked'
  BY <1>1, <1>4, <1>7 DEF ReservedWaits
<1>9. \/ /\ \A r \in reservations : r.action # x
         /\ UNCHANGED <<nonces, slots, slotTick, reservations>>
      \/ \E r \in reservations :
           /\ r.action = x
           /\ nonces' = RollbackNonce(x.agent, x.nonce, r.previous)
           /\ slots' = IF slotTick = x.tick /\ slots[x.agent] > 0
                       THEN [slots EXCEPT ![x.agent] = @ - 1] ELSE slots
           /\ slotTick' = slotTick
  <2>1. CASE /\ \A r \in reservations : r.action.id # x.id
             /\ UNCHANGED <<nonces, seen, reservations, slots, slotTick>>
    BY <2>1
  <2>2. CASE \E r \in reservations :
              /\ r.action.id = x.id
              /\ nonces' = RollbackNonce(r.action.agent, r.action.nonce, r.previous)
              /\ seen' = Forget(x.id)
              /\ reservations' = {s \in reservations : s.action.id # x.id}
              /\ slots' = IF slotTick = r.action.tick /\ slots[r.action.agent] > 0
                          THEN [slots EXCEPT ![r.action.agent] = @ - 1] ELSE slots
              /\ slotTick' = slotTick
    <3> HIDE DEF x
    <3>1. PICK r \in reservations :
              /\ r.action.id = x.id
              /\ nonces' = RollbackNonce(r.action.agent, r.action.nonce, r.previous)
              /\ slots' = IF slotTick = r.action.tick /\ slots[r.action.agent] > 0
                          THEN [slots EXCEPT ![r.action.agent] = @ - 1] ELSE slots
              /\ slotTick' = slotTick
      BY <2>2
    <3>2. r.action = x
      BY <1>6, <3>1
    <3> QED
      BY <3>1, <3>2
  <2> QED
    BY <2>1, <2>2, RollbackFacts
<1> QED
  BY <1>2, <1>3, <1>4, <1>5, <1>7, <1>8, <1>9

LEMMA NoncesAfterGivingUp ==
  ASSUME Typed, ~Unreliable, NoncesHold, NEW w \in waiting,
         waiting' = waiting \ {w}, w.answer # "queued", Rollback(w.request.action),
         UNCHANGED <<queue, processing, applied, rejected, accepted>>,
         mirror.tick <= mirror'.tick, mirror'.tick \in Int
  PROVE  /\ OneEach' /\ ReservedWaits' /\ UnstoredWaits'
         /\ NoncesBound' /\ GapsHold' /\ NoncesGrow'
<1> DEFINE x == w.request.action
<1>0. VerifierTyped /\ RedisTyped
  BY TypedParts
<1>1. /\ x \in Action /\ x \notin Stored /\ Stored' = Stored
      /\ Sent' = Sent \ {x}
      /\ \A r \in reservations' : r \in reservations /\ r.action \in Asked'
      /\ \/ nonces' = nonces
         \/ \E r \in reservations : /\ r.action = x
                                    /\ nonces' = RollbackNonce(x.agent, x.nonce, r.previous)
  BY GivenUp
<1>2. /\ OneEach /\ UnstoredWaits /\ NoncesBound /\ GapsHold /\ NoncesGrow
  BY DEF NoncesHold
<1>3. OneEach' /\ ReservedWaits' /\ UnstoredWaits' /\ NoncesGrow'
  BY <1>1, <1>2 DEF OneEach, ReservedWaits, UnstoredWaits, NoncesGrow
<1>4. GapsHold'
  BY <1>1, <1>2 DEF GapsHold
<1>5. /\ \A y \in Sent : y.nonce \in Int /\ y.tick \in Int /\ y.agent \in Agents
      /\ x.agent \in Agents /\ x.nonce \in Int /\ mirror.tick \in Int
      /\ \A r \in reservations : r.previous \in Int
      /\ nonces \in [Agents -> Int]
  BY <1>0, <1>1, SentTyped DEF VerifierTyped, RedisTyped, Action, Ticks
<1>6. NoncesBound'
  <2> SUFFICES ASSUME NEW y \in Sent' PROVE y.nonce <= nonces'[y.agent] /\ y.tick <= mirror'.tick
    BY DEF NoncesBound
  <2>1. y \in Sent /\ y # x /\ y.nonce <= nonces[y.agent] /\ y.tick <= mirror.tick
    BY <1>1, <1>2 DEF NoncesBound
  <2>2. y.tick <= mirror'.tick
    BY <1>5, <2>1
  <2>3. CASE nonces' = nonces
    BY <2>1, <2>2, <2>3
  <2>4. CASE \E r \in reservations : /\ r.action = x
                                     /\ nonces' = RollbackNonce(x.agent, x.nonce, r.previous)
    <3>1. PICK r \in reservations : /\ r.action = x
                                    /\ nonces' = RollbackNonce(x.agent, x.nonce, r.previous)
      BY <2>4
    <3>2. CASE nonces[x.agent] = x.nonce /\ y.agent = x.agent
      <4>1. nonces'[y.agent] = r.previous
        BY <1>5, <3>1, <3>2 DEF RollbackNonce
      <4>2. y.nonce <= r.previous \/ y.nonce > x.nonce
        BY <1>2, <2>1, <3>1, <3>2 DEF GapsHold
      <4> QED
        BY <1>5, <2>1, <2>2, <3>2, <4>1, <4>2
    <3>3. CASE nonces[x.agent] # x.nonce \/ y.agent # x.agent
      <4>1. nonces'[y.agent] = nonces[y.agent]
        BY <1>5, <2>1, <3>1, <3>3 DEF RollbackNonce
      <4> QED
        BY <2>1, <2>2, <4>1
    <3> QED
      BY <3>2, <3>3
  <2> QED
    BY <1>1, <2>3, <2>4
<1> QED
  BY <1>3, <1>4, <1>6

LEMMA NoncesKept ==
  ASSUME Typed, DeliveredIsDecided, EngineHolds, RequestsHold, NoncesHold, WaitingRemembered,
         Next, Typed'
  PROVE  NoncesHold'
<1>0. Unreliable' = Unreliable
  BY ConfigKept, SameConfig
<1> SUFFICES ASSUME ~Unreliable
             PROVE  /\ OneEach' /\ ReservedWaits' /\ UnstoredWaits'
                    /\ NoncesBound' /\ GapsHold' /\ NoncesGrow'
  BY <1>0 DEF NoncesHold
<1>1. mirror.tick \in Int /\ mirror'.tick \in Int /\ mirror.tick <= mirror'.tick
  <2>1. mirror \in [tick : 0..LastTick, sealed : BOOLEAN, sealAt : Nat]
        /\ mirror' \in [tick : 0..LastTick, sealed : BOOLEAN, sealAt : Nat]
    BY DEF Typed, TypeOK
  <2>2. mirror.tick <= mirror'.tick
    BY ClocksStep
  <2> QED
    BY <2>1, <2>2
<1>2. OneEach /\ ReservedWaits /\ UnstoredWaits /\ NoncesBound /\ GapsHold /\ NoncesGrow
  BY DEF NoncesHold
<1>3. CASE \E a \in Agents, id \in Ids, nonce \in 0..MaxNonce : Submit(a, id, nonce)
  BY <1>3, NoncesAfterSubmit
<1>4. CASE \E w \in waiting : Accept(w)
  <2>1. PICK w \in waiting : Accept(w)
    BY <1>4
  <2>2. /\ waiting' = waiting \ {w} /\ UNCHANGED <<nonces, wire>>
        /\ reservations' = {r \in reservations : r.action.id # w.request.action.id}
    BY <2>1 DEF Accept, redisVars
  <2>3. Stored' \subseteq Stored
    <3>1. ASSUME NEW request \in wire, Push(request), Len(queue[request.action.tick]) < QueueCap
          PROVE  FALSE
      BY <2>2, <3>1 DEF Push
    <3> QED
      BY <3>1, StoredStep
  <2>4. Sent' \subseteq Sent
    BY <2>2, <2>3 DEF Sent, Asked
  <2>5. OneEach' /\ UnstoredWaits'
    BY <1>2, <2>2, <2>3 DEF OneEach, UnstoredWaits
  <2>6. ReservedWaits'
    BY <1>2, <2>2 DEF ReservedWaits, Asked
  <2> QED
    BY <1>1, <1>2, <2>2, <2>4, <2>5, <2>6, NonceOrderKept
<1>5. CASE \E w \in waiting : /\ waiting' = waiting \ {w} /\ w.answer # "queued"
                              /\ Rollback(w.request.action)
                              /\ UNCHANGED <<queue, processing, applied, rejected, accepted>>
  BY <1>1, <1>5, NoncesAfterGivingUp
<1>6. ASSUME waiting' = waiting \/ \E request \in wire : Push(request),
             reservations' \subseteq reservations, nonces' = nonces
      PROVE  /\ OneEach' /\ ReservedWaits' /\ UnstoredWaits'
             /\ NoncesBound' /\ GapsHold' /\ NoncesGrow'
  <2>1. CASE \E request \in wire : Push(request)
    <3>1. PICK request \in wire : Push(request)
      BY <2>1
    <3>2. Asked' = Asked /\ request.action \in Asked
      BY <3>1, PushKeepsAsked
    <3>3. /\ waiting' = {Told(w, request) : w \in waiting}
          /\ \A w \in waiting :
               /\ Told(w, request).request = w.request
               /\ w.request # request => Told(w, request) = w
               /\ w.request = request /\ Len(queue[request.action.tick]) >= QueueCap
                    => Told(w, request).answer = "full"
               /\ w.request = request /\ ~(Len(queue[request.action.tick]) >= QueueCap)
                    => Told(w, request).answer = "queued"
      BY <3>1, TypedParts, PushAnswers
    <3> HIDE DEF Told
    <3>4. UNCHANGED <<processing, applied, rejected, accepted>>
      BY <3>1 DEF Push, engineVars
    <3>5. \/ Stored' = Stored
          \/ Stored' \subseteq Stored \cup {request.action}
             /\ ~(Len(queue[request.action.tick]) >= QueueCap)
      <4>1. CASE queue' = queue
        BY <3>4, <4>1, SameStored
      <4>2. CASE queue' # queue
        <5>1. /\ Len(queue[request.action.tick]) < QueueCap
              /\ \A t \in Ticks : ToSet(queue'[t]) \subseteq ToSet(queue[t]) \cup {request.action}
          BY <3>1, <4>2, PushAdds
        <5>2. ~(Len(queue[request.action.tick]) >= QueueCap)
          BY <3>1, <4>2 DEF Push
        <5> QED
          BY <3>4, <5>1, <5>2 DEF Stored, Decided
      <4> QED
        BY <4>1, <4>2
    <3>6. Sent' \subseteq Sent
      BY <3>2, <3>5 DEF Sent
    <3>7. OneEach'
      BY <1>2, <3>3 DEF OneEach
    <3>8. ReservedWaits'
      BY <1>2, <1>6, <3>2 DEF ReservedWaits
    <3>9. UnstoredWaits'
      <4> SUFFICES ASSUME NEW v \in waiting', v.request.action \in Stored'
                   PROVE  v.answer = "queued"
        BY DEF UnstoredWaits
      <4>1. PICK w \in waiting : v = Told(w, request) /\ v.request = w.request
        BY <3>3
      <4>2. PICK u \in waiting : u.request = request
        BY <3>1 DEF RequestsHold
      <4>3. u.answer = "none"
        BY <4>2 DEF RequestsHold
      <4>4. request.action \notin Stored
        BY <1>2, <4>2, <4>3 DEF UnstoredWaits
      <4>5. CASE w.request = request
        BY <3>3, <3>5, <4>1, <4>4, <4>5
      <4>6. CASE w.request # request
        <5>1. w.request.action # request.action /\ v = w
          BY <1>2, <3>3, <4>1, <4>2, <4>6 DEF OneEach
        <5> QED
          BY <1>2, <3>5, <4>1, <5>1 DEF UnstoredWaits
      <4> QED
        BY <4>5, <4>6
    <3> QED
      BY <1>1, <1>2, <1>6, <3>6, <3>7, <3>8, <3>9, NonceOrderKept
  <2>2. CASE waiting' = waiting /\ ~(\E request \in wire : Push(request))
    <3>1. Stored' \subseteq Stored
      BY <2>2, StoredStep
    <3>2. Asked' = Asked /\ Sent' \subseteq Sent
      BY <2>2, <3>1 DEF Asked, Sent
    <3>3. OneEach' /\ ReservedWaits' /\ UnstoredWaits'
      BY <1>2, <1>6, <2>2, <3>1, <3>2 DEF OneEach, ReservedWaits, UnstoredWaits
    <3> QED
      BY <1>1, <1>2, <1>6, <3>2, <3>3, NonceOrderKept
  <2> QED
    BY <1>6, <2>1, <2>2
<1> QED
  BY <1>3, <1>4, <1>5, <1>6, VerifierStep

-----------------------------------------------------------------------------
(* Slots *)

\* Actions that hold a slot, and those of agent a in tick t.
Held == accepted \cup Asked
Holding(a, t) == {x \in Held : x.agent = a /\ x.tick = t}

\* The count of the latest tick covers every action that holds a slot of it.
CountsCover ==
  \A a \in Agents, t \in Ticks :
    /\ IsFiniteSet(Holding(a, t))
    /\ Cardinality(Holding(a, t)) <= IF slotTick = t THEN slots[a] ELSE Slots

SlotsHold ==
  ~Unreliable =>
    /\ slotTick <= mirror.tick
    /\ \A x \in Held : x.tick <= slotTick
    /\ CountsCover

LEMMA SlotsAfterSubmit ==
  ASSUME Typed, ~Unreliable, SlotsHold,
         NEW b \in Agents, NEW id \in Ids, NEW nonce \in 0..MaxNonce, Submit(b, id, nonce)
  PROVE  /\ slotTick' <= mirror'.tick
         /\ \A x \in Held' : x.tick <= slotTick'
         /\ CountsCover'
<1> DEFINE m == mirror.tick
           x == [agent |-> b, id |-> id, nonce |-> nonce, tick |-> m]
           request == [action |-> x, try |-> tries[id] + 1]
           v == [request |-> request, sent |-> now, answer |-> "none"]
<1>0. VerifierTyped /\ RedisTyped /\ EngineTyped
  BY TypedParts
<1>1. /\ waiting' = waiting \cup {v} /\ UNCHANGED <<accepted, mirror, config>>
      /\ Reserve(x, m)
  BY DEF Submit, redisVars
<1>2. /\ v.request.action = x /\ x.agent = b /\ x.tick = m
  OBVIOUS
<1>3. /\ slots' = [SlotsTaken(m) EXCEPT ![b] = @ + 1] /\ slotTick' = m
      /\ SlotsTaken(m)[b] < Slots
  BY <1>1, <1>2 DEF Reserve
<1>4. /\ m \in Int /\ slotTick \in Int /\ Slots \in Nat /\ slots \in [Agents -> 0..Slots]
      /\ slots \in [Agents -> Int]
      /\ \A y \in Held : y.tick \in Int
      /\ Agents' = Agents
  <2>1. \A y \in Held : y \in Action
    BY SentTyped DEF Held
  <2>2. Slots \in Nat
    BY <1>0, Settings DEF EngineTyped
  <2> QED
    BY <1>0, <1>1, <2>1, <2>2, SameConfig DEF VerifierTyped, RedisTyped, Action, Ticks
<1>5. /\ slotTick <= m /\ \A y \in Held : y.tick <= slotTick
      /\ CountsCover
  BY DEF SlotsHold
<1> HIDE DEF v, x
<1>6. Held' = Held \cup {x}
  BY <1>1, <1>2 DEF Held, Asked
<1>7. \A y \in Held' : y.tick <= slotTick'
  <2> SUFFICES ASSUME NEW y \in Held' PROVE y.tick <= m
    BY <1>3
  <2>1. CASE y \in Held
    BY <1>4, <1>5, <2>1
  <2>2. CASE y = x
    BY <1>2, <1>4, <2>2
  <2> QED
    BY <1>6, <2>1, <2>2
<1>8. ASSUME NEW a \in Agents, NEW t \in Ticks
      PROVE  /\ IsFiniteSet(Holding(a, t)')
             /\ Cardinality(Holding(a, t)') <= IF m = t THEN slots'[a] ELSE Slots
  <2>1. /\ IsFiniteSet(Holding(a, t)) /\ Cardinality(Holding(a, t)) \in Nat
        /\ Cardinality(Holding(a, t)) <= IF slotTick = t THEN slots[a] ELSE Slots
    BY <1>5, FS_CardinalityType DEF CountsCover
  <2>2. CASE t # m \/ a # b
    <3>1. Holding(a, t)' = Holding(a, t)
      BY <1>2, <1>6, <2>2 DEF Holding
    <3>2. CASE t # m
      BY <1>4, <2>1, <3>1, <3>2
    <3>3. CASE t = m /\ slotTick = m
      <4>1. slots'[a] = slots[a]
        BY <1>3, <1>4, <2>2, <3>3 DEF SlotsTaken
      <4> QED
        BY <2>1, <3>1, <3>3, <4>1
    <3>4. CASE t = m /\ slotTick # m
      <4>1. slots'[a] = 0
        BY <1>3, <2>2, <3>4 DEF SlotsTaken
      <4>2. Holding(a, t) = {}
        BY <1>4, <1>5, <3>4 DEF Holding
      <4> QED
        BY <3>1, <3>4, <4>1, <4>2, FS_EmptySet
    <3> QED
      BY <3>2, <3>3, <3>4
  <2>3. CASE t = m /\ a = b
    <3>1. Holding(a, t)' = Holding(a, t) \cup {x}
      BY <1>2, <1>6, <2>3 DEF Holding
    <3>2. /\ IsFiniteSet(Holding(a, t)')
          /\ Cardinality(Holding(a, t)') <= Cardinality(Holding(a, t)) + 1
      BY <2>1, <3>1, FS_AddElement
    <3>3. Cardinality(Holding(a, t)') \in Nat
      BY <3>2, FS_CardinalityType
    <3>4. CASE slotTick = m
      <4>1. slots'[a] = slots[a] + 1
        BY <1>3, <1>4, <2>3, <3>4 DEF SlotsTaken
      <4> QED
        BY <1>4, <2>1, <2>3, <3>2, <3>3, <3>4, <4>1
    <3>5. CASE slotTick # m
      <4>1. slots'[a] = 1
        BY <1>3, <2>3, <3>5 DEF SlotsTaken
      <4>2. Holding(a, t) = {}
        BY <1>4, <1>5, <2>3, <3>5 DEF Holding
      <4>3. Cardinality(Holding(a, t)) = 0
        BY <4>2, FS_EmptySet
      <4> QED
        BY <2>3, <3>2, <3>3, <4>1, <4>3
    <3> QED
      BY <3>4, <3>5
  <2> QED
    BY <2>2, <2>3
<1>9. CountsCover'
  BY <1>3, <1>4, <1>8 DEF CountsCover
<1> QED
  BY <1>1, <1>3, <1>4, <1>7, <1>9

\* A count that stays covers fewer actions.
LEMMA SlotsAfterFewer ==
  ASSUME Typed, ~Unreliable, SlotsHold, Held' \subseteq Held, UNCHANGED <<slots, slotTick>>,
         config' = config
  PROVE  /\ \A x \in Held' : x.tick <= slotTick'
         /\ CountsCover'
<1>0. VerifierTyped /\ EngineTyped /\ Slots \in Nat /\ Agents' = Agents
  BY TypedParts, Settings, SameConfig DEF EngineTyped
<1>1. ASSUME NEW a \in Agents, NEW t \in Ticks
      PROVE  /\ IsFiniteSet(Holding(a, t)')
             /\ Cardinality(Holding(a, t)') <= IF slotTick = t THEN slots[a] ELSE Slots
  <2>1. /\ IsFiniteSet(Holding(a, t)) /\ Cardinality(Holding(a, t)) \in Nat
        /\ Cardinality(Holding(a, t)) <= IF slotTick = t THEN slots[a] ELSE Slots
    BY FS_CardinalityType DEF SlotsHold, CountsCover
  <2>2. Holding(a, t)' \in SUBSET Holding(a, t)
    BY DEF Holding
  <2>3. IsFiniteSet(Holding(a, t)') /\ Cardinality(Holding(a, t)') <= Cardinality(Holding(a, t))
    BY <2>1, <2>2, FS_Subset
  <2>4. Cardinality(Holding(a, t)') \in Nat /\ slots[a] \in Int
    BY <1>0, <2>3, FS_CardinalityType DEF VerifierTyped
  <2> QED
    BY <1>0, <2>1, <2>3, <2>4
<1>2. CountsCover'
  BY <1>0, <1>1 DEF CountsCover
<1> QED
  BY <1>2 DEF SlotsHold

LEMMA SlotsAfterGivingUp ==
  ASSUME Typed, ~Unreliable, NoncesHold, SlotsHold, NEW w \in waiting,
         waiting' = waiting \ {w}, w.answer # "queued", Rollback(w.request.action),
         UNCHANGED <<queue, processing, applied, rejected, accepted>>, config' = config
  PROVE  /\ slotTick' = slotTick
         /\ \A x \in Held' : x.tick <= slotTick'
         /\ CountsCover'
<1> DEFINE x == w.request.action
<1>0. VerifierTyped /\ EngineTyped /\ Slots \in Nat /\ Agents' = Agents
  BY TypedParts, Settings, SameConfig DEF EngineTyped
<1>1. /\ x \in Action /\ x \notin Stored /\ Asked' = Asked \ {x} /\ slotTick' = slotTick
      /\ \/ slots' = slots
         \/ slots' = IF slotTick = x.tick /\ slots[x.agent] > 0
                     THEN [slots EXCEPT ![x.agent] = @ - 1] ELSE slots
  BY GivenUp
<1>2. Held' = Held \ {x} /\ x \in Held
  BY <1>1 DEF Held, Stored, Asked
<1> HIDE DEF x
<1>3. CASE slots' = slots
  BY <1>1, <1>2, <1>3, SlotsAfterFewer
<1>4. CASE slotTick = x.tick /\ slots' = [slots EXCEPT ![x.agent] = @ - 1]
  <2>1. ASSUME NEW a \in Agents, NEW t \in Ticks
        PROVE  /\ IsFiniteSet(Holding(a, t)')
               /\ Cardinality(Holding(a, t)') <= IF slotTick = t THEN slots'[a] ELSE Slots
    <3>1. /\ IsFiniteSet(Holding(a, t)) /\ Cardinality(Holding(a, t)) \in Nat
          /\ Cardinality(Holding(a, t)) <= IF slotTick = t THEN slots[a] ELSE Slots
      BY FS_CardinalityType DEF SlotsHold, CountsCover
    <3>2. Holding(a, t)' = Holding(a, t) \ {x}
      BY <1>2 DEF Holding
    <3>3. /\ IsFiniteSet(Holding(a, t)')
          /\ Cardinality(Holding(a, t)') = IF x \in Holding(a, t)
                                           THEN Cardinality(Holding(a, t)) - 1
                                           ELSE Cardinality(Holding(a, t))
      BY <3>1, <3>2, FS_RemoveElement
    <3>4. slots \in [Agents -> Int] /\ slots[a] \in Int
      BY <1>0 DEF VerifierTyped
    <3>5. CASE slotTick = t /\ a = x.agent
      <4>1. x \in Holding(a, t)
        BY <1>2, <1>4, <3>5 DEF Holding
      <4>2. slots'[a] = slots[a] - 1
        BY <1>4, <3>4, <3>5
      <4> QED
        BY <3>1, <3>3, <3>4, <3>5, <4>1, <4>2
    <3>6. CASE slotTick = t /\ a # x.agent
      <4>1. slots'[a] = slots[a]
        BY <1>4, <3>4, <3>6
      <4> QED
        BY <3>1, <3>3, <3>4, <3>6, <4>1
    <3>7. CASE slotTick # t
      BY <1>0, <3>1, <3>3, <3>7
    <3> QED
      BY <3>5, <3>6, <3>7
  <2>2. CountsCover'
    BY <1>0, <1>1, <2>1 DEF CountsCover
  <2> QED
    BY <1>1, <1>2, <2>2 DEF SlotsHold
<1> QED
  BY <1>1, <1>3, <1>4

LEMMA SlotsKept ==
  ASSUME Typed, EngineHolds, RequestsHold, NoncesHold, SlotsHold, Next, Typed'
  PROVE  SlotsHold'
<1>0. Unreliable' = Unreliable /\ config' = config
  BY ConfigKept, SameConfig
<1> SUFFICES ASSUME ~Unreliable
             PROVE  /\ slotTick' <= mirror'.tick
                    /\ \A x \in Held' : x.tick <= slotTick'
                    /\ CountsCover'
  BY <1>0 DEF SlotsHold
<1>1. /\ slotTick' = slotTick => slotTick' <= mirror'.tick
  <2>1. /\ mirror \in [tick : 0..LastTick, sealed : BOOLEAN, sealAt : Nat]
        /\ mirror' \in [tick : 0..LastTick, sealed : BOOLEAN, sealAt : Nat]
        /\ slotTick \in -1..LastTick
    BY DEF Typed, TypeOK
  <2>2. mirror.tick <= mirror'.tick /\ slotTick <= mirror.tick
    BY ClocksStep DEF SlotsHold
  <2> QED
    BY <2>1, <2>2
<1>2. CASE \E a \in Agents, id \in Ids, nonce \in 0..MaxNonce : Submit(a, id, nonce)
  BY <1>2, SlotsAfterSubmit
<1>3. CASE \E w \in waiting : Accept(w)
  <2>1. PICK w \in waiting : Accept(w)
    BY <1>3
  <2>2. waiting' = waiting \ {w} /\ UNCHANGED <<slots, slotTick>>
        /\ accepted' = accepted \cup {w.request.action}
    BY <2>1 DEF Accept
  <2>3. Held' \subseteq Held
    BY <2>2 DEF Held, Asked
  <2> QED
    BY <1>0, <1>1, <2>2, <2>3, SlotsAfterFewer
<1>4. CASE \E w \in waiting : /\ waiting' = waiting \ {w} /\ w.answer # "queued"
                              /\ Rollback(w.request.action)
                              /\ UNCHANGED <<queue, processing, applied, rejected, accepted>>
  BY <1>0, <1>1, <1>4, SlotsAfterGivingUp
<1>5. ASSUME waiting' = waiting \/ \E request \in wire : Push(request),
             UNCHANGED <<slots, slotTick, accepted>>
      PROVE  /\ slotTick' <= mirror'.tick
             /\ \A x \in Held' : x.tick <= slotTick'
             /\ CountsCover'
  <2>1. Asked' = Asked
    BY <1>5, PushKeepsAsked DEF Asked
  <2>2. Held' \subseteq Held
    BY <1>5, <2>1 DEF Held
  <2> QED
    BY <1>0, <1>1, <1>5, <2>2, SlotsAfterFewer
<1> QED
  BY <1>2, <1>3, <1>4, <1>5, VerifierStep

-----------------------------------------------------------------------------
(* Refused requests *)

\* While nothing fails and the engine controls somebody, it drains every tick.
Untroubled == faults = 0 /\ Controlled # {}

DrainsHold ==
  Untroubled =>
    \A t \in Ticks : t < tick \/ (t = tick /\ phase \in {"decided", "done"}) => t \in drained

\* Nonce n of agent a is that of an accepted action, or no nonce at all.
Backed(a, n) == n = -1 \/ \E x \in accepted : x.agent = a /\ x.nonce = n

\* With one slot, a request that waits has the last nonce of its agent and a reservation
\* that can give back the nonce of an accepted action.
RefusalsHold ==
  Orderly /\ Slots = 1 /\ SealMargin >= PushTimeout /\ Untroubled =>
    /\ \A w \in waiting :
         /\ \E r \in reservations : r.action = w.request.action
         /\ nonces[w.request.action.agent] = w.request.action.nonce
    /\ \A r \in reservations : Backed(r.action.agent, r.previous)
    /\ RefusalsBurnNoNonce

\* Trouble, once met, is not forgotten.
LEMMA TroubleStays ==
  ASSUME Typed, Next, Untroubled'
  PROVE  /\ Untroubled /\ faults' = faults
<1>0. EngineTyped /\ MaxFaults \in Nat /\ Agents' = Agents
  BY TypedParts, Settings, ConfigKept, SameConfig DEF EngineTyped
<1>1. faults \in Nat
  BY <1>0 DEF EngineTyped
<1>2. faults' = 0 /\ Controlled' # {}
  BY DEF Untroubled
<1>3. CASE UNCHANGED <<faults, naturalised>>
  BY <1>0, <1>2, <1>3 DEF Untroubled, Controlled
<1>4. CASE Drain
  <2>1. naturalised \subseteq naturalised' /\ faults' = faults
    BY <1>4 DEF Drain, Decide, FallBack
  <2> QED
    BY <1>0, <1>2, <2>1 DEF Untroubled, Controlled
<1>5. CASE \/ \E request \in wire : LosePush(request)
           \/ RestartGateway \/ OpenTickFails \/ PeekFails \/ DrainFails
  <2>1. faults' = faults + 1
    BY <1>5 DEF LosePush, RestartGateway, OpenTickFails, PeekFails, DrainFails
  <2> QED
    BY <1>1, <1>2, <2>1
<1>6. ASSUME \/ \E a \in Agents, id \in Ids, nonce \in 0..MaxNonce : Submit(a, id, nonce)
             \/ \E id \in Ids : SubmitLate(id)
             \/ \E request \in wire : Push(request)
             \/ \E w \in waiting : Accept(w) \/ RefuseFull(w) \/ TimeOut(w)
             \/ OpenTick \/ Seal \/ SkipDrain \/ NextTick \/ EndRun \/ PassTime
      PROVE  UNCHANGED <<faults, naturalised>>
  BY <1>6 DEF Submit, SubmitLate, Push, Accept, RefuseFull, TimeOut, OpenTick, Seal,
     SkipDrain, NextTick, EndRun, PassTime, engineVars
<1> QED
  BY <1>3, <1>4, <1>5, <1>6 DEF Next, EngineStep

LEMMA DrainsKept ==
  ASSUME Typed, EngineHolds, DrainsHold, Next
  PROVE  DrainsHold'
<1> SUFFICES ASSUME Untroubled',
                    NEW t \in Ticks, t < tick' \/ (t = tick' /\ phase' \in {"decided", "done"})
             PROVE  t \in drained'
  BY DEF DrainsHold
<1>0. tick \in Int /\ t \in Int
  BY DEF Typed, TypeOK, Ticks
<1>1. Untroubled /\ faults' = faults /\ faults = 0
  BY TroubleStays DEF Untroubled
<1>2. t < tick \/ (t = tick /\ phase \in {"decided", "done"}) => t \in drained
  BY <1>1 DEF DrainsHold
<1>3. CASE Drain
  BY <1>2, <1>3 DEF Drain
<1>4. CASE OpenTick \/ Seal
  BY <1>2, <1>4 DEF OpenTick, Seal
<1>5. CASE NextTick
  <2>1. tick' = tick + 1 /\ phase = "decided" /\ phase' = "opening" /\ drained' = drained
    BY <1>5 DEF NextTick
  <2> QED
    BY <1>0, <1>2, <2>1
<1>6. CASE EndRun
  BY <1>2, <1>6 DEF EndRun
<1>7. CASE SkipDrain
  BY <1>1, <1>7 DEF SkipDrain, Untroubled
<1>8. CASE \/ \E request \in wire : LosePush(request)
           \/ RestartGateway \/ OpenTickFails \/ PeekFails \/ DrainFails
  BY <1>1, <1>8 DEF LosePush, RestartGateway, OpenTickFails, PeekFails, DrainFails
<1>9. ASSUME \/ \E a \in Agents, id \in Ids, nonce \in 0..MaxNonce : Submit(a, id, nonce)
             \/ \E id \in Ids : SubmitLate(id)
             \/ \E request \in wire : Push(request)
             \/ \E w \in waiting : Accept(w) \/ RefuseFull(w) \/ TimeOut(w)
             \/ PassTime
      PROVE  UNCHANGED <<tick, phase, drained>>
  BY <1>9 DEF Submit, SubmitLate, Push, Accept, RefuseFull, TimeOut, PassTime, engineVars
<1>10. CASE UNCHANGED <<tick, phase, drained>>
  BY <1>2, <1>10
<1> QED
  BY <1>3, <1>4, <1>5, <1>6, <1>7, <1>8, <1>9, <1>10 DEF Next, EngineStep

\* Then all requests that wait are of the tick the engine is in.
LEMMA WaitingIsCurrent ==
  ASSUME Typed, EngineHolds, RequestsHold, DrainedHolds, DrainsHold,
         Orderly, SealMargin >= PushTimeout, Untroubled, NEW w \in waiting
  PROVE  w.request.action.tick = mirror.tick
<1> DEFINE t == w.request.action.tick
<1>1. t \in Ticks /\ t \in Int /\ tick \in Int /\ mirror.tick \in Int
  <2>1. w.request.action \in Action
    BY SentTyped DEF Asked
  <2> QED
    BY <2>1, TypedParts DEF Action, Ticks, EngineTyped, RedisTyped
<1>2. t \notin drained
  BY DEF DrainedHolds
<1>3. t >= tick
  BY <1>1, <1>2 DEF DrainsHold
<1>4. t <= mirror.tick /\ mirror.tick <= tick
  BY DEF RequestsHold, EngineHolds
<1> QED
  BY <1>1, <1>3, <1>4

LEMMA RefusalsAfterSubmit ==
  ASSUME IInv, NoncesHold, SlotsHold, DrainsHold, RefusalsHold, WaitingRemembered,
         Orderly, Slots = 1, SealMargin >= PushTimeout, Untroubled,
         NEW b \in Agents, NEW id \in Ids, NEW nonce \in 0..MaxNonce, Submit(b, id, nonce)
  PROVE  /\ \A w \in waiting' :
              /\ \E r \in reservations' : r.action = w.request.action
              /\ nonces'[w.request.action.agent] = w.request.action.nonce
         /\ \A r \in reservations' : Backed(r.action.agent, r.previous)'
         /\ RefusalsBurnNoNonce'
<1> DEFINE m == mirror.tick
           x == [agent |-> b, id |-> id, nonce |-> nonce, tick |-> m]
           request == [action |-> x, try |-> tries[id] + 1]
           v == [request |-> request, sent |-> now, answer |-> "none"]
<1> USE DEF IInv
<1>0. Typed /\ VerifierTyped /\ RedisTyped /\ ~Unreliable
  BY TypedParts DEF Orderly
<1>1. /\ waiting' = waiting \cup {v} /\ UNCHANGED <<accepted, mirror, config>>
      /\ Reserve(x, m) /\ id \notin ToSet(seen)
  BY DEF Submit, redisVars
<1>2. /\ v.request.action = x /\ x.agent = b /\ x.tick = m /\ x.nonce = nonce /\ x.id = id
  OBVIOUS
<1>3. /\ SlotsTaken(m)[b] < Slots
      /\ nonces' = [nonces EXCEPT ![b] = nonce]
      /\ reservations' = {r \in reservations : r.action.tick >= m /\ r.action.id # id}
                           \cup {[action |-> x, previous |-> nonces[b]]}
  BY <1>1, <1>2 DEF Reserve
<1>4. nonces'[b] = nonce /\ \A a \in Agents \ {b} : nonces'[a] = nonces[a]
  BY <1>0, <1>3 DEF VerifierTyped
<1> HIDE DEF x, v
<1>5. /\ \A w \in waiting : /\ \E r \in reservations : r.action = w.request.action
                            /\ nonces[w.request.action.agent] = w.request.action.nonce
      /\ \A r \in reservations : Backed(r.action.agent, r.previous)
      /\ RefusalsBurnNoNonce
  BY DEF RefusalsHold
<1>6. \A w \in waiting : /\ w.request.action.tick = m /\ w.request.action.id # id
                         /\ w.request.action.agent \in Agents /\ w.request.action \in Asked
  BY <1>1, WaitingIsCurrent, SentTyped DEF WaitingRemembered, Action, Asked
<1>7. m \in Int /\ slotTick \in Int
  BY <1>0 DEF RedisTyped, VerifierTyped
<1>8. reservations' = reservations \cup {[action |-> x, previous |-> nonces[b]]}
  <2>1. ASSUME NEW r \in reservations PROVE r.action.tick >= m /\ r.action.id # id
    BY <1>0, <1>6, <1>7 DEF NoncesHold, ReservedWaits, Asked
  <2> QED
    BY <1>3, <2>1
<1>9. \A w \in waiting : w.request.action.agent # b
  <2> SUFFICES ASSUME NEW w \in waiting, w.request.action.agent = b PROVE FALSE
    OBVIOUS
  <2>1. w.request.action \in Held /\ w.request.action \in Holding(b, m) /\ m \in Ticks
    BY <1>0, <1>6, SentTyped DEF Held, Holding, Action
  <2>2. slotTick = m
    BY <1>0, <1>6, <1>7, <2>1 DEF SlotsHold
  <2>3. slots[b] = 0
    <3>1. slots[b] < 1 /\ slots[b] \in 0..Slots
      BY <1>0, <1>3, <2>2 DEF SlotsTaken, VerifierTyped
    <3> QED
      BY <3>1
  <2>4. IsFiniteSet(Holding(b, m)) /\ Cardinality(Holding(b, m)) <= 0
    BY <1>0, <2>1, <2>2, <2>3 DEF SlotsHold, CountsCover
  <2>5. Cardinality(Holding(b, m)) = 0
    BY <2>4, FS_CardinalityType
  <2> QED
    BY <2>1, <2>4, <2>5, FS_EmptySet
<1>10. Backed(b, nonces[b])
  BY <1>5, <1>9 DEF RefusalsBurnNoNonce, Backed
<1>11. \A w \in waiting' :
         /\ \E r \in reservations' : r.action = w.request.action
         /\ nonces'[w.request.action.agent] = w.request.action.nonce
  <2> TAKE w \in waiting'
  <2>1. CASE w \in waiting
    BY <1>4, <1>5, <1>6, <1>8, <1>9, <2>1
  <2>2. CASE w = v
    <3>1. [action |-> x, previous |-> nonces[b]].action = x
      OBVIOUS
    <3> QED
      BY <1>2, <1>4, <1>8, <2>2, <3>1
  <2> QED
    BY <1>1, <2>1, <2>2
<1>12. ASSUME NEW r \in reservations' PROVE Backed(r.action.agent, r.previous)'
  <2>1. CASE r \in reservations
    BY <1>1, <1>5, <2>1 DEF Backed
  <2>2. CASE r = [action |-> x, previous |-> nonces[b]]
    BY <1>1, <1>2, <1>10, <2>2 DEF Backed
  <2> QED
    BY <1>8, <2>1, <2>2
<1>13. RefusalsBurnNoNonce'
  <2> SUFFICES ASSUME NEW a \in Agents, \A w \in waiting' : w.request.action.agent # a
               PROVE  nonces'[a] = -1 \/ \E y \in accepted' : y.agent = a /\ y.nonce = nonces'[a]
    BY <1>1, SameConfig DEF RefusalsBurnNoNonce
  <2>1. a # b /\ \A w \in waiting : w.request.action.agent # a
    BY <1>1, <1>2
  <2> QED
    BY <1>1, <1>4, <1>5, <2>1 DEF RefusalsBurnNoNonce
<1> QED
  BY <1>11, <1>12, <1>13

LEMMA RefusalsAfterGivingUp ==
  ASSUME IInv, NoncesHold, RefusalsHold,
         Orderly, Slots = 1, SealMargin >= PushTimeout, Untroubled, NEW w \in waiting,
         waiting' = waiting \ {w}, w.answer # "queued", Rollback(w.request.action),
         UNCHANGED <<queue, processing, applied, rejected, accepted>>, config' = config
  PROVE  /\ \A v \in waiting' :
              /\ \E r \in reservations' : r.action = v.request.action
              /\ nonces'[v.request.action.agent] = v.request.action.nonce
         /\ \A r \in reservations' : Backed(r.action.agent, r.previous)'
         /\ RefusalsBurnNoNonce'
<1> DEFINE x == w.request.action
<1> USE DEF IInv
<1>0. Typed /\ VerifierTyped /\ ~Unreliable
  BY TypedParts DEF Orderly
<1>1. /\ \A v \in waiting : /\ \E r \in reservations : r.action = v.request.action
                            /\ nonces[v.request.action.agent] = v.request.action.nonce
      /\ \A r \in reservations : Backed(r.action.agent, r.previous)
      /\ RefusalsBurnNoNonce
  BY DEF RefusalsHold
<1>2. OneEach /\ GapsHold
  BY <1>0 DEF NoncesHold
<1>3. /\ x \in Action /\ reservations' = {r \in reservations : r.action # x}
      /\ \E r \in reservations :
           r.action = x /\ nonces' = RollbackNonce(x.agent, x.nonce, r.previous)
  BY <1>0, <1>1, GivenUp
<1>4. PICK r \in reservations :
        r.action = x /\ nonces' = RollbackNonce(x.agent, x.nonce, r.previous)
  BY <1>3
<1>5. /\ x.agent \in Agents /\ x.nonce \in Int /\ r.previous \in Int
      /\ r.previous < x.nonce /\ nonces[x.agent] = x.nonce
  BY <1>0, <1>1, <1>2, <1>3, <1>4 DEF Action, VerifierTyped, GapsHold
<1>6. nonces'[x.agent] = r.previous /\ \A a \in Agents \ {x.agent} : nonces'[a] = nonces[a]
  BY <1>0, <1>4, <1>5 DEF VerifierTyped, RollbackNonce
<1>7. ASSUME NEW v \in waiting'
      PROVE  /\ v \in waiting /\ v.request.action # x
             /\ v.request.action.agent \in Agents /\ v.request.action.agent # x.agent
  <2>1. v \in waiting /\ v.request.action # x
    BY <1>2 DEF OneEach
  <2>2. v.request.action \in Sent /\ v.request.action \in Action
    BY <1>0, <2>1, SentTyped DEF Sent, Asked
  <2>3. v.request.action.agent # x.agent
    <3> SUFFICES ASSUME v.request.action.agent = x.agent PROVE FALSE
      OBVIOUS
    <3>1. v.request.action.nonce <= r.previous \/ v.request.action.nonce > x.nonce
      BY <1>2, <1>4, <2>1, <2>2 DEF GapsHold
    <3>2. v.request.action.nonce = x.nonce
      BY <1>1, <1>5, <2>1
    <3> QED
      BY <1>5, <3>1, <3>2
  <2> QED
    BY <2>1, <2>2, <2>3 DEF Action
<1>8. \A v \in waiting' :
        /\ \E s \in reservations' : s.action = v.request.action
        /\ nonces'[v.request.action.agent] = v.request.action.nonce
  BY <1>1, <1>3, <1>6, <1>7
<1>9. \A s \in reservations' : Backed(s.action.agent, s.previous)'
  BY <1>1, <1>3 DEF Backed
<1>10. RefusalsBurnNoNonce'
  <2> SUFFICES ASSUME NEW a \in Agents, \A v \in waiting' : v.request.action.agent # a
               PROVE  nonces'[a] = -1 \/ \E y \in accepted' : y.agent = a /\ y.nonce = nonces'[a]
    BY SameConfig DEF RefusalsBurnNoNonce
  <2>1. CASE a = x.agent
    <3>1. Backed(a, r.previous)
      BY <1>1, <1>4, <2>1
    <3> QED
      BY <1>6, <2>1, <3>1 DEF Backed
  <2>2. CASE a # x.agent
    <3>1. \A v \in waiting : v.request.action.agent # a
      BY <2>2
    <3> QED
      BY <1>1, <1>6, <2>2, <3>1 DEF RefusalsBurnNoNonce
  <2> QED
    BY <2>1, <2>2
<1> QED
  BY <1>8, <1>9, <1>10

LEMMA RefusalsKept ==
  ASSUME IInv, NoncesHold, SlotsHold, DrainsHold, RefusalsHold, WaitingRemembered, Next
  PROVE  RefusalsHold'
<1> USE DEF IInv
<1>0. config' = config /\ Orderly' = Orderly /\ SealMargin' = SealMargin /\ Agents' = Agents
  BY ConfigKept, SameConfig
<1> SUFFICES ASSUME Orderly, Slots = 1, SealMargin >= PushTimeout, Untroubled'
             PROVE  /\ \A w \in waiting' :
                         /\ \E r \in reservations' : r.action = w.request.action
                         /\ nonces'[w.request.action.agent] = w.request.action.nonce
                    /\ \A r \in reservations' : Backed(r.action.agent, r.previous)'
                    /\ RefusalsBurnNoNonce'
  BY <1>0 DEF RefusalsHold
<1>1. Untroubled /\ ~Unreliable
  BY TroubleStays DEF Orderly
<1>2. /\ \A w \in waiting : /\ \E r \in reservations : r.action = w.request.action
                            /\ nonces[w.request.action.agent] = w.request.action.nonce
      /\ \A r \in reservations : Backed(r.action.agent, r.previous)
      /\ RefusalsBurnNoNonce
  BY <1>1 DEF RefusalsHold
<1>3. CASE \E a \in Agents, id \in Ids, nonce \in 0..MaxNonce : Submit(a, id, nonce)
  BY <1>1, <1>3, RefusalsAfterSubmit
<1>4. CASE \E w \in waiting : Accept(w)
  <2>1. PICK w \in waiting : Accept(w)
    BY <1>4
  <2> DEFINE x == w.request.action
  <2>2. /\ waiting' = waiting \ {w} /\ UNCHANGED nonces
        /\ reservations' = {r \in reservations : r.action.id # x.id}
        /\ accepted' = accepted \cup {x}
    BY <2>1 DEF Accept
  <2>3. \A v \in waiting' : v \in waiting /\ v.request.action.id # x.id
    BY <1>1, <2>2 DEF NoncesHold, OneEach
  <2>4. \A v \in waiting' :
          /\ \E r \in reservations' : r.action = v.request.action
          /\ nonces'[v.request.action.agent] = v.request.action.nonce
    BY <1>2, <2>2, <2>3
  <2>5. \A r \in reservations' : Backed(r.action.agent, r.previous)'
    BY <1>2, <2>2 DEF Backed
  <2>6. RefusalsBurnNoNonce'
    <3> SUFFICES ASSUME NEW a \in Agents, \A v \in waiting' : v.request.action.agent # a
                 PROVE  nonces'[a] = -1 \/ \E y \in accepted' : y.agent = a /\ y.nonce = nonces'[a]
      BY <1>0 DEF RefusalsBurnNoNonce
    <3>1. CASE a = x.agent
      BY <1>2, <2>2, <3>1
    <3>2. CASE a # x.agent
      <4>1. \A v \in waiting : v.request.action.agent # a
        BY <2>2, <3>2
      <4> QED
        BY <1>2, <2>2, <4>1 DEF RefusalsBurnNoNonce
    <3> QED
      BY <3>1, <3>2
  <2> QED
    BY <2>4, <2>5, <2>6
<1>5. CASE \E w \in waiting : /\ waiting' = waiting \ {w} /\ w.answer # "queued"
                              /\ Rollback(w.request.action)
                              /\ UNCHANGED <<queue, processing, applied, rejected, accepted>>
  BY <1>0, <1>1, <1>5, RefusalsAfterGivingUp
<1>6. ASSUME waiting' = waiting \/ \E request \in wire : Push(request),
             reservations' \in {reservations,
                                {r \in reservations : r.action.tick >= mirror.tick}},
             UNCHANGED <<nonces, accepted>>
      PROVE  /\ \A w \in waiting' :
                  /\ \E r \in reservations' : r.action = w.request.action
                  /\ nonces'[w.request.action.agent] = w.request.action.nonce
             /\ \A r \in reservations' : Backed(r.action.agent, r.previous)'
             /\ RefusalsBurnNoNonce'
  <2>1. Asked' = Asked
    BY <1>1, <1>6, PushKeepsAsked DEF Asked
  <2>2. reservations' = reservations
    <3>1. ASSUME NEW r \in reservations PROVE r.action.tick >= mirror.tick
      <4>1. r.action.tick = mirror.tick
        BY <1>1, WaitingIsCurrent DEF NoncesHold, ReservedWaits, Asked
      <4>2. mirror.tick \in Int
        BY TypedParts DEF RedisTyped
      <4> QED
        BY <4>1, <4>2
    <3> QED
      BY <1>6, <3>1
  <2>3. \A v \in waiting' : \E w \in waiting : v.request.action = w.request.action
    BY <2>1 DEF Asked
  <2>4. \A w \in waiting : \E v \in waiting' : v.request.action = w.request.action
    BY <2>1 DEF Asked
  <2>5. \A w \in waiting' :
          /\ \E r \in reservations' : r.action = w.request.action
          /\ nonces'[w.request.action.agent] = w.request.action.nonce
    BY <1>2, <1>6, <2>2, <2>3
  <2>6. \A r \in reservations' : Backed(r.action.agent, r.previous)'
    BY <1>2, <1>6, <2>2 DEF Backed
  <2>7. RefusalsBurnNoNonce'
    BY <1>0, <1>2, <1>6, <2>4 DEF RefusalsBurnNoNonce
  <2> QED
    BY <2>5, <2>6, <2>7
<1> QED
  BY <1>1, <1>3, <1>4, <1>5, <1>6, VerifierStep

-----------------------------------------------------------------------------
(* The memory of ids *)

\* The ActionIdLRU has room for every id of the run.
AmpleMemory == IsFiniteSet(Ids) /\ Cardinality(Ids) <= SeenCap

MemoryHolds ==
  AmpleMemory /\ ~Unreliable => IsInjective(seen) /\ WaitingRemembered

\* A memory of different ids has room for one more as long as one is missing.
LEMMA RoomForOne ==
  ASSUME NEW S, IsFiniteSet(S), NEW s \in Seq(S), IsInjective(s), NEW id \in S, id \notin ToSet(s)
  PROVE  Len(s) < Cardinality(S) /\ IsInjective(Append(s, id))
<1> DEFINE n == Len(s)
           u == Append(s, id)
<1>1. /\ n \in Nat /\ u \in Seq(S) /\ Len(u) = n + 1 /\ DOMAIN u = 1..(n+1) /\ u[n+1] = id
      /\ \A i \in 1..n : u[i] = s[i]
  OBVIOUS
<1>2. \A i \in 1..n : s[i] # id
  BY ListElements
<1>3. \A i \in 1..n, j \in 1..n : s[i] = s[j] => i = j
  BY DEF IsInjective
<1> HIDE DEF u
<1>4. ASSUME NEW i \in 1..(n+1), NEW j \in 1..(n+1), u[i] = u[j] PROVE i = j
  <2>1. (i \in 1..n \/ i = n+1) /\ (j \in 1..n \/ j = n+1)
    BY <1>1
  <2> QED
    BY <1>1, <1>2, <1>3, <1>4, <2>1
<1>5. IsInjective(u)
  BY <1>1, <1>4 DEF IsInjective
<1>6. u \in Injection(1..(n+1), S)
  BY <1>1, <1>5 DEF Injection
<1>7. Cardinality(1..(n+1)) = n + 1
  <2>1. 1 \in Int /\ n+1 \in Int /\ ~(1 > n+1)
    BY <1>1
  <2> QED
    BY <1>1, <2>1, FS_Interval
<1>8. n + 1 <= Cardinality(S) /\ Cardinality(S) \in Nat
  BY <1>6, <1>7, FS_Injection, FS_CardinalityType
<1> QED
  BY <1>1, <1>5, <1>8 DEF u

LEMMA MemoryKept ==
  ASSUME IInv, NoncesHold, MemoryHolds, Next
  PROVE  MemoryHolds'
<1> USE DEF IInv
<1>0. AmpleMemory' = AmpleMemory /\ Unreliable' = Unreliable
  BY ConfigKept, SameConfig DEF AmpleMemory
<1> SUFFICES ASSUME AmpleMemory, ~Unreliable PROVE IsInjective(seen') /\ WaitingRemembered'
  BY <1>0 DEF MemoryHolds
<1>1. IsInjective(seen) /\ WaitingRemembered
  BY DEF MemoryHolds
<1>2. seen \in Seq(Ids) /\ Len(seen) <= SeenCap /\ Len(seen) \in Nat
      /\ SeenCap \in Nat /\ SeenCap > 0
  BY TypedParts, Settings DEF VerifierTyped, EngineTyped
<1>3. CASE \E a \in Agents, id \in Ids, nonce \in 0..MaxNonce : Submit(a, id, nonce)
  <2>1. PICK a \in Agents, id \in Ids, nonce \in 0..MaxNonce : Submit(a, id, nonce)
    BY <1>3
  <2>2. /\ id \notin ToSet(seen) /\ seen' = Remember(id)
        /\ \A w \in waiting' : w \in waiting \/ w.request.action.id = id
    BY <2>1 DEF Submit, Reserve
  <2>3. Len(seen) < Cardinality(Ids) /\ IsInjective(Append(seen, id))
    BY <1>1, <1>2, <2>2, RoomForOne DEF AmpleMemory
  <2>4. Len(seen) < SeenCap
    BY <1>2, <2>3, FS_CardinalityType DEF AmpleMemory
  <2>5. seen' = Append(seen, id)
    BY <1>2, <2>2, <2>4, RememberKeeps
  <2>6. ToSet(Append(seen, id)) = ToSet(seen) \cup {id}
    BY <1>2, ListElements
  <2> QED
    BY <1>1, <2>2, <2>3, <2>5, <2>6 DEF WaitingRemembered
<1>4. CASE \E w \in waiting : Accept(w)
  <2>1. waiting' \subseteq waiting /\ seen' = seen
    BY <1>4 DEF Accept
  <2> QED
    BY <1>1, <2>1 DEF WaitingRemembered
<1>5. CASE \E w \in waiting : waiting' = waiting \ {w} /\ Rollback(w.request.action)
  <2>1. PICK w \in waiting : waiting' = waiting \ {w} /\ Rollback(w.request.action)
    BY <1>5
  <2>2. seen' = seen \/ seen' = Forget(w.request.action.id)
    BY <2>1, RollbackFacts
  <2>3. \A v \in waiting' : v \in waiting /\ v.request.action.id # w.request.action.id
    BY <2>1 DEF NoncesHold, OneEach
  <2>4. /\ IsInjective(Forget(w.request.action.id))
        /\ ToSet(seen) \subseteq ToSet(Forget(w.request.action.id)) \cup {w.request.action.id}
    BY <1>1, <1>2, ForgetKeeps
  <2> QED
    BY <1>1, <2>2, <2>3, <2>4 DEF WaitingRemembered
<1>6. ASSUME waiting' = waiting \/ \E request \in wire : Push(request), seen' = seen
      PROVE  IsInjective(seen') /\ WaitingRemembered'
  <2>1. Asked' = Asked
    BY <1>6, PushKeepsAsked DEF Asked
  <2>2. \A v \in waiting' : \E w \in waiting : v.request.action = w.request.action
    BY <2>1 DEF Asked
  <2> QED
    BY <1>1, <1>6, <2>2 DEF WaitingRemembered
<1> QED
  BY <1>3, <1>4, <1>5, <1>6, VerifierStep

-----------------------------------------------------------------------------
(* Theorems *)

\* What a step without effect leaves as it is.
LEMMA RecordsUnchanged ==
  ASSUME UNCHANGED vars
  PROVE  /\ NoncesHold' = NoncesHold /\ SlotsHold' = SlotsHold
         /\ DrainsHold' = DrainsHold /\ RefusalsHold' = RefusalsHold
         /\ MemoryHolds' = MemoryHolds
<1>1. /\ UNCHANGED <<config, now, tick, phase, drained, applied, rejected, naturalised>>
      /\ UNCHANGED <<mirror, queue, processing, nonces, seen, reservations, slots, slotTick>>
      /\ UNCHANGED <<wire, waiting, accepted, faults>>
  BY DEF vars, engineVars, redisVars, verifierVars, requestVars
<1>2. /\ Unreliable' = Unreliable /\ Agents' = Agents /\ SealMargin' = SealMargin
      /\ Orderly' = Orderly /\ Ids' = Ids /\ SeenCap' = SeenCap
  BY <1>1, SameConfig
<1>3. Asked' = Asked /\ Stored' = Stored /\ Sent' = Sent /\ Held' = Held
  BY <1>1, SameStored DEF Asked, Sent, Held
<1>4. NoncesHold' = NoncesHold
  BY <1>1, <1>2, <1>3 DEF NoncesHold, OneEach, ReservedWaits, UnstoredWaits, NoncesBound,
     GapsHold, NoncesGrow
<1>5. SlotsHold' = SlotsHold
  BY <1>1, <1>2, <1>3 DEF SlotsHold, CountsCover, Holding
<1>6. DrainsHold' = DrainsHold /\ Untroubled' = Untroubled
  BY <1>1, <1>2 DEF DrainsHold, Untroubled, Controlled
<1>7. RefusalsHold' = RefusalsHold
  BY <1>1, <1>2, <1>6 DEF RefusalsHold, Backed, RefusalsBurnNoNonce
<1>8. MemoryHolds' = MemoryHolds
  BY <1>1, <1>2 DEF MemoryHolds, AmpleMemory, WaitingRemembered
<1> QED
  BY <1>4, <1>5, <1>6, <1>7, <1>8

LEMMA RecordsInit ==
  ASSUME Init
  PROVE  NoncesHold /\ SlotsHold /\ DrainsHold /\ RefusalsHold /\ MemoryHolds
<1>1. Stored = {}
  BY DEF Init, Stored, Decided, ToSet
<1>2. Asked = {} /\ Sent = {} /\ Held = {}
  BY <1>1 DEF Init, Asked, Sent, Held
<1>3. NoncesHold
  BY <1>2 DEF Init, NoncesHold, OneEach, ReservedWaits, UnstoredWaits, NoncesBound,
     GapsHold, NoncesGrow
<1>4. SlotsHold
  <2>1. \A a \in Agents, t \in Ticks : Holding(a, t) = {}
    BY <1>2 DEF Holding
  <2>2. /\ slotTick = -1 /\ mirror.tick = 0 /\ \A t \in Ticks : slotTick # t
    BY DEF Init, Ticks
  <2>3. Slots \in Nat
    BY HandoffConstants
  <2> QED
    BY <1>2, <2>1, <2>2, <2>3, FS_EmptySet DEF SlotsHold, CountsCover
<1>5. DrainsHold
  BY DEF Init, DrainsHold, Ticks
<1>6. RefusalsHold
  BY DEF Init, RefusalsHold, RefusalsBurnNoNonce
<1>7. MemoryHolds
  BY DEF Init, MemoryHolds, IsInjective, WaitingRemembered
<1> QED
  BY <1>3, <1>4, <1>5, <1>6, <1>7

RecordsHold == NoncesHold /\ SlotsHold /\ DrainsHold /\ RefusalsHold

LEMMA RecordsInvariant == Spec /\ []WaitingRemembered => [](IInv /\ RecordsHold)
<1>1. Init => RecordsHold
  BY RecordsInit DEF RecordsHold
<1>2. IInv /\ IInv' /\ RecordsHold /\ WaitingRemembered /\ [Next]_vars => RecordsHold'
  <2> SUFFICES ASSUME IInv, IInv', RecordsHold, WaitingRemembered, [Next]_vars
               PROVE  RecordsHold'
    OBVIOUS
  <2>1. CASE UNCHANGED vars
    BY <2>1, RecordsUnchanged DEF RecordsHold
  <2>2. CASE Next
    <3>1. Typed' /\ Typed /\ DeliveredIsDecided /\ EngineHolds /\ RequestsHold
      BY DEF IInv
    <3> QED
      BY <2>2, <3>1, NoncesKept, SlotsKept, DrainsKept, RefusalsKept DEF RecordsHold
  <2> QED
    BY <2>1, <2>2
<1> QED
  BY <1>1, <1>2, InvariantHolds, PTL DEF Spec

\* What the records of the gateway say about the actions the engine sees.
LEMMA RecordsTell ==
  ASSUME IInv, RecordsHold
  PROVE  /\ AppliedNoncesIncrease
         /\ ~Unreliable => SlotsRespected
         /\ Slots = 1 /\ SealMargin >= PushTimeout => SlotsAndNoncesHold
<1>1. AppliedNoncesIncrease
  <2> SUFFICES ASSUME Orderly, NEW x \in applied, NEW y \in applied,
                      x.agent = y.agent, x.tick < y.tick
               PROVE  x.nonce < y.nonce
    BY DEF AppliedNoncesIncrease
  <2>1. x \in Sent /\ y \in Sent
    BY DEF Sent, Stored, Decided
  <2> QED
    BY <2>1 DEF RecordsHold, NoncesHold, NoncesGrow, Orderly
<1>2. ~Unreliable => SlotsRespected
  <2> SUFFICES ASSUME ~Unreliable, NEW a \in Agents, NEW t \in Ticks
               PROVE  Cardinality({x \in accepted : x.agent = a /\ x.tick = t}) <= Slots
    BY DEF SlotsRespected
  <2> DEFINE A == {x \in accepted : x.agent = a /\ x.tick = t}
  <2>1. /\ IsFiniteSet(Holding(a, t))
        /\ Cardinality(Holding(a, t)) <= IF slotTick = t THEN slots[a] ELSE Slots
    BY DEF RecordsHold, SlotsHold, CountsCover
  <2>2. A \in SUBSET Holding(a, t)
    BY DEF Holding, Held
  <2>3. slots[a] \in 0..Slots /\ Slots \in Nat
    BY TypedParts, Settings DEF IInv, VerifierTyped, EngineTyped
  <2> HIDE DEF A
  <2>4. IsFiniteSet(A) /\ Cardinality(A) <= Cardinality(Holding(a, t))
    BY <2>1, <2>2, FS_Subset
  <2>5. Cardinality(A) \in Nat /\ Cardinality(Holding(a, t)) \in Nat
    BY <2>1, <2>4, FS_CardinalityType
  <2>6. Cardinality(A) <= Slots
    BY <2>1, <2>3, <2>4, <2>5
  <2> QED
    BY <2>6 DEF A
<1>3. Slots = 1 /\ SealMargin >= PushTimeout => SlotsAndNoncesHold
  BY <1>2 DEF RecordsHold, RefusalsHold, Untroubled, SlotsAndNoncesHold, Orderly
<1> QED
  BY <1>1, <1>2, <1>3

\* An id is never pushed out of the ActionIdLRU while its request waits (verify.py:64-82),
\* if the LRU has room for the ids of the run.
THEOREM MemorySuffices == Spec => [](AmpleMemory /\ ~Unreliable => WaitingRemembered)
<1> DEFINE Inv == MemoryHolds /\ (AmpleMemory => NoncesHold)
<1>1. Init => Inv
  BY RecordsInit
<1>2. IInv /\ IInv' /\ Inv /\ [Next]_vars => Inv'
  <2> SUFFICES ASSUME IInv, IInv', Inv, [Next]_vars PROVE Inv'
    OBVIOUS
  <2>1. CASE UNCHANGED vars
    <3>1. AmpleMemory' = AmpleMemory
      BY <2>1, SameConfig DEF AmpleMemory, vars
    <3> QED
      BY <2>1, <3>1, RecordsUnchanged
  <2>2. CASE Next
    <3>1. AmpleMemory' = AmpleMemory /\ Unreliable' = Unreliable
      BY <2>2, ConfigKept, SameConfig DEF AmpleMemory
    <3>2. CASE AmpleMemory /\ ~Unreliable
      <4>1. WaitingRemembered /\ NoncesHold
        BY <3>2 DEF MemoryHolds
      <4>2. Typed' /\ Typed /\ DeliveredIsDecided /\ EngineHolds /\ RequestsHold
        BY DEF IInv
      <4> QED
        BY <2>2, <4>1, <4>2, NoncesKept, MemoryKept
    <3>3. CASE ~AmpleMemory \/ Unreliable
      BY <3>1, <3>3 DEF MemoryHolds, NoncesHold
    <3> QED
      BY <3>2, <3>3
  <2> QED
    BY <2>1, <2>2
<1>3. Inv => (AmpleMemory /\ ~Unreliable => WaitingRemembered)
  BY DEF MemoryHolds
<1> QED
  BY <1>1, <1>2, <1>3, InvariantHolds, PTL DEF Spec

\* The engine takes actions of growing nonces from an agent, from tick to tick, whatever was
\* refused, timed out and rolled back in between and in whichever order (verify.py:55-61,
\* 361-369), as long as the id of no waiting request is forgotten.
THEOREM NoncesIncrease == Spec /\ []WaitingRemembered => []AppliedNoncesIncrease
BY RecordsTell, RecordsInvariant, PTL

\* No agent has more than its slots accepted in a tick, for any number of slots: a slot is
\* given back only by the request that took it (limits.py:79-95, verify.py:361-369).
THEOREM SlotsAreRespected == Spec /\ []WaitingRemembered => [](~Unreliable => SlotsRespected)
BY RecordsTell, RecordsInvariant, PTL

\* With one slot, and a seal at least a push timeout before the drain, an agent also keeps
\* the nonces of its refused requests while nothing fails (verify.py:55-61, 361-369); with
\* more slots, requests given up in the order they were made leave a nonce burnt.
THEOREM SlotsAndNonces ==
  Spec /\ []WaitingRemembered
    => [](Slots = 1 /\ SealMargin >= PushTimeout => SlotsAndNoncesHold)
BY RecordsTell, RecordsInvariant, PTL

\* The three together without a hypothesis on the run: an ActionIdLRU with room for the ids
\* of the run is enough (verify.py:64-82).
THEOREM RecordsWithMemory ==
  Spec => [](AmpleMemory => /\ AppliedNoncesIncrease
                            /\ ~Unreliable => SlotsRespected
                            /\ Slots = 1 /\ SealMargin >= PushTimeout => SlotsAndNoncesHold)
<1> DEFINE Safe == AmpleMemory /\ ~Unreliable
           Inv == Safe => RecordsHold
<1>1. Init => Inv
  BY RecordsInit DEF RecordsHold
<1>2. IInv /\ IInv' /\ Inv /\ (Safe => WaitingRemembered) /\ [Next]_vars => Inv'
  <2> SUFFICES ASSUME IInv, IInv', Inv, Safe => WaitingRemembered, [Next]_vars, Safe'
               PROVE  RecordsHold'
    OBVIOUS
  <2>1. CASE UNCHANGED vars
    <3>1. AmpleMemory' = AmpleMemory /\ Unreliable' = Unreliable
      BY <2>1, SameConfig DEF AmpleMemory, vars
    <3> QED
      BY <2>1, <3>1, RecordsUnchanged DEF RecordsHold
  <2>2. CASE Next
    <3>1. AmpleMemory' = AmpleMemory /\ Unreliable' = Unreliable
      BY <2>2, ConfigKept, SameConfig DEF AmpleMemory
    <3>2. RecordsHold /\ WaitingRemembered
      BY <3>1
    <3>3. Typed' /\ Typed /\ DeliveredIsDecided /\ EngineHolds /\ RequestsHold
      BY DEF IInv
    <3> QED
      BY <2>2, <3>2, <3>3, NoncesKept, SlotsKept, DrainsKept, RefusalsKept DEF RecordsHold
  <2> QED
    BY <2>1, <2>2
<1>3. IInv /\ Inv /\ AmpleMemory
        => /\ AppliedNoncesIncrease
           /\ ~Unreliable => SlotsRespected
           /\ Slots = 1 /\ SealMargin >= PushTimeout => SlotsAndNoncesHold
  <2>1. Unreliable => AppliedNoncesIncrease /\ SlotsAndNoncesHold
    BY DEF AppliedNoncesIncrease, SlotsAndNoncesHold, Orderly
  <2> QED
    BY <2>1, RecordsTell
<1> QED
  BY <1>1, <1>2, <1>3, InvariantHolds, MemorySuffices, PTL DEF Spec

=============================================================================
