--------------------------- MODULE ActionHandoff ---------------------------
(***************************************************************************)
(* How the action of an external agent reaches the engine: polis_act in    *)
(* the gateway (tools.py, verify.py, limits.py), the Redis lists between   *)
(* the two processes (queue.py), and the tick of the engine that opens a   *)
(* window, seals it, drains the list and decides for every agent it        *)
(* controls (cli/wiring/external.py, living_city.py).                      *)
(*                                                                         *)
(* Requests are well formed, signed, and within the rate limits; sessions  *)
(* are live; tick_skew_tolerance and tick_lookahead are 0, their defaults. *)
(* A Redis script is atomic.  The answer to a push may be late or lost,    *)
(* and so may the push itself; the TTL of the lists, an hour, is not       *)
(* reached.  Time is in steps of half the push timeout, and an engine that *)
(* waits for a moment is at most Slack late.  An action id stands for its  *)
(* place in the order of ids.                                              *)
(***************************************************************************)
EXTENDS Integers, Sequences, FiniteSets, SequencesExt

CONSTANTS Configs,         \* the settings a run may have, and how much of it is modelled
          LastTick,        \* bound: ticks
          Slots,           \* LimitConfig.action_slots
          PushTimeout,     \* redis_timeout_ms of the gateway, drain_timeout_ms
          Slack,           \* bound: how late the engine may be
          MaxTries         \* bound: requests per action id

ASSUME HandoffConstants ==
  /\ {Slack, MaxTries} \subseteq Nat /\ {LastTick, Slots, PushTimeout} \subseteq Nat \ {0}
  /\ \A c \in Configs :
       /\ c.ids \subseteq Nat
       /\ {c.max_nonce, c.seal_margin, c.max_faults} \subseteq Nat
       /\ {c.max_queued, c.seen_cap, c.deadline, c.pause_max, c.naturalise_after} \subseteq Nat \ {0}
       /\ c.seal_margin < c.deadline
       /\ {c.pause, c.unreliable} \subseteq BOOLEAN

VARIABLES config,       \* the settings of this run
          now,          \* time
          tick,         \* tick of the engine
          phase,        \* "opening", "open", "sealed", "decided" or "done"
          opened,       \* when the window of the tick was opened
          mirror,       \* the tick window published to the gateway
          queue,        \* the list polis:act of each tick
          processing,   \* the list polis:act-processing of each tick
          delivered,    \* RedisActionDrain._delivered: the batch of a tick, or <<>>
          drained,      \* ticks whose batch the engine got
          applied,      \* actions the engine took
          rejected,     \* actions the engine refused
          misses,       \* _external_misses
          naturalised,  \* _naturalised_external
          nonces,       \* NonceStore._last, -1 for none
          seen,         \* ActionIdLRU._items
          reservations, \* Verifier._reservations
          slots,        \* LimitSet._slots of its latest tick
          slotTick,     \* LimitSet._latest_tick
          wire,         \* pushes sent and not yet carried out
          waiting,      \* requests that await the answer to their push
          accepted,     \* actions answered with accepted: true
          late,         \* action ids answered with LATE while a window was open
          tries,        \* requests made with an action id
          faults        \* faults so far

engineVars == <<tick, phase, opened, drained, applied, rejected, misses, naturalised>>
redisVars == <<mirror, queue, processing>>
verifierVars == <<nonces, seen, reservations, slots, slotTick>>
requestVars == <<wire, waiting, accepted, late, tries>>
vars == <<config, now, engineVars, redisVars, delivered, verifierVars, requestVars, faults>>

Ticks == 1..LastTick

Agents == config.agents                      \* external agents, admitted before tick 1
Ids == config.ids                            \* action ids, a set of numbers
MaxNonce == config.max_nonce                 \* bound: nonces
QueueCap == config.max_queued                \* max_queued
SeenCap == config.seen_cap                   \* capacity of the ActionIdLRU
Deadline == config.deadline                  \* decision_deadline_ms
SealMargin == config.seal_margin             \* seal_margin_ms
Pause == config.pause                        \* pause_for_external
PauseMax == config.pause_max                 \* pause_max_ms
NaturaliseAfter == config.naturalise_after   \* naturalise_after_consecutive_misses
MaxFaults == config.max_faults               \* bound: restarts, lost pushes, failed drains,
                                             \* acks, peeks and publications
\* A push that was carried out may time out, and the gateway may be restarted.
Unreliable == config.unreliable

-----------------------------------------------------------------------------
(* The gateway: polis_act *)

Init ==
  /\ config \in Configs
  /\ now = 0
  /\ tick = 1
  /\ phase = "opening"
  /\ opened = 0
  /\ mirror = [tick |-> 0, sealed |-> TRUE, sealAt |-> 0]
  /\ queue = [t \in Ticks |-> <<>>]
  /\ processing = [t \in Ticks |-> <<>>]
  /\ delivered = [t \in Ticks |-> <<>>]
  /\ drained = {}
  /\ applied = {}
  /\ rejected = {}
  /\ misses = [a \in Agents |-> 0]
  /\ naturalised = {}
  /\ nonces = [a \in Agents |-> -1]
  /\ seen = <<>>
  /\ reservations = {}
  /\ slots = [a \in Agents |-> 0]
  /\ slotTick = -1
  /\ wire = {}
  /\ waiting = {}
  /\ accepted = {}
  /\ late = {}
  /\ tries = [id \in Ids |-> 0]
  /\ faults = 0

\* refresh_tick: the window is sealed by the engine, or by the clock.
Sealed == mirror.sealed \/ now >= mirror.sealAt

\* Slots taken in tick t: the counts of earlier ticks are forgotten.
SlotsTaken(t) == IF slotTick = t THEN slots ELSE [a \in Agents |-> 0]

\* ActionIdLRU.accept.
Remember(id) ==
  LET items == Append(seen, id)
  IN  IF Len(items) > SeenCap THEN Tail(items) ELSE items

\* ActionIdLRU.discard: an id is remembered at most once.
Forget(id) ==
  IF id \in ToSet(seen) THEN RemoveAt(seen, CHOOSE i \in DOMAIN seen : seen[i] = id)
  ELSE seen

\* Mutant: the last nonce may be used again.
FreshOrSame(a, nonce) == nonce >= nonces[a]

\* NonceStore.check.
Fresh(a, nonce) == nonce > nonces[a]

\* The end of Verifier.check: slot, nonce and id are taken, and remembered so that they
\* can be given back, by action id; reservations of earlier ticks are purged at its
\* beginning.
Reserve(action, t) ==
  LET a == action.agent
  IN  /\ SlotsTaken(t)[a] < Slots
      /\ slots' = [SlotsTaken(t) EXCEPT ![a] = @ + 1]
      /\ slotTick' = t
      /\ nonces' = [nonces EXCEPT ![a] = action.nonce]
      /\ seen' = Remember(action.id)
      /\ reservations' = {r \in reservations : r.action.tick >= t /\ r.action.id # action.id}
                           \cup {[action |-> action, previous |-> nonces[a]]}

\* Verifier.check of a submission that passes, and the push it leads to.
Submit(a, id, nonce) ==
  LET action == [agent |-> a, id |-> id, nonce |-> nonce, tick |-> mirror.tick]
      request == [action |-> action, try |-> tries[id] + 1]
  IN
  /\ tries[id] < MaxTries
  /\ ~Sealed
  /\ Fresh(a, nonce)
  /\ id \notin ToSet(seen)
  /\ Reserve(action, mirror.tick)
  /\ wire' = wire \cup {request}
  /\ waiting' = waiting \cup {[request |-> request, sent |-> now, answer |-> "none"]}
  /\ tries' = [tries EXCEPT ![id] = @ + 1]
  /\ UNCHANGED <<config, now, engineVars, redisVars, delivered, accepted, late, faults>>

\* Verifier.check of a submission that comes after the seal.
SubmitLate(id) ==
  /\ tries[id] < MaxTries
  /\ Sealed
  /\ mirror.tick = tick
  /\ phase = "open"
  /\ late' = late \cup {id}
  /\ tries' = [tries EXCEPT ![id] = @ + 1]
  /\ reservations' = {r \in reservations : r.action.tick >= mirror.tick}
  /\ UNCHANGED <<config, now, engineVars, redisVars, delivered, nonces, seen, slots, slotTick,
                 wire, waiting, accepted, faults>>

\* Mutant: the cap is checked one too late.
PushOverCap(request) ==
  LET t == request.action.tick
      full == Len(queue[t]) > QueueCap
  IN
  /\ request \in wire
  /\ wire' = wire \ {request}
  /\ queue' = IF full THEN queue ELSE [queue EXCEPT ![t] = Append(@, request.action)]
  /\ waiting' = {IF w.request = request
                 THEN [w EXCEPT !.answer = IF full THEN "full" ELSE "queued"] ELSE w
                 : w \in waiting}
  /\ UNCHANGED <<config, now, engineVars, mirror, processing, delivered, verifierVars,
                 accepted, late, tries, faults>>

\* _PUSH_CAPPED runs in Redis; its answer is for the request, if that still waits.
Push(request) ==
  LET t == request.action.tick
      full == Len(queue[t]) >= QueueCap
  IN
  /\ request \in wire
  /\ wire' = wire \ {request}
  /\ queue' = IF full THEN queue ELSE [queue EXCEPT ![t] = Append(@, request.action)]
  /\ waiting' = {IF w.request = request
                 THEN [w EXCEPT !.answer = IF full THEN "full" ELSE "queued"] ELSE w
                 : w \in waiting}
  /\ UNCHANGED <<config, now, engineVars, mirror, processing, delivered, verifierVars,
                 accepted, late, tries, faults>>

\* The answer is "queued": Verifier.commit.
Accept(w) ==
  /\ w \in waiting
  /\ w.answer = "queued"
  /\ waiting' = waiting \ {w}
  /\ reservations' = {r \in reservations : r.action.id # w.request.action.id}
  /\ accepted' = accepted \cup {w.request.action}
  /\ UNCHANGED <<config, now, engineVars, redisVars, delivered, nonces, seen, slots, slotTick,
                 wire, late, tries, faults>>

\* Mutant: a nonce is never taken back.
RollbackNoNonce(a, nonce, previous) == nonces

\* NonceStore.rollback: only the latest nonce is taken back.
RollbackNonce(a, nonce, previous) ==
  IF nonces[a] = nonce THEN [nonces EXCEPT ![a] = previous] ELSE nonces

\* Verifier.rollback: nothing, when a check in a later tick purged the reservation.
Rollback(action) ==
  LET held == {r \in reservations : r.action.id = action.id} IN
  IF held = {} THEN UNCHANGED verifierVars
  ELSE LET r == CHOOSE r \in held : TRUE
           a == r.action.agent
       IN  /\ nonces' = RollbackNonce(a, r.action.nonce, r.previous)
           /\ seen' = Forget(action.id)
           /\ reservations' = reservations \ held
           /\ slots' = IF slotTick = r.action.tick /\ slots[a] > 0
                       THEN [slots EXCEPT ![a] = @ - 1] ELSE slots
           /\ UNCHANGED slotTick

\* QUEUE_FULL.
RefuseFull(w) ==
  /\ w \in waiting
  /\ w.answer = "full"
  /\ waiting' = waiting \ {w}
  /\ Rollback(w.request.action)
  /\ UNCHANGED <<config, now, engineVars, redisVars, delivered, wire, accepted, late, tries,
                 faults>>

\* GATEWAY_DEGRADED: the wait ends without an answer.  The push may have been
\* carried out, or may still be.
TimeOut(w) ==
  /\ w \in waiting
  /\ now - w.sent >= PushTimeout
  /\ w.answer = "none" \/ Unreliable
  /\ waiting' = waiting \ {w}
  /\ wire' = IF Unreliable THEN wire ELSE wire \ {w.request}
  /\ Rollback(w.request.action)
  /\ UNCHANGED <<config, now, engineVars, redisVars, delivered, accepted, late, tries, faults>>

\* A push is lost on its way.
LosePush(request) ==
  /\ request \in wire
  /\ faults < MaxFaults
  /\ faults' = faults + 1
  /\ wire' = wire \ {request}
  /\ UNCHANGED <<config, now, engineVars, redisVars, delivered, verifierVars, waiting,
                 accepted, late, tries>>

\* A new gateway process.  Its nonces come from the table external_nonces, which
\* is empty until the run ends (store/living_city.py:1703); requests are cut off.
RestartGateway ==
  /\ Unreliable
  /\ faults < MaxFaults
  /\ faults' = faults + 1
  /\ nonces' = [a \in Agents |-> -1]
  /\ seen' = <<>>
  /\ reservations' = {}
  /\ slots' = [a \in Agents |-> 0]
  /\ slotTick' = -1
  /\ waiting' = {}
  /\ UNCHANGED <<config, now, engineVars, redisVars, delivered, wire, accepted, late, tries>>

-----------------------------------------------------------------------------
(* The engine *)

Controlled == Agents \ naturalised

\* Mutant: a claimed batch is deleted without comparing it with the delivered one.
AckAnyBatch(t) ==
  IF t \in Ticks
  THEN /\ processing' = [processing EXCEPT ![t] = <<>>]
       /\ delivered' = [delivered EXCEPT ![t] = <<>>]
  ELSE UNCHANGED <<processing, delivered>>

\* RedisActionDrain.ack of tick t: the claimed batch is deleted if it is the one
\* that was delivered.
Ack(t) ==
  IF t \in Ticks /\ delivered[t] # <<>> /\ processing[t] = delivered[t]
  THEN /\ processing' = [processing EXCEPT ![t] = <<>>]
       /\ delivered' = [delivered EXCEPT ![t] = <<>>]
  ELSE UNCHANGED <<processing, delivered>>

\* open_tick: the previous batch is acknowledged, the window published.
OpenTick ==
  /\ phase = "opening"
  /\ phase' = "open"
  /\ opened' = now
  /\ Ack(tick - 1)
  /\ mirror' = [tick |-> tick, sealed |-> FALSE, sealAt |-> now + Deadline - SealMargin]
  /\ UNCHANGED <<config, now, tick, drained, applied, rejected, misses, naturalised, queue,
                 verifierVars, requestVars, faults>>

\* open_tick where the acknowledgement, the publication or both fail.
OpenTickFails ==
  /\ phase = "opening"
  /\ faults < MaxFaults
  /\ faults' = faults + 1
  /\ phase' = "open"
  /\ opened' = now
  /\ \/ Ack(tick - 1)
     \/ UNCHANGED <<processing, delivered>>
  /\ mirror' \in {mirror, [tick |-> tick, sealed |-> FALSE,
                           sealAt |-> now + Deadline - SealMargin]}
  /\ UNCHANGED <<config, now, tick, drained, applied, rejected, misses, naturalised, queue,
                 verifierVars, requestVars>>

\* Mutant: a pause has no end.
SealDueWhenAllActed ==
  IF Pause
  THEN Agents \subseteq {queue[tick][i].agent : i \in DOMAIN queue[tick]}
  ELSE now >= opened + Deadline - SealMargin

\* _wait_for_all_actions, or the sleep until the seal.  The port waits for every
\* agent of its own set, from which naturalisation after misses removes nobody.
SealDue ==
  IF Pause
  THEN \/ Agents \subseteq {queue[tick][i].agent : i \in DOMAIN queue[tick]}
       \/ now >= opened + PauseMax
  ELSE now >= opened + Deadline - SealMargin

Seal ==
  /\ phase = "open"
  /\ Controlled # {}
  /\ SealDue
  /\ phase' = "sealed"
  /\ mirror' = [tick |-> tick, sealed |-> TRUE, sealAt |-> opened + Deadline - SealMargin]
  /\ UNCHANGED <<config, now, tick, opened, drained, applied, rejected, misses, naturalised,
                 queue, processing, delivered, verifierVars, requestVars, faults>>

\* queued_agent_ids fails while the engine waits: the window is sealed at once.
PeekFails ==
  /\ Pause
  /\ phase = "open"
  /\ Controlled # {}
  /\ faults < MaxFaults
  /\ faults' = faults + 1
  /\ phase' = "sealed"
  /\ mirror' = [tick |-> tick, sealed |-> TRUE, sealAt |-> opened + Deadline - SealMargin]
  /\ UNCHANGED <<config, now, tick, opened, drained, applied, rejected, misses, naturalised,
                 queue, processing, delivered, verifierVars, requestVars>>

\* The records of one agent: the one the sort by (agent, id, nonce) puts first is taken,
\* the others are refused; those of an agent that is not controlled are all refused.
Taken(records) ==
  {r \in records :
     /\ r.agent \in Controlled
     /\ \A s \in records : s.agent = r.agent =>
          r.id < s.id \/ (r.id = s.id /\ r.nonce <= s.nonce)}

Refused(records) == records \ Taken(records)

\* _fallback_external of those who miss the tick: a reflex decides, and who has missed
\* too many in a row is naturalised.
FallBack(acting, missing) ==
  /\ misses' = [a \in Agents |-> CASE a \in acting -> 0
                                   [] a \in missing -> misses[a] + 1
                                   [] OTHER -> misses[a]]
  /\ naturalised' = naturalised \cup {a \in missing : misses[a] + 1 >= NaturaliseAfter}

\* _decide_external once it has its records.
Decide(records) ==
  LET acting == {r.agent : r \in Taken(records)}
  IN
  /\ applied' = applied \cup Taken(records)
  /\ rejected' = rejected \cup Refused(records)
  /\ FallBack(acting, Controlled \ acting)
  /\ phase' = "decided"

\* _CLAIM_BATCH of tick t.
Claim(t) ==
  IF processing[t] = <<>>
  THEN /\ processing' = [processing EXCEPT ![t] = queue[t]]
       /\ queue' = [queue EXCEPT ![t] = <<>>]
  ELSE UNCHANGED <<processing, queue>>

\* Mutant: the list is drained as soon as the window is sealed.
DrainDueAtSeal == TRUE

\* The moment of the drain: at the deadline, or at once when the engine paused.
DrainDue == Pause \/ now >= opened + Deadline

Drain ==
  /\ phase = "sealed"
  /\ DrainDue
  /\ Claim(tick)
  /\ delivered' = [t \in Ticks |-> IF t = tick THEN processing'[t]
                                   ELSE IF t >= tick - 1 THEN delivered[t] ELSE <<>>]
  /\ drained' = drained \cup {tick}
  /\ Decide(ToSet(processing'[tick]))
  /\ UNCHANGED <<config, now, tick, opened, mirror, verifierVars, requestVars, faults>>

\* The publication of the seal, or the drain, fails before or after it took effect
\* in Redis: no records, every controlled agent misses the tick.
DrainFails ==
  /\ faults < MaxFaults
  /\ faults' = faults + 1
  /\ \/ /\ phase = "open" /\ Controlled # {} /\ SealDue
        /\ mirror' \in {mirror, [mirror EXCEPT !.sealed = TRUE]}
        /\ UNCHANGED <<processing, queue>>
     \/ /\ phase = "sealed" /\ DrainDue
        /\ Claim(tick) \/ UNCHANGED <<processing, queue>>
        /\ UNCHANGED mirror
  /\ Decide({})
  /\ UNCHANGED <<config, now, tick, opened, drained, delivered, verifierVars,
                 requestVars>>

\* Nobody is controlled: the list is not drained.
SkipDrain ==
  /\ phase = "open"
  /\ Controlled = {}
  /\ phase' = "decided"
  /\ UNCHANGED <<config, now, tick, opened, drained, applied, rejected, misses, naturalised,
                 redisVars, delivered, verifierVars, requestVars, faults>>

\* The tick is committed and the next one begins.
NextTick ==
  /\ phase = "decided"
  /\ tick < LastTick
  /\ tick' = tick + 1
  /\ phase' = "opening"
  /\ UNCHANGED <<config, now, opened, drained, applied, rejected, misses, naturalised,
                 redisVars, delivered, verifierVars, requestVars, faults>>

\* run_with_gateway acknowledges the last tick.
EndRun ==
  /\ phase = "decided"
  /\ tick = LastTick
  /\ phase' = "done"
  /\ Ack(tick)
  /\ UNCHANGED <<config, now, tick, opened, drained, applied, rejected, misses, naturalised,
                 mirror, queue, verifierVars, requestVars, faults>>

\* Time passes: no request waits longer than its timeout, and the engine is not
\* later than Slack.
PassTime ==
  /\ phase \in {"open", "sealed"}
  /\ now < opened + (IF Pause /\ PauseMax > Deadline THEN PauseMax ELSE Deadline) + Slack
  /\ \A w \in waiting : now - w.sent < PushTimeout
  /\ now' = now + 1
  /\ UNCHANGED <<config, engineVars, redisVars, delivered, verifierVars, requestVars, faults>>

EngineStep ==
  \/ OpenTick
  \/ Seal
  \/ Drain
  \/ SkipDrain
  \/ NextTick
  \/ EndRun

Answer(w) == Accept(w) \/ RefuseFull(w) \/ TimeOut(w)

Next ==
  \/ \E a \in Agents, id \in Ids, nonce \in 0..MaxNonce : Submit(a, id, nonce)
  \/ \E id \in Ids : SubmitLate(id)
  \/ \E request \in wire : Push(request)
  \/ \E w \in waiting : Accept(w)
  \/ \E w \in waiting : RefuseFull(w)
  \/ \E w \in waiting : TimeOut(w)
  \/ \E request \in wire : LosePush(request)
  \/ RestartGateway
  \/ EngineStep
  \/ OpenTickFails
  \/ PeekFails
  \/ DrainFails
  \/ PassTime

Spec == Init /\ [][Next]_vars

\* The engine goes on, time passes, and a request ends by its answer or its timeout.
FairSpec ==
  /\ Spec
  /\ WF_vars(EngineStep)
  /\ WF_vars(PassTime)
  /\ WF_vars(\E w \in waiting : Answer(w))

-----------------------------------------------------------------------------
(* Properties *)

\* The answers to the pushes arrive, the gateway runs on, and the engine drains at the
\* deadline.
Orderly == ~Unreliable /\ ~Pause

Action == [agent : Agents, id : Ids, nonce : 0..MaxNonce, tick : Ticks]

\* The state of the gateway, of Redis and of the engine is well formed; a list
\* never outgrows max_queued.
TypeOK ==
  /\ config \in Configs
  /\ now \in Nat /\ opened \in Nat
  /\ tick \in Ticks
  /\ phase \in {"opening", "open", "sealed", "decided", "done"}
  /\ mirror \in [tick : 0..LastTick, sealed : BOOLEAN, sealAt : Nat]
  /\ \A t \in Ticks :
       /\ \A list \in {queue[t], processing[t], delivered[t]} :
            Len(list) <= QueueCap /\ ToSet(list) \subseteq Action
  /\ drained \subseteq Ticks
  /\ applied \subseteq Action /\ rejected \subseteq Action /\ accepted \subseteq Action
  /\ misses \in [Agents -> Nat]
  /\ naturalised \subseteq Agents
  /\ nonces \in [Agents -> -1..MaxNonce]
  /\ Len(seen) <= SeenCap /\ ToSet(seen) \subseteq Ids
  /\ reservations \subseteq [action : Action, previous : -1..MaxNonce]
  /\ slots \in [Agents -> 0..Slots]
  /\ slotTick \in -1..LastTick
  /\ wire \subseteq [action : Action, try : 1..MaxTries]
  /\ waiting \subseteq [request : [action : Action, try : 1..MaxTries], sent : Nat,
                        answer : {"none", "queued", "full"}]
  /\ late \subseteq Ids
  /\ tries \in [Ids -> 0..MaxTries]
  /\ faults \in 0..MaxFaults

\* "seal_margin_ms absorbs the RPUSH -> LRANGE hop so a submission accepted by the
\* gateway is never lost in transit" (docs/08-EXTERNAL-AGENT-PROTOCOL.md:840): what
\* was accepted for a tick whose batch the engine got, the engine took or refused,
\* provided that the margin is no shorter than the timeout of a push.  The document does
\* not state this condition, nothing enforces it, and the defaults of 50 ms and 100 ms
\* (settings.py:992-993) do not meet it: see the README.
AcceptedReachesEngine ==
  Orderly /\ SealMargin >= PushTimeout =>
    \A x \in accepted : x.tick \in drained => x \in applied \cup rejected

\* "Nonce: strictly increasing per (run_id, agent_id)"
\* (docs/08-EXTERNAL-AGENT-PROTOCOL.md:347): the actions the engine takes from an
\* agent carry growing nonces, whatever was rolled back in between (verify.py:54).
AppliedNoncesIncrease ==
  Orderly => \A x, y \in applied : x.agent = y.agent /\ x.tick < y.tick => x.nonce < y.nonce

\* An agent has no more than its slots accepted in a tick, whichever of its
\* requests were refused, rolled back or timed out meanwhile (limits.py:79-95).
SlotsRespected ==
  \A a \in Agents, t \in Ticks :
    Cardinality({x \in accepted : x.agent = a /\ x.tick = t}) <= Slots

\* "Advanced only on a fully accepted submission, so a rejected action does not
\* burn a nonce" (docs/08-EXTERNAL-AGENT-PROTOCOL.md:347): when no request of an
\* agent is under way, its last nonce is that of an accepted action.
RefusalsBurnNoNonce ==
  \A a \in Agents :
    (\A w \in waiting : w.request.action.agent # a) =>
      nonces[a] = -1 \/ \E x \in accepted : x.agent = a /\ x.nonce = nonces[a]

\* What an agent may count on: its slots; and, while nothing fails and the engine waits for
\* windows because it controls somebody, the nonces of its refused requests.
SlotsAndNoncesHold ==
  Orderly => SlotsRespected /\ (faults = 0 /\ Controlled # {} => RefusalsBurnNoNonce)

\* "A timeout [...] the tick proceeds on fallback without silently deleting the
\* batch" (docs/08-EXTERNAL-AGENT-PROTOCOL.md:841): an action leaves Redis only
\* after the engine took or refused it (queue.py:398-440).
NothingDeletedUnseen ==
  [][\A t \in Ticks : \A x \in ToSet(queue[t]) \cup ToSet(processing[t]) :
       \/ x \in ToSet(queue'[t]) \cup ToSet(processing'[t])
       \/ x \in applied \cup rejected]_vars

\* "A paused run still cannot hang" (docs/08-EXTERNAL-AGENT-PROTOCOL.md:880): every
\* tick is decided and the run ends, whatever the agents send or fail to send.
RunEnds == <>(phase = "done")

=============================================================================
