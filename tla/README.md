# POLIS in TLA+

POLIS (`src/polis`) simulates a city tick by tick. Everything that happens is an
event of one hash-chained log per run; tables, metrics and screens are derived from
it. The engine decides for its own agents, and agents outside the process may act
through a gateway. This directory specifies the parts of POLIS whose correctness
depends on the order of steps of several actors, on long sequences of legal calls, or
on what is left behind when something stops: the event log, the stored run with its
resume and rebuild commands, the way an external agent's action reaches the engine,
and the institutions of the city: banks, markets, the exchange, ventures, households,
courts, polity and media.

## Inventory

| Component | State | Operations | Hard because | What makes it correct |
|---|---|---|---|---|
| Event log (`events/`) | staged batch, sequence number, chain hash, batch token, events table | stage, savepoint, rollback_to, commit, rollback, verify | nested savepoints, commits that fail after they stored, restarts | the stored chain verifies; the batch continues it |
| Tick loop (`kernel/tick.py`) | clock, phase | run, run_tick, complete_genesis_tick | two commits per tick, halts | a tick is whole or recognisably torn |
| Run store (`store/`, `simulation.py`) | `runs` row, `events`, projections | run_persistent, resume, rebuild | kills between transactions, repairs that are killed themselves | complete ticks are never changed; a finished row stands for all of the run |
| Completion cache (`llm/cache.py`) | rows, pending rows, manifest | get, put, commit | rows are committed in groups | a stored run can be replayed |
| Gateway intake (`gateway/tools.py`, `verify.py`, `limits.py`) | nonces, seen ids, reservations, slots | polis_act: check, push, commit or roll back | the check and the push are separated by an await; requests overlap | no nonce, id or slot is lost or used twice |
| Redis queue (`gateway/queue.py`) | list and processing list per tick, tick mirror | push, claim, drain, ack | lost calls and answers | nothing vanishes unread |
| External decision port (`cli/wiring/external.py`), engine's external branch (`living_city.py`) | known agents, open tick, misses | open_tick, drain_actions, pause, _decide_external | deadlines race late pushes; waits | every tick is decided; each accepted action is taken or refused |
| Ledger (`economy/ledger.py`, `money.py`) | balances | post, open, transfer, allocate | many callers with their own preconditions | double entry; the money identities M-2, M-4, M-5 |
| Banking (`economy/banking.py`, `credit.py`, `central.py`) | loans, bank status | originate, accrue, amortise, default, settle, resolve | multi-stage tick over shared balances, failing banks | the books of every bank match the loans |
| Markets, labour, treasury (`economy/policy.py`, `labour.py`, `goods.py`, `firms.py`, `fiscal.py`) | vacancies, offers, employments, inventories, sales, assessments, bonds | hire, work, buy, pay, lay off, reprice, tax, borrow | decisions are taken before the tick's other actions are resolved; running sums beside the records they sum | every record tells the same story; no posting fails but for want of bank reserves |
| Exchange (`economy/exchange/`) | orders, escrow, margin accounts, holdings, shorts, offerings | submit, cancel, match, auction, cover, margin call, allot | reserves held over many partial fills | every reserved cent and share is backed |
| Ventures (`economy/ventures.py`) | cap tables, rounds, deals, funds, cases | found, pitch, invest, acquire, tender, file, liquidate | long contracts over shared registers | cap table, holdings, loans and books agree; strict priority |
| Demography and estates (`agents/demography.py`, `economy/estate.py`) | people, households, unions, pregnancies, estates | court, unite, separate, give birth, leave home, migrate, die | every operation updates several registers | everyone lives in one household; an estate is settled whole |
| Law (`society/law.py`) | crimes, cases, receivables, sentences, records | commit, report, investigate, sue, settle, judge, garnish, release | procedures over many ticks | penalties are paid or owed; closed cases stay closed |
| Polity and policy (`society/polity.py`, `policy.py`, `config/runtime.py`) | parties, candidacies, elections, offices, proposals, overlay | found, join, stand, vote, count, appoint, propose, enact | elections and bills over many ticks; deaths and jail in between | counts follow their method; policy is not retroactive |
| Media (`society/media/`, `comms.py`, `graph.py`, `beliefs.py`, `projections.py`) | ties, posts, follows, engagements, cascades, articles, beliefs, conversations, and a table for each | say, message, post, repost, follow, befriend, publish, retract, perceive, close | memory and tables are kept by different code from the same events | tables can be rebuilt; what is shown was posted |
| Lifecycle of external agents, gateway sessions, limits other than slots | registrations, sessions, strikes | register, open, revoke, drain | redelivery, expiry | not modelled |
| Agents' cognition, LLM routing, observatory, research, world, configuration | - | scoring, text, read-only reports, generators | - | not modelled |

How they interact: `TickLoop.run_tick` runs ten phases; its handlers stage events
through `EventLog.stage`, and the loop commits twice, after PHASE 6 and at the end.
`run_persistent` wraps the loop, writes the `runs` row before and after it and the
projections at the end; `resume_stored_run` and `rebuild_stored_run` replay the run
from its RUN_STARTED event, with the completion cache in place of the models. In
PERCEIVE the engine publishes a tick window to Redis, the gateway pushes actions into
the list of that tick, and in DECIDE the engine seals the window and drains the list;
it acknowledges the batch when the next tick opens. In PHASE 7 the institutions run
over one ledger: `MechanicalPolicy.step` (labour, goods, production, treasury), the
exchange, the ventures, `BankingEngine.step` and `DemographyInstitution.run`, whose
estates close jobs, loans, shares and firms. Society's runtime resolves
communication, elections, bills and trials, and its projections write the tables.

## Modules

| Module | Models | Uses |
|---|---|---|
| `EventLog` | `events/log.py`, `hashing.py`, `verify.py` | |
| `RunStore` | `store/living_city.py`, `store/operations.py`, `kernel/tick.py`, `llm/cache.py` | implements `Journal` |
| `Journal` | what a stored run promises its readers (abstract) | |
| `ActionHandoff` | `gateway/`, `cli/wiring/external.py`, `living_city.py:872-1104` | |
| `Ledger` | `economy/ledger.py`, `money.py` (operators) | |
| `Banking` | `economy/banking.py`, `credit.py`, `central.py` | `Ledger` |
| `Market` | `economy/policy.py`, `labour.py`, `goods.py`, `firms.py`, `fiscal.py` | `Ledger` |
| `Exchange` | `economy/exchange/engine.py`, `book.py` | |
| `Ventures` | `economy/ventures.py`, `venture_state.py` | |
| `Life` | `agents/demography.py`, `economy/estate.py` | |
| `Law` | `society/law.py`, `LawProjection` | |
| `Polity` | `society/polity.py`, `policy.py`, `config/runtime.py`, `PolityProjection` | |
| `SocialGraph`, `Beliefs`, `Platform`, `News` | `society/graph.py`, `beliefs.py`, `media/platform.py` and `feed.py`, `media/news.py` and `checker.py`, each with its tables (operators on records) | each extends the one before |
| `Media` | `society/comms.py`, `runtime.py`: the composition of the four | `News` |
| `EventLogProofs`, `RunStoreProofs`, `ActionHandoffProofs`, `ExchangeProofs`, `VenturesProofs`, `LifeProofs`, `LawProofs`, `PolityProofs` | theorems about the module each is named after | |
| `MC*` | the instances TLC checks | |

### EventLog

The variables are the fields of the class (`lastSeq`, `chainHash`, `staged`,
`rollbackSeq`, `rollbackHash`, `batchToken`), the savepoints its callers hold and the
table `sink`. A digest is modelled by the history it seals: `EventHash` appends the
content of an event to the hash before it, so two hashes are equal exactly when
everything sealed up to them is equal. That is what the code relies on (no collision),
and it keeps `Recompute` and `VerifyBatch` meaningful. `Stage`, `StageEphemeral` and
`DropSampled` are the outcomes of `stage`; `CommitFails` is a sink that fails before or
after it stored; `Crash` and `Reopen` a killed process and its successor
(`simulation.py:42-58`). Savepoints are used by nested try blocks, and the model assumes
that order: `rollback_to` itself compares only length and batch (`log.py:161`).

### RunStore and Journal

`RunStore` is one stored run: the engine as a sequence of durable steps (`StartRun`,
`CommitGenesis`, `SealGenesis`, `Decide`, `CommitTick`, `CompleteTick`, `Invalidate`,
`Project`, `Finish`), its exception handler (`Fail`), its death (`Kill`), a second `polis run` of
the same id (`StartAgain`), and the two repair commands, one action per transaction
(`ResumeDelete`, `ResumeCompare`, `ResumeAppend`, `ResumeClear`, `ClearDone`,
`RepairProject`, `ResumeFinish`, `StartRebuild`), each of which may be killed
(`KillRepair`). A run is a function of its identity, so its events are numbered: of a
tick the model keeps TICK_STARTED, one event for the rest of the first commit and
TICK_COMPLETED for the second. A replay reproduces them, or differs from some event on
(`drift`): that is what happens when a run was driven by external agents, whom a replay
does not have. A run that was halted early and whose external agents missed too many
deadlines has one event after its last TICK_COMPLETED: `run_living_city` stages
EXTERNAL_ARENA_INVALIDATED and commits once more before anything is projected
(`living_city.py:1673-1687`; in a run that reaches its last tick the check is part of
that tick's MEASURE). Where a run halts, in which ticks it calls a model, whether its
agents missed and whether its replays drift are chosen in the initial state.

`Journal` says what a reader of the tables may rely on: entries of complete ticks are
only added, up to the end of the run, and the row is closed once, when the run is
whole, under a hash that covers all of it. The closing EXTERNAL_ARENA_INVALIDATED is not
an entry of a tick: the seal of a row that the engine closed covers it, but the journal
does not promise to keep it, because a resume deletes it (see the disagreements below).
`KeepsJournal` is the refinement
(`INSTANCE Journal WITH kept <- SubSeq(events, 1, CompleteSeq(events)), ...`): torn
ticks, deletes, refused and killed repairs are stutters of the journal.

### ActionHandoff

`ActionHandoff` composes the gateway, Redis and the engine for actions. `Submit` is
`Verifier.check` of a request that passes together with the push it sends; `Push` is
the Redis script; `Accept`, `RefuseFull` and `TimeOut` are the three ends of the
await, with `Verifier.commit` and `Verifier.rollback`. `OpenTick`, `Seal`, `Drain`,
`SkipDrain`, `NextTick` and `EndRun` are the engine. Faults are actions of their own:
`LosePush`, `RestartGateway`, `OpenTickFails`, `PeekFails`, `DrainFails`. Time is
counted in units of 50 ms; `PassTime` stops at the timeouts of waiting requests, and
`Slack` bounds how late the engine wakes up. Requests are taken to be well formed,
signed, in session and within the rate limits; those checks come first in
`Verifier.check` and leave no state behind when they fail. The settings are part of the
initial state, so one run covers several of them.

### The economy: Ledger, Banking, Market, Exchange, Ventures, Life

`Ledger` holds the operators on the function `balance` from open accounts to cents:
opening, the preconditions of a posting (the legs sum to zero; no account gets the wrong
sign), the posting, the six legs of a transfer between banks, `bp`, `bp_ceil` and
`allocate` with its rounding. The other modules are calls of one tick, a loop at a time:
`stage` says which loop, a queue or worklist what it has left, and balances are read
when the code reads them, so a step sees what earlier steps of the same loop did. An
exception that no caller catches ends the run (`raised`).

- `Banking`: trades and wages as sources of payments, then `_mechanical_credit`,
  `accrue_interest`, `amortise`, `_pay_deposit_interest`, `write_off_due`, settlement with
  interbank loans and the discount window, and `resolve_failure` by assumption or by
  liquidation. Settings that choose a path have their defaults; a score may come out
  either way and interest may or may not round to a cent.
- `Market`: decisions are taken on the state after `expire` and queued (`Plan`), then
  resolved one handler call at a time (`Work`, `PostVacancy`, `Apply`, `AcceptOffer`,
  `Screen`, `MakeOffer`, `Shop`, `Purchase`), followed by payroll and layoffs, production,
  spoilage and prices (`RunDaily`), the price index, coupons and redemption, assessment,
  collection, arrears, benefits, the deficit and the budget. Deaths and bankruptcy
  cases may fall between any two ticks.
- `Exchange`: one `ExchangeEngine.resolve` per tick: cancels, admission with
  reservations, continuous matching with self-trade prevention, call auctions, short
  positions with collateral, borrow fees, margin calls and forced covers, offerings,
  delisting and stays.
- `Ventures`: the actions of `VentureEngine.resolve`, the solvency step firm by firm,
  liquidation asset by asset, the waterfall and the fees of funds.
- `Life`: `DemographyInstitution.run` with `EconomyEstatePort`: courtship, unions,
  separation with the split of the common gain, independence, conception, birth, child
  costs, arrivals, departures and deaths with their estates. Hazards are draws. Leaving and
  joining a household by several agents one after the other are written in closed form
  (`Leave`, `Join`): whatever the order, a head that is gone is replaced by the smallest id
  that stays. The id of a new household is one more than the largest. In the stage of
  independence agents are asked in the order of their ids, each on the homes that the ones
  before it left behind.

Each module keeps one deposit per owner where banks do not matter and the others'
registers only as far as it changes them.

### Society: Law, Polity, Media

`Law` drives crimes, detection, the police queue, suits, counsel, testimony, settlement,
court sessions, penalties, garnishment and prison through the phases of
`society/runtime.py`; a judge's answer is an input, clamped as the code clamps it.
`Polity` passes actions through their gates against the state at the start of the tick,
resolves them in order of their actors and then runs officials and sessions; ballots and
councillors' votes are nondeterministic, and the firms and owners that a campaign pays are
one account outside (`outlet`). `SocialGraph`, `Beliefs`, `Platform` and `News`
turn the methods of their files into operators on records; `Media` composes them: a
tick perceives (feeds, inboxes), collects actions, resolves them by actor, ages the ties
and closes with cascades, the refit and the newsrooms. In all three the rows that the
projections write from the staged events are kept beside the registers (`tables`, `rel`,
`tab`, `postRows`, ...), so that an invariant can compare the two. Ids of posts and messages are
hashes (`comms.py:894`): among those of one tick the code's order is any order, in inboxes as in
deduplication, truncation and the chronological feed. A post may reply to another one, known or
not. A reflection may move any registered proposition, trust in an outlet included; `musings`
counts these, so that `TrustEarned` can say where trust comes from.

## Runs

| Run | Shows | Bounds |
|---|---|---|
| `event_log` | the stored chain verifies, the batch continues it, accepted savepoints describe a prefix of the batch | 3 sealed events, 2 drafts, 3 batches, 2 savepoints, 2 ticks: an event before, between and after nested savepoints and after a rollback; a commit, a failed one and a reopening between a savepoint and its use. The theorems remove these bounds |
| `run_store` | the tables hold a prefix of one execution; projections only of whole runs; the run implements `Journal`; retried resumes finish | 2 ticks after genesis, batches of 2, 3 kills, a model call in the first tick or none, drifting and faithful replays, halts with and without the closing event: engine, resume and its retry can each be killed, and a torn tick follows a complete one |
| `handoff` | accepted actions reach the engine, nonces grow, slots hold, refusals burn no nonce; nothing is deleted unread and the run ends | two settings. On time: two agents, two ids, two tries, two nonces, a queue of one, seal margin = push timeout, nothing lost (the conditions under which the documents' promises hold). Faulty: one agent, pause mode, two faults of any kind, naturalisation after one miss |
| `banking` | the books balance after every step, loans match them, settled banks have reserves, a takeover costs the buyer nothing, insured deposits survive a bank without debts | two banks, a firm and a resident at any of them, five ticks, two trades a tick: banks fail with and without debts to the other, haircuts have a rounding remainder, loans are written off both after default and by a resolution, and change hands; the price of a fire sale (70 %) is high enough to take a settled buyer below its requirement |
| `exchange` | balances, escrow, margin and shares are exact; live orders lie in the band and nobody meets itself | three traders, a listed and an offered symbol, four inputs, four ticks of auction, session and close: partial fills, self-crossings, shorts, margin calls, a failed and a completed offering |
| `ventures` | cap tables, holdings, loans and books agree; strict priority; no insolvency without a case | three agents, two listed firms, a startup, a fund, five inputs, three ticks: rounds, three kinds of takeover, a takeover of a firm under a case, bids of a firm for itself that complete and that raise, voluntary and involuntary cases |
| `law` | penalties accounted, records, prison, tables; docket order; closed is final | four agents, one of them without a home, five days, court on two of them, three inputs, a prison of one place, one case per session |
| `polity` | registers, deposits, overlay and tables agree; counts follow their method; nothing retroactive | three agents, two parties, a council of two by lists, a president by three methods, three parameters with three authorities, proposals by officials and by initiative, campaigns by ads, rally and canvass, four inputs, four ticks |
| `life` | households and unions agree; estates leave nothing and lose nothing; even splits | four people at genesis, three adults and a minor who live in one household as strangers, and one more to be born or to arrive; two banks, three draws of hazards, three ticks: unions of members of one household and of two, a separation, an agent that moves out, orphans, estates with and without heirs |
| `market` | jobs, wages, sales, taxes and debt are told alike by all records; no posting fails but for want of bank reserves, without a health subsidy | three agents, two firms, two banks of which one is short of reserves, two goods, five ticks with two paydays and two quarters, two shocks |
| `media` | tables hold what memory holds; feeds, inboxes, cascades and refit; newsrooms | three agents, two places, two outlets, four ticks, four algorithms, five themes of inputs (ties, posts, opinions, venue, desk) with three inputs each: replies to known and unknown posts, several messages of one tick, a reflection on trust in an outlet |
| `media_follows` | the code disagrees with its documents: an unfollow leaves its row open | the same |

Inputs are chosen from small sets given in the MC modules, so that each refusal and each
exception has an input that meets it; every action of every module fires in a passing
run. Amounts are small and rates large, so that rounding remainders, zero amounts and
exhausted accounts occur. Deadlock is not checked where the system stops by design at
its bounds (`event_log`, `handoff`, `banking`); the other modules have an `Ended`
step at the end of the last tick or after an exception.

Many properties are conjunctions of named parts (for example `RegistersAgree` of `Polity`
is membership, deposits, overlay and tables), each stated with its own comment.

### Fairness

`run_store` assumes that the engine and a repair make their next step unless they
are killed (a sequential process that is not blocked), and that an unfinished run is
resumed again, which is the operator's part: kills are bounded. `handoff` assumes that
the engine goes on, that time passes, and that a waiting request ends by its answer or
its timeout (`asyncio.wait_for`). Nothing is assumed of the agents, of Redis, or of the
gateway's willingness to push. The other runs check safety only.

## What is proved

The theorems hold for every value of the constants that satisfies the assumptions named
in the modules (`BoundsAreNatural`, `RunConstants`, `HandoffConstants`, `ExchangeAssumption`,
`VentureAssumption`, `LifeAssumption`, `LawAssumption`, `InputAssumption`, `SettingsAssumption`
of the law and of the exchange, `PolityAssumption`): types, finitely many traders and symbols, a
positive batch, tick or slot,
a seal before the deadline, an exchange that opens no later than it closes and closes before the
day ends, a number of days that is not negative, amounts that are not negative, sentencing ranges
that go from less to more.
Bounds such as the number of ticks, kills, tries or inputs may be any natural number.
The proofs have the same shape: an inductive invariant that is a conjunction of
named parts, a lemma for what the operators do to the data, a lemma per action or per
group of actions that leave a part alone, and a temporal step. Each inductive
invariant was checked by TLC on the instance of the component's run before it was proved.

**EventLogProofs**: `TypeCorrect`, `ChainAlwaysVerifies`, `StagedAlwaysContinues`,
`SavepointsAlwaysMatch`. `ChainVerifies` is not inductive. A commit stores the batch in
memory, so the batch has to continue the chain; a rollback restores a number and a hash
that were saved earlier, so a savepoint of the current batch has to describe a prefix of
it (`HeldSavepoints`), and still does so when an outer rollback cuts the batch, because
savepoints are nested (`Nested`); events get the clock's tick, so the clock must not be
behind them (`ClockAhead`). `VerifyConcat`, `VerifyPrefix` and `VerifyAppend` say what
the verifier accepts of concatenated, cut and extended batches.

**RunStoreProofs**: `TypeCorrect`, `PrefixStored` (`StoredIsPrefix`), `ProjectedWhole`
(`ProjectionsAreOfWholeRun`) and `ImplementsJournal`: `Spec => KeepsJournal`, the
refinement, in which each action is shown to be a step of `Journal` or a stutter. The
invariant ties the length of the table to the engine's control point (`EngineWrote`),
keeps what a resume established before it appends (`RepairHolds`) and says that a
finished row stands for a run with all its ticks (`FinishedIsWhole`); only the engine writes
the closing event, so a table longer than all ticks is the engine's (`SealedByEngine`). The arithmetic is in
`LastDone`: the delete of resume cuts exactly back to the last TICK_COMPLETED of a prefix
of the run. Only the safety part of `Spec` is used.

**ActionHandoffProofs**: `TypeCorrect`; `DeletedWasSeen` (`NothingDeletedUnseen`), which
needs nothing of the settings and of what fails; and `AcceptedWasSeen`:
`AcceptedReachesEngine`, which is about runs with `SealMargin >= PushTimeout`. The condition is
needed: the
default margin of 50 ms is shorter than the timeout of 100 ms, and then an accepted
action can come too late. The invariant follows an action from the request that waits
(`RequestsHold`) through Redis to the drain (`EngineHolds`, `DrainedHolds`); the
argument is about time: a request was sent before the seal, waits no longer than its
timeout, and the drain comes no earlier than the margin after the seal.

The second half of **ActionHandoffProofs** is about the gateway's nonces, ids and slots:
`NoncesIncrease` (`AppliedNoncesIncrease`),
`SlotsAreRespected` (`SlotsRespected`, for any number of slots) and `SlotsAndNonces`
(`SlotsAndNoncesHold` with one slot and a sufficient margin). All need that the
`ActionIdLRU` has not forgotten the id of a request that still waits
(`WaitingRemembered`): otherwise a second request with the id is admitted and the
reservations of the two cannot be told apart. `MemorySuffices` shows that a memory of as
many ids as the run uses is enough while the gateway is not restarted, and
`RecordsWithMemory` states the three results under that condition on the settings alone.
The invariant (`NoncesHold`, `SlotsHold`, `DrainsHold`, `RefusalsHold`) says that what can be
given back belongs to a request that waits and is not stored, and that nobody else used
the nonces between a reserved one and the one before it (`GapsHold`), which is why giving
it back in any order is harmless. Writing these proofs corrected the property:
`RefusalsBurnNoNonce` is claimed while nothing has failed and somebody is still
controlled from outside; once everybody is naturalised the engine no longer drains.

**LifeProofs**: `Families` (`Spec => []IInv`) and `FamiliesAlwaysAgree` (`FamiliesAgree`:
households and unions), for all agents, households at genesis and agendas. `IInv` says of every
agent who lives that it is listed by the household it is mapped to, which is not dissolved, and of
every household that all its members live (`HomesOf(homes, Alive)`). Each operation of the
registry is shown to turn homes of some agents into homes of those agents without the ones who left,
or with the ones who came, whatever the homes; a step composes two or three of them. The actions
accepted at the gate are taken on the same tick, before anybody dies (`PendingHold`), so a union is
one of the living (`UnionsHold`). The proof shows as well that everybody who survives a death has a
household left, so that the branch for orphans (`HouseholdAfter`) is never taken.

**LawProofs**: for all agents, inputs, answers of the judge and settings,
`DocketStaysInOrder` (`DocketInOrder`), `ClosedCasesStay` (`ClosedIsFinal`)
and `JudgmentsAlwaysAccounted` (`JudgmentsAccounted`: types, `PenaltiesAccounted`,
`RecordCountsConvictions`, `PrisonHoldsTheSentenced` and `TablesAgree`).

- Docket: no case is filed or closed in the future (`CasesHold`), so the order of filing is that
  of the docket; a crime is charged once because its file is closed together with the charge
  (`ChargesHold`), even where the id of the new case is taken and the register drops it.
- Penalties: a library of sums comes first (`SumOf` over a finite set is taken apart one element at
  a time; a minimal counterexample in the order of cardinalities stands in for induction). An
  award is split into what is paid and a new receivable, a garnishment lowers what is owed by
  exactly what it pays, the rest of an income is the debtor's, and a case that has been judged
  never changes what it costs. So both sides of the identity change by the same amount in every
  step, or not at all.
- Records: a conviction is recorded in the step that judges the case, and never again because a
  closed case is not heard.
- Prison: releases happen only when a day starts, and the capacity is checked against the sentences
  at the moment of committal (`CustodyHold`). That nobody else is in prison is claimed of those
  who have a home that is no prison (`Homed`): others may stay there after their release (see
  below). The capacity is a constant of the model; a law that lowers it releases nobody.
- Tables: rows follow registers except where the id of a suit is taken. An id is made of the
  parties, the tick and the number of open cases, which only a settlement lowers between two
  suits of one tick (`IdsHold`), so this happens only after a settlement on that tick.

The attempt corrected three properties that TLC had not refuted within the run's bounds:
`TablesAgree` excluded a suit whose id was that of a case still open, `PrisonHoldsTheSentenced`
claimed a release at any hour, and `ChargedOnce` left out that the police chief may file a
criminal case by hand.

**PolityProofs**: `PastStaysFixed` (`PastIsFixed`) and `RegistersAlwaysAgree`
(`RegistersAgree`: types, party lists, deposits, overlay and tables). There is a part of the
invariant per register. Policies: overlay, records and rows are entry by entry the same and
ordered by their effect, because the lag of a parameter is fixed; so the value in force is
the newest one due, and an enactment, which takes effect later than now, changes no value of
a tick that has begun. Deposits: what the treasury received is the number of candidacies not
refunded, which needs that nobody announces for an election that was counted: candidacies
close before the vote, and a tick's actions are resolved before its counts
(`CandidaciesHold`, `ElectionsHold`). The treasury is equal to fees and deposits by counting
parties and candidacies, with cardinalities.

**ExchangeProofs**: `BookStaysOrderly` (`BookOrderly`), for all traders, symbols, inputs, settings
and hours of trading. Orders are checked against the band when they are admitted; the band then
moves only when a session opens or a symbol is listed. There is no order at an opening, because
the close cancels all of them and nothing is admitted until the next opening (`SessionHolds`), and
none at a listing, because a symbol on offer is not listed (`SecuritiesHold`). Orders of one trader
meet only before the opening auction of their symbol, or between admission and the self-trade
check (`SelfHolds`). The attempt corrected the model: the quantity of a forced cover is fixed when
the tick begins (`DueCovers`), not when the cover's turn comes.

`EscrowStaysBacked` (`EscrowBacked`) and `AccountsStayExact` (`AccountsExact`: the type invariant,
`SharesAccounted` and `ReservesExact`) rest on that invariant and on a second one, `AInv`. A fill
debits the buyer's escrow account, which several orders and offerings share, and `_settle` never
looks at the balance (the ledger would raise in the middle of a session). It is covered because
the escrow is the sum of what the live orders and the indications claim (`Backed`) and because a
buy order claims the cost of its remainder at the highest price it may be filled at
(`ReservesExact`), which is where the order of the book is needed: the highest price of a market
order is the band's, and the band does not move under a live order. The seller's proceeds cover
its commission, a short sale moves its collateral from the order to the position, and a cover
releases no more than the position has (`PositionsSound`); a cover waiting to be placed is of at
least one share (`CoversSound`); in an auction the price lies in the band and only orders that
accept it are left (`AuctionSound`). Sums over the book change by one or two terms in a fill and
by a set of terms in a cancel: `SumWithout`, `SumChanged` and their like say so once, from the
theorems of the library on finite sets. A listing gives out exactly the shares of the offering
because `allocate` is exact (`AllocateExact`: the parts are natural numbers that add up to the
pool, and none is above its weight when the pool is not above the total), which needs that the
remainders of the divisions, and the ids where these are equal, rank the recipients.

The settings are those the code validates (a tick above zero, a commission of 0 to 10 000 basis
points; `settings.py`), and one condition it does not: the least commission is at most one tick,
as it is in the defaults. With a larger one the seller of a cheap share would get less than its
commission; `_settle` (`engine.py:747-766`) then pays it nothing and still debits the whole
commission, which is outside the model.

**VenturesProofs**: `InsolvencyAlwaysFiled` (`InsolvencyIsFiled`) and `LoansAlwaysMatch`
(`LoansMatchBooks`, a part of `RegistersAgree`). The code compares ticks, the property counts
solvency steps: `CountsHold` says that a firm has been found insolvent at most once in each tick
since `insolvency_since_tick`, a bound that is larger by one after the step of the tick than
before it. A firm that becomes active was unborn and has never been counted; takeovers that leave
the target's status alone leave its count alone too. For the loans every step is shown to move a
loan and its payable together (`Follows`).

## What is only model-checked, and why

- Liveness (`RunEnds`, `GenesisThenFinished`): the prover has no rules for fairness and
  ENABLED.
- Results of recursion over data: what the waterfall, the instant runoff and the
  distribution of seats compute (`WinnersRight`, `SeniorsFirst`, `SplitIsEven`): the induction
  theorems of the library cannot be instantiated by the installed provers.
- Identities over sums of balances (`Banking.BooksExact` and `SettledBanksHaveReserves`,
  `Life.EstatesSettled`, `Market.BooksAgree`): the sums of `LawProofs` and `ExchangeProofs` change
  by a few terms in a step; here one step posts to the accounts of all banks, heirs or workers.
  Not attempted.
- `RefusalsBurnNoNonce` with two or more slots: it does not hold (see below).
- The share registers of `Ventures` (`SharesAccounted`, a part of `RegistersAgree`),
  `Market.JobsAgree` and `NeverRaises`, and the properties of `Media`: not attempted. Theirs
  is a large number of actions rather than a difficult argument, except for `NeverRaises`, which
  depends on every balance.

## Where code and documents disagree

`media_follows` shows one disagreement by a counterexample: `FollowsProjection` tests
`OUTLET_REVENUE_BOOKED` where `FOLLOW_ENDED` is meant (`society/projections.py:179`), so the
`follows` table keeps every follow open (docs/07-SOCIETY-SPEC.md:441). The models contain
the behaviours below as well; the properties above are stated so that they do not depend
on them, and say so in their comments.

Run store and gateway:

- A killed run that used a model cannot be resumed, because its cache manifest is written
  at the end only (`operations.py:155`; docs/01-PRD.md:266).
- Resuming a torn genesis tick deletes RUN_STARTED before it appends; killed in between,
  the run can neither be resumed nor started (`operations.py:166`;
  chunks/C02-event-log.md:399).
- A resume of a run that ends with EXTERNAL_ARENA_INVALIDATED deletes that event, because it
  follows the last TICK_COMPLETED (`operations.py:166`); replays have no external agents, so the
  resume is then refused as diverged and the event is gone. An engine killed between its last
  TICK_COMPLETED and that commit (`living_city.py:1682`) leaves it out as well.
- `polis run` of an existing id marks the running run failed
  (`store/living_city.py:1649`; chunks/C04-kernel.md:450).
- Resume writes `completed` for a run that was halted (`operations.py:189`;
  chunks/C04-kernel.md:471).
- With the default seal margin of 50 ms and push timeout of 100 ms (`settings.py:992-993`) an
  accepted action can arrive after the drain and is lost (`cli/wiring/external.py:141`), although
  docs/08:840 promises without a condition that it is not. `AcceptedReachesEngine` states the
  condition under which the promise holds, `SealMargin >= PushTimeout`, and the run `handoff`
  meets it.
- A push that was carried out but timed out gives its nonce back, and the engine takes two
  actions with one nonce (`gateway/tools.py:329`; docs/08:347). With two or more slots, two
  refused requests of one agent leave a nonce burnt (`verify.py:55`), and the engine
  refuses every action of an agent but the first of a tick (`living_city.py:936`).
- In pause mode the gateway seals at the decision deadline while the engine still waits
  (`gateway/tools.py:522`; docs/08:870).

Banking and markets:

- The fire sale of a failed bank's loans asks whether a buyer has reserves of the price, not
  whether it keeps its required reserves (`central.py:380`): a bank that was settled may end the
  day below its requirement (docs/06:1874). `SettledBanksHaveReserves` leaves out exactly what was
  spent there.
- A payment between banks raises when the payer's bank is short of reserves; the
  specification has them overdrawn within the day (`goods.py:712`; docs/06:2037). In `Market` such
  a failure ends the run as `short`, any other as `raised`; one bank of the instance has fewer
  reserves than deposits, so wages, taxes and the last wage of a dead worker meet it. `NeverRaises` is about
  all other reasons: the checks that the callers make cover every account but the banks' reserves.
- When a failed bank had borrowed, its depositors bear what its lenders are owed, the
  insured part included (`central.py:506`; docs/06:2078).
- Emptied deposits at a failed bank stay the first deposit of their owners, and a loan
  that changed its lender is repaid from a deposit there only (`goods.py:298`,
  `credit.py:754`). A bank that fails without depositors makes `allocate` raise.
- The health subsidy debits the reserve account of the central bank, which P6 refuses
  (`goods.py:361`; docs/06 §11.3); the run has no subsidy.
- Losses are not carried forward, `benefit_max_ticks` is not enforced, redundancy order has
  no effect, a bond pays no final coupon, and open offers are not subtracted from a
  vacancy's places (docs/06 §11.1).

Exchange and ventures:

- An auction passes over a trader's own crossing pair and the book stays crossed, which
  the code's own check turns into a halt (`engine.py:599`, `state.py:785`; docs/06:599). A
  re-opened short keeps the status `covered` (`engine.py:1464`, `state.py:755`).
- Pending short sales do not count against the short cap; a SHORT by a holder with
  resting sells lets the reserved quantity exceed the holding (docs/06:1623); self-trade
  prevention cancels own orders of the same side and of other symbols (`engine.py:620`).
- A founder may file again for a dissolved firm, which becomes `bankrupt` (`ventures.py:1932`;
  docs/06:1175). A deal's cash is checked at the proposal only (`ventures.py:1209`) and a
  holder's acceptances of several deals may exceed what it holds (`ventures.py:1308`). A
  waterfall without residual holders raises (`ventures.py:237`). A standalone takeover does
  not give 100 % (docs/06:2478).
- INV-CAPTABLE (docs/06:597: the common shares of the cap table of a listed firm are its shares
  outstanding, or HALT) is false from the start for firms listed at genesis, which have no cap
  table; `cap_table_invariant_failures` compares nothing with the shares outstanding. What
  `SharesAccounted` says of cap tables and holdings does not include it.
- A firm may bid for itself (`ventures.py:1195-1201`). The deal completes when the firm has no live
  loan; with one, opening the second payable of the loan raises (`ledger.py:195`).

Demography:

- The branch that moves orphans to the state household is never taken
  (`demography.py:1880`; docs/07:1787). `bereave` looks at ties that have ended
  already (`demography.py:2055`; docs/04:477). `advance_independence` ignores partners and
  children (docs/07:1786).
- Splits and child costs are paid from an agent's first account and raise when that one is
  short. Heirs are weighted by gross shares, so with none the last wage escheats.

Law and polity:

- A second conviction replaces a running sentence (`law.py:2257`; docs/07:1660). Anybody may
  settle, criminal cases included (docs/07:1706). Damages are awarded whatever the verdict.
- A sentence that does not fit into the prison becomes a fine only where the registry was given
  `conversion_fine` (`law.py:2237-2246`). Unit tests give one
  (tests/unit/society/test_incarceration.py:148-157), no composition under `src/polis` does
  (nor tests/integration/test_court_pipeline.py:101), so the sentence is lost without a
  fine (docs/07:1660-1662). `Jailed` models the registry as composed, and
  `PenaltiesAccounted` is about penalties in money only.
- An agent whose household gives no home (the default of `household_return`, `law.py:2201`) and
  who was nowhere before, or is convicted a second time while in prison, is released to the prison
  and stays there
  (`law.py:2292`; docs/07:1673). Sentences end when a day starts, not at their tick.
- The chief may file a criminal case for a crime whose file the police keeps open, and the crime
  is charged twice (`law.py:2407`).
- The row of a theft keeps the amount intended. Ids of suits are made of
  the parties, the tick and the number of open cases (`law.py:1362`): after a settlement the next
  suit of the same parties on that tick may get the id of the settled case, or of one still open. The register drops it
  (`law.py:1155`) and the projection writes it over the old row (`projections.py:847`).
- Reflex ballots are cast without a second check of eligibility (docs/07:1180). A founder
  stays listed in its old party (docs/07:1119). Several gates let actions pass whose
  resolution raises: joining a dissolved party, announcing late, voting twice, ads that name no live
  outlet (`polity.py:1346`). A rally at a place that nobody owns counts as spending and is paid to nobody
  (`polity.py:1382`).
- A candidacy announced again keeps its old spending in its row (`projections.py:690`); the
  row of a superseded policy is marked repealed only when the old value is restored
  (`policy.py:932`).

Media:

- The mixed pool may serve two posts of one root (docs/07:475); the table of ties drifts
  by changes below the event threshold (docs/07:395); two updates of one proposition in
  one call move it by twice the step (docs/07:1039); the trust update is halved
  (docs/07:1054); a story whose draft the model refuses is lost to its desk; a repost after
  its cascade closed is never reported; a second broadcast that cannot be paid and a
  repost of an unknown post raise. Messages of one tick are read in the order of hashed ids
  (`comms.py:185-195`), not as sent. The cascade report of a post that replies to an
  unknown one leaves the post itself out (`platform.py:499`).

## Not modelled

- Gateway: signatures, schemas, rate limits, sessions, the lifecycle of external agents,
  the TTL of Redis keys, HTTP.
- Run store: the contents of the projections (those of society are in `Law`, `Polity` and
  `Media`). An operator who resumes a run whose engine is alive is excluded: nothing in the
  code prevents it, and the deletion of the tick being written would follow.
- Ledger: closing, flush, dump and load. Banking: bonds of a failed bank, withdrawals of
  cash (no caller), the policy rate. Market: productivity, capital, skills, `plan_budget`.
- Exchange: the circuit breaker (never reached), the zero-intelligence trader. Ventures:
  `distribute_fund_exit` (no caller). Law: `backfill_insider_profit`, the obligation index
  (no caller), where witnesses stand. Polity: the rows of single votes, drift of platforms.
  Media: metrics, the weights of the engagement model, deletion of posts, campaign buys.
- Cognition and memory of native agents, LLM routing, observatory, research, world
  generation, configuration, command line: scoring, text, read-only reports, generators
  and wiring, without state that several actors share.

## Plan

1. The lemmas on sums of `LawProofs` and `ExchangeProofs` in a module of their own.
2. The conservation of balances by a posting of `Ledger`, then `Banking.BooksExact`.
3. `Media.RecordsAgree`, register by register as in `PolityProofs`.
