------------------------------- MODULE Polity -------------------------------
(***************************************************************************)
(* Parties, elections and offices (society/polity.py), and the policy      *)
(* engine they legislate through (society/policy.py, config/runtime.py).   *)
(*                                                                         *)
(* A tick has the stages of the code: actions pass the gates against the   *)
(* state at the start of the tick ("gate"), the accepted ones are resolved *)
(* in the order of their actors ("resolve"), then come the scheduled steps *)
(* of phase 7 ("officials", "session").  Agents are numbers, so that their *)
(* order is the order of their ids.  An election is named by its position  *)
(* in elections, a party by its position in parties, a candidacy by its    *)
(* election and its agent.  What voters and councillors choose is          *)
(* nondeterministic: platforms, beliefs and utilities are left out.        *)
(***************************************************************************)
EXTENDS Integers, Sequences, FiniteSets, FiniteSetsExt

CONSTANTS
    Agents,             \* the adult residents, a set of numbers
    Cash, Treasury,     \* the money of an agent and of the treasury at genesis
    Fee, Deposit,       \* party_founding_fee_cents, candidacy_deposit_cents
    RefundPercent,      \* deposit_refund_share, in percent
    Seats,              \* seats of each office
    Term,               \* ticks of a term of each office, NoTick without one
    CouncilMethod,      \* the method of the council's own settings
    ElectionMethods,    \* the settings of election_method considered
    CampaignLength, CandidacyClose, ThirtyDays, Week,   \* durations, in ticks
    Multiplier,         \* llm_election_multiplier
    InitiativeSignatures,   \* cosigners of a proposal by who holds no office
    Authority, Lag,     \* of each policy parameter
    Default,            \* configured value of each policy parameter
    Inadmissible,       \* <<parameter, value>> pairs out of range or insolvent
    Actions, Steps,     \* actions of agents and steps of officials that occur
    MaxInputs, LastTick

Offices == DOMAIN Seats
Params == DOMAIN Default
None == 0
NoTick == 99

\* NoTick stands for a tick that never comes, also at the end of a term
ASSUME PolityAssumption ==
    /\ Agents \subseteq Nat \ {None} /\ IsFiniteSet(Agents)
    /\ Cash \in Nat /\ Treasury \in Nat /\ Fee \in Nat /\ Deposit \in Nat
    /\ MaxInputs \in Nat /\ LastTick \in Nat /\ LastTick < NoTick
    /\ CampaignLength \in Nat /\ CandidacyClose \in Nat /\ Week \in Nat
    /\ Term \in [Offices -> Nat]
    /\ \A o \in Offices : Term[o] = NoTick \/ LastTick + Term[o] <= NoTick
    /\ Lag \in [Params -> Nat]
    /\ \A x \in Actions : /\ x[2] \in Agents
                          /\ x[1] = "campaign" => x[5] \in Nat
                          /\ x[1] = "propose" => x[3] \in Params

VARIABLES
    tick, stage, queue, inputs,
    alive, jailed,              \* external: the population and the prisons
    cash, treasury, outlet,
    parties, membership,        \* PartyRegistry._parties, _membership
    received, lastVotes,        \* votes_received of parties, _last_votes of offices
    elections, candidacies, ballots,
    results,                    \* the ELECTION_RESOLVED events of this tick
    holders,                    \* OfficeRegister._holders
    proposals, history, records, \* repository of policies, RuntimeConfig._history
    tables                      \* the rows PolityProjection writes from the events

partyVars == <<parties, membership>>
electionVars == <<elections, candidacies, ballots, results>>
voteVars == <<received, lastVotes>>
policyVars == <<proposals, history, records>>
moneyVars == <<cash, treasury, outlet>>
agentVars == <<alive, jailed>>
clockVars == <<tick, stage, queue, inputs>>
vars == <<clockVars, agentVars, moneyVars, partyVars, voteVars, electionVars,
          holders, policyVars, tables>>

Least(S, key(_)) == CHOOSE x \in S : \A y \in S : key(x) < key(y) \/ (key(x) = key(y) /\ x <= y)

-----------------------------------------------------------------------------
(* RuntimeConfig: the overlay of enacted values *)

\* RuntimeConfig.get: the enactment effective last wins, the later event on a tie
Value(p, t) ==
    LET due == {i \in DOMAIN history[p] : history[p][i].effective <= t}
        last == CHOOSE i \in due : \A j \in due :
                    \/ history[p][j].effective < history[p][i].effective
                    \/ history[p][j].effective = history[p][i].effective /\ j <= i
    IN IF due = {} THEN Default[p] ELSE history[p][last].value

-----------------------------------------------------------------------------
(* PartyRegistry *)

Live == {p \in DOMAIN parties : parties[p].dissolved = NoTick}

\* member_ids is a tuple that may list an agent twice: a bag
Size(members) == MapThenSumSet(LAMBDA a : members[a], Agents)

Listed(members) == {a \in Agents : members[a] > 0}

Leader(members) ==
    IF Listed(members) = {} THEN None ELSE Least(Listed(members), LAMBDA a : -received[a])

WithMembers(party, members) == [party EXCEPT !.members = members, !.leader = Leader(members)]

\* Mutant: the party keeps an agent that left on its list
LeftListed(ps, a) == ps

\* PartyRegistry.leave of an agent that joins another party
Left(ps, a) ==
    IF membership[a] = None THEN ps
    ELSE LET p == membership[a]
             rest == [ps[p].members EXCEPT ![a] = 0]
         IN [ps EXCEPT ![p] =
                [WithMembers(ps[p], rest) EXCEPT !.below =
                    IF Size(rest) < 3 /\ @ = NoTick THEN tick ELSE @]]

\* PartyRegistry.join of a live party that is not the agent's own; the record
\* of the party joined was read before the agent left the old one
Joined(ps, a, p) ==
    LET left == Left(ps, a)
        members == [ps[p].members EXCEPT ![a] = @ + 1]
    IN [left EXCEPT ![p] =
            [WithMembers(ps[p], members) EXCEPT
                !.ratified = @ \/ ps[p].founding \subseteq Listed(members),
                !.below = NoTick]]

\* The party PartyRegistry.found adds: its founder is its one member
NewParty(a, founding) ==
    [founder |-> a, founded |-> tick, dissolved |-> NoTick, founding |-> founding \cup {a},
     members |-> [b \in Agents |-> IF b = a THEN 1 ELSE 0], leader |-> a,
     ratified |-> FALSE, below |-> NoTick, cycles |-> 0]

\* Why dissolve_stale ends a party: founding_expired, membership_stale, no_candidates
Stale(party) ==
    \/ /\ tick > party.founded + 1 /\ Size(party.members) < 3
       /\ ~party.ratified /\ ~(party.founding \subseteq Listed(party.members))
    \/ /\ Size(party.members) < 3
       /\ party.below # NoTick /\ tick - party.below >= ThirtyDays
    \/ party.cycles >= 2

\* PartyRegistry.close_election_cycle
CycleClosed(fielded) ==
    [p \in DOMAIN parties |->
        IF p \notin Live THEN parties[p]
        ELSE [parties[p] EXCEPT !.cycles = IF p \in fielded THEN 0 ELSE @ + 1]]

-----------------------------------------------------------------------------
(* OfficeRegister *)

\* OfficeRegister.holder
Holding(hs, office, t) ==
    {a \in Agents : hs[office][a].start <= t /\ t < hs[office][a].end}

\* OfficeRegister.holds_office: the first office by name
OfficeOrder == <<"cb_governor", "council", "police_chief", "president">>

HoldsOffice(a, t) ==
    LET held == {i \in DOMAIN OfficeOrder : a \in Holding(holders, OfficeOrder[i], t)}
    IN IF held = {} THEN "none" ELSE OfficeOrder[Min(held)]

\* OfficeRegister.assume: no seat is counted, a term starts afresh
Assumed(hs, office, a) ==
    [hs EXCEPT ![office][a] =
        [start |-> tick, end |-> IF Term[office] = NoTick THEN NoTick ELSE tick + Term[office]]]

Successor(hs) == Least(Holding(hs, "council", tick), LAMBDA a : -lastVotes[a])

\* OfficeRegister.vacate, with the succession of the president
Vacated(office, a, reason) ==
    LET hs == [holders EXCEPT ![office][a].end = tick]
        succeeds == /\ office = "president" /\ reason \in {"death", "incarceration", "emigration"}
                    /\ Holding(hs, "council", tick) # {}
    IN IF succeeds THEN Assumed(hs, "president", Successor(hs)) ELSE hs

-----------------------------------------------------------------------------
(* ElectionOffice: who may vote, and the four methods of counting *)

\* ElectionOffice._eligible_state
Eligible(a, t) == a \in alive /\ (a \notin jailed \/ Value("franchise", t) = 1)

\* ElectionOffice.eligible
MayVote(a, e) == a \in elections[e].electorate /\ Eligible(a, tick)

Candidates(e) == {a \in Agents : <<e, a>> \in DOMAIN candidacies}

Voted(e) == {a \in Agents : <<e, a>> \in DOMAIN ballots}

\* A ballot: one choice, or a ranking with the approvals it implies
Choice(c) == [choice |-> c, ranking |-> <<>>, approvals |-> {}]

Ranked(r) == [choice |-> None, ranking |-> r, approvals |-> {r[i] : i \in DOMAIN r}]

ReflexBallots(cands) == {Choice(c) : c \in cands \cup {None}}

BallotsOver(cands) ==
    ReflexBallots(cands)
        \cup {Ranked(z) : z \in {y \in cands \X cands : y[1] # y[2]}}

Sum(counts) == MapThenSumSet(LAMBDA c : counts[c], DOMAIN counts)

\* VoteModel-independent counts of the ballots b, by choice and by approval
ChoiceCounts(b) ==
    [c \in {b[v].choice : v \in DOMAIN b} \ {None} |->
        Cardinality({v \in DOMAIN b : b[v].choice = c})]

ApprovalCounts(b) ==
    [c \in UNION {b[v].approvals : v \in DOMAIN b} |->
        Cardinality({v \in DOMAIN b : c \in b[v].approvals})]

Top(counts) == {c \in DOMAIN counts : \A d \in DOMAIN counts : counts[d] <= counts[c]}

\* ElectionOffice._plurality: a tie is broken by the generator
Plurality(b) ==
    LET counts == ChoiceCounts(b)
    IN IF counts = <<>> THEN {[counts |-> counts, winners |-> {}]}
       ELSE {[counts |-> counts, winners |-> {w}] : w \in Top(counts)}

\* ElectionOffice._approval: a tie goes to the lowest id
Approval(b) ==
    LET counts == ApprovalCounts(b)
    IN {[counts |-> counts, winners |-> IF counts = <<>> THEN {} ELSE {Min(Top(counts))}]}

\* One round of _irv: each ballot counts for the first candidate still active
RoundCounts(b, active) ==
    LET firsts(v) == {i \in DOMAIN b[v].ranking : b[v].ranking[i] \in active}
        top(v) == b[v].ranking[Min(firsts(v))]
    IN [c \in active |-> Cardinality({v \in DOMAIN b : firsts(v) # {} /\ top(v) = c})]

\* ElectionOffice._irv: the last is removed until one has a majority
Irv(b) ==
    LET ranked == UNION {b[v].approvals : v \in DOMAIN b}
        round[active \in SUBSET ranked] ==
            LET counts == RoundCounts(b, active)
                leader == Least(active, LAMBDA c : -counts[c])
                loser == Least(active, LAMBDA c : counts[c])
            IN IF active = {} \/ Sum(counts) = 0 THEN [counts |-> counts, winners |-> {}]
               ELSE IF counts[leader] * 2 > Sum(counts) \/ Cardinality(active) = 1
                 THEN [counts |-> counts, winners |-> {leader}]
                 ELSE round[active \ {loser}]
    IN {round[ranked]}

\* The list of a candidacy: its party, or one of its own for an independent,
\* whose key sorts after every party's
ListOf(e, c) == LET p == candidacies[<<e, c>>].party IN IF p = None THEN 100 + c ELSE p

ListVotes(e, b) ==
    LET counts == ChoiceCounts(b)
    IN [l \in {ListOf(e, c) : c \in DOMAIN counts} |->
            MapThenSumSet(LAMBDA c : counts[c], {c \in DOMAIN counts : ListOf(e, c) = l})]

\* Mutant: every seat to the list with most votes
SeatCountsByVotes(votes, seats) ==
    LET most == CHOOSE l \in DOMAIN votes : \A k \in DOMAIN votes :
            votes[l] > votes[k] \/ (votes[l] = votes[k] /\ l <= k)
    IN IF votes = <<>> THEN <<>>
       ELSE [l \in DOMAIN votes |-> IF l = most THEN seats ELSE 0]

\* _proportional, first half: seats one by one to the highest quotient
SeatCounts(votes, seats) ==
    LET wins(given, l) == \A k \in DOMAIN votes :
            LET a == votes[l] * (given[k] + 1)
                b == votes[k] * (given[l] + 1)
            IN a > b \/ (a = b /\ l <= k)
        given[n \in 0..seats] ==
            IF n = 0 THEN [l \in DOMAIN votes |-> 0]
            ELSE LET g == given[n - 1]
                 IN [g EXCEPT ![CHOOSE l \in DOMAIN votes : wins(g, l)] = @ + 1]
    IN IF votes = <<>> THEN <<>> ELSE given[seats]

\* _proportional, second half: the seats of a list go to its candidates by votes
Proportional(e, b) ==
    LET counts == ChoiceCounts(b)
        votes(c) == IF c \in DOMAIN counts THEN counts[c] ELSE 0
        seated == SeatCounts(ListVotes(e, b), Seats[elections[e].office])
        onList(l) == {c \in Candidates(e) : ListOf(e, c) = l}
        ahead(c, d) == votes(d) > votes(c) \/ (votes(d) = votes(c) /\ d < c)
        elected(l) == {c \in onList(l) :
                        Cardinality({d \in onList(l) : ahead(c, d)}) < seated[l]}
    IN {[counts |-> counts, winners |-> UNION {elected(l) : l \in DOMAIN seated}]}

\* ElectionOffice.tally: the outcomes the ballots b of election e may have
Tally(e, b) ==
    CASE elections[e].method = "plurality" -> Plurality(b)
      [] elections[e].method = "approval" -> Approval(b)
      [] elections[e].method = "irv" -> Irv(b)
      [] OTHER -> Proportional(e, b)

-----------------------------------------------------------------------------
\* The election ElectionOffice.call adds: the electorate is drawn up at the call
Election(office, method, electorate) ==
    [office |-> office, method |-> method, voting |-> tick + CampaignLength,
     ends |-> tick + CampaignLength - CandidacyClose, electorate |-> electorate,
     resolved |-> FALSE]

\* ELECTION_CALLED, also of a rerun: whatever an earlier count said is gone
ElectionRow(e) ==
    [office |-> e.office, method |-> e.method, voting |-> e.voting, ends |-> e.ends,
     size |-> Cardinality(e.electorate), winners |-> {}]

Methods(office) == IF office = "council" THEN {CouncilMethod} ELSE ElectionMethods

\* One election has been called when the model starts
Init ==
    /\ tick = 0 /\ stage = "gate" /\ queue = {} /\ inputs = 0
    /\ alive = Agents /\ jailed = {}
    /\ cash = [a \in Agents |-> Cash] /\ treasury = Treasury /\ outlet = 0
    /\ parties = <<>> /\ membership = [a \in Agents |-> None]
    /\ received = [a \in Agents |-> 0] /\ lastVotes = [a \in Agents |-> 0]
    /\ \E office \in {"council", "president"} : \E method \in Methods(office) :
            /\ elections = <<Election(office, method, Agents)>>
            /\ tables = [parties |-> <<>>, elections |-> <<ElectionRow(elections[1])>>,
                         candidacies |-> <<>>, policies |-> [p \in Params |-> <<>>]]
    /\ candidacies = <<>> /\ ballots = <<>> /\ results = <<>>
    /\ holders = [o \in Offices |-> [a \in Agents |-> [start |-> NoTick, end |-> NoTick]]]
    /\ proposals = <<>>
    /\ history = [p \in Params |-> <<>>] /\ records = [p \in Params |-> <<>>]

-----------------------------------------------------------------------------
(* PolityResolver: the gates *)

Free(a) == a \in alive /\ a \notin jailed

\* What campaign x, <<kind, actor, election, candidate, cents, channel>>, spends,
\* and what of it is paid to somebody: canvassing costs nothing, and the place of
\* a rally may have no owner
Spent(x) == IF x[6] = "canvass" THEN 0 ELSE x[5]
Paid(x) == IF x[6] = "rally nowhere owned" THEN 0 ELSE Spent(x)

\* check_capability and check_resources of each action x, <<kind, actor, ...>>
Passes(x) ==
    CASE x[1] = "found" -> Free(x[2]) /\ Cardinality(x[3]) >= 3 /\ cash[x[2]] >= Fee
      [] x[1] = "join" -> x[3] \in DOMAIN parties
      [] x[1] = "announce" -> Free(x[2]) /\ x[3] \in DOMAIN elections /\ cash[x[2]] >= Deposit
      [] x[1] = "campaign" ->
            /\ <<x[3], x[4]>> \in DOMAIN candidacies
            /\ \/ x[4] = x[2]
               \/ LET p == candidacies[<<x[3], x[4]>>].party
                  IN p # None /\ p = membership[x[2]]
            /\ x[5] <= Value("cap", tick) /\ cash[x[2]] >= Spent(x)
      [] x[1] = "vote" ->
            /\ x[3] \in DOMAIN elections /\ MayVote(x[2], x[3]) /\ x[2] \notin Voted(x[3])
            /\ (x[4].approvals \cup {x[4].choice}) \ {None} \subseteq Candidates(x[3])
      [] OTHER -> \/ HoldsOffice(x[2], tick) \in {"council", "president", "cb_governor"}
                  \/ Cardinality(x[5]) >= InitiativeSignatures

\* An agent acts: the action is validated against the state before any is resolved
Submit ==
    /\ stage = "gate" /\ inputs < MaxInputs /\ tick < LastTick
    /\ \E x \in Actions :
        /\ x \notin queue /\ Passes(x)
        /\ queue' = queue \cup {x}
    /\ inputs' = inputs + 1
    /\ UNCHANGED <<tick, stage, agentVars, moneyVars, partyVars, voteVars,
                   electionVars, holders, policyVars, tables>>

EndGate ==
    /\ stage = "gate" /\ stage' = IF queue = {} THEN "officials" ELSE "resolve"
    /\ UNCHANGED <<tick, queue, inputs, agentVars, moneyVars, partyVars, voteVars,
                   electionVars, holders, policyVars, tables>>

-----------------------------------------------------------------------------
(* PolityResolver.resolve: by actor; the ids of one actor's actions come in any order *)

Turn(x) ==
    /\ stage = "resolve" /\ x \in queue
    /\ \A y \in queue : x[2] <= y[2]
    /\ queue' = queue \ {x}

\* What the resolver still requires of an action that passed the gates: money
\* spent meanwhile, a party dissolved, a window closed and a second ballot do not
Resolvable(x) ==
    CASE x[1] = "found" -> cash[x[2]] >= Fee
      [] x[1] = "join" -> x[3] \in Live
      [] x[1] = "announce" -> /\ tick <= elections[x[3]].ends /\ cash[x[2]] >= Deposit
                              /\ x[4] \in DOMAIN parties \cup {None}
      [] x[1] = "campaign" -> x[6] # "ads nowhere" /\ cash[x[2]] >= Paid(x)
      [] x[1] = "vote" -> x[2] \notin Voted(x[3])
      [] OTHER -> TRUE

\* An exception leaves the resolver, and the tick with it
Raise(x) ==
    /\ Turn(x) /\ ~Resolvable(x) /\ stage' = "raised"
    /\ UNCHANGED <<tick, inputs, agentVars, moneyVars, partyVars, voteVars,
                   electionVars, holders, policyVars, tables>>

Resolve(x, kind) == Turn(x) /\ x[1] = kind /\ Resolvable(x)

\* PartyRegistry.found: the founder's old party keeps the founder among its members
Found(x) ==
    /\ Resolve(x, "found")
    /\ parties' = Append(parties, NewParty(x[2], x[3]))
    /\ membership' = [membership EXCEPT ![x[2]] = Len(parties) + 1]
    /\ cash' = [cash EXCEPT ![x[2]] = @ - Fee] /\ treasury' = treasury + Fee
    /\ tables' = [tables EXCEPT !.parties = Append(@, [founded |-> tick, dissolved |-> NoTick])]
    /\ UNCHANGED <<tick, stage, inputs, agentVars, outlet, voteVars, electionVars,
                   holders, policyVars>>

\* PartyRegistry.join
Join(x) ==
    /\ Resolve(x, "join")
    /\ IF membership[x[2]] = x[3] THEN UNCHANGED partyVars
       ELSE /\ parties' = Joined(parties, x[2], x[3])
            /\ membership' = [membership EXCEPT ![x[2]] = x[3]]
    /\ UNCHANGED <<tick, stage, inputs, agentVars, moneyVars, voteVars, electionVars,
                   holders, policyVars, tables>>

\* CANDIDACY_ANNOUNCED: a second one keeps what the row says of spending and votes
CandidacyRows(rows, key, party) ==
    [k \in DOMAIN rows \cup {key} |->
        IF k # key THEN rows[k]
        ELSE IF k \in DOMAIN rows THEN [rows[k] EXCEPT !.party = party]
        ELSE [party |-> party, spend |-> 0, votes |-> 0]]

\* ElectionOffice.announce: a second announcement replaces the first, deposit and all
Announce(x) ==
    /\ Resolve(x, "announce")
    /\ candidacies' = [k \in DOMAIN candidacies \cup {<<x[3], x[2]>>} |->
            IF k = <<x[3], x[2]>>
            THEN [party |-> x[4], spend |-> 0, votes |-> 0, refunded |-> FALSE]
            ELSE candidacies[k]]
    /\ cash' = [cash EXCEPT ![x[2]] = @ - Deposit] /\ treasury' = treasury + Deposit
    /\ tables' = [tables EXCEPT !.candidacies = CandidacyRows(@, <<x[3], x[2]>>, x[4])]
    /\ UNCHANGED <<tick, stage, inputs, agentVars, outlet, partyVars, voteVars,
                   elections, ballots, results, holders, policyVars>>

\* ElectionOffice.campaign: ads pay the outlet's firm, a rally the place's owner;
\* ads that name no live outlet pass the gates and raise
Campaign(x) ==
    /\ Resolve(x, "campaign")
    /\ candidacies' = [candidacies EXCEPT ![<<x[3], x[4]>>].spend = @ + Spent(x)]
    /\ tables' = [tables EXCEPT !.candidacies[<<x[3], x[4]>>].spend = @ + Spent(x)]
    /\ cash' = [cash EXCEPT ![x[2]] = @ - Paid(x)] /\ outlet' = outlet + Paid(x)
    /\ UNCHANGED <<tick, stage, inputs, agentVars, treasury, partyVars, voteVars,
                   elections, ballots, results, holders, policyVars>>

\* ElectionOffice.cast of a ballot an agent submitted
Vote(x) ==
    /\ Resolve(x, "vote")
    /\ ballots' = [k \in DOMAIN ballots \cup {<<x[3], x[2]>>} |->
            IF k = <<x[3], x[2]>> THEN x[4] ELSE ballots[k]]
    /\ UNCHANGED <<tick, stage, inputs, agentVars, moneyVars, partyVars, voteVars,
                   elections, candidacies, results, holders, policyVars, tables>>

\* PolicyEngine.propose: the old value is the one in force now
Propose(x) ==
    /\ Resolve(x, "propose")
    /\ proposals' = Append(proposals,
            [by |-> x[2], param |-> x[3], old |-> Value(x[3], tick), new |-> x[4],
             outcome |-> "pending"])
    /\ UNCHANGED <<tick, stage, inputs, agentVars, moneyVars, partyVars, voteVars,
                   electionVars, holders, history, records, tables>>

EndResolve ==
    /\ stage = "resolve" /\ queue = {} /\ stage' = "officials"
    /\ UNCHANGED <<tick, queue, inputs, agentVars, moneyVars, partyVars, voteVars,
                   electionVars, holders, policyVars, tables>>

-----------------------------------------------------------------------------
(* The scheduled steps, and what happens to agents meanwhile *)

Step(x) ==
    /\ stage = "officials" /\ inputs < MaxInputs /\ tick < LastTick /\ results = <<>>
    /\ inputs' = inputs + 1
    /\ UNCHANGED <<tick, stage, queue>>

\* ElectionOffice.call: those eligible at the voting tick as things stand now
Call(x) ==
    /\ Step(x) /\ x[1] = "call"
    /\ \A e \in DOMAIN elections : elections[e].office = x[2] => elections[e].resolved
    /\ \E method \in Methods(x[2]) :
       \E new \in {Election(x[2], method, {a \in Agents : Eligible(a, tick + CampaignLength)})} :
        /\ elections' = Append(elections, new)
        /\ tables' = [tables EXCEPT !.elections = Append(@, ElectionRow(new))]
    /\ UNCHANGED <<agentVars, moneyVars, partyVars, voteVars, candidacies, ballots, results,
                   holders, policyVars>>

\* OfficeRegister.appoint: confirmed or not; nobody is replaced
Appoint(x) ==
    /\ Step(x) /\ x[1] = "appoint"
    /\ x[2] = "police_chief" \/ x[4]
    /\ holders' = Assumed(holders, x[2], x[3])
    /\ UNCHANGED <<agentVars, moneyVars, partyVars, voteVars, electionVars, policyVars, tables>>

\* OfficeRegister.remove: the governor only by five sevenths, here the flag x[4]
Remove(x) ==
    /\ Step(x) /\ x[1] = "remove" /\ (x[2] # "cb_governor" \/ x[4])
    /\ \E a \in Holding(holders, x[2], tick) : holders' = Vacated(x[2], a, "removal")
    /\ UNCHANGED <<agentVars, moneyVars, partyVars, voteVars, electionVars, policyVars, tables>>

\* External: an agent dies, emigrates or goes to prison, and its offices are vacated
Leaves(x) ==
    /\ Step(x) /\ x[1] \in {"death", "emigration", "incarceration"} /\ Free(x[2])
    /\ alive' = IF x[1] = "incarceration" THEN alive ELSE alive \ {x[2]}
    /\ jailed' = IF x[1] = "incarceration" THEN jailed \cup {x[2]} ELSE jailed
    /\ holders' = IF HoldsOffice(x[2], tick) = "none" THEN holders
                  ELSE Vacated(HoldsOffice(x[2], tick), x[2], x[1])
    /\ UNCHANGED <<moneyVars, partyVars, voteVars, electionVars, policyVars, tables>>

\* The elections to be held at this tick, after the other steps and in their order
DueElections == {e \in DOMAIN elections : ~elections[e].resolved /\ elections[e].voting <= tick}

\* The voters whose deliberate ballots hold asks for: the first of those pending
Asked(pending) ==
    LET q == Cardinality(pending) \div Multiplier
        r == Cardinality(pending) % Multiplier
        up == 2 * r > Multiplier \/ (2 * r = Multiplier /\ q % 2 = 1)
        budget == Max({1, IF up THEN q + 1 ELSE q})
    IN {v \in pending : Cardinality({w \in pending : w < v}) < budget}

\* The ballots hold may add: deliberate ones of those asked, else a reflex choice
NewBallots(pending, asked, cands) ==
    {b \in [pending -> BallotsOver(cands)] :
        \A v \in pending \ asked : b[v] \in ReflexBallots(cands)}

\* Whether the fit over the deliberate choices can be usable: two rows are needed
MayFit(asked, b) == Cardinality({v \in asked : b[v].choice # None}) >= 2

\* The candidates whose deposit hold gives back
Refundable(e, counts) ==
    {c \in Candidates(e) :
        /\ ~candidacies[<<e, c>>].refunded /\ Sum(counts) > 0
        /\ (IF c \in DOMAIN counts THEN counts[c] ELSE 0) * 100 >= RefundPercent * Sum(counts)}

\* The candidacies after a count: votes recorded, refunds marked
Recorded(e, t) ==
    LET back == Refundable(e, t.counts)
    IN [k \in DOMAIN candidacies |->
        IF k[1] # e THEN candidacies[k]
        ELSE [candidacies[k] EXCEPT
                !.votes = IF k[2] \in DOMAIN t.counts THEN t.counts[k[2]] ELSE @,
                !.refunded = @ \/ k[2] \in back]]

\* ELECTION_RESOLVED: the winners, and the votes of those who got any
ResolvedRows(e, t) ==
    [tables EXCEPT !.elections[e].winners = t.winners,
                   !.candidacies = [k \in DOMAIN @ |->
                        IF k[1] = e /\ k[2] \in DOMAIN t.counts
                        THEN [@[k] EXCEPT !.votes = t.counts[k[2]]] ELSE @[k]]]

\* Elected: every winner assumes the office
Elected(office, winners) ==
    [holders EXCEPT ![office] = [a \in Agents |->
        IF a \in winners THEN Assumed(holders, office, a)[office][a] ELSE @[a]]]

\* The second half of hold: the ballots b of those pending are added to the
\* others, and all of them have the outcome t
Count(e, pending, b, all, t) ==
    /\ ballots' = [k \in DOMAIN ballots \cup ({e} \X pending) |->
                    IF k \in DOMAIN ballots THEN ballots[k] ELSE b[k[2]]]
    /\ results' = [d \in DOMAIN results \cup {e} |->
                    IF d = e THEN [ballots |-> all, counts |-> t.counts, winners |-> t.winners]
                    ELSE results[d]]
    /\ candidacies' = Recorded(e, t)
    /\ tables' = ResolvedRows(e, t)
    /\ LET back == Refundable(e, t.counts)
       IN /\ cash' = [a \in Agents |-> IF a \in back THEN cash[a] + Deposit ELSE cash[a]]
          /\ treasury' = treasury - Deposit * Cardinality(back)
    /\ received' = [a \in Agents |->
            IF a \in DOMAIN t.counts THEN received[a] + t.counts[a] ELSE received[a]]
    /\ lastVotes' = [a \in Agents |->
            IF a \in DOMAIN t.counts THEN t.counts[a] ELSE lastVotes[a]]
    /\ holders' = Elected(elections[e].office, t.winners)
    /\ parties' = CycleClosed({candidacies[<<e, c>>].party : c \in Candidates(e)})
    /\ elections' = [elections EXCEPT ![e].resolved = TRUE]

\* ElectionOffice.hold of an election that can be counted
Hold(e) ==
    /\ stage = "officials" /\ e \in DueElections /\ \A d \in DueElections : e <= d
    /\ \E pending \in {elections[e].electorate \ Voted(e)} :
       \E b \in NewBallots(pending, Asked(pending), Candidates(e)) :
        /\ (\E d \in DOMAIN elections : elections[d].resolved) => MayFit(Asked(pending), b)
        /\ \E all \in {[v \in Voted(e) \cup pending |->
                            IF v \in pending THEN b[v] ELSE ballots[<<e, v>>]]} :
           \E t \in Tally(e, all) : Count(e, pending, b, all, t)
    /\ UNCHANGED <<clockVars, agentVars, outlet, membership, policyVars>>

\* ElectionOffice.hold of a later election whose fit is unusable: in a week again
Rerun(e) ==
    /\ stage = "officials" /\ e \in DueElections /\ \A d \in DueElections : e <= d
    /\ \E d \in DOMAIN elections : elections[d].resolved
    /\ \E again \in {[elections[e] EXCEPT !.voting = tick + Week, !.ends = tick]} :
        /\ elections' = [elections EXCEPT ![e] = again]
        /\ tables' = [tables EXCEPT !.elections[e] = ElectionRow(again)]
    /\ UNCHANGED <<clockVars, agentVars, moneyVars, partyVars, voteVars, candidacies, ballots,
                   results, holders, policyVars>>

-----------------------------------------------------------------------------
(* PolicyEngine.council_session *)

\* After the elections.  Of a counted ballot the model keeps only that it was
\* cast: nothing reads its content again.
BeginSession ==
    /\ stage = "officials" /\ DueElections = {} /\ stage' = "session"
    /\ ballots' = [k \in DOMAIN ballots |->
            IF elections[k[1]].resolved THEN Choice(None) ELSE ballots[k]]
    /\ results' = <<>>
    /\ UNCHANGED <<tick, queue, inputs, agentVars, moneyVars, partyVars, voteVars, elections,
                   candidacies, holders, policyVars, tables>>

Pending == {i \in DOMAIN proposals : proposals[i].outcome = "pending"}

\* PolicyEngine.admissible: ranges and solvency, and the separation of the rate
Admissible(q) ==
    /\ <<q.param, q.new>> \notin Inadmissible
    /\ q.param = "rate" => HoldsOffice(q.by, tick) = "cb_governor"

Closed(i, outcome) == [proposals EXCEPT ![i].outcome = outcome]

\* Mutant: a policy takes effect at the tick of its enactment
EffectiveNow(p) == tick

\* PolicyEngine.effective_tick_for
EffectiveTick(p) == tick + Max({1, Lag[p]})

\* POLICY_ENACTED and POLICY_REPEALED: an event only repeals the policy whose old value is restored
PolicyRows(rows, q) ==
    LET n == Len(rows)
        restored == n > 0 /\ rows[n].old = q.new
    IN Append(IF restored THEN [rows EXCEPT ![n].repealed = tick] ELSE rows,
              [old |-> q.old, new |-> q.new, effective |-> EffectiveTick(q.param),
               repealed |-> NoTick])

\* PolicyEngine.enact: the overlay, the record and the proposal
Enact(i) ==
    LET q == proposals[i]
        p == q.param
        n == Len(records[p])
        repealed == IF n = 0 THEN <<>>
                    ELSE [records[p] EXCEPT ![n].repealed = tick]
    IN /\ history' = [history EXCEPT ![p] =
                Append(@, [value |-> q.new, effective |-> EffectiveTick(p)])]
       /\ records' = [records EXCEPT ![p] =
                Append(repealed, [proposal |-> i, old |-> q.old, new |-> q.new,
                                  effective |-> EffectiveTick(p), repealed |-> NoTick])]
       /\ proposals' = Closed(i, "enacted")
       /\ tables' = [tables EXCEPT !.policies[p] = PolicyRows(@, q)]

Decide(i) ==
    /\ stage = "session" /\ i \in Pending
    /\ UNCHANGED <<clockVars, agentVars, moneyVars, partyVars, voteVars, electionVars, holders>>

Block(i) ==
    /\ Decide(i) /\ ~Admissible(proposals[i])
    /\ proposals' = Closed(i, "blocked") /\ UNCHANGED <<history, records, tables>>

\* A parameter of the governor alone is enacted without a vote
EnactByGovernor(i) ==
    /\ Decide(i) /\ Admissible(proposals[i])
    /\ Authority[proposals[i].param] = "cb_governor_only"
    /\ Enact(i)

\* The council votes: its members are for, against or abstain
Members == Cardinality(Holding(holders, "council", tick))

CouncilVote(i) ==
    /\ Decide(i) /\ Admissible(proposals[i])
    /\ Authority[proposals[i].param] # "cb_governor_only"

Passed(yeas, nays) == yeas > nays

Reject(i, yeas, nays) ==
    /\ CouncilVote(i) /\ ~Passed(yeas, nays)
    /\ proposals' = Closed(i, "rejected") /\ UNCHANGED <<history, records, tables>>

\* A veto is overridden by two thirds of all seats when none is vacant
Overridden(yeas) == Members >= Seats["council"] /\ yeas * 3 >= Seats["council"] * 2

MayVeto(i) ==
    /\ Authority[proposals[i].param] = "council_and_president"
    /\ Holding(holders, "president", tick) # {}

Veto(i, yeas, nays) ==
    /\ CouncilVote(i) /\ Passed(yeas, nays)
    /\ MayVeto(i) /\ ~Overridden(yeas)
    /\ proposals' = Closed(i, "vetoed") /\ UNCHANGED <<history, records, tables>>

\* Enacted: not vetoed, or vetoed and overridden
EnactByCouncil(i, yeas, nays) ==
    /\ CouncilVote(i) /\ Passed(yeas, nays)
    /\ Enact(i)

\* The end of the tick: dissolve_stale, and the next one begins
Dissolved == {p \in Live : Stale(parties[p])}

EndTick ==
    /\ stage = "session" /\ Pending = {} /\ tick < LastTick
    /\ parties' = [p \in DOMAIN parties |->
            IF p \in Dissolved THEN [parties[p] EXCEPT !.dissolved = tick] ELSE parties[p]]
    /\ membership' = [a \in Agents |->
            IF \E p \in Dissolved : a \in Listed(parties[p].members) THEN None
            ELSE membership[a]]
    /\ tables' = [tables EXCEPT !.parties = [p \in DOMAIN @ |->
            IF p \in Dissolved THEN [@[p] EXCEPT !.dissolved = tick] ELSE @[p]]]
    /\ tick' = tick + 1 /\ stage' = "gate"
    /\ UNCHANGED <<queue, inputs, agentVars, moneyVars, voteVars, electionVars, holders,
                   policyVars>>

\* The run is over at the last tick, or after an exception
Ended ==
    /\ stage = "raised" \/ (stage = "session" /\ Pending = {} /\ tick = LastTick)
    /\ UNCHANGED vars

Next ==
    \/ Submit \/ EndGate
    \/ \E x \in queue :
        \/ Found(x) \/ Join(x) \/ Announce(x) \/ Campaign(x) \/ Vote(x) \/ Propose(x)
        \/ Raise(x)
    \/ EndResolve
    \/ \E x \in Steps : Call(x) \/ Appoint(x) \/ Remove(x) \/ Leaves(x)
    \/ \E e \in DOMAIN elections : Hold(e) \/ Rerun(e)
    \/ BeginSession
    \/ \E i \in DOMAIN proposals : Block(i) \/ EnactByGovernor(i)
    \/ \E i \in DOMAIN proposals : \E yeas \in 0..Members : \E nays \in 0..(Members - yeas) :
        Reject(i, yeas, nays) \/ Veto(i, yeas, nays) \/ EnactByCouncil(i, yeas, nays)
    \/ EndTick
    \/ Ended

Spec == Init /\ [][Next]_vars

-----------------------------------------------------------------------------
(* Properties *)

\* Nobody and not the treasury is overdrawn, every party, candidacy and office
\* refers to agents that exist, and only live parties have a size that counts.
TypeOK ==
    /\ tick \in 0..LastTick /\ inputs \in 0..MaxInputs
    /\ stage \in {"gate", "resolve", "officials", "session", "raised"}
    /\ queue \subseteq Actions
    /\ alive \subseteq Agents /\ jailed \subseteq Agents
    /\ cash \in [Agents -> Nat] /\ treasury \in Nat /\ outlet \in Nat
    /\ membership \in [Agents -> DOMAIN parties \cup {None}]
    /\ \A p \in DOMAIN parties : parties[p].members \in [Agents -> Nat]
    /\ DOMAIN candidacies \cup DOMAIN ballots \subseteq (DOMAIN elections) \X Agents
    /\ holders \in [Offices -> [Agents -> [start : 0..NoTick, end : 0..NoTick]]]

\* PartyRegistry keeps two records of membership.  Through founding, joining,
\* switching and dissolution, who the registry says is a member of a party is
\* listed by that party, which is live; and a live party lists besides its
\* members only agents that have founded a party.
MembersListed ==
    /\ \A a \in Agents : membership[a] # None =>
            membership[a] \in Live /\ a \in Listed(parties[membership[a]].members)
    /\ \A p \in Live : \A a \in Listed(parties[p].members) :
            \/ membership[a] = p
            \/ \E q \in DOMAIN parties : parties[q].founder = a

\* Every count elects candidates, and follows its method: under plurality and approval nobody has more
\* than the winner; under irv a candidate first on most rankings wins, and one
\* that every rival beats on them does not; under proportional no list would
\* have had a better claim to a seat that another list was given.
WinnersRight ==
    \A e \in DOMAIN results :
        LET r == results[e]
            method == elections[e].method
            ranked == {v \in DOMAIN r.ballots : r.ballots[v].ranking # <<>>}
            first(c) == {v \in ranked : r.ballots[v].ranking[1] = c}
            above(c, d) == {v \in ranked : LET k == r.ballots[v].ranking IN
                \E i \in DOMAIN k : k[i] = c /\ \A j \in DOMAIN k : k[j] = d => i < j}
            beaten(c, d) == Cardinality(above(c, d)) < Cardinality(above(d, c))
            rivals(c) == UNION {r.ballots[v].approvals : v \in ranked} \ {c}
            votes == ListVotes(e, r.ballots)
            seats(l) == Cardinality({w \in r.winners : ListOf(e, w) = l})
            full(l) == seats(l) = Cardinality({c \in Candidates(e) : ListOf(e, c) = l})
        IN /\ r.winners \subseteq Candidates(e)
           /\ CASE method \in {"plurality", "approval"} -> r.winners \subseteq Top(r.counts)
                [] method = "irv" ->
                     /\ \A c \in Agents :
                           2 * Cardinality(first(c)) > Cardinality(ranked) => r.winners = {c}
                     /\ \A w \in r.winners :
                           rivals(w) = {} \/ \E d \in rivals(w) : ~beaten(w, d)
                [] OTHER ->
                     /\ Cardinality(r.winners) <= Seats[elections[e].office]
                     /\ \A l, k \in DOMAIN votes : seats(l) > 0 /\ ~full(k) =>
                           votes[l] * (seats(k) + 1) >= votes[k] * seats(l)

\* The treasury always holds the founding fees and every deposit that was not
\* given back: no deposit is refunded twice, whatever reruns and counts occur.
DepositsHeld ==
    treasury >= Treasury + Fee * Len(parties)
        + Deposit * Cardinality({k \in DOMAIN candidacies : ~candidacies[k].refunded})

\* Policy never applies retroactively: no step changes the value that was in
\* force at this tick or an earlier one.
PastIsFixed ==
    [][\A p \in Params : \A t \in 0..tick : Value(p, t)' = Value(p, t)]_vars

\* The overlay is what the records of enacted policies say: every enacted
\* proposal has one record, all records of a parameter but the newest are
\* repealed, and the value in force is the newest that took effect.
OverlayIsRecord ==
    \A p \in Params :
        LET rs == records[p]
            effective == {i \in DOMAIN rs : rs[i].effective <= tick}
        IN /\ \A i \in DOMAIN proposals : proposals[i].param = p =>
                Cardinality({j \in DOMAIN rs : rs[j].proposal = i})
                    = (IF proposals[i].outcome = "enacted" THEN 1 ELSE 0)
           /\ \A j \in DOMAIN rs : (rs[j].repealed = NoTick) <=> (j = Len(rs))
           /\ Value(p, tick) = IF effective = {} THEN Default[p] ELSE rs[Max(effective)].new

\* The tables written from the events show what the registers hold: parties, elections, votes
\* and policies.  They differ in two ways: a candidacy announced again keeps the spending of the
\* first in its row, and the row of a superseded policy is marked repealed only when the new one
\* restores the value it had replaced (announce, enact, PolityProjection.apply).
TablesAgree ==
    /\ tables.parties = [p \in DOMAIN parties |->
            [founded |-> parties[p].founded, dissolved |-> parties[p].dissolved]]
    /\ DOMAIN tables.elections = DOMAIN elections
    /\ \A e \in DOMAIN elections :
            LET row == tables.elections[e]
            IN /\ row = [ElectionRow(elections[e]) EXCEPT !.winners = row.winners]
               /\ e \in DOMAIN results => row.winners = results[e].winners
               /\ ~elections[e].resolved => row.winners = {}
    /\ DOMAIN tables.candidacies = DOMAIN candidacies
    /\ \A k \in DOMAIN candidacies :
            LET row == tables.candidacies[k]
            IN /\ row.party = candidacies[k].party /\ row.votes = candidacies[k].votes
               /\ row.spend >= candidacies[k].spend
    /\ \A p \in Params : \A i \in DOMAIN records[p] :
            LET row == tables.policies[p][i]
                restored == i < Len(records[p]) /\ records[p][i + 1].new = records[p][i].old
            IN /\ row.old = records[p][i].old /\ row.new = records[p][i].new
               /\ row.effective = records[p][i].effective
               /\ row.repealed = IF restored THEN records[p][i].repealed ELSE NoTick

\* The registers of parties, deposits and policies agree with each other and with their tables.
RegistersAgree ==
    /\ TypeOK
    /\ MembersListed
    /\ DepositsHeld
    /\ OverlayIsRecord
    /\ TablesAgree
=============================================================================
