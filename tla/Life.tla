-------------------------------- MODULE Life --------------------------------
(***************************************************************************)
(* Households, unions, births, migration and death (agents/demography.py)  *)
(* and the settlement of estates (economy/estate.py).                      *)
(*                                                                         *)
(* DemographyInstitution.run is one call per tick; `stage` is the place in *)
(* it.  Actions pass the gates in an earlier phase of the tick ("gate").   *)
(* What the hazards decide is nondeterministic, bounded by `draws`; agents *)
(* are drawn in the order of their ids, which are numbers, and a newborn   *)
(* or a newcomer takes the next one.  A tick is a year of age.  An agent   *)
(* has one deposit per bank, and at most one loan.  Reserves of banks are  *)
(* in Banking, orders in Exchange, the cap tables of ventures in Ventures. *)
(***************************************************************************)
EXTENDS Ledger

CONSTANTS
  Pool, Banks,
  Genesis,        \* by agent of the genesis: age, household, deposits, accrued wage, loan, shares
  Wage,           \* wage of each agent while it is employed
  Founder,        \* founder of the firm that employs everybody
  Insolvents,     \* the agents with an open bankruptcy case
  FirmBank, StartFirm,
  IncomeTax,      \* progressive_income_tax_cents, by gross wage
  PayrollBp, InheritanceBp,
  Majority, LeaveHomeAge, IndependenceThreshold, Band,
  Window, Gestation,
  ChildCost, ChildBenefit, ArrearsTolerance,
  Agendas,        \* the sets of actions <<type, actor, target>> a tick may bring
  Earnings,       \* what the economy pays an agent between two runs
  MaxDraws, LastTick

Menu == UNION Agendas
Nobody == 0
NoHome == -1
StateHome == 0      \* state_household_identity

ASSUME LifeAssumption ==
  /\ Pool \subseteq Nat \ {0} /\ IsFiniteSet(Pool) /\ DOMAIN Genesis \subseteq Pool /\ Banks \subseteq Nat
  /\ Wage \in [Pool -> Nat] /\ Majority \in Nat
  /\ \A a \in DOMAIN Genesis : Genesis[a].age \in Nat /\ Genesis[a].household \in Nat \ {StateHome}
  /\ \A acts \in Agendas : \A x \in acts : {x[2], x[3]} \subseteq Pool /\ x[2] # x[3]
  /\ FirmBank \in Banks /\ Founder \in DOMAIN Genesis
  /\ InheritanceBp \in 0..10000 /\ \A g \in DOMAIN IncomeTax : IncomeTax[g] \in 0..g

VARIABLES
  tick, stage, turn, draws,
  pending,      \* CourtshipRegistry.pending
  people,       \* status, age, mother, father
  homes,        \* of: household_id of each agent; rows: HouseholdRegistry.households
  courtships,   \* CourtshipRegistry.rows
  unions,       \* the live partner ties of the social graph
  pregnancies,  \* Fertility.pregnancies, by mother
  money,        \* deposits of each agent by bank
  jobs, accrued, loans, shares, founder,
  firm, treasury, repaid,  \* cash of the firm, of the treasury, and what lenders got back
  bereaved      \* the agents of the last BEREAVEMENT_APPLIED

economy == <<jobs, accrued, loans, shares, founder>>
purses == <<money, firm, treasury, repaid>>
family == <<courtships, unions, pregnancies>>
clock == <<tick, stage, turn>>
vars == <<clock, draws, pending, people, homes, family, purses, economy, bereaved>>

Alive == {a \in Pool : people[a].status = "alive"}
Minor(a) == people[a].age < Majority
Unborn == {a \in Pool : people[a].status = "unborn"}

\* The deposits m: what an agent has, and its first account
Wealth(m, a) == SumOf(m[a])

FirstBank(m, a) == Min(DOMAIN m[a])

Credited(m, a, bank, cents) ==
  [m EXCEPT ![a] = (bank :> cents + (IF bank \in DOMAIN @ THEN @[bank] ELSE 0)) @@ @]

\* ensure_agent_account of a new agent: a deposit at the first bank
WithAccount(m, a) == Credited(m, a, Min(Banks), 0)

\* allocate, by id
Split(pool, weights) ==
  LET keyed == [k \in {<<0, x>> : x \in DOMAIN weights} |-> weights[k[2]]]
  IN  [x \in DOMAIN weights |-> Allocate(pool, keyed)[<<0, x>>]]

\* EconomyEmploymentPort.income_cents
Income(a) == IF a \in jobs THEN Wage[a] ELSE 0

BestPaid(S) == CHOOSE a \in S : \A b \in S : Income(a) > Income(b) \/ (Income(a) = Income(b) /\ a <= b)

-----------------------------------------------------------------------------
(* HouseholdRegistry, on homes h and deposits m *)

\* HouseholdRegistry.of
Housed(h, a) == h.of[a] # NoHome /\ h.rows[h.of[a]].live

Baseline(members, m) == [a \in Pool |-> IF a \in members THEN Wealth(m, a) ELSE 0]

Household(members, head, shelter, base) ==
  [live |-> TRUE, members |-> members, head |-> head, shelter |-> shelter,
   base |-> base, arrears |-> 0]

Closed == [Household({}, Nobody, FALSE, Baseline({}, <<>>)) EXCEPT !.live = FALSE]

\* Mutant: the household keeps the agents on its list
LeaveListed(h, leavers) == [h EXCEPT !.of = [a \in Pool |-> IF a \in leavers THEN NoHome ELSE h.of[a]]]

\* The household without the leavers: another member becomes the head
WithoutMembers(row, leavers) ==
  LET rest == row.members \ leavers
  IN  [row EXCEPT !.members = rest,
                  !.head = IF row.head \in rest THEN row.head ELSE IF rest = {} THEN Nobody ELSE Min(rest)]

\* leave with _remove_member, of one housed agent after the other: whatever their order, a
\* head that is gone is replaced by the smallest id that stays
Leave(h, leavers) ==
  [of |-> [a \in Pool |-> IF a \in leavers THEN NoHome ELSE h.of[a]],
   rows |-> [id \in DOMAIN h.rows |->
               IF \E a \in leavers : h.of[a] = id THEN WithoutMembers(h.rows[id], leavers) ELSE h.rows[id]]]

HousedOf(h, S) == {a \in S : Housed(h, a)}

\* form: the members leave the households they are in, which may stay without any
Form(h, members, m) ==
  LET new == Max(DOMAIN h.rows) + 1
      left == Leave(h, HousedOf(h, members))
  IN  [of |-> [a \in Pool |-> IF a \in members THEN new ELSE left.of[a]],
       rows |-> [id \in DOMAIN left.rows \cup {new} |->
                   IF id = new THEN Household(members, BestPaid(members), FALSE, Baseline(members, m))
                   ELSE left.rows[id]]]

\* join of a live household, by one agent after the other; the state household has no head
Join(h, joiners, id, m) ==
  LET left == Leave(h, {a \in HousedOf(h, joiners) : h.of[a] # id})
      row == left.rows[id]
      joined == [row EXCEPT !.members = row.members \cup joiners,
                            !.head = IF row.head # Nobody \/ row.shelter THEN row.head ELSE Min(joiners),
                            !.base = [a \in Pool |-> IF a \in joiners THEN Wealth(m, a) ELSE row.base[a]]]
  IN  [of |-> [a \in Pool |-> IF a \in joiners THEN id ELSE left.of[a]],
       rows |-> [left.rows EXCEPT ![id] = joined]]

\* dissolve of a live household
Dissolve(h, id) ==
  [of |-> [a \in Pool |-> IF h.of[a] = id THEN NoHome ELSE h.of[a]],
   rows |-> [h.rows EXCEPT ![id] = Closed]]

\* state_household
WithStateHome(h) ==
  IF StateHome \in DOMAIN h.rows /\ h.rows[StateHome].live THEN h
  ELSE [of |-> h.of,
        rows |-> [id \in DOMAIN h.rows \cup {StateHome} |->
                    IF id = StateHome THEN Household({}, Nobody, TRUE, Baseline({}, <<>>)) ELSE h.rows[id]]]

\* state_intervention, of one child after the other
StateCare(h, children, m) ==
  IF children = {} THEN h ELSE Join(WithStateHome(h), children, StateHome, m)

\* advance_independence: nothing asks whether the agent has a partner or children there
Independent(h, a) ==
  /\ Housed(h, a) /\ Cardinality(h.rows[h.of[a]].members) > 1
  /\ people[a].age >= LeaveHomeAge /\ Income(a) >= IndependenceThreshold

-----------------------------------------------------------------------------
(* The stages of a tick *)

Init ==
  /\ tick = 1 /\ stage = "gate" /\ turn = 0 /\ draws = 0 /\ pending = {}
  /\ people = [a \in Pool |->
       [status |-> IF a \in DOMAIN Genesis THEN "alive" ELSE "unborn",
        age |-> IF a \in DOMAIN Genesis THEN Genesis[a].age ELSE 0,
        mother |-> Nobody, father |-> Nobody]]
  /\ money = [a \in Pool |-> IF a \in DOMAIN Genesis THEN Genesis[a].deposits ELSE <<>>]
  /\ homes = \* bootstrap: the oldest is the head
       [of |-> [a \in Pool |-> IF a \in DOMAIN Genesis THEN Genesis[a].household ELSE NoHome],
        rows |-> [id \in {Genesis[a].household : a \in DOMAIN Genesis} |->
          LET members == {a \in DOMAIN Genesis : Genesis[a].household = id}
              head == CHOOSE a \in members : \A b \in members :
                        \/ Genesis[a].age > Genesis[b].age
                        \/ Genesis[a].age = Genesis[b].age /\ a <= b
          IN  Household(members, head, FALSE, Baseline(members, money))]]
  /\ courtships = <<>> /\ unions = {} /\ pregnancies = <<>> /\ bereaved = {}
  /\ jobs = {a \in DOMAIN Genesis : Genesis[a].age >= Majority /\ Wage[a] > 0}
  /\ accrued = [a \in Pool |-> IF a \in DOMAIN Genesis THEN Genesis[a].accrued ELSE 0]
  /\ loans = [a \in Pool |-> IF a \in DOMAIN Genesis THEN Genesis[a].loan ELSE 0]
  /\ shares = [a \in Pool \cup {gv_treasury} |-> IF a \in DOMAIN Genesis THEN Genesis[a].shares ELSE 0]
  /\ founder = Founder /\ firm = StartFirm /\ treasury = 0 /\ repaid = 0

Goto(s) == stage' = s /\ turn' = 0 /\ UNCHANGED tick

Partnered(a) == \E t \in unions : a \in t

\* RelationalResolver.check_capability
Capable(x) ==
  /\ x[2] \in Alive /\ x[3] \in Alive
  /\ IF x[1] = "DISSOLVE_UNION" THEN {x[2], x[3]} \in unions
     ELSE ~Minor(x[2]) /\ ~Minor(x[3]) /\ ~Partnered(x[2]) /\ ~Partnered(x[3])

\* The gates of LivingCityEngine.validate, none of which sees what another action will do
Accepted(acts) == \A x \in acts : Capable(x)

\* RelationalResolver.resolve: the actions of a tick wait for the run
Submit ==
  /\ stage = "gate"
  /\ \E acts \in Agendas : Accepted(acts) /\ pending' = acts
  /\ Goto("process")
  /\ UNCHANGED <<draws, people, homes, family, purses, economy, bereaved>>

\* External: the economy pays an agent
Earn(a, cents) ==
  /\ stage = "gate" /\ draws < MaxDraws /\ a > turn /\ a \in jobs /\ firm >= cents
  /\ money' = Credited(money, a, FirmBank, cents) /\ firm' = firm - cents
  /\ turn' = a /\ draws' = draws + 1
  /\ UNCHANGED <<tick, stage, pending, people, homes, family, treasury, repaid, economy, bereaved>>

-----------------------------------------------------------------------------
(* CourtshipRegistry *)

Types == <<"COURT", "DISSOLVE_UNION", "PROPOSE_UNION">>

Rank(x) == 100 * (CHOOSE i \in DOMAIN Types : Types[i] = x[1]) + 10 * x[2] + x[3]

\* process takes the actions by type, actor and target
IsNext(x) == x \in pending /\ \A y \in pending : Rank(x) <= Rank(y)

Pair(a, b) == IF a < b THEN <<a, b>> ELSE <<b, a>>

\* court
Court(x) ==
  /\ stage = "process" /\ IsNext(x) /\ x[1] = "COURT"
  /\ LET key == Pair(x[2], x[3])
         row == IF key \in DOMAIN courtships THEN courtships[key]
                ELSE [latest |-> <<>>, proposals |-> {}]
     IN  courtships' = (key :> [row EXCEPT !.latest = (x[2] :> tick) @@ @]) @@ courtships
  /\ pending' = pending \ {x}
  /\ UNCHANGED <<clock, draws, people, homes, unions, pregnancies, purses, economy, bereaved>>

\* mutual
Mutual(a, b) ==
  /\ Pair(a, b) \in DOMAIN courtships
  /\ LET latest == courtships[Pair(a, b)].latest
     IN  DOMAIN latest = {a, b} /\ \A x \in {a, b} : tick - latest[x] <= Window

\* The condition of confirm
Confirmable(a, b) == ~Partnered(a) /\ ~Partnered(b)

\* propose_union and confirm: the couple takes along every minor of both households
ProposeUnion(x) ==
  LET a == x[2]
      b == x[3]
      key == Pair(a, b)
      proposals == courtships[key].proposals \cup {a}
      children == {c \in Alive : Minor(c) /\ homes.of[c] \in {homes.of[a], homes.of[b]}}
  IN  /\ stage = "process" /\ IsNext(x) /\ x[1] = "PROPOSE_UNION"
      /\ IF ~Mutual(a, b) THEN UNCHANGED <<homes, courtships, unions>>
         ELSE IF proposals = {a, b} /\ Confirmable(a, b)
         THEN /\ homes' = Form(homes, {a, b} \cup children, money)
              /\ unions' = unions \cup {{a, b}}
              /\ courtships' = [k \in DOMAIN courtships \ {key} |-> courtships[k]]
         ELSE /\ courtships' = [courtships EXCEPT ![key].proposals = proposals]
              /\ UNCHANGED <<homes, unions>>
      /\ pending' = pending \ {x}
      /\ UNCHANGED <<clock, draws, people, pregnancies, purses, economy, bereaved>>

\* Mutant: what a partner had before the union is split too
GainAll(row, a) == Wealth(money, a)

\* What a partner has gained since the household was formed
Gain(row, a) == Max({0, Wealth(money, a) - row.base[a]})

\* _joint_wealth_split: who pays how much
Donation(row, a, b) ==
  LET excess(y) == Gain(row, y) - Split(Gain(row, a) + Gain(row, b), [w \in {a, b} |-> 1])[y]
      donor == CHOOSE y \in {a, b} : \A z \in {a, b} :
                 excess(y) > excess(z) \/ (excess(y) = excess(z) /\ y >= z)
  IN  [donor |-> donor, receiver |-> IF donor = a THEN b ELSE a, cents |-> Max({0, excess(donor)})]

\* The donation comes from the first account alone
Donated(d) ==
  [money EXCEPT ![d.donor][FirstBank(money, d.donor)] = @ - d.cents,
                ![d.receiver][FirstBank(money, d.receiver)] = @ + d.cents]

Together(a, b) == Housed(homes, a) /\ homes.of[a] = homes.of[b]

\* _dissolve_union: the household ends; its minors go with the better paid of the
\* couple, every other adult alone
Separated(a, b, m) ==
  LET old == homes.of[a]
      members == homes.rows[old].members
      children == {c \in members \ {a, b} : Minor(c)}
      custody == BestPaid({a, b})
      new(c) == Max(DOMAIN homes.rows) + c
      group(c) == IF c = custody THEN {c} \cup children ELSE {c}
      formed(c) == Household(group(c), BestPaid(group(c)), FALSE, Baseline(group(c), m))
      of == [c \in Pool |-> IF c \notin members THEN homes.of[c]
                            ELSE IF c \in children THEN new(custody) ELSE new(c)]
  IN  [of |-> of,
       rows |-> [id \in DOMAIN homes.rows \cup {of[c] : c \in members} |->
                   IF id = old THEN Closed
                   ELSE IF id \in DOMAIN homes.rows THEN homes.rows[id]
                   ELSE formed(id - Max(DOMAIN homes.rows))]]

SplitOf(x) == Donation(homes.rows[homes.of[x[2]]], x[2], x[3])

Affordable(d) == money[d.donor][FirstBank(money, d.donor)] >= d.cents

\* dissolve_union
DissolveUnion(x) ==
  /\ stage = "process" /\ IsNext(x) /\ x[1] = "DISSOLVE_UNION"
  /\ Together(x[2], x[3])
  /\ \E d \in {SplitOf(x)} : /\ Affordable(d)
                           /\ money' = Donated(d)
                           /\ homes' = Separated(x[2], x[3], Donated(d))
  /\ unions' = unions \ {{x[2], x[3]}}
  /\ pending' = pending \ {x}
  /\ UNCHANGED <<clock, draws, people, courtships, pregnancies, firm, treasury, repaid, economy, bereaved>>

\* The ledger refuses the split: everything is restored, and the exception ends the run
DissolveRaises(x) ==
  /\ stage = "process" /\ IsNext(x) /\ x[1] = "DISSOLVE_UNION"
  /\ Together(x[2], x[3]) /\ ~Affordable(SplitOf(x))
  /\ Goto("raised")
  /\ UNCHANGED <<draws, pending, people, homes, family, purses, economy, bereaved>>

\* dissolve_union of partners that do not live together does nothing
DissolveApart(x) ==
  /\ stage = "process" /\ IsNext(x) /\ x[1] = "DISSOLVE_UNION"
  /\ ~Together(x[2], x[3])
  /\ pending' = pending \ {x}
  /\ UNCHANGED <<clock, draws, people, homes, family, purses, economy, bereaved>>

\* expire
EndProcess ==
  /\ stage = "process" /\ pending = {}
  /\ courtships' =
       [k \in {k \in DOMAIN courtships :
                 \E a \in DOMAIN courtships[k].latest : tick - courtships[k].latest[a] <= Window}
          |-> courtships[k]]
  /\ Goto("independence")
  /\ UNCHANGED <<draws, pending, people, homes, unions, pregnancies, purses, economy, bereaved>>

\* advance_independence asks the agents in the order of their ids
ToMoveOut == {a \in Alive : a > turn /\ Independent(homes, a)}

MoveOut(a) ==
  /\ stage = "independence" /\ a \in ToMoveOut /\ \A b \in ToMoveOut : a <= b
  /\ homes' = Form(Leave(homes, {a}), {a}, money)
  /\ turn' = a
  /\ UNCHANGED <<tick, stage, draws, pending, people, family, purses, economy, bereaved>>

EndIndependence ==
  /\ stage = "independence" /\ ToMoveOut = {} /\ Goto("scan")
  /\ UNCHANGED <<draws, pending, people, homes, family, purses, economy, bereaved>>

-----------------------------------------------------------------------------
(* Fertility *)

\* scan and conceive: the partner with the smaller id is the mother
Conceive(a) ==
  /\ stage = "scan" /\ draws < MaxDraws /\ a > turn
  /\ a \in Alive \ DOMAIN pregnancies /\ people[a].age \in Band
  /\ \E b \in Pool : /\ b > a /\ {a, b} \in unions
                     /\ pregnancies' = [m \in DOMAIN pregnancies \cup {a} |->
                          IF m = a THEN [father |-> b, due |-> tick + Gestation] ELSE pregnancies[m]]
  /\ turn' = a /\ draws' = draws + 1
  /\ UNCHANGED <<tick, stage, pending, people, homes, courtships, unions, purses, economy, bereaved>>

EndScan == /\ stage = "scan" /\ Goto("advance")
           /\ UNCHANGED <<draws, pending, people, homes, family, purses, economy, bereaved>>

Due == {a \in DOMAIN pregnancies : pregnancies[a].due <= tick}

WithoutPregnancies(S) == [a \in DOMAIN pregnancies \ S |-> pregnancies[a]]

\* advance: the pregnancy ends in a birth in the mother's household, if one is left to be born
Birth(a) ==
  /\ stage = "advance" /\ a \in Due /\ a = Min(Due) /\ Unborn # {}
  /\ \E c \in {Min(Unborn)} :
       /\ people' = [people EXCEPT ![c] = [status |-> "alive", age |-> 0, mother |-> a,
                                           father |-> pregnancies[a].father]]
       /\ money' = WithAccount(money, c)
       /\ homes' = IF Housed(homes, a)
                   THEN Join(homes, {c}, homes.of[a], money)
                   ELSE homes
  /\ pregnancies' = WithoutPregnancies({a})
  /\ UNCHANGED <<clock, draws, pending, courtships, unions, firm, treasury, repaid, economy, bereaved>>

Loss(a) ==
  /\ stage = "advance" /\ a \in Due /\ a = Min(Due)
  /\ pregnancies' = WithoutPregnancies({a})
  /\ UNCHANGED <<clock, draws, pending, people, homes, courtships, unions, purses, economy, bereaved>>

EndAdvance == /\ stage = "advance" /\ Due = {} /\ Goto("costs")
              /\ UNCHANGED <<draws, pending, people, homes, family, purses, economy, bereaved>>

-----------------------------------------------------------------------------
(* ChildCosts *)

ChildrenOf(id) == {c \in homes.rows[id].members : c \in Alive /\ Minor(c)}

Charged == {id \in DOMAIN homes.rows : homes.rows[id].live /\ ChildrenOf(id) # {}}

Amount(id) == ChildCost * Cardinality(ChildrenOf(id))

Benefit(id) == Min({Amount(id), ChildBenefit * Cardinality(ChildrenOf(id))})

\* What the household owes and what the government does
OwnDue(id) == IF id = StateHome THEN 0 ELSE Amount(id) - Benefit(id)

GovernmentDue(id) == Amount(id) - OwnDue(id)

\* What the head of the household pays
Paid(id) ==
  LET head == homes.rows[id].head
  IN  IF head = Nobody THEN 0 ELSE Min({OwnDue(id), Wealth(money, head)})

\* The payment comes from the first account of the head alone
Unpayable(id) == /\ Paid(id) > 0
                 /\ LET head == homes.rows[id].head
                    IN  money[head][FirstBank(money, head)] < Paid(id)

WithArrears ==
  [homes EXCEPT !.rows = [id \in DOMAIN homes.rows |->
     IF id \in Charged THEN [homes.rows[id] EXCEPT !.arrears = @ + OwnDue(id) - Paid(id)]
     ELSE homes.rows[id]]]

\* The children whose health suffers: long arrears of the household
Neglected(h) ==
  UNION {ChildrenOf(id) : id \in {i \in Charged : h.rows[i].arrears > ArrearsTolerance * Amount(i)}}

\* charge, with the state_intervention for the children whose health is too low
Charge ==
  /\ stage = "costs" /\ ~\E id \in Charged : Unpayable(id)
  /\ LET payer(a) == {id \in Charged : homes.rows[id].head = a}
         paid == MapThenSumSet(Paid, Charged)
         due == MapThenSumSet(GovernmentDue, Charged)
     IN  /\ money' = [a \in Pool |->
               IF payer(a) = {} THEN money[a]
               ELSE [money[a] EXCEPT ![FirstBank(money, a)] = @ - MapThenSumSet(Paid, payer(a))]]
         /\ firm' = firm + paid + due
         /\ treasury' = treasury - due
         /\ \E taken \in SUBSET Neglected(WithArrears) :
              homes' = StateCare(WithArrears, taken, money')
  /\ Goto("arrive")
  /\ UNCHANGED <<draws, pending, people, family, repaid, economy, bereaved>>

\* The ledger refuses the payment, and the run ends
ChargeRaises ==
  /\ stage = "costs" /\ \E id \in Charged : Unpayable(id)
  /\ Goto("raised")
  /\ UNCHANGED <<draws, pending, people, homes, family, purses, economy, bereaved>>

-----------------------------------------------------------------------------
(* EstateSettler and EconomyEstatePort *)

Children(a) == {c \in Alive : a \in {people[c].mother, people[c].father}}

Parents(a) == {p \in {people[a].mother, people[a].father} : p \in Alive}

Siblings(a) ==
  {s \in Alive \ {a} : \/ people[a].mother # Nobody /\ people[s].mother = people[a].mother
                       \/ people[a].father # Nobody /\ people[s].father = people[a].father}

PartnersOf(a) == {b \in Pool : {a, b} \in unions /\ a # b}

\* intestacy_shares: the weights of the heirs
Kin(a) ==
  LET heirs == IF PartnersOf(a) \cup Children(a) # {} THEN PartnersOf(a) \cup Children(a)
               ELSE IF Parents(a) # {} THEN Parents(a) ELSE Siblings(a)
  IN  [h \in heirs |-> IF h \in PartnersOf(a) /\ Children(a) # {}
                       THEN Cardinality(Children(a)) ELSE 1]

\* The heirs and what each would get of the gross estate, which is later their weight
Heirs(a, cause) ==
  LET gross == Wealth(money, a)
      parts == Split(gross, Kin(a))
  IN  IF cause = "emigrated" \/ Kin(a) = <<>> \/ gross = 0 THEN <<>>
      ELSE [h \in {x \in DOMAIN Kin(a) : parts[x] > 0} |-> parts[h]]

\* _settle_accrued_wage: all of it, or none when the firm cannot pay it with its tax
LastWage(a, cause) ==
  LET payroll == bp(accrued[a], PayrollBp)
      pays == a \in jobs /\ cause # "emigrated" /\ firm >= accrued[a] + payroll
  IN  IF ~pays \/ accrued[a] = 0 THEN [net |-> 0, tax |-> 0]
      ELSE [net |-> accrued[a] - IncomeTax[accrued[a]], tax |-> IncomeTax[accrued[a]] + payroll]

\* What each heir gets of what is left; without heirs it escheats
Distribution(rest, heirs) ==
  IF heirs = <<>> \/ rest = 0 THEN <<>> ELSE Split(rest, heirs)

Escheat(rest, heirs) == IF heirs = <<>> THEN rest ELSE 0

\* Mutant: without heirs the shares stay where they are
InheritedByHeirs(a, heirs) ==
  LET parts == Split(shares[a], heirs)
  IN  IF heirs = <<>> THEN shares
      ELSE [x \in DOMAIN shares |-> IF x = a THEN 0
                                    ELSE IF x \in DOMAIN heirs THEN shares[x] + parts[x] ELSE shares[x]]

\* _transfer_interests
Inherited(a, heirs) ==
  LET to == IF heirs = <<>> THEN (gv_treasury :> 1) ELSE heirs
      parts == Split(shares[a], to)
  IN  [x \in DOMAIN shares |-> IF x = a THEN 0
                               ELSE IF x \in DOMAIN to THEN shares[x] + parts[x] ELSE shares[x]]

Primary(heirs) ==
  IF heirs = <<>> THEN gv_treasury
  ELSE CHOOSE h \in DOMAIN heirs : \A g \in DOMAIN heirs :
         heirs[h] > heirs[g] \/ (heirs[h] = heirs[g] /\ h <= g)

\* What the lender gets of the estate, the rest is written off
Recovered(m, a) == Min({Wealth(m, a), loans[a]})

\* _terminate_employment: the job ends, and a wage that was not paid is written off
EmploymentEnded(a, wage) ==
  /\ firm' = firm - wage.net - wage.tax
  /\ jobs' = jobs \ {a}
  /\ accrued' = [accrued EXCEPT ![a] = 0]

\* _sweep_deposits_to_escrow: all deposits on the first one
Swept(m, a, bank, rest) ==
  [m EXCEPT ![a] = [b \in DOMAIN @ |-> IF b = bank THEN rest ELSE 0]]

\* settle_death: wage, debts, tax, heirs.  An emigrant keeps the rest, and the open
\* bankruptcy case of an insolvent its accounts
EstateSettled(a, cause) ==
  LET heirs == Heirs(a, cause)
      wage == LastWage(a, cause)
      m == IF wage.net > 0 THEN Credited(money, a, FirmBank, wage.net) ELSE money
      bank == FirstBank(m, a)
      insolvent == a \in Insolvents
      paid == IF insolvent THEN 0 ELSE Recovered(m, a)
      rest == Wealth(m, a) - paid
      tax == bp(rest, InheritanceBp)
      parts == Distribution(rest - tax, heirs)
      closed == [m EXCEPT ![a] = <<>>]
  IN  /\ EmploymentEnded(a, wage)
      /\ repaid' = repaid + paid
      /\ loans' = IF insolvent THEN loans ELSE [loans EXCEPT ![a] = 0]
      /\ shares' = IF insolvent THEN shares ELSE Inherited(a, heirs)
      /\ founder' = IF founder = a /\ ~insolvent THEN Primary(heirs) ELSE founder
      /\ money' = IF insolvent THEN m
                  ELSE IF cause = "emigrated" THEN Swept(m, a, bank, rest)
                  ELSE FoldSet(LAMBDA h, n : Credited(n, h, bank, parts[h]), closed, DOMAIN parts)
      /\ treasury' = treasury + wage.tax
                     + (IF insolvent \/ cause = "emigrated" THEN 0 ELSE tax + Escheat(rest - tax, heirs))

\* The household the dead agent leaves: an empty one is dissolved, and the minor
\* children that have none go to the state
HouseholdAfter(a) ==
  LET left == Leave(homes, {a})
      id == homes.of[a]
      rest == IF left.rows[id].members = {} THEN Dissolve(left, id) ELSE left
      alone == {c \in Children(a) : Minor(c) /\ ~Housed(rest, c)}
  IN  IF ~Housed(homes, a) THEN homes
      ELSE StateCare(rest, alone, money')

\* terminate_for_parent
LostWith(a) == {m \in DOMAIN pregnancies : a \in {m, pregnancies[m].father}}

\* strong_ties of the agent among the live ties: all that bereave looks at
StrongTies(live, a) == {b \in Pool : {a, b} \in live /\ a # b}

\* settle: the ties end before bereave looks for them
Settle(a, cause) ==
  /\ people' = [people EXCEPT ![a].status = IF cause = "emigrated" THEN "gone" ELSE "dead"]
  /\ pregnancies' = WithoutPregnancies(LostWith(a))
  /\ EstateSettled(a, cause)
  /\ homes' = HouseholdAfter(a)
  /\ unions' = {t \in unions : a \notin t}
  /\ bereaved' = IF cause = "emigrated" THEN {} ELSE StrongTies(unions', a)
  /\ UNCHANGED <<pending, courtships>>

-----------------------------------------------------------------------------
(* Migration, ageing and mortality *)

\* arrive, and admit_external
Arrive ==
  /\ stage = "arrive" /\ draws < MaxDraws /\ Unborn # {}
  /\ \E c \in {Min(Unborn)} :
       /\ people' = [people EXCEPT ![c].status = "alive", ![c].age = Majority]
       /\ money' = WithAccount(money, c)
       /\ homes' = Form(homes, {c}, money')
  /\ draws' = draws + 1
  /\ UNCHANGED <<clock, pending, family, firm, treasury, repaid, economy, bereaved>>

EndArrive == /\ stage = "arrive" /\ Goto("depart")
             /\ UNCHANGED <<draws, pending, people, homes, family, purses, economy, bereaved>>

\* scan_departures
Depart(a) ==
  /\ stage = "depart" /\ draws < MaxDraws /\ a > turn /\ a \in Alive
  /\ Settle(a, "emigrated")
  /\ turn' = a /\ draws' = draws + 1 /\ UNCHANGED <<tick, stage>>

\* The end of the departures, and ageing
Age ==
  /\ stage = "depart"
  /\ people' = [a \in Pool |-> IF a \in Alive THEN [people[a] EXCEPT !.age = @ + 1] ELSE people[a]]
  /\ Goto("mortality")
  /\ UNCHANGED <<draws, pending, homes, family, purses, economy, bereaved>>

\* mortality_draw and settle
Die(a) ==
  /\ stage = "mortality" /\ draws < MaxDraws /\ a > turn /\ a \in Alive
  /\ Settle(a, "mortality")
  /\ turn' = a /\ draws' = draws + 1 /\ UNCHANGED <<tick, stage>>

NextTick ==
  /\ stage = "mortality" /\ tick < LastTick
  /\ tick' = tick + 1 /\ stage' = "gate" /\ turn' = 0 /\ bereaved' = {}
  /\ UNCHANGED <<draws, pending, people, homes, family, purses, economy>>

Ended == ((stage = "mortality" /\ tick = LastTick) \/ stage = "raised") /\ UNCHANGED vars

Next ==
  \/ Submit
  \/ \E a \in Pool, cents \in Earnings : Earn(a, cents)
  \/ \E x \in Menu : Court(x) \/ ProposeUnion(x) \/ DissolveUnion(x) \/ DissolveRaises(x) \/ DissolveApart(x)
  \/ EndProcess
  \/ \E a \in Pool : MoveOut(a)
  \/ EndIndependence
  \/ \E a \in Pool : Conceive(a) \/ Birth(a) \/ Loss(a)
  \/ EndScan
  \/ EndAdvance
  \/ Charge
  \/ ChargeRaises
  \/ Arrive
  \/ EndArrive
  \/ \E a \in Pool : Depart(a) \/ Die(a)
  \/ Age
  \/ NextTick
  \/ Ended

Spec == Init /\ [][Next]_vars

-----------------------------------------------------------------------------
(* Properties *)

\* Types; no deposit is overdrawn, though costs, splits and estates draw on it
TypeOK ==
  /\ tick \in 1..LastTick /\ draws \in 0..MaxDraws
  /\ pending \subseteq Menu /\ turn \in Pool \cup {0}
  /\ stage \in {"gate", "process", "independence", "scan", "advance", "costs", "arrive", "depart", "mortality", "raised"}
  /\ people \in [Pool -> [status : {"unborn", "alive", "dead", "gone"}, age : Nat,
                          mother : Pool \cup {Nobody}, father : Pool \cup {Nobody}]]
  /\ \A a \in Pool : DOMAIN money[a] \subseteq Banks /\ \A b \in DOMAIN money[a] : money[a][b] \in Nat
  /\ firm \in Nat /\ treasury \in Int /\ repaid \in Nat
  /\ loans \in [Pool -> Nat] /\ shares \in [Pool \cup {gv_treasury} -> Nat]
  /\ accrued \in [Pool -> Nat] /\ jobs \subseteq Pool

\* AgentState.household_id and Household.member_ids are two records of one fact, kept by
\* form, join, leave and dissolve: everyone alive is in exactly the live household that
\* lists it, nobody dead or gone is in one, and a household with members is headed by one
\* of them, the state household excepted.
HouseholdsAgree ==
  /\ \A a \in Alive : Housed(homes, a) /\ a \in homes.rows[homes.of[a]].members
  /\ \A id \in DOMAIN homes.rows :
       LET row == homes.rows[id]
       IN  /\ \A a \in row.members : a \in Alive /\ homes.of[a] = id
           /\ row.head \in row.members \/ (row.head = Nobody /\ (row.members = {} \/ row.shelter))

\* Courtships of several agents confirmed in one run, deaths and departures leave each
\* agent with at most one partner, alive, and no pregnancy without both of its parents.
UnionsHold ==
  /\ \A t \in unions : t \subseteq Alive /\ \A u \in unions : t = u \/ t \cap u = {}
  /\ \A a \in DOMAIN pregnancies : {a, pregnancies[a].father} \subseteq Alive

\* A death outside an open bankruptcy case ends with nothing in the name of the dead
\* (`estate left {residual} liquid cents`): no money, wage, debt, share or firm.
EstatesClosed ==
  \A a \in Pool \ Insolvents : people[a].status = "dead" =>
    /\ Wealth(money, a) = 0 /\ accrued[a] = 0 /\ loans[a] = 0 /\ shares[a] = 0
    /\ founder # a /\ a \notin jobs

\* Deaths, departures, separations and child costs move money and shares and create or
\* destroy none: tests/invariants/test_death_settlement.py across any sequence of them.
NothingLost ==
  /\ MapThenSumSet(LAMBDA a : Wealth(money, a), Pool) + firm + treasury + repaid
       = MapThenSumSet(LAMBDA a : SumOf(Genesis[a].deposits), DOMAIN Genesis) + StartFirm
  /\ SumOf(shares) = MapThenSumSet(LAMBDA a : Genesis[a].shares, DOMAIN Genesis)

\* A separation splits what both have gained since their household was formed to the
\* cent, and leaves what they had before untouched.
SplitIsEven ==
  [][\A x \in Menu :
       x[1] = "DISSOLVE_UNION" /\ {x[2], x[3]} \in unions /\ {x[2], x[3]} \notin unions'
         /\ stage = "process" =>
       LET row == homes.rows[homes.of[x[2]]]
           own(a) == Wealth(money, a) - Max({0, Wealth(money, a) - row.base[a]})
           gain(a) == Wealth(money', a) - own(a)
       IN  gain(x[2]) - gain(x[3]) \in -1..1]_vars

\* Who lives with whom, who is whose partner and who expects a child are told alike by every
\* record.
FamiliesAgree == HouseholdsAgree /\ UnionsHold

\* An estate is settled whole: nothing is left in the name of the dead, and nothing is lost on
\* the way to the treasury, the creditors and the heirs.
EstatesSettled == TypeOK /\ EstatesClosed /\ NothingLost
=============================================================================
