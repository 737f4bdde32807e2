------------------------------- MODULE Market -------------------------------
(***************************************************************************)
(* The real economy of a tick as MechanicalPolicy.step runs it             *)
(* (economy/policy.py): the labour market (labour.py), the goods market    *)
(* (goods.py), production and prices (firms.py) and the public budget      *)
(* (fiscal.py).                                                            *)
(*                                                                         *)
(* Decisions are taken on the state after `expire` and wait in `queue`;    *)
(* they are resolved afterwards, one handler call at a time, on whatever   *)
(* the earlier ones left.  Agents, firms and banks are numbers, rows are   *)
(* known by their position, and a tick is a day.  Skill, effort and        *)
(* productivity are the constants Score, Labour and Output; wages are the  *)
(* same everywhere.  Loans are in Banking, the exchange in Exchange, cases *)
(* of bankruptcy in Ventures (here: `stayed`), the rest of an estate in    *)
(* Life.                                                                   *)
(***************************************************************************)
EXTENDS Ledger

CONSTANTS
  Agents, Firms, Banks,
  Home,            \* the bank of each agent and firm
  Founder, Target, \* founder and target_headcount of each firm
  Near,            \* the firms in the districts of each agent
  Score, Labour,   \* match score by agent and firm; effective labour of a worked day
  Wage, Period,    \* wage of a pay period, and its days
  Brackets, PayPeriods,  \* <<floor, rate>> of the income tax; pay periods of a year
  PayrollBp, SalesBp, CorporateBp, SubsidyBp, ReplacementBp, CouponBp,
  VisibilityK, MaxOpenVacancies, MaxOpenApplications, MinScore, ShortlistMultiple,
  VacancyTtl, OfferTtl, Notice, SearchWindow,
  Skus, Sells, Subsidised, ExemptNecessities,
  Due,             \* units of each sku an agent needs, by tick
  MaxPurchases, SalesWindow, PriceWindow, DurableLife,
  Output, Micro,   \* production_output_micro by labour; micro-units of a unit
  SpoilNum, SpoilDen,
  MarkupInitial, MarkupStep, MarkupMax, StockLow, StockHigh,
  Basket, BasePrice,
  Paydays, Quarters, BenefitDays, PriceDays, CouponEvery,
  DueAfter, Floor, Denomination, BondTerm,
  StartDeposit, StartReserves, StartTreasury, StartStock, StartCost,
  Mortal, Insolvable,  \* the agents that may die, the entities that may file for bankruptcy
  MaxShocks, LastTick

ASSUME MarketAssumption ==
  /\ Agents \cup Firms \cup Banks \subseteq Nat \ {0}
  /\ Period \in Nat \ {0} /\ Micro \in Nat \ {0} /\ SpoilNum \in 0..SpoilDen
  /\ \A b \in Brackets : b[1] \in Nat /\ b[2] \in 0..10000
  /\ PayPeriods \in Nat \ {0}
  /\ SubsidyBp \in 0..10000 /\ ReplacementBp \in Nat /\ Denomination \in Nat \ {0}

VARIABLES
  tick, stage, queue, shocks,
  alive, stayed,  \* live agents; agents and firms with an open bankruptcy case
  vacancies, applications, offers, employments,
  firms,          \* headcount, and cumulative revenue and wages with their tax marks
  unpaid,         \* of the payroll of the current firm
  inventory,      \* by <<firm, sku>>
  trades,         \* goods_transactions
  caches,         \* goods_price_qty_by_tick, goods_price_value_by_tick, goods_last_price_cents
  durables, cpi,
  balance,        \* of the open accounts
  assessments, bonds, budget

labourRows == <<vacancies, applications, offers, employments>>
goodsRows == <<inventory, trades, caches, durables, cpi>>
publicRows == <<assessments, bonds, budget>>
world == <<shocks, alive, stayed>>
vars == <<tick, stage, queue, world, labourRows, firms, unpaid, goodsRows, balance, publicRows>>

None == -1
Open(rows) == {i \in DOMAIN rows : rows[i].status = "open"}
With(rows, S, st) == [i \in DOMAIN rows |-> IF i \in S THEN [rows[i] EXCEPT !.status = st] ELSE rows[i]]
Stock == {<<f, s>> \in Firms \X Skus : s \in Sells[f]}
SumOver(S, f(_)) == MapThenSumSet(f, S)
Account(owner) == Dep(owner, Home[owner])

\* The queue is resolved in the order of its tuples.
Before(x, y) == \E i \in DOMAIN x : x[i] < y[i] /\ \A k \in 1..(i - 1) : x[k] = y[k]
Next1 == CHOOSE x \in queue : \A y \in queue \ {x} : Before(x, y)

\* The rest of the queue, or the next stage.
Proceed(legs, following) ==
  /\ Postable(balance, legs)
  /\ queue' = queue \ {Next1}
  /\ stage' = IF queue = {Next1} THEN following ELSE stage
  /\ balance' = Posted(balance, legs)

\* An exception ends the run: only reserves of banks are short, or something else is wrong.
Failure(legs) ==
  LET over == Overdrawn(balance, legs)
  IN  IF over # {} /\ over \subseteq {Res(b) : b \in Banks} THEN "short" ELSE "raised"
Fail(legs) ==
  /\ ~Postable(balance, legs)
  /\ stage' = Failure(legs)
  /\ UNCHANGED <<queue, balance>>

-----------------------------------------------------------------------------
(* The labour market *)

\* active_employment, over the employments e
Active(e, a) ==
  {i \in DOMAIN e : e[i].agent = a /\ e[i].started <= tick /\ (e[i].ended = None \/ e[i].ended > tick)}

Employed(a) == Active(employments, a) # {}

\* LabourMarket.expire
Expire ==
  /\ stage = "open"
  /\ stage' = "plan"
  /\ offers' = With(offers, {i \in Open(offers) : offers[i].expires < tick}, "expired")
  /\ vacancies' = With(vacancies, {i \in Open(vacancies) : vacancies[i].expires <= tick}, "expired")
  /\ UNCHANGED <<tick, queue, world, applications, employments, firms, unpaid, goodsRows, balance, publicRows>>

OpenOf(f) == {i \in Open(vacancies) : vacancies[i].firm = f}
Committed(f) == firms[f].headcount + SumOver(OpenOf(f), LAMBDA i : vacancies[i].slots)

\* should_autopost
ShouldAutopost(f) == Committed(f) < Target[f] /\ Cardinality(OpenOf(f)) < MaxOpenVacancies

\* visibility_slice: what it may return, the nearer vacancies first
Slices(a) ==
  LET pool == {i \in Open(vacancies) : vacancies[i].slots > 0 /\ vacancies[i].expires > tick}
      near == {i \in pool : vacancies[i].firm \in Near[a]}
      size == IF VisibilityK < Cardinality(pool) THEN VisibilityK ELSE Cardinality(pool)
  IN  {V \in kSubset(size, pool) : near \subseteq V \/ V \subseteq near}

\* The vacancy an agent applies for, of those it sees: none it applied for before.
BestOf(a, seen) ==
  LET fresh == {i \in seen : \A p \in DOMAIN applications :
                               applications[p].agent = a => applications[p].vacancy # i}
      Better(i, k) ==
        LET si == Score[a][vacancies[i].firm]
            sk == Score[a][vacancies[k].firm]
        IN  \/ si > sk
            \/ si = sk /\ vacancies[i].posted < vacancies[k].posted
            \/ si = sk /\ vacancies[i].posted = vacancies[k].posted /\ i > k
  IN  {i \in fresh : \A k \in fresh \ {i} : Better(i, k)}

Searchers == {a \in alive : ~Employed(a)}

\* The best open offer of each agent: of equal wages, the first.
Acceptances ==
  LET live == {i \in Open(offers) : offers[i].made < tick /\ offers[i].expires >= tick}
  IN  {i \in live : ~Employed(offers[i].agent) /\
         \A k \in live : offers[k].agent = offers[i].agent => i <= k}

\* _stay_blocks, of the entities an action names; WORK is never blocked.
StayBlocks(actor, firm) == {actor, firm} \cap stayed # {}

WORK == 1
POST_VACANCY == 2
APPLY_FOR_JOB == 3
MAKE_OFFER == 4
ACCEPT_OFFER == 5

\* _first_actions, and the order resolve gives them
Plan ==
  /\ stage = "plan"
  /\ \E seen \in {s \in [Searchers -> UNION {Slices(a) : a \in Searchers}] : \A a \in Searchers : s[a] \in Slices(a)} :
       queue' = {<<WORK, employments[i].agent, i>> :
                   i \in {e \in DOMAIN employments : /\ employments[e].started <= tick
                                                     /\ employments[e].ended = None
                                                     /\ employments[e].agent \in alive}}
         \cup {<<POST_VACANCY, Founder[f], f>> :
                 f \in {g \in Firms : ShouldAutopost(g) /\ ~StayBlocks(Founder[g], g)}}
         \cup {<<APPLY_FOR_JOB, a, i>> :
                 <<a, i>> \in {<<b, k>> \in Searchers \X DOMAIN vacancies :
                                 ~StayBlocks(b, b) /\ k \in BestOf(b, seen[b])}}
         \cup {<<ACCEPT_OFFER, offers[i].agent, i>> :
                 i \in {k \in Acceptances : ~StayBlocks(offers[k].agent, offers[k].agent)}}
  /\ stage' = IF queue' = {} THEN "screen" ELSE "resolve"
  /\ UNCHANGED <<tick, world, labourRows, firms, unpaid, goodsRows, balance, publicRows>>

Turn(kind, from) == stage = from /\ queue # {} /\ Next1[1] = kind

\* The wage of a day, with the remainder of the earlier ones
Accrued(e) ==
  [e EXCEPT !.accrued = @ + (Wage + e.rest) \div Period, !.rest = (Wage + @) % Period,
            !.worked = tick, !.days = @ + 1]

\* _work
Work ==
  /\ Turn(WORK, "resolve")
  /\ employments' = [employments EXCEPT ![Next1[3]] = Accrued(@)]
  /\ Proceed(<<>>, "screen")
  /\ UNCHANGED <<tick, world, vacancies, applications, offers, firms, unpaid, goodsRows, publicRows>>

\* _post_vacancy
PostVacancy ==
  /\ Turn(POST_VACANCY, "resolve")
  /\ LET f == Next1[3]
     IN  vacancies' = Append(vacancies,
           [firm |-> f, slots |-> Max({1, Target[f] - Committed(f)}), posted |-> tick,
            expires |-> tick + VacancyTtl, status |-> "open"])
  /\ Proceed(<<>>, "screen")
  /\ UNCHANGED <<tick, world, applications, offers, employments, firms, unpaid, goodsRows, publicRows>>

Undecided == {"pending", "shortlisted", "offered"}

\* _apply
Apply ==
  /\ Turn(APPLY_FOR_JOB, "resolve")
  /\ LET a == Next1[2]
         waiting == {p \in DOMAIN applications : applications[p].agent = a /\ applications[p].status \in Undecided}
     IN  applications' = IF Cardinality(waiting) >= MaxOpenApplications THEN applications
                         ELSE Append(applications, [vacancy |-> Next1[3], agent |-> a,
                                                    submitted |-> tick, status |-> "pending"])
  /\ Proceed(<<>>, "screen")
  /\ UNCHANGED <<tick, world, vacancies, offers, employments, firms, unpaid, goodsRows, publicRows>>

\* Mutant: whether the vacancy was filled meanwhile is not asked.
HireableLate(o) == offers[o].agent \in alive

Hireable(o) ==
  /\ offers[o].agent \in alive
  /\ vacancies[offers[o].vacancy].status = "open" /\ vacancies[offers[o].vacancy].slots > 0

\* _accept_offer
AcceptOffer ==
  /\ Turn(ACCEPT_OFFER, "resolve")
  /\ LET o == Next1[3]
         v == offers[o].vacancy
         a == offers[o].agent
         mine == {p \in DOMAIN applications : applications[p].agent = a}
         p == Min({q \in mine : applications[q].vacancy = v})
     IN  IF ~Hireable(o)
         THEN offers' = With(offers, {o}, "expired") /\ UNCHANGED <<vacancies, applications, employments, firms>>
         ELSE /\ offers' = With(offers, {o}, "accepted")
              /\ employments' = Append(employments,
                   [agent |-> a, firm |-> offers[o].firm, started |-> tick + 1, ended |-> None,
                    accrued |-> 0, rest |-> 0, worked |-> 0, days |-> 0, paid |-> 0, lost |-> 0])
              /\ applications' =
                   With(With(applications, {q \in mine \ {p} : applications[q].status \in Undecided}, "withdrawn"),
                        {p}, "hired")
              /\ vacancies' = [vacancies EXCEPT ![v].slots = @ - 1,
                                                ![v].status = IF vacancies[v].slots = 1 THEN "filled" ELSE @]
              /\ firms' = [firms EXCEPT ![offers[o].firm].headcount = @ + 1]
  /\ Proceed(<<>>, "screen")
  /\ UNCHANGED <<tick, world, unpaid, goodsRows, publicRows>>

\* The rankings of the applications of v that the shuffle and the stable sort may give
Rankings(v, pend) ==
  LET S == {p \in pend : applications[p].vacancy = v}
      score(p) == Score[applications[p].agent][vacancies[v].firm]
  IN  {r \in [S -> 1..Cardinality(S)] :
         \A p, q \in S : p # q => r[p] # r[q] /\ (score(p) > score(q) => r[p] < r[q])}

\* _offer_actions: of those kept, as many as the vacancy has places; the open offers
\* of earlier ticks are not counted.
OfferActions(kept, rank) ==
  LET vac(p) == applications[p].vacancy
      founder(p) == Founder[vacancies[vac(p)].firm]
  IN  {<<MAKE_OFFER, founder(p), p>> :
         p \in {q \in kept : rank[vac(q)][q] <= vacancies[vac(q)].slots /\ ~StayBlocks(founder(q), founder(q))}}

\* screen_pending
Screen ==
  /\ stage = "screen"
  /\ LET pend == {p \in DOMAIN applications : /\ applications[p].status = "pending"
                                              /\ vacancies[applications[p].vacancy].status = "open"}
         vac(p) == applications[p].vacancy
         firm(p) == vacancies[vac(p)].firm
         vs == {vac(p) : p \in pend}
     IN  \E rank \in {r \in [vs -> UNION {Rankings(v, pend) : v \in vs}] : \A v \in vs : r[v] \in Rankings(v, pend)} :
           LET kept == {p \in pend : /\ Score[applications[p].agent][firm(p)] >= MinScore
                                     /\ rank[vac(p)][p] <= vacancies[vac(p)].slots * ShortlistMultiple}
           IN  /\ applications' = With(With(applications, kept, "shortlisted"), pend \ kept, "rejected")
               /\ queue' = OfferActions(kept, rank)
               /\ stage' = IF queue' = {} THEN "goods" ELSE "offer"
  /\ UNCHANGED <<tick, world, vacancies, offers, employments, firms, unpaid, goodsRows, balance, publicRows>>

\* _make_offer
MakeOffer ==
  /\ Turn(MAKE_OFFER, "offer")
  /\ LET p == Next1[3]
         v == applications[p].vacancy
     IN  /\ offers' = Append(offers, [agent |-> applications[p].agent, vacancy |-> v, firm |-> vacancies[v].firm,
                                      made |-> tick, expires |-> tick + OfferTtl, status |-> "open"])
         /\ applications' = With(applications, {p}, "offered")
  /\ Proceed(<<>>, "goods")
  /\ UNCHANGED <<tick, world, vacancies, employments, firms, unpaid, goodsRows, publicRows>>

-----------------------------------------------------------------------------
(* The goods market *)

\* The functions of a tick, without the ticks of `gone`
Without(f, gone) == [t \in DOMAIN f \ gone |-> f[t]]

\* f[t][x], and f with n more there: dictionaries of dictionaries, 0 where nothing is
At(f, t, x) == IF t \in DOMAIN f THEN f[t][x] ELSE 0
AddedAt(f, t, x, n, keys) ==
  (t :> [k \in keys |-> At(f, t, k) + (IF k = x THEN n ELSE 0)]) @@ f

SalesExpired(gone) ==
  [k \in Stock |-> [inventory[k] EXCEPT !.sold = Max({0, @ - SumOver(gone, LAMBDA t : caches.sales[t][k])})]]

\* The sellers of a sku an agent may find first: nearest, then cheapest, then any
Sellers(a, s) ==
  LET quoting == {f \in Firms : s \in Sells[f] /\ inventory[<<f, s>>].qty > 0}
      band == IF quoting \cap Near[a] # {} THEN quoting \cap Near[a] ELSE quoting
  IN  {f \in band : \A g \in band : inventory[<<f, s>>].price <= inventory[<<g, s>>].price}

\* What an agent means to buy of s: nothing if it cannot pay for it.
Purchases(a, s) ==
  {<<f, s, a, Due[a][s][tick]>> :
     f \in {g \in Sellers(a, s) :
              LET price == inventory[<<g, s>>].price
              IN  Liquid(balance, a) >= Due[a][s][tick] * (price + bp_ceil(price, SalesBp))}}

Wanted(a) == {s \in Skus : Due[a][s][tick] > 0 /\ Purchases(a, s) # {}}

\* What the agents buy: each of them some of what it wants, from one seller each
Carts ==
  LET buyers == {a \in alive : ~StayBlocks(a, a)}
      wants == {<<a, s>> \in buyers \X Skus : s \in Wanted(a)}
  IN  {C \in SUBSET UNION {Purchases(w[1], w[2]) : w \in wants} :
         \A a \in buyers :
           /\ \A s \in Skus : Cardinality({p \in C : p[3] = a /\ p[2] = s}) <= 1
           /\ Cardinality({p \in C : p[3] = a})
                = Min({MaxPurchases, Cardinality({w \in wants : w[1] = a})})}

\* expire_durables
LiveDurables == {d \in durables : d.acquired + DurableLife[d.sku] > tick}

\* The tick's purchases, after expire_durables and _expire_sales_window
Shop ==
  /\ stage = "goods"
  /\ durables' = LiveDurables
  /\ LET old == {t \in DOMAIN caches.sales : t <= tick - SalesWindow}
         past == {t \in DOMAIN caches.qty : t <= tick - PriceWindow}
     IN  /\ inventory' = SalesExpired(old)
         /\ caches' = [caches EXCEPT !.sales = Without(@, old), !.qty = Without(@, past), !.value = Without(@, past)]
  /\ \E cart \in Carts : queue' = cart
  /\ stage' = IF queue' = {} THEN "payday" ELSE "buy"
  /\ UNCHANGED <<tick, world, labourRows, firms, unpaid, trades, cpi, balance, publicRows>>

\* purchase_legs: what the buyer pays, and the tax and the subsidy in it
PurchaseOf(f, s, units) ==
  LET gross == units * inventory[<<f, s>>].price
      tax == IF ExemptNecessities THEN 0 ELSE bp_ceil(gross, SalesBp)
      subsidy == IF s \in Subsidised THEN bp(gross, SubsidyBp) ELSE 0
  IN  [gross |-> gross, tax |-> tax, subsidy |-> subsidy, paid |-> gross + tax - subsidy]

PurchaseLegs(a, f, p) ==
  Transfer(Account(a), Account(f), p.gross - p.subsidy)
    \o (IF p.tax > 0 THEN Transfer(Account(a), TreasuryAccount, p.tax) ELSE <<>>)
    \o (IF p.subsidy > 0 THEN Transfer(TreasuryAccount, Account(f), p.subsidy) ELSE <<>>)

\* goods_last_price_cents: the average of the day so far
LastPrice(s, unit, units) ==
  (At(caches.value, tick, s) + unit * units) \div (At(caches.qty, tick, s) + units)

\* _consume: a durable is kept, anything else is used up.
Consumed(a, s) ==
  IF DurableLife[s] = 0 THEN durables ELSE durables \cup {[agent |-> a, sku |-> s, acquired |-> tick]}

\* _purchase: one seller and sku after the other, the buyers in any order
Purchase ==
  /\ stage = "buy"
  /\ \E x \in {y \in queue : \A z \in queue : ~Before(<<z[1], z[2]>>, <<y[1], y[2]>>)} :
       LET f == x[1]
           s == x[2]
           a == x[3]
           units == Min({x[4], inventory[<<f, s>>].qty})
           p == PurchaseOf(f, s, units)
           unit == Max({1, p.paid \div units})
           legs == PurchaseLegs(a, f, p)
           served == units > 0 /\ Liquid(balance, a) >= p.paid
           posted == served /\ Postable(balance, legs)
       IN  /\ queue' = queue \ {x}
           /\ stage' = IF served /\ ~posted THEN Failure(legs) ELSE IF queue = {x} THEN "payday" ELSE stage
           /\ balance' = IF posted THEN Posted(balance, legs) ELSE balance
           /\ inventory' = IF posted THEN [inventory EXCEPT ![<<f, s>>].qty = @ - units, ![<<f, s>>].sold = @ + units]
                                     ELSE inventory
           /\ trades' = IF posted THEN Append(trades, [tick |-> tick, stock |-> <<f, s>>, qty |-> units, unit |-> unit])
                                  ELSE trades
           /\ firms' = IF posted THEN [firms EXCEPT ![f].revenue = @ + p.gross] ELSE firms
           /\ caches' = IF posted
                THEN [sales |-> AddedAt(caches.sales, tick, <<f, s>>, units, Stock),
                      qty |-> AddedAt(caches.qty, tick, s, units, Skus),
                      value |-> AddedAt(caches.value, tick, s, unit * units, Skus),
                      last |-> [caches.last EXCEPT ![s] = LastPrice(s, unit, units)]]
                ELSE caches
           /\ durables' = IF posted THEN Consumed(a, s) ELSE durables
  /\ UNCHANGED <<tick, world, labourRows, unpaid, cpi, publicRows>>

-----------------------------------------------------------------------------
(* Payroll *)

\* progressive_income_tax_cents: each bracket of the annual wage at its own rate
IncomeTax(gross) ==
  LET annual == gross * PayPeriods
      ceiling(b) == Min({annual} \cup {c[1] : c \in {d \in Brackets : d[1] > b[1]}})
  IN  SumOver(Brackets, LAMBDA b : bp(Max({0, ceiling(b) - b[1]}), b[2])) \div PayPeriods

WageLegs(e, gross) ==
  LET tax == IncomeTax(gross) + bp(gross, PayrollBp)
      net == gross - IncomeTax(gross)
  IN  (IF net > 0 THEN Transfer(Account(e.firm), Account(e.agent), net) ELSE <<>>)
        \o (IF tax > 0 THEN Transfer(Account(e.firm), TreasuryAccount, tax) ELSE <<>>)

\* Mutant: the tax of the employer is forgotten.
CanPayGross(f, gross) == Liquid(balance, f) >= gross

CanPay(f, gross) == Liquid(balance, f) >= gross + bp(gross, PayrollBp)

\* run_payroll, up to its first employment: no firm with an open case takes part.
\* After its employments (their numbers) comes the end of the run of a firm.
StartPayroll ==
  /\ stage = "payday"
  /\ queue' = IF tick \in Paydays
              THEN {<<f, i>> \in (Firms \ stayed) \X (1..(Len(employments) + 1)) :
                      i \in DOMAIN employments => employments[i].firm = f /\ employments[i].accrued > 0}
              ELSE {}
  /\ stage' = IF queue' = {} THEN "firms" ELSE "payroll"
  /\ unpaid' = {}
  /\ UNCHANGED <<tick, world, labourRows, firms, goodsRows, balance, publicRows>>

\* An employment the firm cannot pay: the wages stay due.
Missed(e) == e

\* The employments i that end at t: nobody is counted twice.
EndedAt(S, t) == [i \in DOMAIN employments |->
                    IF i \in S THEN [employments[i] EXCEPT !.ended = t] ELSE employments[i]]

\* One employment of the payroll: written off, missed or paid
PayWage ==
  /\ stage = "payroll" /\ Next1[2] \in DOMAIN employments
  /\ LET i == Next1[2]
         e == employments[i]
         dead == e.agent \notin alive
         paid == ~dead /\ CanPay(e.firm, e.accrued)
         legs == IF paid THEN WageLegs(e, e.accrued) ELSE <<>>
     IN  \/ Fail(legs) /\ UNCHANGED <<employments, firms, unpaid>>
         \/ /\ Proceed(legs, "firms")
            /\ employments' = [employments EXCEPT ![i] =
                                 IF dead THEN [e EXCEPT !.accrued = 0, !.lost = @ + e.accrued]
                                 ELSE IF paid THEN [e EXCEPT !.accrued = 0, !.paid = @ + e.accrued]
                                 ELSE Missed(e)]
            /\ firms' = IF paid THEN [firms EXCEPT ![e.firm].wages = @ + e.accrued] ELSE firms
            /\ unpaid' = IF dead \/ paid THEN unpaid ELSE unpaid \cup {i}
  /\ UNCHANGED <<tick, world, vacancies, applications, offers, goodsRows, publicRows>>

Redundant == {i \in unpaid : employments[i].ended = None}

\* _layoff_for_shortfall: everybody unpaid
LayOff ==
  /\ stage = "payroll" /\ Next1[2] \notin DOMAIN employments
  /\ employments' = EndedAt(Redundant, tick + Notice)
  /\ firms' = [firms EXCEPT ![Next1[1]].headcount = Max({0, @ - Cardinality(Redundant)})]
  /\ unpaid' = {}
  /\ Proceed(<<>>, "firms")
  /\ UNCHANGED <<tick, world, vacancies, applications, offers, goodsRows, publicRows>>

-----------------------------------------------------------------------------
(* Production, spoilage, prices and the price index *)

\* Those whose work of the day counts: not those the payroll laid off.
Productive(f) ==
  {i \in DOMAIN employments : employments[i].firm = f /\ employments[i].worked = tick /\ employments[i].ended = None}

LabourOf(f) == SumOver(Productive(f), LAMBDA i : Labour[employments[i].agent])

\* split_labour_by_revenue, of equal weights
SplitLabour(f, s) ==
  LET n == Cardinality(Sells[f])
  IN  LabourOf(f) \div n + (IF Cardinality({r \in Sells[f] : r < s}) < LabourOf(f) % n THEN 1 ELSE 0)

\* add_inventory: the cost of a unit is the average of old and new.
AddInventory(row, units, cost) ==
  IF units = 0 THEN row
  ELSE [row EXCEPT !.qty = @ + units, !.cost = (row.qty * @ + units * cost) \div (row.qty + units)]

\* _produce: whole units; what is left over is carried.
Produced(k, row) ==
  LET f == k[1]
      daily == Cardinality(Productive(f)) * (Wage \div Period)
      weights == [x \in {<<f, s>> : s \in Sells[f]} |-> Max({1, SplitLabour(f, x[2])})]
      total == row.carry + Output[SplitLabour(f, k[2])]
      units == total \div Micro
  IN  IF LabourOf(f) = 0 THEN row
      ELSE [AddInventory(row, units, Max({1, Allocate(daily, weights)[k] \div Max({1, units})}))
              EXCEPT !.carry = total % Micro]

\* _spoil, with the draw of its firm
Spoiled(row, draw) ==
  LET raw == row.qty * SpoilNum
      lost == raw \div SpoilDen + (IF draw < raw % SpoilDen THEN 1 ELSE 0)
  IN  [row EXCEPT !.qty = @ - Min({row.qty, lost})]

\* markup_price
Priced(row) ==
  LET days == IF row.sold = 0 THEN 1000000000 ELSE (10000 * row.qty) \div Max({1, row.sold \div SalesWindow})
      step == IF days < StockLow THEN MarkupStep ELSE IF days > StockHigh THEN -MarkupStep ELSE 0
      markup == Max({0, Min({MarkupMax, row.markup + step})})
  IN  [row EXCEPT !.markup = markup, !.price = Max({1, (row.cost * (10000 + markup)) \div 10000})]

\* FirmEngine.run_daily
RunDaily ==
  /\ stage = "firms"
  /\ \E draw \in [Firms -> 0..(SpoilDen - 1)] :
       inventory' = [k \in Stock |->
         LET row == Spoiled(Produced(k, inventory[k]), draw[k[1]])
         IN  IF tick \in PriceDays THEN Priced(row) ELSE row]
  /\ stage' = "cpi"
  /\ UNCHANGED <<tick, queue, world, labourRows, firms, unpaid, trades, caches, durables, cpi, balance, publicRows>>

\* transaction_price_cents from the caches: of the window, or else the last one
CachedPrice(s) ==
  LET included == {t \in DOMAIN caches.qty : tick - PriceWindow < t /\ t <= tick}
      units == SumOver(included, LAMBDA t : caches.qty[t][s])
  IN  IF units > 0 THEN SumOver(included, LAMBDA t : caches.value[t][s]) \div units
      ELSE IF caches.last[s] > 0 THEN caches.last[s] ELSE BasePrice[s]

\* and its other branch, from the transactions themselves
AverageUnit(S) == SumOver(S, LAMBDA i : trades[i].unit * trades[i].qty) \div SumOver(S, LAMBDA i : trades[i].qty)

TransactionPrice(s) ==
  LET all == {i \in DOMAIN trades : trades[i].stock[2] = s}
      recent == {i \in all : trades[i].tick > tick - PriceWindow}
      latest == {i \in all : \A j \in all : trades[j].tick <= trades[i].tick}
  IN  IF recent # {} THEN AverageUnit(recent) ELSE IF all # {} THEN AverageUnit(latest) ELSE BasePrice[s]

\* _index_for
IndexFor(skus, price) ==
  (10000 * SumOver(skus, LAMBDA s : Basket[s] * price[s])) \div Max({1, SumOver(skus, LAMBDA s : Basket[s] * BasePrice[s])})

\* compute_cpi; then banking begins with the coupons.
ComputeCpi ==
  /\ stage = "cpi"
  /\ cpi' = IndexFor(Skus, [s \in Skus |-> CachedPrice(s)])
  /\ queue' = {<<i>> : i \in {b \in DOMAIN bonds : bonds[b].status = "outstanding"}}
  /\ stage' = IF queue' = {} THEN "assess" ELSE "coupon"
  /\ UNCHANGED <<tick, world, labourRows, firms, unpaid, inventory, trades, caches, durables, balance, publicRows>>

-----------------------------------------------------------------------------
(* The public budget *)

\* pay_coupons_and_maturities: the treasury may be overdrawn.
PayBond ==
  /\ stage = "coupon"
  /\ LET b == bonds[Next1[1]]
         matured == tick >= b.matures
         coupon == IF ~matured /\ tick - b.lastCoupon >= CouponEvery THEN bp(b.face, CouponBp) \div 2 ELSE 0
         cents == IF matured THEN b.face ELSE coupon
     IN  /\ bonds' = [bonds EXCEPT ![Next1[1]].status = IF matured THEN "matured" ELSE @,
                                   ![Next1[1]].lastCoupon = IF coupon > 0 THEN tick ELSE @]
         /\ balance' = Posted(balance, << <<TreasuryAccount, -cents>>, <<Res(b.holder), cents>> >>)
         /\ budget' = [budget EXCEPT !.service = @ + coupon]
  /\ queue' = queue \ {Next1}
  /\ stage' = IF queue = {Next1} THEN "assess" ELSE stage
  /\ UNCHANGED <<tick, world, labourRows, firms, unpaid, goodsRows, assessments>>

\* Mutant: the wages of earlier quarters are deducted again.
MarkedRevenue(row) == [row EXCEPT !.revenueMark = row.revenue]

Marked(row) == [row EXCEPT !.revenueMark = row.revenue, !.wageMark = row.wages]

Profit(f) == Max({0, (firms[f].revenue - firms[f].revenueMark) - (firms[f].wages - firms[f].wageMark)})

COLLECT == 1
ARREARS == 2
BENEFIT == 3

\* labour_force(...).unemployed
Unemployed ==
  {a \in alive : /\ ~Employed(a)
                 /\ \E p \in DOMAIN applications : /\ applications[p].agent = a
                                                   /\ tick - applications[p].submitted <= SearchWindow}

\* assess_taxes; then come the collections, the arrears and the benefits.
Assess ==
  /\ stage = "assess"
  /\ LET due == IF tick \in Quarters THEN {f \in Firms : bp(Profit(f), CorporateBp) > 0} ELSE {}
         rows == [i \in 1..Cardinality(due) |->
                    LET f == CHOOSE g \in due : Cardinality({h \in due : h < g}) = i - 1
                    IN  [firm |-> f, base |-> Profit(f), assessed |-> bp(Profit(f), CorporateBp), paid |-> 0,
                         due |-> tick + DueAfter, status |-> "assessed"]]
     IN  /\ assessments' = assessments \o rows
         /\ firms' = IF tick \in Quarters THEN [f \in Firms |-> Marked(firms[f])] ELSE firms
  /\ queue' = {<<COLLECT, i>> : i \in {k \in DOMAIN assessments' : assessments'[k].status = "assessed"}}
         \cup {<<ARREARS, i>> : i \in {k \in DOMAIN assessments' : /\ assessments'[k].status = "assessed"
                                                                   /\ tick >= assessments'[k].due}}
         \cup {<<BENEFIT, a>> : a \in IF tick \in BenefitDays THEN Unemployed ELSE {}}
  /\ stage' = IF queue' = {} THEN "finance" ELSE "fiscal"
  /\ UNCHANGED <<tick, world, labourRows, unpaid, goodsRows, balance, bonds, budget>>

SettledBy(row, payment) ==
  [row EXCEPT !.paid = @ + payment, !.status = IF row.paid + payment = row.assessed THEN "paid" ELSE @]

TaxCollectionLegs(f, cents) ==
  << <<Account(f), -cents>>, <<Dpl(Home[f]), cents>>, <<Res(Home[f]), -cents>>, <<TreasuryAccount, cents>> >>

\* collect_taxes
CollectTax ==
  /\ Turn(COLLECT, "fiscal")
  /\ LET row == assessments[Next1[2]]
         payment == Min({row.assessed - row.paid, Liquid(balance, row.firm)})
         legs == TaxCollectionLegs(row.firm, payment)
     IN  \/ Fail(legs) /\ UNCHANGED <<assessments, budget>>
         \/ /\ Proceed(legs, "finance")
            /\ assessments' = [assessments EXCEPT ![Next1[2]] = SettledBy(@, payment)]
            /\ budget' = [budget EXCEPT !.receipts = @ + payment]
  /\ UNCHANGED <<tick, world, labourRows, firms, unpaid, goodsRows, bonds>>

Receivable == <<"txr", gv_treasury, 0>>

\* convert_arrears: what is due becomes a loan of the treasury.
ConvertArrears ==
  /\ Turn(ARREARS, "fiscal")
  /\ LET row == assessments[Next1[2]]
         late == row.status = "assessed"
         cents == IF late THEN row.assessed - row.paid ELSE 0
         payable == Lnp(row.firm, Next1[2])
         opened == IF late THEN Opened(balance, {payable}) ELSE balance
     IN  /\ assessments' = [assessments EXCEPT ![Next1[2]].status = IF late THEN "arrears" ELSE @]
         /\ balance' = IF late THEN Posted(opened, << <<Receivable, cents>>, <<payable, -cents>> >>) ELSE balance
  /\ queue' = queue \ {Next1}
  /\ stage' = IF queue = {Next1} THEN "finance" ELSE stage
  /\ UNCHANGED <<tick, world, labourRows, firms, unpaid, goodsRows, bonds, budget>>

GovernmentTransferLegs(a, cents) ==
  << <<TreasuryAccount, -cents>>, <<Res(Home[a]), cents>>, <<Dpl(Home[a]), -cents>>, <<Account(a), cents>> >>

\* pay_transfers, to those who had a job: the treasury may be overdrawn.
PayBenefit ==
  /\ Turn(BENEFIT, "fiscal")
  /\ LET a == Next1[2]
         weekly == IF \E i \in DOMAIN employments : employments[i].agent = a /\ employments[i].ended # None
                   THEN bp(Wage \div 2, ReplacementBp) ELSE 0
     IN  /\ balance' = Posted(balance, GovernmentTransferLegs(a, weekly))
         /\ budget' = [budget EXCEPT !.spending = @ + weekly]
  /\ queue' = queue \ {Next1}
  /\ stage' = IF queue = {Next1} THEN "finance" ELSE stage
  /\ UNCHANGED <<tick, world, labourRows, firms, unpaid, goodsRows, assessments, bonds>>

Face(shortfall) == ((shortfall + Denomination - 1) \div Denomination) * Denomination

Capacity == [x \in {<<0, b>> : b \in Banks} |-> Max({0, balance[Res(x[2])]})]
CanBorrow(face) == SumOver(DOMAIN Capacity, LAMBDA x : Capacity[x]) >= face

\* finance_deficit: an auction without enough bids fails, and
\* the treasury stays where it is.
Finance ==
  /\ stage = "finance"
  /\ LET shortfall == Floor - balance[TreasuryAccount]
         face == Face(shortfall)
         part == IF shortfall > 0 /\ face > 0 /\ CanBorrow(face) THEN Allocate(face, Capacity) ELSE [x \in DOMAIN Capacity |-> 0]
         buyers == {b \in Banks : part[<<0, b>>] > 0}
         rows == [i \in 1..Cardinality(buyers) |->
                    LET b == CHOOSE c \in buyers : Cardinality({d \in buyers : d < c}) = i - 1
                    IN  [holder |-> b, face |-> part[<<0, b>>], matures |-> tick + BondTerm,
                         lastCoupon |-> tick, status |-> "outstanding"]]
     IN  /\ balance' = [a \in DOMAIN balance |->
                          IF a = TreasuryAccount THEN balance[a] + SumOver(Banks, LAMBDA b : part[<<0, b>>])
                          ELSE IF a[1] = "res" /\ a[2] \in Banks THEN balance[a] - part[<<0, a[2]>>]
                          ELSE balance[a]]
         /\ bonds' = bonds \o rows
  /\ stage' = "close"
  /\ UNCHANGED <<tick, queue, world, labourRows, firms, unpaid, goodsRows, assessments, budget>>

\* close_budget
CloseBudget ==
  /\ stage = "close"
  /\ stage' = "done"
  /\ budget' = IF tick \in Quarters THEN [receipts |-> 0, spending |-> 0, service |-> 0] ELSE budget
  /\ UNCHANGED <<tick, queue, world, labourRows, firms, unpaid, goodsRows, balance, assessments, bonds>>

-----------------------------------------------------------------------------
(* Between two ticks *)

NextTick ==
  /\ stage = "done" /\ tick < LastTick
  /\ tick' = tick + 1 /\ stage' = "open"
  /\ UNCHANGED <<queue, world, labourRows, firms, unpaid, goodsRows, balance, publicRows>>

Shock == stage = "open" /\ shocks < MaxShocks /\ shocks' = shocks + 1

\* An agent dies: the estate ends its employments and settles what they accrued,
\* but of those that had ended already.
Die(a) ==
  /\ Shock /\ a \in alive
  /\ LET S == {i \in DOMAIN employments : employments[i].agent = a /\ employments[i].ended = None}
         e == IF S = {} THEN [firm |-> 0, accrued |-> 0] ELSE employments[CHOOSE i \in S : TRUE]
         paid == e.accrued > 0 /\ CanPay(e.firm, e.accrued)
         legs == IF paid THEN WageLegs(e, e.accrued) ELSE <<>>
     IN  \/ Fail(legs) /\ UNCHANGED <<alive, employments, firms>>
         \/ /\ Postable(balance, legs)
            /\ balance' = Posted(balance, legs)
            /\ alive' = alive \ {a}
            /\ employments' = [i \in DOMAIN employments |->
                                 IF i \notin S THEN employments[i]
                                 ELSE [employments[i] EXCEPT !.ended = tick, !.accrued = 0,
                                         !.paid = @ + (IF paid THEN e.accrued ELSE 0),
                                         !.lost = @ + (IF paid THEN 0 ELSE e.accrued)]]
            /\ firms' = [f \in Firms |->
                           IF f = e.firm
                           THEN [firms[f] EXCEPT !.headcount = Max({0, @ - 1}), !.wages = @ + (IF paid THEN e.accrued ELSE 0)]
                           ELSE firms[f]]
            /\ UNCHANGED <<stage, queue>>
  /\ UNCHANGED <<tick, stayed, vacancies, applications, offers, unpaid, goodsRows, publicRows>>

\* A case of bankruptcy is opened, or closed.
FileOrClose(x) ==
  /\ Shock
  /\ stayed' = IF x \in stayed THEN stayed \ {x} ELSE stayed \cup {x}
  /\ UNCHANGED <<tick, stage, queue, alive, labourRows, firms, unpaid, goodsRows, balance, publicRows>>

\* A lender takes what a firm has.
Repay(f) ==
  /\ Shock /\ Liquid(balance, f) > 0
  /\ balance' = Posted(balance, << <<Account(f), -Liquid(balance, f)>>, <<Dpl(Home[f]), Liquid(balance, f)>> >>)
  /\ UNCHANGED <<tick, stage, queue, alive, stayed, labourRows, firms, unpaid, goodsRows, publicRows>>

Ended ==
  /\ stage \in {"raised", "short"} \/ (stage = "done" /\ tick = LastTick)
  /\ UNCHANGED vars

Init ==
  /\ tick = 1 /\ stage = "open" /\ queue = {} /\ shocks = 0
  /\ alive = Agents /\ stayed = {}
  /\ vacancies = <<>> /\ applications = <<>> /\ offers = <<>> /\ employments = <<>>
  /\ firms = [f \in Firms |-> [headcount |-> 0, revenue |-> 0, wages |-> 0, revenueMark |-> 0, wageMark |-> 0]]
  /\ unpaid = {}
  /\ inventory = [k \in Stock |->
       [qty |-> StartStock, cost |-> StartCost, carry |-> 0, sold |-> 0, markup |-> MarkupInitial,
        price |-> Max({1, (StartCost * (10000 + MarkupInitial)) \div 10000})]]
  /\ trades = <<>>
  /\ caches = [sales |-> <<>>, qty |-> <<>>, value |-> <<>>, last |-> [s \in Skus |-> 0]]
  /\ durables = {} /\ cpi = 10000
  /\ LET held(b) == SumOver({o \in Agents \cup Firms : Home[o] = b}, LAMBDA o : StartDeposit[o])
         owners == [a \in {Account(o) : o \in Agents \cup Firms} |-> StartDeposit[a[2]]]
         banks == [a \in {Res(b) : b \in Banks} |-> StartReserves[a[2]]] @@
                  [a \in {Dpl(b) : b \in Banks} |-> -held(a[2])]
         central == (Res(bk_cb) :> 0) @@ (Dpl(bk_cb) :> 0) @@ (TreasuryAccount :> StartTreasury) @@ (Receivable :> 0)
     IN  balance = owners @@ banks @@ central
  /\ assessments = <<>> /\ bonds = <<>>
  /\ budget = [receipts |-> 0, spending |-> 0, service |-> 0]

Next ==
  \/ Expire \/ Plan \/ Work \/ PostVacancy \/ Apply \/ AcceptOffer \/ Screen \/ MakeOffer
  \/ Shop \/ Purchase \/ StartPayroll \/ PayWage \/ LayOff
  \/ RunDaily \/ ComputeCpi
  \/ PayBond \/ Assess \/ CollectTax \/ ConvertArrears \/ PayBenefit \/ Finance \/ CloseBudget
  \/ NextTick
  \/ \E a \in Mortal : Die(a)
  \/ \E x \in Insolvable : FileOrClose(x)
  \/ \E f \in Firms : Repay(f)
  \/ Ended

Spec == Init /\ [][Next]_vars

-----------------------------------------------------------------------------
(* Properties *)

\* Money, stocks and counts stay in their ranges: nobody but the treasury is
\* overdrawn, no stock is sold that is not there, and every row has its states.
TypeOK ==
  /\ tick \in 1..LastTick /\ shocks \in 0..MaxShocks /\ alive \subseteq Agents /\ stayed \subseteq Agents \cup Firms
  /\ \A i \in DOMAIN vacancies : vacancies[i].slots \in Nat /\ vacancies[i].status \in {"open", "filled", "expired"}
  /\ \A p \in DOMAIN applications : applications[p].status \in Undecided \cup {"rejected", "withdrawn", "hired"}
  /\ \A o \in DOMAIN offers : offers[o].status \in {"open", "expired", "accepted"}
  /\ \A i \in DOMAIN employments : employments[i].accrued \in Nat /\ employments[i].rest \in 0..(Period - 1)
  /\ \A f \in Firms : firms[f].headcount \in Nat /\ firms[f].revenueMark \in 0..firms[f].revenue
  /\ \A k \in Stock : inventory[k].qty \in Nat /\ inventory[k].carry \in 0..(Micro - 1) /\ inventory[k].price \in Nat \ {0}
  /\ \A a \in DOMAIN balance \ {TreasuryAccount} : SignAllowed(a, balance[a])
  /\ \A i \in DOMAIN assessments : assessments[i].paid \in 0..assessments[i].assessed

\* Nobody holds two jobs at once, although an offer is accepted on a decision taken
\* before the tick's other actions and a job starts only in the next tick: the times
\* of two employments of an agent do not overlap (policy._first_actions, _accept_offer).
OneJobAtATime ==
  \A i, k \in DOMAIN employments :
    (i < k /\ employments[i].agent = employments[k].agent) =>
      employments[i].ended # None /\ employments[i].ended <= employments[k].started

\* headcount is the number of open employments of the firm, through hires, layoffs
\* and deaths, and with its open vacancies never exceeds the target, although offers
\* may outnumber the places (should_autopost, _accept_offer, _layoff_for_shortfall).
HeadcountIsJobs ==
  \A f \in Firms :
    /\ firms[f].headcount
         = Cardinality({i \in DOMAIN employments : employments[i].firm = f /\ employments[i].ended = None})
    /\ Committed(f) <= Target[f]

\* Every day worked is paid, owed or was written off at a death: over any number of
\* days nothing is lost to rounding (_work, run_payroll, the estate).
WagesAreEarned ==
  \A i \in DOMAIN employments :
    LET e == employments[i] IN e.accrued + e.paid + e.lost = (e.days * Wage) \div Period

\* units_sold_28d is what the transactions of the window sum up to (_purchase and
\* _expire_sales_window), and both ways transaction_price_cents has to the price of
\* a sku, by the running sums and by the transactions, agree when the index is computed.
SalesRecordsAgree ==
  /\ stage \in {"buy", "payday", "cpi"} =>
       \A k \in Stock : inventory[k].sold =
         SumOver({i \in DOMAIN trades : trades[i].stock = k /\ trades[i].tick > tick - SalesWindow},
                 LAMBDA i : trades[i].qty)
  /\ stage = "cpi" => \A s \in Skus : CachedPrice(s) = TransactionPrice(s)

\* Profit is taxed once: at each quarter the profits assessed so far lie between what
\* revenue less wages amount to and the revenue (assess_taxes); and every assessment is
\* open, paid in full, or a claim of the treasury for just the rest (collect_taxes,
\* convert_arrears).
TaxedOnce ==
  /\ \A f \in Firms :
       LET base == SumOver({i \in DOMAIN assessments : assessments[i].firm = f}, LAMBDA i : assessments[i].base)
       IN  CorporateBp = 10000 => /\ firms[f].revenueMark - firms[f].wageMark <= base
                                  /\ base <= firms[f].revenueMark
  /\ \A i \in DOMAIN assessments : assessments[i].status = "paid" => assessments[i].paid = assessments[i].assessed
  /\ balance[Receivable] = SumOver({i \in DOMAIN assessments : assessments[i].status = "arrears"},
                                   LAMBDA i : assessments[i].assessed - assessments[i].paid)

\* The overdraft of the treasury is converted into bonds by the end of the tick,
\* unless the banks cannot buy them (finance_deficit).
DeficitIsFinanced ==
  stage = "done" => \/ balance[TreasuryAccount] >= Floor
                    \/ ~CanBorrow(Face(Floor - balance[TreasuryAccount]))

\* Without subsidies, a step of the tick fails in the ledger for one reason only, that the bank
\* of the payer is short of reserves: nothing checks those before a payment to another bank or
\* to the treasury, and post_transaction refuses what docs/06-ECONOMY-SPEC.md:2037 has
\* overdrawn within the day.  For the payers themselves, what is checked when an agent shops,
\* when wages are paid and when taxes are collected is enough (_purchase, run_payroll,
\* collect_taxes).
NeverRaises == SubsidyBp = 0 => stage # "raised"

\* Jobs, headcounts and wages are told alike by the employments, the firms and the days worked.
JobsAgree ==
  /\ TypeOK
  /\ OneJobAtATime
  /\ HeadcountIsJobs
  /\ WagesAreEarned

\* The records of sales, of taxes and of the debt agree with what was traded and posted.
BooksAgree ==
  /\ SalesRecordsAgree
  /\ TaxedOnce
  /\ DeficitIsFinanced
=============================================================================
