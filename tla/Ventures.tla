------------------------------ MODULE Ventures ------------------------------
(***************************************************************************)
(* Startups, rounds, funds, takeovers and bankruptcy (economy/ventures.py  *)
(* and venture_state.py).                                                  *)
(*                                                                         *)
(* VentureEngine.resolve is one call per tick; `stage` is the place in it: *)
(* the actions of the tick in the order of their actors, the solvency step *)
(* firm by firm, the liquidation of the cases that are due, asset by asset,*)
(* and the fees of the funds.  "raised" means that an exception has left   *)
(* the call and the run has ended.                                         *)
(* Agents, firms, the bank, the treasury and the option pool are numbers   *)
(* that stand for their place in the order of ids; a day is a tick.  Each  *)
(* owner has one deposit, and all firms are of one sector.  The orders and *)
(* reservations of a listed share are in Exchange; what a sale of the      *)
(* estate does to the holdings is kept.                                    *)
(***************************************************************************)
EXTENDS Ledger
LOCAL INSTANCE SequencesExt

CONSTANTS
  Agents, Firms, Bank,
  Genesis,       \* the firms of the genesis, by firm: founder, listed shares
  StartCash,     \* deposits at start, by owner
  StartLoans,    \* the loans at start
  StartJobs,     \* the employments at start
  Arrears,       \* unpaid tax assessments, by owner
  Foundings,     \* the inputs of each kind, sets of tuples
  Pitches, Sheets, Offers, Tenders, Filings, Dividends, Commitments, Costs,
  VentureSettings,
  LastTick, MaxInputs  \* bounds: ticks, and inputs from outside the engine

option_pool == 0
Holders == Agents \cup Firms \cup {option_pool, gv_treasury}
Owners == Agents \cup Firms \cup {Bank, gv_treasury}
Entities == Agents \cup Firms
Loans == DOMAIN StartLoans
Jobs == DOMAIN StartJobs

ASSUME VentureAssumption ==
  /\ Entities \subseteq Nat \ {0} /\ Agents \cap Firms = {} /\ Bank \notin Entities
  /\ StartCash \in [Owners -> Nat]
  /\ VentureSettings.threshold_bp \in 1..VentureSettings.drag_along_bp
  /\ VentureSettings.exempt_cents \in Nat /\ VentureSettings.founder_shares \in Nat \ {0}
  /\ VentureSettings.persist_days \in Nat
  /\ StartLoans \in [Loans -> [borrower : Entities, lender : Owners, out : Nat, collateral : Nat,
                              status : {"current", "delinquent"}]]

VARIABLES
  tick, stage, inputs,
  turn,      \* the actor of the last action of this tick; firms still to be examined
  cash,      \* deposits
  firms, stock, sec, holding, jobs,
  startup, fund, pitches, cap, rounds, sheets, deals,
  minted,    \* shares issued in takeovers less the shares cancelled, by firm (a ghost)
  loans, payable, \* the loans, and their borrowers' payable accounts: opened are all so far
  since,     \* insolvency_since_tick, 0: none
  red,       \* how many solvency steps in a row have found the firm insolvent (a ghost)
  cases,     \* the bankruptcy cases in order of filing
  current    \* the deal in completion, or the case in liquidation

vars == <<tick, stage, inputs, turn, cash, firms, stock, sec, holding, jobs, startup, fund,
          pitches, cap, rounds, sheets, deals, minted, loans, payable, since, red, cases, current>>
assets == <<stock, sec, holding>>
register == <<cap, rounds, minted>>
debts == <<loans, payable, since, red, cases, current>>

Sum(S, F(_)) == MapThenSumSet(F, S)
Least(a, b) == IF a < b THEN a ELSE b
Most(a, b) == IF a > b THEN a ELSE b
Ascending(S) == SetToSortSeq(S, LAMBDA a, b : a < b)
Live == {"current", "delinquent"}

\* allocate, on weights by owner.
Split(pool, weights) ==
  LET parts == Allocate(pool, [a \in {<<"owner", h>> : h \in DOMAIN weights} |-> weights[a[2]]])
  IN  [h \in DOMAIN weights |-> parts[<<"owner", h>>]]

\* The balances after `from` has paid each owner of pays.
Paid(b, from, pays) ==
  [o \in Owners |->
     b[o] + (IF o \in DOMAIN pays THEN pays[o] ELSE 0)
          - (IF o = from THEN Sum(DOMAIN pays, LAMBDA p : pays[p]) ELSE 0)]
Pay(b, from, to, cents) == Paid(b, from, (to :> cents))

-----------------------------------------------------------------------------
(* The register of shares *)

CapKeys(f) == {k \in DOMAIN cap : k[1] = f}
CapShares(f) == Sum(CapKeys(f), LAMBDA k : cap[k].shares)
NoRow == [shares |-> 0, invested |-> 0, round |-> 0, conv |-> 0]
Row(k) == IF k \in DOMAIN cap THEN cap[k] ELSE NoRow

\* _acquisition_equity_rows: holdings of a listed firm, else the cap table without
\* the pool; by key <<firm, holder, class>>.
EquityRows(f) ==
  IF sec[f].listed
  THEN [k \in {<<f, h, "common">> : h \in {h \in Holders : holding[f][h] > 0}} |->
          [shares |-> holding[f][k[2]], invested |-> 0, round |-> 0, conv |-> 0]]
  ELSE [k \in {k \in CapKeys(f) : k[2] # option_pool /\ cap[k].shares > 0} |-> cap[k]]

SharesOf(rows, keys) == Sum(keys, LAMBDA k : rows[k].shares)

\* _acquired_equity_rows.  What a holder has accepted is used up class by class.
AcquiredRows(d, rows) ==
  LET deal == deals[d]
      earlier(k) == {j \in DOMAIN rows : j[2] = k[2] /\ j[3] = "common" /\ k[3] # "common"}
      left(k) == Most(0, deal.accepting[k[2]] - SharesOf(rows, earlier(k)))
      qty(k) == IF deal.forced THEN rows[k].shares ELSE Least(rows[k].shares, left(k))
  IN  [k \in {k \in DOMAIN rows : qty(k) > 0} |-> [rows[k] EXCEPT !.shares = qty(k)]]

-----------------------------------------------------------------------------
(* The proceeds of an exit *)

RoundKeys(rows, r) == {k \in DOMAIN rows : rows[k].round = r}
ByHolder(rows, keys) ==
  [h \in {k[2] : k \in keys} |-> SharesOf(rows, {k \in keys : k[2] = h})]

\* The rounds in the order of their preferences, the newest first.
Seniority(rs) == Reverse(rs)

\* venture_waterfall over the rounds of the firm: [paid, left, part], where part are
\* the holders of participating rounds that were reached.
Preferences(proceeds, rows, f) ==
  FoldLeft(
    LAMBDA acc, r :
      LET keys == RoundKeys(rows, r)
          pay == Least(acc.left, bp(rounds[r].amount, rounds[r].liq_pref_bp))
          parts == Split(pay, ByHolder(rows, keys))
      IN  IF acc.left = 0 \/ keys = {} THEN acc
          ELSE [paid |-> [h \in DOMAIN acc.paid |->
                            acc.paid[h] + (IF h \in DOMAIN parts THEN parts[h] ELSE 0)],
                left |-> acc.left - pay,
                part |-> acc.part \cup (IF rounds[r].participating THEN DOMAIN parts ELSE {})],
    [paid |-> [h \in {k[2] : k \in DOMAIN rows} |-> 0], left |-> proceeds, part |-> {}],
    Seniority(SelectSeq([r \in DOMAIN rounds |-> r], LAMBDA r : rounds[r].firm = f)))

\* The holders that share what the preferences leave.
Residuaries(rows, pref) ==
  LET some == {k[2] : k \in {k \in DOMAIN rows : k[3] = "common" \/ k[2] \in pref.part}}
  IN  IF pref.left > 0 /\ some = {} THEN {k[2] : k \in DOMAIN rows} ELSE some

\* allocate is called even when nothing is left, and raises on an empty list.
WaterfallRaises(rows, pref) == Residuaries(rows, pref) = {}
Waterfall(rows, pref) ==
  LET heirs == Residuaries(rows, pref)
      rest == Split(pref.left, ByHolder(rows, {k \in DOMAIN rows : k[2] \in heirs}))
  IN  [h \in DOMAIN pref.paid |-> pref.paid[h] + (IF h \in heirs THEN rest[h] ELSE 0)]

-----------------------------------------------------------------------------
(* Stage and inputs *)

OpenCases == {c \in DOMAIN cases : cases[c].status = "open"}
InCase(e) == \E c \in OpenCases : cases[c].entity = e

\* The next action of the tick: actions are sorted by actor, and those that name an
\* entity under stay are skipped.
Acting(actor, named) ==
  /\ stage = "actions" /\ inputs < MaxInputs /\ tick < LastTick
  /\ actor >= turn
  /\ \A e \in named \cup {actor} : ~InCase(e)
  /\ inputs' = inputs + 1 /\ turn' = actor
  /\ UNCHANGED tick

-----------------------------------------------------------------------------
(* Companies, rounds and funds *)

\* What the new company is entered as: a fund whose only partner is its founder, or a
\* startup.
Enrolled(a, f, initial, kind) ==
  IF kind = "fund"
  THEN /\ fund' = [fund EXCEPT ![f] = [gp |-> a, committed |-> initial, deployed |-> 0,
                                          lps |-> [h \in Agents |-> IF h = a THEN initial ELSE 0]]]
       /\ UNCHANGED startup
  ELSE startup' = [startup EXCEPT ![f].status = "active"] /\ UNCHANGED fund

\* _found_company
FoundCompany(a, f, initial, kind) ==
  /\ Acting(a, {})
  /\ firms[f].status = "unborn" /\ cash[a] >= initial
  /\ cash' = Pay(cash, a, f, initial)
  /\ firms' = [firms EXCEPT ![f] =
       [status |-> "active", founder |-> a, capital |-> VentureSettings.capital_ref]]
  /\ cap' = (<<f, a, "common">> :>
       [shares |-> VentureSettings.founder_shares, invested |-> initial, round |-> 0,
        conv |-> Most(1, initial \div VentureSettings.founder_shares)]) @@ cap
  /\ Enrolled(a, f, initial, kind)
  /\ UNCHANGED <<stage, assets, jobs, pitches, rounds, minted, sheets, deals, debts>>

\* _pitch and _evaluate_pitch: an open pitch is evaluated in the same call, so that
\* max_open_pitches is never reached.
Pitch(a, f, investor, verdict) ==
  /\ Acting(a, {})
  /\ startup[f].status = "active" /\ firms[f].founder = a
  /\ pitches' = pitches \cup {<<f, investor, verdict>>}
  /\ UNCHANGED <<stage, cash, firms, assets, jobs, startup, fund, register, sheets, deals, debts>>

\* _issue_term_sheet: without any pitch the investor may always issue.  pre is the
\* blend of the anchor and of the view.
IssueTermSheet(a, f, pre, amount, class, participating, pool_bp) ==
  /\ Acting(a, {})
  /\ startup[f].status # "none"
  /\ \/ <<f, a, "term_sheet">> \in pitches
     \/ \A p \in pitches : p[1] # f \/ p[2] # a
  /\ sheets' = Append(sheets,
       [firm |-> f, investor |-> a, pre |-> pre, amount |-> amount, security |-> class,
        participating |-> participating, option_pool_bp |-> pool_bp,
        expires |-> tick + VentureSettings.term_sheet_days, status |-> "open"])
  /\ UNCHANGED <<stage, cash, firms, assets, jobs, startup, fund, pitches, register, deals, debts>>

\* The shares a round would create: the pool first, then the price.
PoolShares(pre, pool_bp) == (pre * pool_bp + (10000 - pool_bp) - 1) \div (10000 - pool_bp)
RoundPrice(sheet, pre) ==
  Most(1, sheet.pre \div Most(1, pre + PoolShares(pre, sheet.option_pool_bp)))

\* _invest: the sheet its investor names, in full, while it is open.
Investable(sheet) == sheet.status = "open" /\ tick <= sheet.expires

\* The end of _close_round: what the startup has raised, and what the funds of the
\* investor have deployed.
Raised(f, a, amount) ==
  /\ startup' = [startup EXCEPT ![f].raised = @ + amount]
  /\ fund' = [g \in Firms |-> IF fund[g].gp = a
                              THEN [fund[g] EXCEPT !.deployed = @ + amount] ELSE fund[g]]

\* _close_round
CloseRound(s) ==
  LET sheet == sheets[s]
      f == sheet.firm
      a == sheet.investor
      pool == PoolShares(CapShares(f), sheet.option_pool_bp)
      price == RoundPrice(sheet, CapShares(f))
      fresh == sheet.amount \div price
      key == <<f, a, sheet.security>>
      old == Row(key)
      round == IF key \in DOMAIN cap THEN old.round ELSE Len(rounds) + 1
      bought == (key :> [shares |-> old.shares + fresh, invested |-> old.invested + sheet.amount,
                         round |-> round,
                         conv |-> IF key \in DOMAIN cap THEN old.conv ELSE price])
      pooled == (<<f, option_pool, "common">> :>
                  [Row(<<f, option_pool, "common">>) EXCEPT !.shares = @ + pool])
  IN  /\ Acting(a, {})
      /\ Investable(sheet) /\ cash[a] >= sheet.amount /\ fresh > 0
      /\ cash' = Pay(cash, a, f, sheet.amount)
      /\ cap' = bought @@ (IF pool > 0 THEN pooled ELSE << >>) @@ cap
      /\ rounds' = Append(rounds,
           [firm |-> f, amount |-> sheet.amount, price |-> price, new_shares |-> fresh,
            option_pool |-> pool, liq_pref_bp |-> VentureSettings.liq_pref_bp,
            participating |-> sheet.participating])
      /\ sheets' = [sheets EXCEPT ![s].status = "accepted"]
      /\ Raised(f, a, sheet.amount)
      /\ UNCHANGED <<stage, firms, assets, jobs, pitches, minted, deals, debts>>

\* _lp_commit
LpCommit(a, f, cents) ==
  /\ Acting(a, {})
  /\ fund[f].gp # 0 /\ cash[a] >= cents
  /\ cash' = Pay(cash, a, f, cents)
  /\ fund' = [fund EXCEPT ![f].committed = @ + cents, ![f].lps[a] = @ + cents]
  /\ UNCHANGED <<stage, firms, assets, jobs, startup, pitches, register, sheets, deals, debts>>

\* _declare_dividend.  Two classes of one holder are two claimants with one id.
DeclareDividend(a, f, total) ==
  LET keys == {k \in CapKeys(f) : k[2] # option_pool /\ cap[k].shares > 0}
  IN  /\ Acting(a, {f})
      /\ firms[f].founder = a /\ firms[f].status # "unborn" /\ cash[f] >= total
      /\ IF keys = {} \/ \E k, j \in keys : k # j /\ k[2] = j[2]
         THEN stage' = "raised" /\ UNCHANGED cash
         ELSE /\ cash' = Paid(cash, f, Split(total, ByHolder(cap, keys)))
              /\ UNCHANGED stage
      /\ UNCHANGED <<firms, assets, jobs, startup, fund, pitches, register, sheets, deals, debts>>

-----------------------------------------------------------------------------
(* Takeovers *)

\* _propose_acquisition.  The cash is there when the offer is made.  A firm may bid for
\* itself, and one that was taken over may bid.
ProposeAcquisition(q, f, offer, stock_bp, mode) ==
  LET a == firms[q].founder
  IN  /\ firms[q].status # "unborn"
      /\ Acting(a, {q, f})
      /\ firms[f].status = "active"
      /\ ~(mode = "asset_sale" /\ stock_bp > 0)
      /\ (offer * (10000 - stock_bp)) \div 10000 <= cash[q]
      /\ deals' = Append(deals,
           [acquirer |-> q, target |-> f, offer |-> offer, stock_bp |-> stock_bp, mode |-> mode,
            expires |-> tick + VentureSettings.deal_days, accepting |-> [h \in Holders |-> 0],
            forced |-> FALSE, status |-> "proposed"])
      /\ UNCHANGED <<stage, cash, firms, assets, jobs, startup, fund, pitches, register, sheets, debts>>

\* The part of the shares whose holders accept.
AcceptingBp(rows, given) ==
  LET total == SharesOf(rows, DOMAIN rows)
  IN  (10000 * Least(total, Sum(Holders, LAMBDA x : given[x]))) \div Most(1, total)

\* _tender.  An approval starts the completion at once.
Tender(h, d, qty) ==
  LET deal == deals[d]
      rows == EquityRows(deal.target)
      held == SharesOf(rows, {k \in DOMAIN rows : k[2] = h})
      given == [deal.accepting EXCEPT ![h] = Most(Least(held, qty), @)]
      accepting_bp == AcceptingBp(rows, given)
      force_bp == IF sec[deal.target].listed THEN VentureSettings.squeeze_out_bp
                                             ELSE VentureSettings.drag_along_bp
      approved == accepting_bp >= VentureSettings.threshold_bp
  IN  /\ Acting(h, {deal.target})
      /\ deal.status = "proposed" /\ tick <= deal.expires
      /\ Least(held, qty) > 0
      /\ deals' = [deals EXCEPT ![d] =
           [deal EXCEPT !.accepting = given,
                        !.forced = approved /\ accepting_bp >= force_bp,
                        !.status = IF approved THEN "approved" ELSE "proposed"]]
      /\ stage' = IF approved THEN "pay" ELSE stage
      /\ current' = IF approved THEN d ELSE current
      /\ UNCHANGED <<cash, firms, assets, jobs, startup, fund, pitches, register, sheets, loans,
                     payable, since, red, cases>>

LedgerWorth(o) ==
  cash[o] - Sum({l \in Loans : payable[l].owner = o}, LAMBDA l : payable[l].cents)

\* _issue_acquirer_shares: how many are issued for the part of the price paid in stock.
StockIssued(deal, consideration) ==
  LET q == deal.acquirer
      price == IF sec[q].listed THEN sec[q].price
               ELSE Most(1, LedgerWorth(q) \div Most(1, CapShares(q)))
  IN  bp(consideration, deal.stock_bp) \div price

\* _issue_acquirer_shares and _transfer_target_equity on the cap table: the acquired rows of a
\* private target go to the acquirer, new shares of a private acquirer to the sellers, and a
\* forced takeover cancels the option pool.
RegisterAfter(deal, acquired, new) ==
  LET q == deal.acquirer
      f == deal.target
      own == IF sec[f].listed THEN {} ELSE {<<f, q, "common">>}
      fresh == IF sec[q].listed THEN {} ELSE {<<q, h, "common">> : h \in DOMAIN new}
      bought == IF sec[f].listed THEN {} ELSE DOMAIN acquired
      shares(k) ==
        IF k = <<f, option_pool, "common">> /\ deal.forced /\ ~sec[f].listed THEN 0
        ELSE Row(k).shares - (IF k \in bought THEN acquired[k].shares ELSE 0)
             + (IF k \in own THEN SharesOf(acquired, bought) ELSE 0)
             + (IF k \in fresh THEN new[k[2]] ELSE 0)
  IN  [k \in DOMAIN cap \cup fresh \cup own |-> [Row(k) EXCEPT !.shares = shares(k)]]

\* The same on the holdings of a listed firm.
HoldingsAfter(deal, acquired, new) ==
  [f \in Firms |-> [h \in Holders |->
     holding[f][h]
     + (IF f = deal.acquirer /\ sec[f].listed /\ h \in DOMAIN new THEN new[h] ELSE 0)
     - (IF f = deal.target /\ sec[f].listed /\ <<f, h, "common">> \in DOMAIN acquired
        THEN acquired[<<f, h, "common">>].shares ELSE 0)
     + (IF f = deal.target /\ sec[f].listed /\ h = deal.acquirer
        THEN SharesOf(acquired, DOMAIN acquired) ELSE 0)]]

Cancelled(deal) ==
  IF deal.forced /\ ~sec[deal.target].listed
  THEN Row(<<deal.target, option_pool, "common">>).shares ELSE 0

\* The shares that change hands for the price, and those issued to pay a part of it.
SharesChangeHands(deal, acquired, price) ==
  LET q == deal.acquirer
      sale == deal.mode = "asset_sale"
  IN  \E issued \in {IF deal.stock_bp = 0 THEN 0 ELSE StockIssued(deal, price)} :
      \E new \in {IF deal.stock_bp = 0 THEN << >>
                  ELSE Split(issued, ByHolder(acquired, DOMAIN acquired))} :
        /\ cap' = IF sale THEN cap ELSE RegisterAfter(deal, acquired, new)
        /\ holding' = IF sale THEN holding ELSE HoldingsAfter(deal, acquired, new)
        /\ sec' = [sec EXCEPT ![q].outstanding = @ + (IF sec[q].listed THEN issued ELSE 0)]
        /\ minted' = [minted EXCEPT
             ![q] = @ + (IF sec[q].listed THEN 0 ELSE issued),
             ![deal.target] = @ - (IF sale THEN 0 ELSE Cancelled(deal))]

\* The deposits after the price is paid, all below zero where nobody can be paid: a payer
\* below zero is what makes the posting raise.
PaidFor(deal, due, acquired, pref) ==
  IF due = 0 THEN cash
  ELSE IF deal.mode = "asset_sale" THEN Pay(cash, deal.acquirer, deal.target, due)
  ELSE IF WaterfallRaises(acquired, pref) THEN [o \in Owners |-> -1]
  ELSE Paid(cash, deal.acquirer, Waterfall(acquired, pref))

\* The posting, and then the shares.
PostPrice(deal, acquired, price, after) ==
  \/ /\ after[deal.acquirer] < 0
     /\ stage' = "raised"
     /\ UNCHANGED <<cash, register, sec, holding, current>>
  \/ /\ after[deal.acquirer] >= 0
     /\ cash' = after
     /\ SharesChangeHands(deal, acquired, price)
     /\ stage' = "integrate"
     /\ UNCHANGED <<rounds, current>>

\* _complete_acquisition up to _integrate: the price is paid and the shares change
\* hands.  The cash was checked when the offer was made, not now; what the acquirer pays
\* itself, for shares it holds, it need not have.  Whoever tendered last still holds
\* shares, so that something is acquired.
PayForTarget ==
  LET deal == deals[current]
      f == deal.target
  IN  /\ stage = "pay"
      /\ \E rows \in {EquityRows(f)} :
         \E acquired \in {AcquiredRows(current, rows)} :
         \E price \in {IF deal.mode = "asset_sale" THEN deal.offer
                       ELSE (deal.offer * SharesOf(acquired, DOMAIN acquired))
                              \div Most(1, SharesOf(rows, DOMAIN rows))} :
         \E due \in {(price * (10000 - deal.stock_bp)) \div 10000} :
         \E pref \in {Preferences(due, acquired, f)} :
         \E after \in {PaidFor(deal, due, acquired, pref)} :
           PostPrice(deal, acquired, price, after)
      /\ UNCHANGED <<tick, inputs, turn, firms, stock, jobs, startup, fund, pitches, sheets, deals,
                     loans, payable, since, red, cases>>

LiveLoans(f) == {l \in Loans : loans[l].borrower = f /\ loans[l].status \in Live}

\* Mutant: the loans of an absorbed firm stay on the payable of the firm.
LoansMovedByName(f, q) ==
  /\ loans' = [l \in Loans |-> IF l \in LiveLoans(f)
                               THEN [loans[l] EXCEPT !.borrower = q] ELSE loans[l]]
  /\ UNCHANGED payable

\* _transfer_loans
LoansMoved(f, q) ==
  LET moved == LiveLoans(f)
  IN  /\ loans' = [l \in Loans |-> IF l \in moved THEN [loans[l] EXCEPT !.borrower = q] ELSE loans[l]]
      /\ payable' = [l \in Loans |-> IF l \in moved
                                     THEN [payable[l] EXCEPT !.owner = q, !.opened = @ \cup {q}]
                                     ELSE payable[l]]

\* _transfer_loans raises when the acquirer has, or once had, the payable of a loan: it
\* bids for itself, or gets a loan back.
CannotMoveLoans(f, q) == \E l \in LiveLoans(f) : q \in payable[l].opened

\* _transfer_inventory and _transfer_productive_assets
StockMoved(f, q) ==
  LET qty == stock[f].qty + stock[q].qty
      cost == stock[f].qty * stock[f].unit + stock[q].qty * stock[q].unit
  IN  IF stock[f].qty = 0 THEN stock
      ELSE [stock EXCEPT ![q] = [qty |-> qty, unit |-> cost \div qty], ![f].qty = 0]
CapitalMoved(fs, f, q) == [fs EXCEPT ![q].capital = @ + fs[f].capital, ![f].capital = 0]

\* _integrate and the rest of _complete_acquisition.  All employments are of one
\* occupation; which of the redundant ones go is not determined here.
Integrate ==
  LET deal == deals[current]
      q == deal.acquirer
      f == deal.target
      staff(g) == {j \in Jobs : jobs[j].firm = g /\ jobs[j].live}
      overlap == IF staff(q) = {} THEN {} ELSE staff(f)
      quota == bp(Cardinality(overlap), VentureSettings.redundancy_bp)
      severance(fired) ==
        [a \in {jobs[j].agent : j \in fired} |->
           VentureSettings.severance * Cardinality({j \in fired : jobs[j].agent = a})]
      Done(status) ==
        /\ firms' = [IF deal.mode = "standalone" THEN firms ELSE CapitalMoved(firms, f, q)
                       EXCEPT ![f].status = status]
        /\ stock' = IF deal.mode = "standalone" THEN stock ELSE StockMoved(f, q)
        /\ sec' = [sec EXCEPT ![f].listed = @ /\ ~(deal.mode = "absorb" \/ deal.forced)]
        /\ startup' = IF deal.mode = "asset_sale" \/ startup[f].status = "none" THEN startup
                      ELSE [startup EXCEPT ![f].status = "exited"]
        /\ deals' = [deals EXCEPT ![current].status = "completed"]
        /\ stage' = "actions" /\ current' = 0
  IN  /\ stage = "integrate"
      /\ \/ /\ deal.mode = "absorb"
            /\ \E fired \in SUBSET overlap :
                 /\ Cardinality(fired) = quota
                 /\ IF cash[q] < VentureSettings.severance * quota \/ CannotMoveLoans(f, q)
                    THEN /\ stage' = "raised"
                         /\ UNCHANGED <<cash, jobs, firms, stock, sec, startup, deals, loans,
                                        payable, current>>
                    ELSE /\ cash' = Paid(cash, q, severance(fired))
                         /\ jobs' = [j \in Jobs |->
                              IF j \in fired THEN [jobs[j] EXCEPT !.live = FALSE]
                              ELSE IF j \in staff(f) THEN [jobs[j] EXCEPT !.firm = q]
                              ELSE jobs[j]]
                         /\ LoansMoved(f, q)
                         /\ Done("acquired")
         \/ /\ deal.mode = "standalone"
            /\ Done("subsidiary") /\ UNCHANGED <<cash, jobs, loans, payable>>
         \/ /\ deal.mode = "asset_sale"
            /\ Done(firms[f].status) /\ UNCHANGED <<cash, jobs, loans, payable>>
      /\ UNCHANGED <<tick, inputs, turn, holding, fund, pitches, register, sheets, since, red, cases>>

-----------------------------------------------------------------------------
(* Bankruptcy *)

\* _firm_balance_sheet_net_worth and the assets of _file_case.
BookAssets(e) ==
  cash[e]
  + Sum({f \in Firms : sec[f].listed}, LAMBDA f : holding[f][e] * sec[f].price)
  + (IF e \in Firms THEN stock[e].qty * stock[e].unit + firms[e].capital ELSE 0)
  + Sum({k \in DOMAIN cap : k[2] = e /\ k[1] # e /\ ~sec[k[1]].listed},
        LAMBDA k : cap[k].invested)
OpenLoans(e) ==
  {l \in Loans : loans[l].borrower = e /\ loans[l].status \notin {"repaid", "written_off"}}
BookWorth(f) == BookAssets(f) - Sum(OpenLoans(f), LAMBDA l : loans[l].out)

Claim(creditor, cents, class, loan) ==
  [creditor |-> creditor, cents |-> cents, class |-> class, loan |-> loan, paid |-> 0]
Secured(l) == Least(loans[l].out, loans[l].collateral)
CapOrder(f) ==
  SetToSortSeq({k \in CapKeys(f) : k[2] # option_pool /\ cap[k].invested > 0},
               LAMBDA k, j : \/ k[3] = "common" /\ j[3] # "common"
                             \/ k[3] = j[3] /\ k[2] < j[2])

\* The claims that _file_case registers, from the state of the moment.
Claims(e) ==
  LET fee == bp(BookAssets(e), VentureSettings.admin_fee_bp)
      some(condition, c) == IF condition THEN <<c>> ELSE << >>
      wages == Ascending({j \in Jobs : jobs[j].firm = e /\ jobs[j].accrued > 0})
      owed == Ascending(OpenLoans(e))
      loan(l) == some(Secured(l) > 0, Claim(loans[l].lender, Secured(l), 1, l))
                 \o some(loans[l].out > Secured(l),
                         Claim(loans[l].lender, loans[l].out - Secured(l), 4, l))
  IN  some(fee > 0, Claim(gv_treasury, fee, 2, 0))
      \o [i \in DOMAIN wages |-> Claim(jobs[wages[i]].agent,
            Least(jobs[wages[i]].accrued, VentureSettings.wage_cap), 2, 0)]
      \o some(Arrears[e] > 0, Claim(gv_treasury, Arrears[e], 3, 0))
      \o FlattenSeq([i \in DOMAIN owed |-> loan(owed[i])])
      \o [i \in DOMAIN CapOrder(e) |->
            Claim(CapOrder(e)[i][2], cap[CapOrder(e)[i]].invested, 5, 0)]

\* _file_case; nothing if a case of the entity is open.
NewCases(es) ==
  LET filing == Ascending({e \in es : ~InCase(e)})
  IN  [i \in DOMAIN filing |->
         [entity |-> filing[i], filed |-> tick, status |-> "open",
          liquidation |-> tick + VentureSettings.liquidation_days,
          claims |-> Claims(filing[i]), estate |-> 0]]
Bankrupted(es) == [f \in Firms |-> IF f \in es THEN [firms[f] EXCEPT !.status = "bankrupt"] ELSE firms[f]]

\* _file_action: oneself, or a firm one has founded, whatever its status.
FileBankruptcy(a, e) ==
  /\ stage = "actions" /\ inputs < MaxInputs /\ tick < LastTick /\ a >= turn
  /\ e = a \/ (e \in Firms /\ firms[e].status # "unborn" /\ firms[e].founder = a)
  /\ ~InCase(e)
  /\ inputs' = inputs + 1 /\ turn' = a
  /\ cases' = cases \o NewCases({e}) /\ firms' = Bankrupted({e})
  /\ UNCHANGED <<tick, stage, cash, assets, jobs, startup, fund, pitches, register, sheets, deals,
                 loans, payable, since, red, current>>

\* Mutant: every tick of insolvency starts the count again.
InsolventSinceAgain(f) ==
  IF firms[f].status # "active" \/ BookWorth(f) >= 0 THEN 0 ELSE tick

\* insolvency_since_tick after _solvency_step has seen the firm.
InsolventSince(f) ==
  IF firms[f].status # "active" \/ BookWorth(f) >= 0 THEN 0
  ELSE IF since[f] = 0 THEN tick ELSE since[f]

\* The end of the actions, and _solvency_step.
SolvencyStep ==
  /\ stage = "actions"
  /\ \E at \in {[f \in Firms |-> InsolventSince(f)]} :
     \E filing \in {{f \in Firms : at[f] # 0 /\ tick - at[f] >= VentureSettings.persist_days}} :
       /\ since' = at
       /\ red' = [f \in Firms |-> IF at[f] = 0 THEN 0 ELSE red[f] + 1]
       /\ cases' = cases \o NewCases(filing)
       /\ firms' = Bankrupted(filing)
  /\ stage' = "cases"
  /\ UNCHANGED <<tick, inputs, turn, cash, assets, jobs, startup, fund, pitches, register, sheets,
                 deals, loans, payable, current>>

Due == {c \in OpenCases : tick >= cases[c].liquidation}

\* _advance_bankruptcies: the next case that is due, by its id.
BeginCase ==
  /\ stage = "cases" /\ Due # {}
  /\ current' = CHOOSE c \in Due : \A d \in Due : cases[c].entity <= cases[d].entity
  /\ stage' = "equity"
  /\ UNCHANGED <<tick, inputs, turn, cash, firms, assets, jobs, startup, fund, pitches, register,
                 sheets, deals, loans, payable, since, red, cases>>

Debtor == cases[current].entity
Affordable(b, price) == cash[b] \div Most(1, price)

\* What each buyer takes of a quantity at a price, in proportion to the weights and
\* as far as its cash goes.
Taken(qty, price, weights) ==
  IF DOMAIN weights = {} \/ price = 0 THEN << >>
  ELSE LET parts == Split(qty, weights)
       IN  [b \in DOMAIN weights |-> Least(parts[b], Affordable(b, price))]
SoldTo(taken, price) ==
  [o \in Owners |->
     cash[o] - (IF o \in DOMAIN taken THEN taken[o] * price ELSE 0)
     + (IF o = Debtor THEN Sum(DOMAIN taken, LAMBDA b : taken[b] * price) ELSE 0)]

Stakes == {k \in DOMAIN cap : k[2] = Debtor /\ k[1] # Debtor /\ cap[k].shares > 0
                              /\ ~sec[k[1]].listed}
LatestPrice(k) ==
  LET rs == {r \in DOMAIN rounds : rounds[r].firm = k[1]}
  IN  IF rs # {} THEN rounds[Max(rs)].price
      ELSE IF cap[k].conv > 0 THEN cap[k].conv
      ELSE Most(1, cap[k].invested \div cap[k].shares)

\* _realise_unlisted_equity, one row: the other holders buy, the rest is written off.
SellStake(k) ==
  LET price == bp(LatestPrice(k), VentureSettings.unlisted_bp)
      others == {j \in CapKeys(k[1]) : j[2] \notin {Debtor, option_pool} /\ cap[j].shares > 0
                                       /\ cash[j[2]] > 0}
      key(b) == <<k[1], b, k[3]>>
  IN  /\ stage = "equity" /\ k \in Stakes
      /\ \E taken \in {Taken(cap[k].shares, price, ByHolder(cap, others))} :
         LET buying == {b \in DOMAIN taken : taken[b] > 0}
             sold == Sum(buying, LAMBDA b : taken[b])
         IN  /\ cash' = SoldTo(taken, price)
             /\ cap' = [j \in DOMAIN cap \cup {key(b) : b \in buying} |->
                  IF j = k THEN [cap[k] EXCEPT !.shares = 0, !.invested = 0]
                  ELSE IF j \in {key(b) : b \in buying}
                  THEN [IF j \in DOMAIN cap THEN cap[j]
                        ELSE [cap[k] EXCEPT !.shares = 0, !.invested = 0]
                          EXCEPT !.shares = @ + taken[j[2]], !.invested = @ + taken[j[2]] * price]
                  ELSE cap[j]]
             /\ minted' = [minted EXCEPT ![k[1]] = @ - (cap[k].shares - sold)]
      /\ UNCHANGED <<tick, stage, inputs, turn, firms, assets, jobs, startup, fund, pitches, rounds,
                     sheets, deals, debts>>

\* _solvent_firm_buyers, with their weights.
Buyers ==
  LET ok(f) == /\ f # Debtor /\ firms[f].status \in {"active", "subsidiary"}
               /\ LedgerWorth(f) >= 0 /\ cash[f] > 0
  IN  [f \in {f \in Firms : ok(f)} |-> Most(1, firms[f].capital)]

\* _realise_inventory
SellInventory ==
  LET price == bp(stock[Debtor].unit, VentureSettings.inventory_bp)
  IN  /\ stage = "equity" /\ Stakes = {}
      /\ IF Debtor \notin Firms THEN UNCHANGED <<cash, stock>>
         ELSE \E taken \in {Taken(stock[Debtor].qty, price, Buyers)} :
           /\ cash' = SoldTo(taken, price)
           /\ stock' = [f \in Firms |->
                IF f = Debtor THEN [stock[f] EXCEPT !.qty = 0]
                ELSE IF f \in DOMAIN taken /\ taken[f] > 0
                THEN [qty |-> stock[f].qty + taken[f],
                      unit |-> (stock[f].qty * stock[f].unit + taken[f] * price)
                                 \div (stock[f].qty + taken[f])]
                ELSE stock[f]]
      /\ stage' = "capital"
      /\ UNCHANGED <<tick, inputs, turn, firms, sec, holding, jobs, startup, fund, pitches, register,
                     sheets, deals, debts>>

\* _realise_capital: a buyer books what it has paid, not what the debtor had booked.
SellCapital ==
  LET rate == VentureSettings.capital_bp
      parts == Split(firms[Debtor].capital, Buyers)
      part(b) == Least(parts[b], (cash[b] * 10000) \div rate)
  IN  /\ stage = "capital"
      /\ IF Debtor \notin Firms \/ DOMAIN Buyers = {} \/ rate = 0
         THEN /\ firms' = [f \in Firms |-> IF f = Debtor THEN [firms[f] EXCEPT !.capital = 0]
                                           ELSE firms[f]]
              /\ UNCHANGED cash
         ELSE \E paid \in {[b \in DOMAIN Buyers |-> bp(part(b), rate)]} :
              /\ cash' = SoldTo(paid, 1)
              /\ firms' = [f \in Firms |->
                   IF f = Debtor THEN [firms[f] EXCEPT !.capital = 0]
                   ELSE IF f \in DOMAIN paid THEN [firms[f] EXCEPT !.capital = @ + paid[f]]
                   ELSE firms[f]]
      /\ stage' = "distribute"
      /\ UNCHANGED <<tick, inputs, turn, assets, jobs, startup, fund, pitches, register, sheets,
                     deals, debts>>

-----------------------------------------------------------------------------
(* The priority waterfall *)

\* _monotone_pro_rata: cent by cent to the claim with the highest average, the first
\* id of equals; the divisor search finds the same payments.
ProRata(pool, due) ==
  FoldLeft(
    LAMBDA paid, n :
      LET ids == {i \in DOMAIN due : paid[i] < due[i]}
          before(i, j) == \/ due[i] * (paid[j] + 1) > due[j] * (paid[i] + 1)
                          \/ due[i] * (paid[j] + 1) = due[j] * (paid[i] + 1) /\ i <= j
          best == CHOOSE i \in ids : \A j \in ids : before(i, j)
      IN  [paid EXCEPT ![best] = @ + 1],
    [i \in DOMAIN due |-> 0], [n \in 1..pool |-> n])

\* Mutant: wages are paid before the secured claims.
PriorityOrderWages == <<2, 1, 3, 4, 5>>

PriorityOrder == <<1, 2, 3, 4, 5>>

\* priority_waterfall: [paid, left] after the classes in turn.
PriorityWaterfall(proceeds, claims) ==
  FoldLeft(
    LAMBDA acc, class :
      LET ids == {i \in DOMAIN claims : claims[i].class = class /\ claims[i].cents > 0}
          due == [i \in ids |-> claims[i].cents]
          pool == Least(acc.left, Sum(ids, LAMBDA i : due[i]))
          paid == ProRata(pool, due)
      IN  [paid |-> [i \in DOMAIN claims |-> IF i \in ids THEN paid[i] ELSE acc.paid[i]],
           left |-> acc.left - pool],
    [paid |-> [i \in DOMAIN claims |-> 0], left |-> proceeds], PriorityOrder)

\* What the creditors of an entity share: an agent keeps the exemption.
Estate(e) ==
  cash[e] - (IF e \in Agents THEN Least(cash[e], VentureSettings.exempt_cents) ELSE 0)

\* What a loan is paid comes off its principal as far as that goes, and write_off_loan
\* takes the rest: nothing is left outstanding, and the status says whether it was paid.
LoanResolved(l, claims, paid) ==
  LET got == Sum({i \in DOMAIN paid : claims[i].loan = l}, LAMBDA i : paid[i])
  IN  [loans[l] EXCEPT !.out = 0,
                       !.status = IF got < loans[l].out THEN "written_off" ELSE @]

\* What becomes of the firm: its jobs end, its security is delisted at zero and its
\* startup dies.
FirmClosed(e) ==
  /\ firms' = [firms EXCEPT ![e].status = "dissolved"]
  /\ jobs' = [j \in Jobs |-> IF jobs[j].firm = e THEN [jobs[j] EXCEPT !.live = FALSE]
                             ELSE jobs[j]]
  /\ sec' = [sec EXCEPT ![e] = IF @.listed THEN [@ EXCEPT !.listed = FALSE, !.price = 0] ELSE @]
  /\ startup' = [startup EXCEPT ![e].status = IF @ = "none" THEN @ ELSE "dead"]

\* The loans of the claims are resolved, and so are their payables.
LoansClosed(claims, paid) ==
  LET claimed == {claims[i].loan : i \in DOMAIN paid} \ {0}
  IN  /\ loans' = [l \in Loans |->
           IF l \in claimed THEN LoanResolved(l, claims, paid) ELSE loans[l]]
      /\ payable' = [l \in Loans |->
           IF l \in claimed THEN [payable[l] EXCEPT !.cents = @ - loans[l].out] ELSE payable[l]]

\* What each creditor gets.
Payments(claims, paid) ==
  [c \in {claims[i].creditor : i \in DOMAIN paid} |->
     Sum({i \in DOMAIN paid : claims[i].creditor = c}, LAMBDA i : paid[i])]

\* The end of _liquidate_case: payments, write-offs, discharge.
Distribute ==
  LET case == cases[current]
      e == Debtor
  IN  /\ stage = "distribute"
      /\ \E paid \in {PriorityWaterfall(Estate(e), case.claims).paid} :
           /\ cash' = Paid(cash, e, Payments(case.claims, paid))
           /\ cases' = [cases EXCEPT ![current] =
                [case EXCEPT !.status = "discharged", !.estate = Estate(e),
                             !.claims = [i \in DOMAIN paid |->
                                           [case.claims[i] EXCEPT !.paid = paid[i]]]]]
           /\ LoansClosed(case.claims, paid)
      /\ IF e \in Firms THEN FirmClosed(e) ELSE UNCHANGED <<firms, jobs, sec, startup>>
      /\ stage' = "cases" /\ current' = 0
      /\ UNCHANGED <<tick, inputs, turn, stock, holding, fund, pitches, register, sheets, deals, since, red>>

\* _fund_step: the fee of the general partner, a quarter at a time, if the fund has it.
FundStep ==
  LET fee(f) == bp(fund[f].committed, VentureSettings.management_fee_bp) \div 4
      due == {f \in Firms : fund[f].gp # 0 /\ fee(f) > 0 /\ cash[f] >= fee(f)
                            /\ tick % VentureSettings.quarter = 0}
  IN  /\ stage = "cases" /\ Due = {}
      /\ cash' = [o \in Owners |->
           cash[o] - (IF o \in due THEN fee(o) ELSE 0)
                   + Sum({f \in due : fund[f].gp = o}, LAMBDA f : fee(f))]
      /\ stage' = "end"
      /\ UNCHANGED <<tick, inputs, turn, firms, assets, jobs, startup, fund, pitches, register,
                     sheets, deals, debts>>

\* The next call, which begins with _expire_term_sheets.
NextTick ==
  /\ stage = "end" /\ tick < LastTick
  /\ tick' = tick + 1 /\ stage' = "actions" /\ turn' = 0
  /\ sheets' = [s \in DOMAIN sheets |->
       IF sheets[s].status = "open" /\ tick + 1 > sheets[s].expires
       THEN [sheets[s] EXCEPT !.status = "expired"] ELSE sheets[s]]
  /\ UNCHANGED <<inputs, cash, firms, assets, jobs, startup, fund, pitches, register, deals, debts>>

-----------------------------------------------------------------------------
(* The rest of the world *)

\* A firm pays its suppliers and its staff; a wage accrues.
Spend(f, cents) ==
  /\ stage = "actions" /\ inputs < MaxInputs /\ tick < LastTick /\ turn = 0
  /\ firms[f].status \in {"active", "subsidiary"}
  /\ inputs' = inputs + 1
  /\ cash' = Pay(cash, f, gv_treasury, Least(cash[f], cents))
  /\ jobs' = [j \in Jobs |-> IF jobs[j].firm = f /\ jobs[j].live
                             THEN [jobs[j] EXCEPT !.accrued = @ + 1] ELSE jobs[j]]
  /\ UNCHANGED <<tick, stage, turn, firms, assets, startup, fund, pitches, register, sheets, deals,
                 debts>>

\* amortise, by which a borrower that is not under stay repays a cent of a loan.
Repay(l) ==
  LET b == loans[l].borrower
  IN  /\ stage = "actions" /\ inputs < MaxInputs /\ tick < LastTick /\ turn = 0
      /\ loans[l].status \in Live /\ loans[l].out > 0 /\ ~InCase(b) /\ cash[b] > 0
      /\ inputs' = inputs + 1
      /\ cash' = Pay(cash, b, loans[l].lender, 1)
      /\ loans' = [loans EXCEPT ![l].out = @ - 1, ![l].status = IF loans[l].out = 1 THEN "repaid" ELSE @]
      /\ payable' = [payable EXCEPT ![l].cents = @ - 1]
      /\ UNCHANGED <<tick, stage, turn, firms, assets, jobs, startup, fund, pitches, register, sheets,
                     deals, since, red, cases, current>>

\* liquidation_actions, and the exchange that fills such a market order as far as a
\* buyer has the money: all that is left in the last session, a slice before.
SellListed(c, f, buyer) ==
  LET e == cases[c].entity
      last == tick = cases[c].liquidation
  IN  /\ stage = "actions" /\ turn = 0 /\ c \in OpenCases
      /\ cases[c].filed < tick /\ tick <= cases[c].liquidation
      /\ sec[f].listed /\ holding[f][e] > 0 /\ buyer \notin {e, option_pool, gv_treasury}
      /\ \E qty \in 1..holding[f][e] :
           /\ last => qty = Least(holding[f][e], Affordable(buyer, sec[f].price))
           /\ cash[buyer] >= qty * sec[f].price
           /\ cash' = Pay(cash, buyer, e, qty * sec[f].price)
           /\ holding' = [holding EXCEPT ![f][e] = @ - qty, ![f][buyer] = @ + qty]
      /\ UNCHANGED <<tick, stage, inputs, turn, firms, stock, sec, jobs, startup, fund, pitches,
                     register, sheets, deals, debts>>

-----------------------------------------------------------------------------
(* Specification *)

Init ==
  /\ tick = 1 /\ stage = "actions" /\ inputs = 0 /\ turn = 0
  /\ cash = StartCash
  /\ firms = [f \in Firms |->
       IF f \in DOMAIN Genesis
       THEN [status |-> "active", founder |-> Genesis[f].founder, capital |-> VentureSettings.capital_ref]
       ELSE [status |-> "unborn", founder |-> 0, capital |-> 0]]
  /\ stock = [f \in Firms |-> IF f \in DOMAIN Genesis THEN [qty |-> 2, unit |-> 1]
                              ELSE [qty |-> 0, unit |-> 1]]
  /\ sec = [f \in Firms |->
       IF f \in DOMAIN Genesis
       THEN [listed |-> TRUE, outstanding |-> Genesis[f].shares, price |-> Genesis[f].price]
       ELSE [listed |-> FALSE, outstanding |-> 0, price |-> 0]]
  /\ holding = [f \in Firms |-> [h \in Holders |->
       IF f \in DOMAIN Genesis /\ h = Genesis[f].founder THEN Genesis[f].shares ELSE 0]]
  /\ jobs = StartJobs
  /\ startup = [f \in Firms |-> [status |-> "none", raised |-> 0]]
  /\ fund = [f \in Firms |-> [gp |-> 0, committed |-> 0, deployed |-> 0, lps |-> [a \in Agents |-> 0]]]
  /\ pitches = {} /\ cap = << >> /\ rounds = << >> /\ sheets = << >> /\ deals = << >>
  /\ minted = [f \in Firms |-> 0]
  /\ loans = StartLoans
  /\ payable = [l \in Loans |-> [owner |-> StartLoans[l].borrower, cents |-> StartLoans[l].out,
                                 opened |-> {StartLoans[l].borrower}]]
  /\ since = [f \in Firms |-> 0] /\ red = [f \in Firms |-> 0]
  /\ cases = << >> /\ current = 0

Ended == (stage = "raised" \/ (stage = "end" /\ tick = LastTick)) /\ UNCHANGED vars

Next ==
  \/ \E i \in Foundings : FoundCompany(i[1], i[2], i[3], i[4])
  \/ \E i \in Pitches : Pitch(i[1], i[2], i[3], i[4])
  \/ \E i \in Sheets : IssueTermSheet(i[1], i[2], i[3], i[4], i[5], i[6], i[7])
  \/ \E s \in DOMAIN sheets : CloseRound(s)
  \/ \E i \in Commitments : LpCommit(i[1], i[2], i[3])
  \/ \E i \in Dividends : DeclareDividend(i[1], i[2], i[3])
  \/ \E i \in Offers : ProposeAcquisition(i[1], i[2], i[3], i[4], i[5])
  \/ \E i \in Tenders, d \in DOMAIN deals : Tender(i[1], d, i[2])
  \/ PayForTarget
  \/ Integrate
  \/ \E i \in Filings : FileBankruptcy(i[1], i[2])
  \/ SolvencyStep
  \/ BeginCase
  \/ \E k \in DOMAIN cap : SellStake(k)
  \/ SellInventory
  \/ SellCapital
  \/ Distribute
  \/ FundStep
  \/ NextTick
  \/ \E i \in Costs : Spend(i[1], i[2])
  \/ \E l \in Loans : Repay(l)
  \/ \E c \in DOMAIN cases, f \in Firms, b \in Agents : SellListed(c, f, b)
  \/ Ended

Spec == Init /\ [][Next]_vars

-----------------------------------------------------------------------------
(* Properties *)

\* The balances, registers, deals and cases have the values the code gives them; no
\* deposit is ever overdrawn.
TypeOK ==
  /\ tick \in 1..LastTick /\ inputs \in 0..MaxInputs /\ turn \in Agents \cup {0}
  /\ stage \in {"actions", "pay", "integrate", "cases", "equity", "capital", "distribute", "end",
                "raised"}
  /\ cash \in [Owners -> Nat]
  /\ \A f \in Firms :
       /\ firms[f].status \in {"unborn", "active", "bankrupt", "dissolved", "acquired", "subsidiary"}
       /\ firms[f].capital \in Nat /\ stock[f].qty \in Nat
       /\ startup[f].status \in {"none", "active", "exited", "dead"}
       /\ \A h \in Holders : holding[f][h] \in Nat
  /\ \A k \in DOMAIN cap : cap[k].shares \in Nat /\ cap[k].invested \in Nat
  /\ \A l \in Loans : loans[l].out \in Nat /\ loans[l].borrower \in Entities
  /\ \A c \in DOMAIN cases : cases[c].status \in {"open", "discharged"}

\* No share appears or vanishes: the holdings of a listed firm are its outstanding
\* shares, and a cap table is what the founding of the firm, its rounds and the takeovers
\* it paid for in stock have issued, less what was cancelled or written off, whoever takes
\* over whom, itself included (share_invariant_failures).  The two registers are apart: a
\* listed firm of genesis has no cap table, so INV-CAPTABLE as
\* docs/06-ECONOMY-SPEC.md:597 states it, that the common shares of a listed firm's cap
\* table are its outstanding ones, holds of none of them; cap_table_invariant_failures,
\* which reports under that name, compares no shares with the outstanding ones.
SharesAccounted ==
  \A f \in Firms :
    /\ Sum(Holders, LAMBDA h : holding[f][h]) = sec[f].outstanding
    /\ CapShares(f) =
         minted[f]
         + (IF firms[f].status # "unborn" /\ f \notin DOMAIN Genesis
            THEN VentureSettings.founder_shares ELSE 0)
         + Sum({r \in DOMAIN rounds : rounds[r].firm = f},
               LAMBDA r : rounds[r].new_shares + rounds[r].option_pool)

\* In a discharged case a junior claim has been paid only if every senior one has been
\* paid in full, no claim more than it was worth, and the estate was used up as far as
\* there were claims: for any mix of secured, wage, tax, unsecured and equity claims.
SeniorsFirst ==
  \A c \in DOMAIN cases : cases[c].status = "discharged" =>
    LET claims == cases[c].claims
        paid == Sum(DOMAIN claims, LAMBDA i : claims[i].paid)
    IN  /\ \A i, j \in DOMAIN claims :
             claims[j].paid > 0 /\ claims[i].class < claims[j].class => claims[i].paid = claims[i].cents
        /\ \A i \in DOMAIN claims : claims[i].paid <= claims[i].cents
        /\ paid = Least(cases[c].estate, Sum(DOMAIN claims, LAMBDA i : claims[i].cents))

\* The payable of every loan is what is outstanding, on an account of the borrower:
\* also when the borrower was absorbed while its case was open, and the loan is then
\* written off against the estate of the old borrower.
LoansMatchBooks ==
  \A l \in Loans :
    /\ payable[l].cents = loans[l].out
    /\ loans[l].status \in Live => payable[l].owner = loans[l].borrower

\* A firm is not left insolvent: when so many solvency steps in a row have found its
\* debts above its assets, a case is open for it, whatever else happened meanwhile.
InsolvencyIsFiled ==
  \A f \in Firms : firms[f].status = "active" => red[f] <= VentureSettings.persist_days

\* The registers are right, each by itself: shares are what was issued, loans are what the
\* books say, and no deposit is overdrawn.  The cap table and the holdings of a listed firm
\* are not compared: see SharesAccounted.
RegistersAgree ==
  /\ TypeOK
  /\ SharesAccounted
  /\ LoansMatchBooks
=============================================================================
