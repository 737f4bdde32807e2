------------------------------ MODULE Banking ------------------------------
(***************************************************************************)
(* The money of a tick: purchases (goods.py) and wages (labour.py), then   *)
(* BankingEngine.step (banking.py): credit, interest accrual,              *)
(* amortisation, deposit interest and write-offs (credit.py), and the      *)
(* settlement of the banks with interbank loans, the discount window and   *)
(* the resolution of failed banks (central.py).                            *)
(*                                                                         *)
(* Settings have their defaults where they choose a path: underwriting by  *)
(* a scorecard (a score may come out either way), no health subsidy.  The  *)
(* resolution is either of the two there are, and chosen when it is first  *)
(* read.  A tick is a day.  The treasury receives the taxes on sales and   *)
(* wages and pays the deposit insurance; the rest of                       *)
(* fiscal_step, between write-offs and settlement, is not modelled, and    *)
(* neither are bonds: one is larger than what a bank may bid.  An          *)
(* exception that nobody catches ends the run; `raised` says what it was   *)
(* about.                                                                  *)
(***************************************************************************)
EXTENDS Ledger, SequencesExt

CONSTANTS Banks,             \* commercial banks
          Firms,             \* firms
          Residents,         \* agents
          HomeBanks,         \* the banks they may be given at genesis
          InitialDeposit,    \* deposits of everyone at genesis
          InitialCapital,    \* what a bank owns at genesis
          InitialTreasury,
          SalesTax,          \* sales_bp
          EmployerTax,       \* payroll_employer_bp
          IncomeTax,         \* rate of the only income bracket
          ReserveRatio,      \* reserve_ratio_bp
          MinCapital,        \* capital_ratio_min_bp
          MinInterbank,      \* interbank_min_ratio_bp
          Concentration,     \* concentration_bp
          InterbankLimit,    \* interbank_concentration_bp
          InterbankWeight,   \* risk_weight_bp of interbank loans
          Quarter,           \* ticks between applications for credit
          Month,             \* ticks between payments of deposit interest,
          InterestDay,       \* and the one of a month they fall on
          PaymentInterval,   \* payment_interval_days
          InterestPer,       \* deposit that earns a cent of interest
          InsuranceCap,      \* insured part of a deposit
          FireSale,          \* fire_sale_bp
          Term,              \* payments of a loan
          DelinquencyDays,   \* delinquency_days
          DefaultDays,       \* default_days
          WriteoffDays,      \* writeoff_after_days
          LastTick,          \* bound: ticks
          Amounts,           \* bound: a purchase, a wage
          LoanSizes,         \* bound: a loan
          MaxTrades          \* bound: purchases and wages of a tick

Owners == Firms \cup Residents

ASSUME BankingConstants ==
  /\ Banks \subseteq Nat \ {bk_cb} /\ Banks # {}
  /\ Owners \subseteq Nat \ {bk_cb} /\ Owners \cap Banks = {}
  /\ HomeBanks \subseteq [Owners -> Banks]
  /\ {InitialDeposit, InitialCapital, InitialTreasury, SalesTax, EmployerTax, IncomeTax, ReserveRatio,
      MinCapital, MinInterbank, Concentration, InterbankLimit, InterbankWeight,
      InsuranceCap, FireSale, InterestDay, DelinquencyDays, DefaultDays, WriteoffDays, LastTick,
      MaxTrades} \subseteq Nat
  /\ {Quarter, Month, PaymentInterval, InterestPer, Term} \cup Amounts \cup LoanSizes \subseteq Nat \ {0}

VARIABLES home,      \* the bank of everyone at genesis
          balance,   \* Ledger: balance_cents of every account
          loans,     \* EconomyState.loans, in the order of origination
          status,    \* BankState.status
          frozen,    \* BankState.lending_frozen
          tick,
          stage,     \* where the tick is
          work,      \* what the loop of the stage has left
          trades,    \* purchases and wages of the tick
          required,  \* reserves each bank needs that settled last
          need,      \* what the bank that borrows still lacks
          longs,     \* the banks it has not asked yet, with their excess
          resolution, \* settings.banking.resolution, "unread" before the first failure
          raised     \* "none", or the exception that ended the run

settleVars == <<required, need, longs, resolution>>
vars == <<home, balance, loans, status, frozen, tick, stage, work, trades, settleVars, raised>>

-----------------------------------------------------------------------------
(* Banks and loans *)

Active == {b \in Banks : status[b] = "active"}

Alive(loan) == loan.status \in {"current", "delinquent", "default"}

Capital(b, bank) == NetWorth(b, bank)

Weight(loan) == IF loan.borrower \in Banks THEN InterbankWeight ELSE 10000

\* rwa_cents.
RiskAssets(bank) ==
  MapThenSumSet(LAMBDA i : bp(loans[i].outstanding, Weight(loans[i])),
                {i \in DOMAIN loans : loans[i].lender = bank /\ Alive(loans[i])})

\* capital_ratio_bp.
CapitalRatio(bank) ==
  IF RiskAssets(bank) <= 0
  THEN IF Capital(balance, bank) >= 0 THEN 10000 ELSE -10000
  ELSE (10000 * Capital(balance, bank)) \div RiskAssets(bank)

DepositsAt(bank) == Max({0, -balance[Dpl(bank)]})

\* The receivable and the payable of loan i.
Receivable(i) == Lnr(loans[i].lender, i)
Payable(i) == Lnp(loans[i].borrower, i)

\* Loans in the order of their ids: ib_, ln_, each in the order of origination.
Rank(loan) == IF loan.borrower \in Banks THEN 1 ELSE 2

Sorted(ids) ==
  SetToSortSeq(ids, LAMBDA i, j : \/ Rank(loans[i]) < Rank(loans[j])
                                  \/ Rank(loans[i]) = Rank(loans[j]) /\ i < j)

SortedIds(ids) == SetToSortSeq(ids, <)

\* The run goes on and the tick is at this stage.  Homes never change.
At(s) == raised = "none" /\ stage = s /\ UNCHANGED home

\* What is left of the run after an exception: nothing changes any more.
Raise(what) ==
  /\ raised' = what
  /\ UNCHANGED <<balance, loans, status, frozen, tick, stage, work, trades, settleVars>>

\* The exception of a transaction that cannot be posted.
WhyNot(legs) ==
  IF \E a \in Overdrawn(balance, legs) : a[1] = "dep"
  THEN "deposit" ELSE "reserves"

-----------------------------------------------------------------------------
(* The tick up to banking: goods and payroll *)

\* The money of create_economy: it is issued to households and firms, with the
\* reserves of their banks, to the banks and to the treasury.
GenesisBooks(assigned) ==
  LET deposits == [a \in {Dep(o, assigned[o]) : o \in Owners} |-> InitialDeposit]
      held(b) == InitialDeposit * Cardinality({o \in Owners : assigned[o] = b})
      banked == [a \in {Dpl(b) : b \in Banks} |-> -held(a[2])]
      reserves == [a \in {Res(b) : b \in Banks} |-> held(a[2]) + InitialCapital]
      central == (Res(bk_cb) :> 0) @@ (Dpl(bk_cb) :> 0) @@
                 (TreasuryAccount :> InitialTreasury) @@
                 (Iss :> -(InitialTreasury + InitialDeposit * Cardinality(Owners)
                           + InitialCapital * Cardinality(Banks)))
  IN  deposits @@ banked @@ reserves @@ central

Genesis(assigned) ==
  /\ home = assigned
  /\ balance = GenesisBooks(assigned)
  /\ loans = <<>>
  /\ status = [b \in Banks |-> "active"]
  /\ frozen = [b \in Banks |-> FALSE]
  /\ tick = 1
  /\ stage = "trade"
  /\ work = <<>>
  /\ trades = 0
  /\ required = << >>
  /\ need = 0
  /\ longs = {}
  /\ resolution = "unread"
  /\ raised = "none"

Init == \E assigned \in HomeBanks : Genesis(assigned)

\* A payment of a tick before banking: it is made, or it raises.
Trade(legs) ==
  /\ At("trade")
  /\ trades < MaxTrades
  /\ IF Postable(balance, legs)
     THEN /\ balance' = Posted(balance, legs)
          /\ trades' = trades + 1
          /\ UNCHANGED <<loans, status, frozen, tick, stage, work, settleVars, raised>>
     ELSE Raise(WhyNot(legs))

\* _purchase: the buyer's and the seller's first deposits, the tax on top.
Purchase(buyer, seller, gross) ==
  LET from == FirstDeposit(balance, buyer)
      tax == bp_ceil(gross, SalesTax)
  IN
  /\ Liquid(balance, buyer) >= gross + tax
  /\ Trade(Transfer(from, FirstDeposit(balance, seller), gross)
           \o IF tax > 0 THEN Transfer(from, TreasuryAccount, tax) ELSE <<>>)

\* run_payroll: wage and taxes are paid from the account the firm was founded with.
PayWage(firm, worker, gross) ==
  LET from == Dep(firm, home[firm])
      employerTax == bp(gross, EmployerTax)
      incomeTax == bp(gross, IncomeTax)
      tax == incomeTax + employerTax
  IN
  /\ Liquid(balance, firm) >= gross + employerTax
  /\ Trade(Transfer(from, FirstDeposit(balance, worker), gross - incomeTax)
           \o IF tax > 0 THEN Transfer(from, TreasuryAccount, tax) ELSE <<>>)

\* A stage whose loop has nothing left gives way to the next.
GoTo(next, items) == stage' = next /\ work' = items

Indebted(firm) == \E i \in DOMAIN loans : loans[i].borrower = firm /\ Alive(loans[i])

\* _mechanical_credit: once a quarter every firm without a loan applies for one.
StartBanking ==
  /\ At("trade")
  /\ GoTo("credit", IF tick % Quarter = 1 THEN SortedIds({f \in Firms : ~Indebted(f)})
                    ELSE <<>>)
  /\ UNCHANGED <<balance, loans, status, frozen, tick, trades, settleVars, raised>>

-----------------------------------------------------------------------------
(* Credit *)

\* decide: nothing in the state of the bank speaks against the loan.
MayLend(bank, cents) ==
  /\ ~frozen[bank]
  /\ CapitalRatio(bank) >= MinCapital
  /\ balance[Res(bank)] >= bp(DepositsAt(bank) + cents, ReserveRatio)
  /\ cents <= Max({0, bp(Capital(balance, bank), Concentration)})

NewLoan(lender, borrower, cents, payment, n, term, interval) ==
  [lender |-> lender, borrower |-> borrower, outstanding |-> cents, accrued |-> 0,
   payment |-> payment, left |-> n, matures |-> tick + term, next |-> tick + interval,
   status |-> "current", missed |-> -1, defaulted |-> -1]

\* originate, with any level payment the rate of the loan may give.
Originate(cents, payment) ==
  LET firm == Head(work)
      bank == home[firm]
      i == Len(loans) + 1
      opened == Opened(balance, {Lnr(bank, i), Lnp(firm, i), Dep(firm, bank)})
  IN
  /\ At("credit")
  /\ work # <<>>
  /\ MayLend(bank, cents)
  /\ payment * Term >= cents
  /\ balance' = Posted(opened, << <<Lnr(bank, i), cents>>, <<Dpl(bank), -cents>>,
                                  <<Dep(firm, bank), cents>>, <<Lnp(firm, i), -cents>> >>)
  /\ loans' = Append(loans, NewLoan(bank, firm, cents, payment, Term,
                                    Term * PaymentInterval, PaymentInterval))
  /\ work' = Tail(work)
  /\ UNCHANGED <<status, frozen, tick, stage, trades, settleVars, raised>>

\* The bank, or the score of the firm, speaks against it.
Deny ==
  /\ At("credit")
  /\ work # <<>>
  /\ work' = Tail(work)
  /\ UNCHANGED <<balance, loans, status, frozen, tick, stage, trades, settleVars, raised>>

\* Loans on which amortise asks for a payment.  Nobody amortises what a bank owes.
Payers == {i \in DOMAIN loans : /\ loans[i].status \in {"current", "delinquent"}
                                /\ tick >= loans[i].next
                                /\ loans[i].borrower \notin Banks}

\* accrue_interest: a cent on some of the loans.  What accrues on the debt of a bank
\* is never read.
Accrue(interest) ==
  /\ At("credit")
  /\ work = <<>>
  /\ interest \subseteq {i \in DOMAIN loans : /\ loans[i].status \in {"current", "delinquent"}
                                              /\ loans[i].borrower \notin Banks}
  /\ loans' = [i \in DOMAIN loans |->
                 IF i \in interest THEN [loans[i] EXCEPT !.accrued = @ + 1] ELSE loans[i]]
  /\ GoTo("amortise", Sorted(Payers))
  /\ UNCHANGED <<balance, status, frozen, tick, trades, settleVars, raised>>

\* amortise: the principal that is due on a loan now.
Principal(loan) ==
  IF loan.left <= 1 \/ tick >= loan.matures THEN loan.outstanding
  ELSE Min({loan.outstanding, Max({1, loan.payment - loan.accrued})})

Due(loan) == Principal(loan) + loan.accrued

\* amortise of a loan whose borrower is liquid.  The money is taken from the deposit
\* at the lender, whatever made the borrower liquid.
Repay ==
  LET i == Head(work)
      loan == loans[i]
      from == Dep(loan.borrower, loan.lender)
      principal == Principal(loan)
      legs == << <<from, -Due(loan)>>, <<Dpl(loan.lender), Due(loan)>>,
                 <<Receivable(i), -principal>>, <<Payable(i), principal>> >>
  IN
  /\ At("amortise")
  /\ work # <<>>
  /\ Liquid(balance, loan.borrower) >= Due(loan)
  /\ IF from \notin DOMAIN balance THEN Raise("no_deposit")
     ELSE IF ~Postable(balance, legs) THEN Raise(WhyNot(legs))
     ELSE /\ balance' = Posted(balance, legs)
          /\ loans' = [loans EXCEPT ![i] =
               [@ EXCEPT !.outstanding = @ - principal, !.accrued = 0,
                         !.left = @ - 1, !.missed = -1, !.next = @ + PaymentInterval,
                         !.status = IF loan.outstanding = principal THEN "repaid" ELSE @]]
          /\ work' = Tail(work)
          /\ UNCHANGED <<status, frozen, tick, stage, trades, settleVars, raised>>

\* _transition_missed: a loan that is past due for long enough is delinquent, and what
\* has accrued becomes principal; later it is in default.
Late(loan) == loan.status = "current" /\ tick - loan.missed >= DelinquencyDays
Transitioned(loan) ==
  CASE Late(loan) -> [loan EXCEPT !.status = "delinquent", !.accrued = 0,
                                  !.outstanding = @ + loan.accrued]
    [] loan.status = "delinquent" /\ tick - loan.missed >= DefaultDays ->
         [loan EXCEPT !.status = "default", !.defaulted = tick]
    [] OTHER -> loan

\* amortise of a loan whose borrower is not: LOAN_PAYMENT_MISSED, and what follows.
Miss ==
  LET i == Head(work)
      loan == loans[i]
      missed == [loan EXCEPT !.missed = IF @ = -1 THEN tick ELSE @, !.next = @ + PaymentInterval]
      legs == << <<Receivable(i), loan.accrued>>, <<Payable(i), -loan.accrued>> >>
  IN
  /\ At("amortise")
  /\ work # <<>>
  /\ Liquid(balance, loan.borrower) < Due(loan)
  /\ loans' = [loans EXCEPT ![i] = Transitioned(missed)]
  /\ balance' = IF Late(missed) THEN Posted(balance, legs) ELSE balance
  /\ work' = Tail(work)
  /\ UNCHANGED <<status, frozen, tick, stage, trades, settleVars, raised>>

\* Once a month every active bank pays interest on its deposits.
StartInterest ==
  /\ At("amortise")
  /\ work = <<>>
  /\ GoTo("interest", IF tick % Month = InterestDay THEN SortedIds(Active) ELSE <<>>)
  /\ UNCHANGED <<balance, loans, status, frozen, tick, trades, settleVars, raised>>

\* _pay_deposit_interest of one bank.
PayInterest ==
  LET bank == Head(work)
      earning == {a \in DOMAIN balance : a[1] = "dep" /\ a[3] = bank}
      cents(a) == balance[a] \div InterestPer
      total == MapThenSumSet(cents, earning)
  IN
  /\ At("interest")
  /\ work # <<>>
  /\ balance' = [a \in DOMAIN balance |->
                   IF a \in earning THEN balance[a] + cents(a)
                   ELSE IF a = Dpl(bank) THEN balance[a] - total ELSE balance[a]]
  /\ work' = Tail(work)
  /\ UNCHANGED <<loans, status, frozen, tick, stage, trades, settleVars, raised>>

\* Loans that write_off_due writes off.
Lost == {i \in DOMAIN loans : /\ loans[i].status = "default"
                              /\ tick - loans[i].defaulted >= WriteoffDays}

StartWriteOff ==
  /\ At("interest")
  /\ work = <<>>
  /\ GoTo("writeoff", Sorted(Lost))
  /\ UNCHANGED <<balance, loans, status, frozen, tick, trades, settleVars, raised>>

WriteOffLegs(i) ==
  << <<Receivable(i), -loans[i].outstanding>>, <<Payable(i), loans[i].outstanding>> >>

\* Mutant: the register still shows what was outstanding.
WrittenOffStillOutstanding(loan) == [loan EXCEPT !.accrued = 0, !.status = "written_off"]

\* write_off_loan of the whole of a loan.
WrittenOff(loan) ==
  [loan EXCEPT !.outstanding = 0, !.accrued = 0, !.status = "written_off"]

WriteOff ==
  LET i == Head(work) IN
  /\ At("writeoff")
  /\ work # <<>>
  /\ balance' = Posted(balance, WriteOffLegs(i))
  /\ loans' = [loans EXCEPT ![i] = WrittenOff(@)]
  /\ work' = Tail(work)
  /\ UNCHANGED <<status, frozen, tick, stage, trades, settleVars, raised>>

-----------------------------------------------------------------------------
(* Settlement *)

\* The reserves a bank needs.
Required(bank) == bp(DepositsAt(bank), ReserveRatio)

\* Mutant: only an overdraft counts.
ShortfallOverdraft(bank) == Max({0, -balance[Res(bank)]})

\* The reserves a bank lacks.
Shortfall(bank) == Max({0, Required(bank) - balance[Res(bank)]})

\* settle_banks up to its loops: what every bank needs, and who is short of it.
StartSettle ==
  /\ At("writeoff")
  /\ work = <<>>
  /\ required' = [b \in Active |-> Required(b)]
  /\ GoTo("settle", SetToSortSeq({b \in Active : Shortfall(b) > 0},
                      LAMBDA b, c : \/ Shortfall(b) > Shortfall(c)
                                    \/ Shortfall(b) = Shortfall(c) /\ b < c))
  /\ UNCHANGED <<balance, loans, status, frozen, tick, trades, need, longs, resolution, raised>>

\* Reserves above what a bank needs.
Excess(b) == balance[Res(b)] - required[b]

\* The next bank that is short looks for others with more than they need.
Borrow ==
  LET bank == Head(work) IN
  /\ At("settle")
  /\ work # <<>>
  /\ need' = Max({0, required[bank] - balance[Res(bank)]})
  /\ longs' = {<<b, Excess(b)>> : b \in {c \in Active \ {bank} : Excess(c) > 0}}
  /\ stage' = "borrow"
  /\ UNCHANGED <<balance, loans, status, frozen, tick, work, trades, required, resolution, raised>>

\* The lender would lend: neither the capital of the borrower nor its own exposure
\* speaks against it.
WouldLend(lender, borrower, cents) ==
  LET exposure == MapThenSumSet(LAMBDA i : loans[i].outstanding,
                    {i \in DOMAIN loans : /\ loans[i].lender = lender
                                          /\ loans[i].borrower = borrower
                                          /\ Alive(loans[i])})
  IN
  /\ CapitalRatio(borrower) >= MinInterbank
  /\ exposure + cents <= bp(Max({0, Capital(balance, lender)}), InterbankLimit)

\* One lender is asked; the order is shuffled.
AskBank(long) ==
  LET borrower == Head(work)
      lender == long[1]
      cents == Min({need, long[2]})
      i == Len(loans) + 1
      opened == Opened(balance, {Lnr(lender, i), Lnp(borrower, i)})
      legs == << <<Res(lender), -cents>>, <<Res(borrower), cents>>,
                 <<Lnr(lender, i), cents>>, <<Lnp(borrower, i), -cents>> >>
  IN
  /\ At("borrow")
  /\ long \in longs
  /\ need > 0
  /\ longs' = longs \ {long}
  /\ IF WouldLend(lender, borrower, cents)
     THEN /\ balance' = Posted(opened, legs)
          /\ loans' = Append(loans, NewLoan(lender, borrower, cents, cents, 1, 1, 1))
          /\ need' = need - cents
     ELSE UNCHANGED <<balance, loans, need>>
  /\ UNCHANGED <<status, frozen, tick, stage, work, trades, required, resolution, raised>>

\* The discount window covers what is left.
DiscountWindow ==
  LET borrower == Head(work)
      i == Len(loans) + 1
      opened == Opened(balance, {Lnr(bk_cb, i), Lnp(borrower, i)})
      legs == << <<Res(borrower), need>>, <<Iss, -need>>,
                 <<Lnr(bk_cb, i), need>>, <<Lnp(borrower, i), -need>> >>
  IN
  /\ At("borrow")
  /\ longs = {} \/ need = 0
  /\ IF need > 0
     THEN /\ balance' = Posted(opened, legs)
          /\ loans' = Append(loans, NewLoan(bk_cb, borrower, need, need, 1, 30, 30))
     ELSE UNCHANGED <<balance, loans>>
  /\ need' = 0
  /\ longs' = {}
  /\ stage' = "settle"
  /\ work' = Tail(work)
  /\ UNCHANGED <<status, frozen, tick, trades, required, resolution, raised>>

StartRatios ==
  /\ At("settle")
  /\ work = <<>>
  /\ GoTo("ratios", SortedIds(Active))
  /\ UNCHANGED <<balance, loans, status, frozen, tick, trades, settleVars, raised>>

-----------------------------------------------------------------------------
(* Failure and resolution *)

\* Loans of a failed bank that are written off, and those that are taken over.
BadLoans(bank) == {i \in DOMAIN loans : /\ loans[i].lender = bank
                                        /\ loans[i].status \in {"delinquent", "default"}}
GoodLoans(bank) == {i \in DOMAIN loans : /\ loans[i].lender = bank
                                         /\ loans[i].status = "current"}

\* The bank that takes over: the one with the largest capital, then id.
Buyer(b, candidates) ==
  CHOOSE c \in candidates : \A d \in candidates :
    \/ Capital(b, c) > Capital(b, d)
    \/ Capital(b, c) = Capital(b, d) /\ c >= d

\* Balances after the loans that do not perform are written off.
AfterWriteOffs(b, bank) ==
  FoldSet(LAMBDA i, posted : Posted(posted, WriteOffLegs(i)), b, BadLoans(bank))

\* Deposits at a bank that hold money.
Held(b, bank) == {a \in DOMAIN b : a[1] = "dep" /\ a[3] = bank /\ b[a] > 0}

\* Balances after deposit insurance paid what it covers of a shortfall.
AfterInsurance(b, bank) ==
  LET shortfall == Max({0, -Capital(b, bank)})
      insurable == MapThenSumSet(LAMBDA a : Min({b[a], InsuranceCap}), Held(b, bank))
      covered == Min({shortfall, insurable})
  IN  Posted(b, << <<TreasuryAccount, -covered>>, <<Res(bank), covered>> >>)

\* Balances after the depositors bear the rest: out of what is above the cap, if
\* that is enough, else out of everything.
AfterHaircuts(b, bank) ==
  LET residual == Max({0, -Capital(b, bank)})
      held == [a \in Held(b, bank) |-> b[a]]
      uninsured == [a \in Held(b, bank) |-> Max({0, b[a] - InsuranceCap})]
      weights == IF Total(uninsured, DOMAIN uninsured) >= residual THEN uninsured ELSE held
      haircut == Min({residual, Total(weights, DOMAIN weights)})
      cuts == Allocate(haircut, weights)
  IN  IF residual = 0 THEN b
      ELSE [a \in DOMAIN b |-> IF a \in DOMAIN cuts THEN b[a] - cuts[a]
                               ELSE IF a = Dpl(bank) THEN b[a] + haircut ELSE b[a]]

\* Mutant: the reserves stay with the failed bank.
ReservesMovedNot(b, bank, buyer) == b

\* The reserves go to the buyer last.
ReservesMoved(b, bank, buyer) ==
  Posted(b, << <<Res(bank), -b[Res(bank)]>>, <<Res(buyer), b[Res(bank)]>> >>)

\* Balances after the buyer took over performing loans, deposits and reserves.
\* Deposits without money stay behind, open.
AfterTakeover(b, bank, buyer) ==
  LET opened == Opened(b, {Lnr(buyer, i) : i \in GoodLoans(bank)}
                            \cup {Dep(a[2], buyer) : a \in Held(b, bank)})
      lent == FoldSet(LAMBDA i, posted :
                        Posted(posted, << <<Lnr(bank, i), -loans[i].outstanding>>,
                                          <<Lnr(buyer, i), loans[i].outstanding>> >>),
                      opened, GoodLoans(bank))
      moved == FoldSet(LAMBDA a, posted :
                         Posted(posted, << <<a, -b[a]>>, <<Dpl(bank), b[a]>>,
                                           <<Dpl(buyer), -b[a]>>,
                                           <<Dep(a[2], buyer), b[a]>> >>),
                       lent, Held(b, bank))
  IN  ReservesMoved(moved, bank, buyer)

\* "liquidate": each performing loan is sold below what is outstanding, to the richest
\* bank that has the reserves or else to the central bank, which issues the money.
FireSold(b, bank, candidates) ==
  FoldLeft(
    LAMBDA acc, i :
      LET price == bp(loans[i].outstanding, FireSale)
          funded == {c \in candidates : acc.b[Res(c)] >= price}
          buyer == IF funded = {} THEN bk_cb ELSE Buyer(acc.b, funded)
          legs == << <<Lnr(bank, i), -loans[i].outstanding>>,
                     <<Lnr(buyer, i), loans[i].outstanding>>, <<Res(bank), price>>,
                     <<IF buyer = bk_cb THEN Iss ELSE Res(buyer), -price>> >>
      IN  [b |-> Posted(Opened(acc.b, {Lnr(buyer, i)}), legs),
           lender |-> (i :> buyer) @@ acc.lender],
    [b |-> b, lender |-> << >>], Sorted(GoodLoans(bank)))

\* ... and the depositors are paid in cash.
AfterPayout(b, bank) ==
  FoldSet(LAMBDA a, posted :
            Posted(posted, << <<a, -b[a]>>, <<Dpl(bank), b[a]>>, <<Res(bank), -b[a]>>,
                              <<Cash(a[2]), b[a]>> >>),
          Opened(b, {Cash(a[2]) : a \in Held(b, bank)}), Held(b, bank))

\* Everything resolve_failure does up to the way the depositors are settled, and then
\* the whole of it, with the lenders of the loans that performed.
Absorbed(b, bank) == AfterHaircuts(AfterInsurance(b, bank), bank)
Assumed(bank, candidates) ==
  LET buyer == Buyer(balance, candidates)
  IN  [b |-> AfterTakeover(Absorbed(AfterWriteOffs(balance, bank), bank), bank, buyer),
       lender |-> [i \in GoodLoans(bank) |-> buyer]]
Liquidated(bank, candidates) ==
  LET sold == FireSold(AfterWriteOffs(balance, bank), bank, candidates)
  IN  [sold EXCEPT !.b = AfterPayout(Absorbed(@, bank), bank)]

\* The books after the resolution in this way.
Resolved(bank, candidates, way) ==
  IF way = "assume" THEN Assumed(bank, candidates) ELSE Liquidated(bank, candidates)

\* "liquidation left bank ... unable to pay" is raised when the reserves do not cover
\* what the depositors have left.
Fail(bank, candidates, way) ==
  LET after == Resolved(bank, candidates, way)
  IN  IF Held(balance, bank) = {} THEN Raise("no_depositors")
      ELSE IF way = "liquidate" /\ after.b[Res(bank)] < 0 THEN Raise("liquidation")
      ELSE /\ balance' = after.b
           /\ loans' = [i \in DOMAIN loans |->
                CASE i \in BadLoans(bank) -> WrittenOff(loans[i])
                  [] i \in GoodLoans(bank) -> [loans[i] EXCEPT !.lender = after.lender[i]]
                  [] OTHER -> loans[i]]
           /\ status' = [status EXCEPT ![bank] = "failed"]
           /\ frozen' = [frozen EXCEPT ![bank] = TRUE]
           /\ resolution' = way
           /\ work' = Tail(work)
           /\ UNCHANGED <<tick, stage, trades, required, need, longs, raised>>

\* The ratios of one bank.  A bank without capital is resolved, unless it is to be
\* taken over and nobody is there; if it has no depositors allocate has nobody to
\* share the loss among and raises.
CheckBank ==
  LET bank == Head(work)
      candidates == Active \ {bank}
  IN
  /\ At("ratios")
  /\ work # <<>>
  /\ \E way \in IF resolution = "unread" THEN {"assume", "liquidate"} ELSE {resolution} :
       IF Capital(balance, bank) < 0 /\ (way = "liquidate" \/ candidates # {})
       THEN Fail(bank, candidates, way)
       ELSE /\ frozen' = [frozen EXCEPT ![bank] = CapitalRatio(bank) < MinCapital]
            /\ work' = Tail(work)
            /\ UNCHANGED <<balance, loans, status, tick, stage, trades, settleVars, raised>>

NextTick ==
  /\ At("ratios")
  /\ work = <<>>
  /\ tick < LastTick
  /\ tick' = tick + 1
  /\ trades' = 0
  /\ GoTo("trade", <<>>)
  /\ UNCHANGED <<balance, loans, status, frozen, settleVars, raised>>

Next ==
  \/ \E b \in Residents, f \in Firms, c \in Amounts : Purchase(b, f, c)
  \/ \E f \in Firms, w \in Residents, c \in Amounts : PayWage(f, w, c)
  \/ StartBanking
  \/ \E c \in LoanSizes : \E p \in 1..c : Originate(c, p)
  \/ Deny
  \/ \E interest \in SUBSET DOMAIN loans : Accrue(interest)
  \/ Repay
  \/ Miss
  \/ StartInterest
  \/ PayInterest
  \/ StartWriteOff
  \/ WriteOff
  \/ StartSettle
  \/ Borrow
  \/ \E long \in longs : AskBank(long)
  \/ DiscountWindow
  \/ StartRatios
  \/ CheckBank
  \/ NextTick

Spec == Init /\ [][Next]_vars

-----------------------------------------------------------------------------
(* Properties *)

Stages == {"trade", "credit", "amortise", "interest", "writeoff", "settle", "borrow", "ratios"}

\* Balances have the sign of their account, the treasury's excepted, and everything
\* else is well formed.
TypeOK ==
  /\ \A a \in DOMAIN balance \ {TreasuryAccount} : SignAllowed(a, balance[a])
  /\ \A i \in DOMAIN loans :
       /\ loans[i].lender \in Banks \cup {bk_cb}
       /\ loans[i].borrower \in Firms \cup Banks
       /\ loans[i].outstanding \in Nat /\ loans[i].accrued \in Nat
       /\ loans[i].status \in {"current", "delinquent", "default", "repaid", "written_off"}
  /\ status \in [Banks -> {"active", "failed"}]
  /\ frozen \in [Banks -> BOOLEAN]
  /\ tick \in 1..LastTick
  /\ stage \in Stages
  /\ trades \in 0..MaxTrades
  /\ DOMAIN required \subseteq Banks /\ Range(required) \subseteq Nat /\ need \in Nat
  /\ raised \in {"none", "deposit", "reserves", "no_deposit", "no_depositors", "liquidation"}
  /\ resolution \in {"unread", "assume", "liquidate"}

\* INV-MONEY, after every step and not only where PHASE 9 looks: books balance
\* (M-2), base money is what was issued (M-4), and every bank owes what its
\* depositors hold (M-5) (economy/invariants.py:66-97).
MoneyIdentities ==
  /\ GlobalBalance(balance) = 0
  /\ BaseMoneyImbalance(balance) = 0
  /\ \A b \in Banks : DepositImbalance(balance, b) = 0

\* The register of loans and the books agree: what is outstanding is what the
\* lender's receivable holds and the borrower's payable owes, also after loans were
\* capitalised, written off or handed to another bank (credit.py:537-997,
\* central.py:330-575).
LoansMatchBooks ==
  /\ \A i \in DOMAIN loans : /\ balance[Receivable(i)] = loans[i].outstanding
                             /\ balance[Payable(i)] = -loans[i].outstanding
  /\ \A a \in DOMAIN balance : a[1] = "lnr" /\ balance[a] # 0 => a = Receivable(a[3])

\* The books of every state: they are well formed and balance, the register of loans is
\* what they say, and the run does not end because a liquidated bank cannot pay its
\* depositors: what insurance, fire sale and haircuts leave is enough
\* (central.py:642-681).
BooksExact == TypeOK /\ MoneyIdentities /\ LoansMatchBooks /\ raised # "liquidation"

\* Deposits at a bank, and what it owes to other banks.
DepositAccounts(bank) == {a \in DOMAIN balance : a[1] = "dep" /\ a[3] = bank}
Payables(bank) == {a \in DOMAIN balance : a[1] = "lnp" /\ a[2] = bank}

\* A step in which a bank is resolved.
Fails(bank) == status[bank] = "active" /\ status'[bank] = "failed"

\* A bank that takes over another one is not poorer for it: insurance and haircuts
\* have filled the gap before it does (central.py:455-640).
TakeoverCostsNothing ==
  [][\A bank \in Banks : Fails(bank) =>
       \A buyer \in Banks \ {bank} : Capital(balance', buyer) >= Capital(balance, buyer)]_vars

\* "Deposit insurance covers each depositor up to insurance_cap_cents"
\* (docs/06-ECONOMY-SPEC.md:2078): the resolution of a bank that owes nothing to
\* other banks leaves everyone at least the insured part of what they had there.
\* When it has borrowed, its depositors also bear what its lenders are owed, insured
\* or not (central.py:498-507).
InsuredUnlessIndebted ==
  [][\A bank \in Banks : Fails(bank) /\ Total(balance, Payables(bank)) = 0 =>
       \A d \in DepositAccounts(bank) :
         Liquid(balance', d[2]) >=
           Liquid(balance, d[2]) - Max({0, balance[d] - InsuranceCap})]_vars

\* What a bank spent on loans of banks that were liquidated since it settled.
SpentAtFireSale(bank) ==
  MapThenSumSet(LAMBDA i : bp(loans[i].outstanding, FireSale),
    {i \in DOMAIN loans : /\ loans[i].lender = bank
                          /\ resolution = "liquidate"
                          /\ \E b \in DOMAIN required \ Active : Lnr(b, i) \in DOMAIN balance})

\* When banks are settled every active one has the reserves it needs, although they
\* lend to each other one after the other from excesses read before
\* (central.py:713-808), and while failed banks are resolved it keeps them, but for
\* what it pays at a fire sale: that asks for reserves, not for reserves above the
\* requirement (central.py:380), so that the day may end with a bank below it, against
\* docs/06-ECONOMY-SPEC.md:1874.
SettledBanksHaveReserves ==
  stage = "ratios" =>
    \A b \in Active : balance[Res(b)] + SpentAtFireSale(b) >= required[b]

=============================================================================
