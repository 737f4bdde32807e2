--------------------------- MODULE VenturesProofs ---------------------------
(***************************************************************************)
(* Insolvency is filed and loans match the books, for all agents, firms,   *)
(* loans, inputs and settings.                                             *)
(*                                                                         *)
(* The solvency step compares ticks (insolvency_since_tick), the property  *)
(* counts steps: the two agree because a call examines every firm once a   *)
(* tick and forgets the tick as soon as the firm is solvent or not active  *)
(* (CountsHold).  A firm that becomes active was unborn, and unborn firms  *)
(* are never found insolvent.                                              *)
(***************************************************************************)
EXTENDS Ventures, TLAPS

FirmFields == {"status", "founder", "capital"}
LoanFields == {"borrower", "lender", "out", "collateral", "status"}

FirmsHold ==
  /\ DOMAIN firms = Firms
  /\ \A f \in Firms : DOMAIN firms[f] = FirmFields

\* The stages after the solvency step of the tick.
Examined == {"cases", "equity", "capital", "distribute", "end"}
Seen == IF stage \in Examined THEN 1 ELSE 0

\* A firm has been found insolvent at most once in each tick since the first time.
CountHolds(f) ==
  /\ since[f] \in Nat /\ red[f] \in Nat
  /\ since[f] = 0 => red[f] = 0
  /\ since[f] # 0 => red[f] <= tick - since[f] + Seen
  /\ firms[f].status = "unborn" => red[f] = 0

CountsHold ==
  /\ tick \in Nat \ {0}
  /\ DOMAIN since = Firms /\ DOMAIN red = Firms
  /\ \A f \in Firms : CountHolds(f)

LoansHold ==
  /\ DOMAIN loans = Loans /\ DOMAIN payable = Loans
  /\ \A l \in Loans :
       /\ DOMAIN loans[l] = LoanFields
       /\ DOMAIN payable[l] = {"owner", "cents", "opened"}
       /\ loans[l].out \in Int

IInv ==
  /\ FirmsHold
  /\ CountsHold
  /\ InsolvencyIsFiled
  /\ LoansHold
  /\ LoansMatchBooks

\* A step at one side of the solvency step: no firm is born or made active that was not
\* unborn, and counts and clock stay.
Calm ==
  /\ UNCHANGED <<tick, since, red>>
  /\ stage' \in Examined <=> stage \in Examined
  /\ DOMAIN firms' = Firms
  /\ \A f \in Firms :
       /\ DOMAIN firms'[f] = FirmFields
       /\ \/ firms'[f].status = firms[f].status
          \/ firms[f].status = "unborn"
          \/ firms'[f].status \notin {"unborn", "active"}

-----------------------------------------------------------------------------
(* Insolvency *)

LEMMA StartsSolvent == Init => FirmsHold /\ CountsHold /\ InsolvencyIsFiled
<1> SUFFICES ASSUME Init PROVE FirmsHold /\ CountsHold /\ InsolvencyIsFiled
  OBVIOUS
<1>1. FirmsHold
  BY DEF Init, FirmsHold, FirmFields
<1>2. CountsHold
  BY DEF Init, CountsHold, CountHolds, Seen, Examined
<1>3. InsolvencyIsFiled
  BY VentureAssumption DEF Init, InsolvencyIsFiled
<1> QED
  BY <1>1, <1>2, <1>3

\* What a calm step does to the counts.
LEMMA CalmKeeps ==
  ASSUME FirmsHold, CountsHold, InsolvencyIsFiled, Calm
  PROVE  FirmsHold' /\ CountsHold' /\ InsolvencyIsFiled'
<1>1. FirmsHold'
  BY DEF Calm, FirmsHold, FirmFields
<1>2. Seen' = Seen
  BY DEF Calm, Seen
<1>3. ASSUME NEW f \in Firms PROVE CountHolds(f)'
  <2>1. CountHolds(f) /\ since' = since /\ red' = red /\ tick' = tick
    BY DEF CountsHold, Calm
  <2>2. firms'[f].status = "unborn" => red[f] = 0
    BY <2>1 DEF Calm, CountHolds
  <2> QED
    BY <1>2, <2>1, <2>2 DEF CountHolds
<1>4. CountsHold'
  BY <1>3 DEF CountsHold, Calm
<1>5. ASSUME NEW f \in Firms, firms'[f].status = "active"
      PROVE  red'[f] <= VentureSettings.persist_days
  <2>1. CountHolds(f) /\ red' = red
    BY DEF CountsHold, Calm
  <2>2. CASE firms[f].status = "active"
    BY <2>1, <2>2 DEF InsolvencyIsFiled
  <2>3. CASE firms[f].status # "active"
    <3>1. red[f] = 0
      BY <1>5, <2>1, <2>3 DEF Calm, CountHolds
    <3> QED
      BY <2>1, <3>1, VentureAssumption
  <2> QED
    BY <2>2, <2>3
<1> QED
  BY <1>1, <1>4, <1>5 DEF InsolvencyIsFiled

\* Steps that change no firm.
LEMMA FirmsStayCalm ==
  ASSUME FirmsHold, UNCHANGED <<tick, since, red, firms>>,
         stage' \in Examined <=> stage \in Examined
  PROVE  Calm
BY DEF FirmsHold, Calm, FirmFields

\* Filing makes firms bankrupt and nothing else.
LEMMA BankruptedFirms ==
  ASSUME FirmsHold, NEW es, firms' = Bankrupted(es)
  PROVE  /\ DOMAIN firms' = Firms
         /\ \A f \in Firms :
              /\ DOMAIN firms'[f] = FirmFields
              /\ f \in es => firms'[f].status = "bankrupt"
              /\ f \notin es => firms'[f] = firms[f]
<1>1. \A f \in Firms : firms'[f] = IF f \in es THEN [firms[f] EXCEPT !.status = "bankrupt"]
                                   ELSE firms[f]
  BY DEF Bankrupted
<1>2. DOMAIN firms' = Firms
  BY DEF Bankrupted
<1> QED
  BY <1>1, <1>2 DEF FirmsHold, FirmFields

\* The actions of the tick, up to the completion of a takeover.
LEMMA ActionsAreCalm ==
  ASSUME FirmsHold,
         \/ \E i \in Foundings : FoundCompany(i[1], i[2], i[3], i[4])
         \/ \E i \in Pitches : Pitch(i[1], i[2], i[3], i[4])
         \/ \E i \in Sheets : IssueTermSheet(i[1], i[2], i[3], i[4], i[5], i[6], i[7])
         \/ \E s \in DOMAIN sheets : CloseRound(s)
         \/ \E i \in Commitments : LpCommit(i[1], i[2], i[3])
         \/ \E i \in Dividends : DeclareDividend(i[1], i[2], i[3])
         \/ \E i \in Offers : ProposeAcquisition(i[1], i[2], i[3], i[4], i[5])
         \/ \E i \in Tenders, d \in DOMAIN deals : Tender(i[1], d, i[2])
         \/ \E i \in Filings : FileBankruptcy(i[1], i[2])
  PROVE  Calm
<1>1. ASSUME NEW a, NEW f, NEW initial, NEW kind, FoundCompany(a, f, initial, kind)
      PROVE  Calm
  <2>1. /\ UNCHANGED <<tick, stage, since, red>>
        /\ firms[f].status = "unborn"
        /\ firms' = [firms EXCEPT ![f] =
             [status |-> "active", founder |-> a, capital |-> VentureSettings.capital_ref]]
    BY <1>1 DEF FoundCompany, Acting, debts
  <2>2. ASSUME NEW g \in Firms
        PROVE  /\ DOMAIN firms'[g] = FirmFields
               /\ firms'[g].status = firms[g].status \/ firms[g].status = "unborn"
    BY <2>1 DEF FirmsHold, FirmFields
  <2> QED
    BY <2>1, <2>2 DEF Calm, FirmsHold
<1>2. ASSUME NEW a, NEW f, NEW v, NEW w, Pitch(a, f, v, w) PROVE Calm
  BY <1>2, FirmsStayCalm DEF Pitch, Acting, debts
<1>3. ASSUME NEW a, NEW f, NEW p, NEW m, NEW c, NEW r, NEW o, IssueTermSheet(a, f, p, m, c, r, o)
      PROVE  Calm
  BY <1>3, FirmsStayCalm DEF IssueTermSheet, Acting, debts
<1>4. ASSUME NEW s, CloseRound(s) PROVE Calm
  BY <1>4, FirmsStayCalm DEF CloseRound, Acting, debts
<1>5. ASSUME NEW a, NEW f, NEW c, LpCommit(a, f, c) PROVE Calm
  BY <1>5, FirmsStayCalm DEF LpCommit, Acting, debts
<1>6. ASSUME NEW a, NEW f, NEW c, DeclareDividend(a, f, c) PROVE Calm
  <2>1. stage = "actions" /\ (stage' = stage \/ stage' = "raised")
    BY <1>6 DEF DeclareDividend, Acting
  <2> QED
    BY <1>6, <2>1, FirmsStayCalm DEF DeclareDividend, Acting, debts, Examined
<1>7. ASSUME NEW q, NEW f, NEW o, NEW s, NEW m, ProposeAcquisition(q, f, o, s, m) PROVE Calm
  BY <1>7, FirmsStayCalm DEF ProposeAcquisition, Acting, debts
<1>8. ASSUME NEW h, NEW d, NEW n, Tender(h, d, n) PROVE Calm
  <2>1. stage = "actions" /\ (stage' = stage \/ stage' = "pay")
    BY <1>8 DEF Tender, Acting
  <2> QED
    BY <1>8, <2>1, FirmsStayCalm DEF Tender, Acting, Examined
<1>9. ASSUME NEW a, NEW e, FileBankruptcy(a, e) PROVE Calm
  <2>1. UNCHANGED <<tick, stage, since, red>> /\ firms' = Bankrupted({e})
    BY <1>9 DEF FileBankruptcy
  <2> QED
    BY <2>1, BankruptedFirms DEF Calm
<1> QED
  BY <1>1, <1>2, <1>3, <1>4, <1>5, <1>6, <1>7, <1>8, <1>9

\* The completion of a takeover.
LEMMA TakeoversAreCalm ==
  ASSUME FirmsHold, PayForTarget \/ Integrate
  PROVE  Calm
<1>1. CASE PayForTarget
  <2>3. \A deal, acquired, price, after : PostPrice(deal, acquired, price, after) =>
                                             stage' = "raised" \/ stage' = "integrate"
    BY DEF PostPrice
  <2>1. stage = "pay" /\ (stage' = "raised" \/ stage' = "integrate")
    BY <1>1, <2>3 DEF PayForTarget
  <2>2. UNCHANGED <<tick, since, red, firms>>
    BY <1>1 DEF PayForTarget
  <2> QED
    BY <2>1, <2>2, FirmsStayCalm DEF Examined
<1>2. CASE Integrate
  <2> DEFINE q == deals[current].acquirer
             f == deals[current].target
  <2>1. UNCHANGED <<tick, since, red>> /\ stage = "integrate"
    BY <1>2 DEF Integrate
  <2>2. \/ stage' = "raised" /\ firms' = firms
        \/ /\ stage' = "actions"
           /\ \E fs \in {firms, CapitalMoved(firms, f, q)}, status \in {"acquired", "subsidiary",
                 firms[f].status} : firms' = [fs EXCEPT ![f].status = status]
    BY <1>2 DEF Integrate
  <2>3. ASSUME stage' = "actions",
               NEW fs \in {firms, CapitalMoved(firms, f, q)},
               NEW status \in {"acquired", "subsidiary", firms[f].status},
               firms' = [fs EXCEPT ![f].status = status]
        PROVE  Calm
    <3>1. /\ DOMAIN fs = Firms
          /\ \A g \in Firms : DOMAIN fs[g] = FirmFields /\ fs[g].status = firms[g].status
      BY DEF CapitalMoved, FirmsHold, FirmFields
    <3>2. DOMAIN firms' = Firms
      BY <2>3, <3>1
    <3>3. ASSUME NEW g \in Firms
          PROVE  /\ DOMAIN firms'[g] = FirmFields
                 /\ \/ firms'[g].status = firms[g].status
                    \/ firms'[g].status \notin {"unborn", "active"}
      <4>1. CASE g = f
        BY <2>3, <3>1, <4>1 DEF FirmFields
      <4>2. CASE g # f
        BY <2>3, <3>1, <4>2
      <4> QED
        BY <4>1, <4>2
    <3> QED
      BY <2>1, <2>3, <3>2, <3>3 DEF Calm, Examined
  <2>4. CASE stage' = "raised" /\ firms' = firms
    BY <2>1, <2>4, FirmsStayCalm DEF Examined
  <2> QED
    BY <2>2, <2>3, <2>4
<1> QED
  BY <1>1, <1>2

\* Liquidation, distribution and fees.
LEMMA LiquidationIsCalm ==
  ASSUME FirmsHold,
         \/ BeginCase \/ (\E k \in DOMAIN cap : SellStake(k)) \/ SellInventory \/ SellCapital
         \/ Distribute \/ FundStep
  PROVE  Calm
<1>1. CASE BeginCase
  BY <1>1, FirmsStayCalm DEF BeginCase, Examined
<1>2. ASSUME NEW k, SellStake(k) PROVE Calm
  BY <1>2, FirmsStayCalm DEF SellStake, debts
<1>3. CASE SellInventory
  BY <1>3, FirmsStayCalm DEF SellInventory, Examined, debts
<1>4. CASE SellCapital
  <2>1. UNCHANGED <<tick, since, red>> /\ stage = "capital" /\ stage' = "distribute"
    BY <1>4 DEF SellCapital, debts
  <2>2. DOMAIN firms' = Firms
    BY <1>4 DEF SellCapital
  <2>3. ASSUME NEW f \in Firms
        PROVE  DOMAIN firms'[f] = FirmFields /\ firms'[f].status = firms[f].status
    <3>1. \/ firms' = [g \in Firms |-> IF g = Debtor THEN [firms[g] EXCEPT !.capital = 0]
                                       ELSE firms[g]]
          \/ \E paid : firms' = [g \in Firms |->
                                   IF g = Debtor THEN [firms[g] EXCEPT !.capital = 0]
                                   ELSE IF g \in DOMAIN paid
                                        THEN [firms[g] EXCEPT !.capital = @ + paid[g]]
                                   ELSE firms[g]]
      BY <1>4 DEF SellCapital
    <3> QED
      BY <3>1 DEF FirmsHold, FirmFields
  <2> QED
    BY <2>1, <2>2, <2>3 DEF Calm, Examined
<1>5. CASE Distribute
  <2>1. UNCHANGED <<tick, since, red>> /\ stage = "distribute" /\ stage' = "cases"
    BY <1>5 DEF Distribute
  <2>2. firms' = firms \/ firms' = [firms EXCEPT ![Debtor].status = "dissolved"]
    BY <1>5 DEF Distribute, FirmClosed
  <2>3. CASE firms' = firms
    BY <2>1, <2>3, FirmsStayCalm DEF Examined
  <2>4. CASE firms' = [firms EXCEPT ![Debtor].status = "dissolved"]
    <3>1. ASSUME NEW f \in Firms
          PROVE  /\ DOMAIN firms'[f] = FirmFields
                 /\ \/ firms'[f].status = firms[f].status
                    \/ firms'[f].status = "dissolved"
      BY <2>4 DEF FirmsHold, FirmFields
    <3> QED
      BY <2>1, <2>4, <3>1 DEF Calm, Examined, FirmsHold
  <2> QED
    BY <2>2, <2>3, <2>4
<1>6. CASE FundStep
  BY <1>6, FirmsStayCalm DEF FundStep, Examined, debts
<1> QED
  BY <1>1, <1>2, <1>3, <1>4, <1>5, <1>6

\* What happens outside the engine.
LEMMA WorldIsCalm ==
  ASSUME FirmsHold,
         \/ \E i \in Costs : Spend(i[1], i[2])
         \/ \E l \in Loans : Repay(l)
         \/ \E c \in DOMAIN cases, f \in Firms, b \in Agents : SellListed(c, f, b)
         \/ UNCHANGED vars
  PROVE  Calm
<1>1. ASSUME NEW f, NEW c, Spend(f, c) PROVE Calm
  BY <1>1, FirmsStayCalm DEF Spend, debts
<1>2. ASSUME NEW l, Repay(l) PROVE Calm
  BY <1>2, FirmsStayCalm DEF Repay
<1>3. ASSUME NEW c, NEW f, NEW b, SellListed(c, f, b) PROVE Calm
  BY <1>3, FirmsStayCalm DEF SellListed, debts
<1>4. CASE UNCHANGED vars
  BY <1>4, FirmsStayCalm DEF vars
<1> QED
  BY <1>1, <1>2, <1>3, <1>4

\* _solvency_step: a firm that has been insolvent for long enough is bankrupt after it.
LEMMA SolvencyKeeps ==
  ASSUME FirmsHold, CountsHold, SolvencyStep
  PROVE  FirmsHold' /\ CountsHold' /\ InsolvencyIsFiled'
<1> DEFINE at == [f \in Firms |-> InsolventSince(f)]
           filing == {f \in Firms : at[f] # 0 /\ tick - at[f] >= VentureSettings.persist_days}
<1>1. /\ stage = "actions" /\ stage' = "cases" /\ tick' = tick
      /\ since' = at
      /\ red' = [f \in Firms |-> IF at[f] = 0 THEN 0 ELSE red[f] + 1]
      /\ firms' = Bankrupted(filing)
  BY DEF SolvencyStep
<1>2. Seen = 0 /\ Seen' = 1
  BY <1>1 DEF Seen, Examined
<1>3. /\ DOMAIN firms' = Firms
      /\ \A f \in Firms :
           /\ DOMAIN firms'[f] = FirmFields
           /\ f \in filing => firms'[f].status = "bankrupt"
           /\ f \notin filing => firms'[f] = firms[f]
  <2> HIDE DEF filing
  <2> QED
    BY <1>1, BankruptedFirms
<1>4. FirmsHold'
  BY <1>3 DEF FirmsHold
<1>5. ASSUME NEW f \in Firms
      PROVE  /\ CountHolds(f)'
             /\ firms'[f].status = "active" => red'[f] <= VentureSettings.persist_days
  <2>1. CountHolds(f) /\ tick \in Nat \ {0}
    BY DEF CountsHold
  <2>2. since'[f] = at[f] /\ red'[f] = IF at[f] = 0 THEN 0 ELSE red[f] + 1
    BY <1>1
  <2>3. CASE firms[f].status # "active" \/ BookWorth(f) >= 0
    <3>1. at[f] = 0
      BY <2>3 DEF InsolventSince
    <3>2. since'[f] = 0 /\ red'[f] = 0
      BY <2>2, <3>1
    <3> HIDE DEF at
    <3> QED
      BY <1>1, <3>2, VentureAssumption DEF CountHolds
  <2>4. CASE ~(firms[f].status # "active" \/ BookWorth(f) >= 0)
    <3>1. at[f] = IF since[f] = 0 THEN tick ELSE since[f]
      BY <2>4 DEF InsolventSince
    <3>2. at[f] \in Nat \ {0} /\ red[f] \in Nat /\ red[f] <= tick - at[f]
      BY <1>2, <2>1, <3>1 DEF CountHolds
    <3>3. since'[f] = at[f] /\ red'[f] = red[f] + 1
      BY <2>2, <3>2
    <3>4. firms'[f].status # "unborn"
      BY <1>3, <2>4
    <3>5. CountHolds(f)'
      <4> HIDE DEF at
      <4> QED
        BY <1>1, <1>2, <2>1, <3>2, <3>3, <3>4 DEF CountHolds
    <3>6. ASSUME firms'[f].status = "active" PROVE red'[f] <= VentureSettings.persist_days
      <4>1. f \notin filing
        BY <1>3, <3>6
      <4>2. ~(tick - at[f] >= VentureSettings.persist_days)
        BY <3>2, <4>1
      <4> HIDE DEF at, filing
      <4> QED
        BY <2>1, <3>2, <3>3, <4>2, VentureAssumption
    <3> QED
      BY <3>5, <3>6
  <2> QED
    BY <2>3, <2>4
<1>6. CountsHold'
  BY <1>1, <1>5 DEF CountsHold
<1> QED
  BY <1>4, <1>5, <1>6 DEF InsolvencyIsFiled

\* The step of the clock comes after the examination of its tick.
LEMMA NextTickKeeps ==
  ASSUME FirmsHold, CountsHold, InsolvencyIsFiled, NextTick
  PROVE  FirmsHold' /\ CountsHold' /\ InsolvencyIsFiled'
<1>1. /\ UNCHANGED <<firms, since, red>> /\ tick' = tick + 1
      /\ stage = "end" /\ stage' = "actions"
  BY DEF NextTick, debts
<1>2. FirmsHold' /\ InsolvencyIsFiled'
  BY <1>1 DEF FirmsHold, InsolvencyIsFiled
<1>3. Seen = 1 /\ Seen' = 0
  BY <1>1 DEF Seen, Examined
<1>4. ASSUME NEW f \in Firms PROVE CountHolds(f)'
  BY <1>1, <1>3 DEF CountsHold, CountHolds
<1>5. CountsHold'
  BY <1>1, <1>4 DEF CountsHold
<1> QED
  BY <1>2, <1>5

-----------------------------------------------------------------------------
(* Loans *)

LEMMA LoansStart == Init => LoansHold /\ LoansMatchBooks
<1> SUFFICES ASSUME Init PROVE LoansHold /\ LoansMatchBooks
  OBVIOUS
<1>1. /\ loans = StartLoans
      /\ payable = [l \in Loans |-> [owner |-> StartLoans[l].borrower, cents |-> StartLoans[l].out,
                                     opened |-> {StartLoans[l].borrower}]]
  BY DEF Init
<1>2. \A l \in Loans : DOMAIN StartLoans[l] = LoanFields /\ StartLoans[l].out \in Int
  BY VentureAssumption DEF LoanFields
<1>3. DOMAIN loans = Loans /\ DOMAIN payable = Loans
  BY <1>1 DEF Loans
<1>4. \A l \in Loans : /\ DOMAIN payable[l] = {"owner", "cents", "opened"}
                       /\ payable[l].cents = loans[l].out /\ payable[l].owner = loans[l].borrower
  BY <1>1
<1> QED
  BY <1>1, <1>2, <1>3, <1>4 DEF LoansHold, LoansMatchBooks

\* A loan and its payable after a step: as before, moved together to another owner, reduced
\* by the same amount, or closed.
Follows(l) ==
  /\ DOMAIN loans'[l] = LoanFields /\ DOMAIN payable'[l] = {"owner", "cents", "opened"}
  /\ loans'[l].out \in Int
  /\ payable'[l].cents - loans'[l].out = payable[l].cents - loans[l].out
  /\ loans'[l].status \in Live => loans[l].status \in Live
  /\ \/ loans'[l].borrower = loans[l].borrower /\ payable'[l].owner = payable[l].owner
     \/ loans'[l].borrower = payable'[l].owner

LEMMA FollowsKeeps ==
  ASSUME LoansHold, LoansMatchBooks, DOMAIN loans' = Loans, DOMAIN payable' = Loans,
         \A l \in Loans : Follows(l), \A l \in Loans : payable'[l].cents \in Int
  PROVE  LoansHold' /\ LoansMatchBooks'
<1>1. LoansHold'
  BY DEF LoansHold, Follows
<1>2. ASSUME NEW l \in Loans PROVE payable'[l].cents = loans'[l].out
  <2>1. /\ payable'[l].cents - loans'[l].out = payable[l].cents - loans[l].out
        /\ payable'[l].cents \in Int /\ loans'[l].out \in Int
    BY DEF Follows
  <2>2. payable[l].cents = loans[l].out /\ loans[l].out \in Int
    BY DEF LoansMatchBooks, LoansHold
  <2> QED
    BY <2>1, <2>2
<1>3. ASSUME NEW l \in Loans, loans'[l].status \in Live PROVE payable'[l].owner = loans'[l].borrower
  BY <1>3 DEF Follows, LoansMatchBooks
<1>4. Loans' = Loans /\ Live' = Live
  BY DEF Loans, Live
<1> QED
  BY <1>1, <1>2, <1>3, <1>4 DEF LoansMatchBooks

\* Steps that touch neither loans nor payables.
LEMMA LoansStay ==
  ASSUME LoansHold, LoansMatchBooks, UNCHANGED <<loans, payable>>
  PROVE  LoansHold' /\ LoansMatchBooks'
BY DEF LoansHold, LoansMatchBooks, Loans, Live

\* _transfer_loans: the loan and its payable go to the acquirer together.
LEMMA IntegrateLoans ==
  ASSUME LoansHold, LoansMatchBooks, Integrate
  PROVE  LoansHold' /\ LoansMatchBooks'
<1> DEFINE q == deals[current].acquirer
           f == deals[current].target
<1>1. UNCHANGED <<loans, payable>> \/ LoansMoved(f, q)
  BY DEF Integrate
<1>2. CASE LoansMoved(f, q)
  <2> DEFINE moved == LiveLoans(f)
             with(l) == payable[l].opened \cup {q}
  <2>1. /\ loans' = [l \in Loans |-> IF l \in moved THEN [loans[l] EXCEPT !.borrower = q] ELSE loans[l]]
        /\ payable' = [l \in Loans |-> IF l \in moved THEN [payable[l] EXCEPT !.owner = q, !.opened = with(l)]
                                       ELSE payable[l]]
    BY <1>2 DEF LoansMoved
  <2>2. ASSUME NEW l \in Loans PROVE Follows(l) /\ payable'[l].cents \in Int
    <3>1. /\ DOMAIN loans[l] = LoanFields /\ DOMAIN payable[l] = {"owner", "cents", "opened"}
          /\ loans[l].out \in Int /\ payable[l].cents = loans[l].out
      BY DEF LoansHold, LoansMatchBooks
    <3>2. CASE l \in moved
      <4>1. /\ loans'[l] = [loans[l] EXCEPT !.borrower = q]
            /\ payable'[l] = [payable[l] EXCEPT !.owner = q, !.opened = with(l)]
        BY <2>1, <3>2
      <4> HIDE DEF q, moved, with
      <4>2. /\ DOMAIN loans'[l] = LoanFields /\ loans'[l].out = loans[l].out
            /\ loans'[l].borrower = q /\ loans'[l].status = loans[l].status
        BY <3>1, <4>1 DEF LoanFields
      <4>3. /\ DOMAIN payable'[l] = {"owner", "cents", "opened"}
            /\ payable'[l].owner = q /\ payable'[l].cents = payable[l].cents
        BY <3>1, <4>1
      <4> QED
        BY <3>1, <4>2, <4>3 DEF Follows
    <3>3. CASE l \notin moved
      <4>1. loans'[l] = loans[l] /\ payable'[l] = payable[l]
        BY <2>1, <3>3
      <4> QED
        BY <3>1, <4>1 DEF Follows
    <3> QED
      BY <3>2, <3>3
  <2>3. DOMAIN loans' = Loans /\ DOMAIN payable' = Loans
    BY <2>1
  <2> QED
    BY <2>2, <2>3, FollowsKeeps
<1> QED
  BY <1>1, <1>2, LoansStay

\* amortise
LEMMA RepayLoans ==
  ASSUME LoansHold, LoansMatchBooks, NEW k \in Loans, Repay(k)
  PROVE  LoansHold' /\ LoansMatchBooks'
<1>1. /\ loans' = [loans EXCEPT ![k].out = @ - 1, ![k].status = IF loans[k].out = 1 THEN "repaid" ELSE @]
      /\ payable' = [payable EXCEPT ![k].cents = @ - 1]
  BY DEF Repay
<1>2. DOMAIN loans' = Loans /\ DOMAIN payable' = Loans
  BY <1>1 DEF LoansHold
<1>3. ASSUME NEW l \in Loans PROVE Follows(l) /\ payable'[l].cents \in Int
  <2>1. /\ DOMAIN loans[l] = LoanFields /\ DOMAIN payable[l] = {"owner", "cents", "opened"}
        /\ loans[l].out \in Int /\ payable[l].cents = loans[l].out
    BY DEF LoansHold, LoansMatchBooks
  <2>2. CASE l = k
    <3>1. /\ DOMAIN loans'[l] = LoanFields /\ loans'[l].out = loans[l].out - 1
          /\ loans'[l].borrower = loans[l].borrower
          /\ loans'[l].status = loans[l].status \/ loans'[l].status = "repaid"
      BY <1>1, <2>1, <2>2 DEF LoansHold, LoanFields
    <3>2. /\ DOMAIN payable'[l] = {"owner", "cents", "opened"}
          /\ payable'[l].owner = payable[l].owner /\ payable'[l].cents = payable[l].cents - 1
      BY <1>1, <2>1, <2>2 DEF LoansHold
    <3> QED
      BY <2>1, <3>1, <3>2 DEF Follows, Live
  <2>3. CASE l # k
    <3>1. loans'[l] = loans[l] /\ payable'[l] = payable[l]
      BY <1>1, <2>3 DEF LoansHold
    <3> QED
      BY <2>1, <3>1 DEF Follows
  <2> QED
    BY <2>2, <2>3
<1> QED
  BY <1>2, <1>3, FollowsKeeps

\* The loans of a case are closed with it, whoever has taken them over meanwhile.
LEMMA DistributeLoans ==
  ASSUME LoansHold, LoansMatchBooks, Distribute
  PROVE  LoansHold' /\ LoansMatchBooks'
<1>1. PICK claims, paid : LoansClosed(claims, paid)
  BY DEF Distribute
<1> DEFINE claimed == {claims[i].loan : i \in DOMAIN paid} \ {0}
<1>2. /\ loans' = [l \in Loans |->
           IF l \in claimed THEN LoanResolved(l, claims, paid) ELSE loans[l]]
      /\ payable' = [l \in Loans |->
           IF l \in claimed THEN [payable[l] EXCEPT !.cents = @ - loans[l].out] ELSE payable[l]]
  BY <1>1 DEF LoansClosed
<1> HIDE DEF claimed
<1>3. ASSUME NEW l \in Loans PROVE Follows(l) /\ payable'[l].cents \in Int
  <2>1. /\ DOMAIN loans[l] = LoanFields /\ DOMAIN payable[l] = {"owner", "cents", "opened"}
        /\ loans[l].out \in Int /\ payable[l].cents = loans[l].out
    BY DEF LoansHold, LoansMatchBooks
  <2>2. CASE l \in claimed
    <3>1. PICK s : /\ loans'[l] = [loans[l] EXCEPT !.out = 0, !.status = s]
                   /\ s = loans[l].status \/ s = "written_off"
      BY <1>2, <2>2 DEF LoanResolved
    <3>2. /\ DOMAIN loans'[l] = LoanFields /\ loans'[l].out = 0
          /\ loans'[l].borrower = loans[l].borrower
          /\ loans'[l].status = loans[l].status \/ loans'[l].status = "written_off"
      BY <2>1, <3>1 DEF LoanFields
    <3>3. payable'[l] = [payable[l] EXCEPT !.cents = @ - loans[l].out]
      BY <1>2, <2>2
    <3>4. /\ DOMAIN payable'[l] = {"owner", "cents", "opened"}
          /\ payable'[l].owner = payable[l].owner
          /\ payable'[l].cents = payable[l].cents - loans[l].out
      BY <2>1, <3>3
    <3> QED
      BY <2>1, <3>2, <3>4 DEF Follows, Live
  <2>3. CASE l \notin claimed
    <3>1. loans'[l] = loans[l] /\ payable'[l] = payable[l]
      BY <1>2, <2>3
    <3> QED
      BY <2>1, <3>1 DEF Follows
  <2> QED
    BY <2>2, <2>3
<1>4. DOMAIN loans' = Loans /\ DOMAIN payable' = Loans
  BY <1>2
<1> QED
  BY <1>3, <1>4, FollowsKeeps

-----------------------------------------------------------------------------
(* Every step *)

LEMMA NextKeeps == IInv /\ [Next]_vars => IInv'
<1> SUFFICES ASSUME IInv, [Next]_vars PROVE IInv'
  OBVIOUS
<1> USE DEF IInv
<1>1. CASE SolvencyStep
  <2>1. UNCHANGED <<loans, payable>>
    BY <1>1 DEF SolvencyStep
  <2> QED
    BY <1>1, <2>1, SolvencyKeeps, LoansStay
<1>2. CASE NextTick
  <2>1. UNCHANGED <<loans, payable>>
    BY <1>2 DEF NextTick, debts
  <2> QED
    BY <1>2, <2>1, NextTickKeeps, LoansStay
<1>3. CASE Integrate
  BY <1>3, TakeoversAreCalm, CalmKeeps, IntegrateLoans
<1>4. CASE Distribute
  BY <1>4, LiquidationIsCalm, CalmKeeps, DistributeLoans
<1>5. CASE \E l \in Loans : Repay(l)
  BY <1>5, WorldIsCalm, CalmKeeps, RepayLoans
<1>6. CASE PayForTarget
  <2>1. UNCHANGED <<loans, payable>>
    BY <1>6 DEF PayForTarget
  <2> QED
    BY <1>6, <2>1, TakeoversAreCalm, CalmKeeps, LoansStay
<1>7. CASE \/ \E i \in Foundings : FoundCompany(i[1], i[2], i[3], i[4])
           \/ \E i \in Pitches : Pitch(i[1], i[2], i[3], i[4])
           \/ \E i \in Sheets : IssueTermSheet(i[1], i[2], i[3], i[4], i[5], i[6], i[7])
           \/ \E s \in DOMAIN sheets : CloseRound(s)
           \/ \E i \in Commitments : LpCommit(i[1], i[2], i[3])
           \/ \E i \in Dividends : DeclareDividend(i[1], i[2], i[3])
           \/ \E i \in Offers : ProposeAcquisition(i[1], i[2], i[3], i[4], i[5])
           \/ \E i \in Tenders, d \in DOMAIN deals : Tender(i[1], d, i[2])
           \/ \E i \in Filings : FileBankruptcy(i[1], i[2])
  <2>1. Calm
    BY <1>7, ActionsAreCalm
  <2>2. UNCHANGED <<loans, payable>>
    <3>1. ASSUME NEW i, FoundCompany(i[1], i[2], i[3], i[4]) PROVE UNCHANGED <<loans, payable>>
      BY <3>1 DEF FoundCompany, debts
    <3>2. ASSUME NEW i, Pitch(i[1], i[2], i[3], i[4]) PROVE UNCHANGED <<loans, payable>>
      BY <3>2 DEF Pitch, debts
    <3>3. ASSUME NEW i, IssueTermSheet(i[1], i[2], i[3], i[4], i[5], i[6], i[7])
          PROVE  UNCHANGED <<loans, payable>>
      BY <3>3 DEF IssueTermSheet, debts
    <3>4. ASSUME NEW s, CloseRound(s) PROVE UNCHANGED <<loans, payable>>
      BY <3>4 DEF CloseRound, debts
    <3>5. ASSUME NEW i, LpCommit(i[1], i[2], i[3]) PROVE UNCHANGED <<loans, payable>>
      BY <3>5 DEF LpCommit, debts
    <3>6. ASSUME NEW i, DeclareDividend(i[1], i[2], i[3]) PROVE UNCHANGED <<loans, payable>>
      BY <3>6 DEF DeclareDividend, debts
    <3>7. ASSUME NEW i, ProposeAcquisition(i[1], i[2], i[3], i[4], i[5])
          PROVE  UNCHANGED <<loans, payable>>
      BY <3>7 DEF ProposeAcquisition, debts
    <3>8. ASSUME NEW i, NEW d, Tender(i[1], d, i[2]) PROVE UNCHANGED <<loans, payable>>
      BY <3>8 DEF Tender
    <3>9. ASSUME NEW i, FileBankruptcy(i[1], i[2]) PROVE UNCHANGED <<loans, payable>>
      BY <3>9 DEF FileBankruptcy
    <3> QED
      BY <1>7, <3>1, <3>2, <3>3, <3>4, <3>5, <3>6, <3>7, <3>8, <3>9
  <2> QED
    BY <2>1, <2>2, CalmKeeps, LoansStay
<1>8. CASE BeginCase \/ (\E k \in DOMAIN cap : SellStake(k)) \/ SellInventory \/ SellCapital
           \/ FundStep
  <2>1. Calm
    BY <1>8, LiquidationIsCalm
  <2>2. UNCHANGED <<loans, payable>>
    <3>1. ASSUME NEW k, SellStake(k) PROVE UNCHANGED <<loans, payable>>
      BY <3>1 DEF SellStake, debts
    <3>2. CASE BeginCase
      BY <3>2 DEF BeginCase
    <3>3. CASE SellInventory
      BY <3>3 DEF SellInventory, debts
    <3>4. CASE SellCapital
      BY <3>4 DEF SellCapital, debts
    <3>5. CASE FundStep
      BY <3>5 DEF FundStep, debts
    <3> QED
      BY <1>8, <3>1, <3>2, <3>3, <3>4, <3>5
  <2> QED
    BY <2>1, <2>2, CalmKeeps, LoansStay
<1>9. CASE \/ \E i \in Costs : Spend(i[1], i[2])
           \/ \E c \in DOMAIN cases, f \in Firms, b \in Agents : SellListed(c, f, b)
           \/ UNCHANGED vars
  <2>1. Calm
    BY <1>9, WorldIsCalm
  <2>2. UNCHANGED <<loans, payable>>
    <3>1. ASSUME NEW i, Spend(i[1], i[2]) PROVE UNCHANGED <<loans, payable>>
      BY <3>1 DEF Spend, debts
    <3>2. ASSUME NEW c, NEW f, NEW b, SellListed(c, f, b) PROVE UNCHANGED <<loans, payable>>
      BY <3>2 DEF SellListed, debts
    <3>3. CASE UNCHANGED vars
      BY <3>3 DEF vars
    <3> QED
      BY <1>9, <3>1, <3>2, <3>3
  <2> QED
    BY <2>1, <2>2, CalmKeeps, LoansStay
<1> QED
  BY <1>1, <1>2, <1>3, <1>4, <1>5, <1>6, <1>7, <1>8, <1>9 DEF Next, Ended

\* The inductive invariant holds in every state.
THEOREM Invariant == Spec => []IInv
<1>1. Init => IInv
  BY StartsSolvent, LoansStart DEF IInv
<1> QED
  BY <1>1, NextKeeps, PTL DEF Spec

\* No active firm has been found insolvent by more solvency steps in a row than
\* insolvency_persist_days allows, whatever takeovers, loans, sales and filings happen in
\* between.
THEOREM InsolvencyAlwaysFiled == Spec => []InsolvencyIsFiled
<1>1. IInv => InsolvencyIsFiled
  BY DEF IInv
<1> QED
  BY <1>1, Invariant, PTL

\* The payable of every loan is what is outstanding, and lies with the borrower while the
\* loan is live: through repayments, the move of the loans of an absorbed firm and the write-off
\* at the end of a bankruptcy.
THEOREM LoansAlwaysMatch == Spec => []LoansMatchBooks
<1>1. IInv => LoansMatchBooks
  BY DEF IInv
<1> QED
  BY <1>1, Invariant, PTL
=============================================================================
