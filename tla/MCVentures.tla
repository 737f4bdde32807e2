----------------------------- MODULE MCVentures -----------------------------
(* Two founders and an employee; two listed firms, a startup and a fund.     *)
EXTENDS Ventures
ThreeAgents == {1, 2, 3}
FourFirms == {11, 12, 13, 14}
ListedFirms == (11 :> [founder |-> 2, shares |-> 4, price |-> 2])
               @@ (14 :> [founder |-> 1, shares |-> 2, price |-> 1])
Deposits0 == [o \in Owners |-> IF o \in {1, 2} THEN 12 ELSE IF o = 11 THEN 9 ELSE 0]
TwoLoans == <<[borrower |-> 11, lender |-> Bank, out |-> 6, collateral |-> 2, status |-> "current"],
              [borrower |-> 1, lender |-> Bank, out |-> 3, collateral |-> 0, status |-> "current"]>>
TwoJobs == <<[agent |-> 3, firm |-> 11, live |-> TRUE, accrued |-> 1],
             [agent |-> 2, firm |-> 14, live |-> TRUE, accrued |-> 0]>>
Arrears0 == [e \in Entities |-> IF e = 11 THEN 1 ELSE 0]
Founding == {<<1, 12, 6, "startup">>, <<2, 13, 4, "fund">>}
Pitching == {<<1, 12, 2, "pass">>, <<1, 12, 2, "term_sheet">>}
Issuing == {<<2, 12, 8, 4, "preferred", FALSE, 0>>, <<2, 12, 8, 2, "preferred", TRUE, 2000>>}
Offering == {<<11, 12, 6, 0, "absorb">>, <<11, 12, 6, 5000, "standalone">>,
             <<11, 12, 4, 0, "asset_sale">>, <<14, 11, 4, 10000, "absorb">>, <<11, 14, 3, 0, "absorb">>,
             <<12, 12, 2, 5000, "absorb">>, <<11, 11, 4, 0, "absorb">>}
Tendering == {<<1, 4>>, <<2, 4>>}
Filing == {<<1, 12>>, <<2, 11>>, <<1, 1>>}
Paying == {<<1, 12, 2>>, <<2, 11, 2>>}
Committing == {<<1, 13, 2>>}
Spending == {<<11, 9>>, <<12, 5>>}
SmallSettings ==
  [founder_shares |-> 4, capital_ref |-> 2, term_sheet_days |-> 1, liq_pref_bp |-> 10000,
   threshold_bp |-> 5000, drag_along_bp |-> 6000, squeeze_out_bp |-> 9000, deal_days |-> 30,
   redundancy_bp |-> 10000, severance |-> 1, admin_fee_bp |-> 1000, wage_cap |-> 1,
   liquidation_days |-> 1, persist_days |-> 1, unlisted_bp |-> 5000, inventory_bp |-> 10000,
   capital_bp |-> 5000, exempt_cents |-> 1, management_fee_bp |-> 10000, quarter |-> 2]
=============================================================================
