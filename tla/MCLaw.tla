------------------------------- MODULE MCLaw --------------------------------
(* Ann, who is poor, Bob, Cal, a lawyer without a home, Dee, whose money is in a bank, and a   *)
(* court that sits on days 0 and 3.                                                           *)
EXTENDS Law
FourAgents == {"ann", "bob", "cal", "dee"}
OneDefender == [l \in {"cal"} |-> [fee |-> 2, skill |-> 6]]
Money0 == [o \in Owners |-> CASE o = "ann" -> 6 [] o = "bob" -> 5 [] o = Government -> 1 [] OTHER -> 3]
OneHomeless == [a \in Agents |-> IF a = "cal" THEN NoOne ELSE "house"]
OnePrison == <<"prison">>
Log == <<[tick |-> 0, about |-> {"ann", "bob"}, source |-> "ledger", holders |-> {}],
         [tick |-> 0, about |-> {"ann"}, source |-> "social", holders |-> {"bob"}],
         [tick |-> 1, about |-> {"bob"}, source |-> "ledger", holders |-> {}]>>
Leak == {[issuer |-> "firm", tick |-> 0, holders |-> {"bob"}, disclosed |-> 2]}
Debts == {[debtor |-> "bob", creditor |-> "ann", amount |-> 3, due |-> 1]}
Crimes0 == {<<"ann", "theft", "bob", 3>>, <<"bob", "assault", "ann", 0>>, <<"ann", "fraud", "dee", 1>>,
            <<"cal", "fraud", "bob", 1>>}
Suing == {<<"bob", "ann", "negligence", 4, 0, {1, 2}, "civil">>, <<"ann", "bob", "theft", 2, 1, {1}, "civil">>}
Offering == {<<"ann", 1>>}
Paydays == {<<"ann", 10>>}
Stories == {<<"bob", FALSE>>, <<"cal", TRUE>>}
Insiders == {<<"bob", "firm">>}
Answers == {[verdict |-> "guilty", fine |-> 99, sentence |-> 99, damages |-> 99, restitution |-> 99],
            [verdict |-> "liable", fine |-> 0, sentence |-> 99, damages |-> 99, restitution |-> 0]}
Ranges == [theft |-> <<0, 0, 0, 2>>, assault |-> <<1, 2, 1, 3>>, fraud |-> <<0, 0, 1, 4>>,
           insider_trading |-> <<0, 0, 0, 2>>, embezzlement |-> <<0, 0, 1, 5>>,
           contract_breach |-> <<0, 0, 0, 0>>, perjury |-> <<1, 3, 1, 2>>]
SmallLaw ==
  [ticks_per_day |-> 1, mnpi_window |-> 2, detection_window |-> 0, evidence_window |-> 1,
   filing_fee |-> 1, min_counsel_skill |-> 5, garnishment_tenths |-> 2,
   police_budget |-> 1, cost_per_investigation |-> 1, charge_threshold |-> 4, strength_norm |-> 2,
   case_budget |-> 1, cost_per_case |-> 1, base_evidence |-> 1, skill_factor |-> 2,
   conviction_threshold |-> 6, loser_pays |-> TRUE, sentencing_bp |-> 10000,
   prison_capacity |-> 1, statutory |-> Ranges,
   log1p |-> <<0, 69, 110, 139, 161, 179, 195, 208, 220, 230, 240>>]
=============================================================================
