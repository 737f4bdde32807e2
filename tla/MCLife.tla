------------------------------- MODULE MCLife -------------------------------
(* A household of strangers with a minor, one of whom can afford to live alone *)
EXTENDS Life

MC_Pool == 1..5
MC_Banks == {1, 2}
MC_Genesis ==
  (1 :> [age |-> 3, household |-> 1, deposits |-> (2 :> 4), accrued |-> 2, loan |-> 0, shares |-> 3]) @@
  (2 :> [age |-> 2, household |-> 1, deposits |-> (1 :> 1) @@ (2 :> 3), accrued |-> 0, loan |-> 5, shares |-> 0]) @@
  (3 :> [age |-> 3, household |-> 1, deposits |-> (1 :> 3), accrued |-> 1, loan |-> 5, shares |-> 2]) @@
  (4 :> [age |-> 1, household |-> 1, deposits |-> (1 :> 0), accrued |-> 0, loan |-> 0, shares |-> 0])
MC_Wage == [a \in MC_Pool |-> IF a = 3 THEN 2 ELSE IF a < 3 THEN 1 ELSE 0]
MC_IncomeTax == [g \in 0..4 |-> g \div 2]
MC_Band == 2..5
C(a, b) == <<"COURT", a, b>>
P(a, b) == <<"PROPOSE_UNION", a, b>>
D(a, b) == <<"DISSOLVE_UNION", a, b>>

MC_Agendas ==
  {{}, {C(1, 2)}, {C(1, 2), C(2, 1), C(2, 3), C(3, 2)}, {P(1, 2)}, {P(2, 1)},
   {C(1, 2), C(2, 1), P(1, 2), P(2, 1)}, {P(1, 2), P(2, 1), P(2, 3), P(3, 2)},
   {D(1, 2)}, {D(1, 2), D(2, 1)}, {D(3, 2)}}
=============================================================================
