------------------------------ MODULE MCMarket ------------------------------
(* Three agents, two firms at two banks; both sell sku 1, the second also 2 *)
EXTENDS Market

MC_Agents == 1..3
MC_Firms == {11, 12}
MC_Banks == {21, 22}
MC_Home == (1 :> 21) @@ (2 :> 22) @@ (3 :> 21) @@ (11 :> 21) @@ (12 :> 22)
MC_Founder == (11 :> 3) @@ (12 :> 3)
MC_Target == (11 :> 1) @@ (12 :> 1)
MC_Near == (1 :> {11, 12}) @@ (2 :> {11}) @@ (3 :> {12})
MC_Score == [a \in MC_Agents |-> [f \in MC_Firms |-> IF a = 3 THEN 1 ELSE 6]]
MC_Labour == (1 :> 2) @@ (2 :> 3) @@ (3 :> 1)
MC_Brackets == {<<0, 0>>, <<4, 5000>>, <<12, 8000>>}
MC_Skus == {1, 2}
MC_Sells == (11 :> {1}) @@ (12 :> {1, 2})
MC_Due == [a \in MC_Agents |-> [s \in MC_Skus |-> [t \in 1..5 |->
            IF a = 3 THEN 0 ELSE IF s = 2 THEN (IF t = 1 /\ a = 2 THEN 1 ELSE 0)
            ELSE IF t < 3 THEN 2 ELSE IF t = 4 /\ a = 1 THEN 1 ELSE 0]]]
MC_DurableLife == (1 :> 0) @@ (2 :> 2)
MC_Output == [l \in 0..6 |-> 3 * l]
MC_Basket == (1 :> 2) @@ (2 :> 1)
MC_BasePrice == (1 :> 3) @@ (2 :> 3)
MC_StartDeposit == (1 :> 14) @@ (2 :> 16) @@ (3 :> 2) @@ (11 :> 3) @@ (12 :> 5)
MC_StartReserves == (21 :> 10) @@ (22 :> 26)
MC_Paydays == {4, 5}
MC_Quarters == {2, 5}
MC_BenefitDays == {5}
MC_PriceDays == {1, 4}
=============================================================================
