------------------------------ MODULE MCPolity ------------------------------
(* An instance of Polity: three agents, two parties, a council of two seats.  *)
EXTENDS Polity

FewAgents == 1..3
FewSeats == [president |-> 1, council |-> 2, police_chief |-> 1, cb_governor |-> 1]
ShortTerms == [president |-> 3, council |-> 2, police_chief |-> 99, cb_governor |-> 3]
PresidentMethods == {"plurality", "approval", "irv"}
Authorities == [rate |-> "cb_governor_only", cap |-> "council_and_president",
                franchise |-> "council_majority"]
Lags == [rate |-> 1, cap |-> 2, franchise |-> 2]
Defaults == [rate |-> 0, cap |-> 2, franchise |-> 0]
OutOfRange == {<<"cap", 9>>}

PartyActions ==
    {<<"found", 1, {1, 2, 3}>>, <<"found", 2, {1, 2, 3}>>, <<"join", 2, 1>>,
     <<"join", 3, 1>>, <<"join", 3, 2>>}
ElectionActions ==
    {<<"announce", 1, 1, 0>>, <<"announce", 2, 1, 1>>, <<"announce", 3, 1, 1>>,
     <<"announce", 2, 2, 0>>, <<"campaign", 1, 1, 2, 1, "ads">>,
     <<"campaign", 2, 1, 2, 2, "canvass">>, <<"campaign", 3, 1, 3, 1, "rally nowhere owned">>,
     <<"campaign", 3, 1, 2, 0, "ads nowhere">>,
     <<"vote", 2, 1, Ranked(<<3, 1>>)>>}
PolicyActions ==
    {<<"propose", 1, "rate", 1, {}>>, <<"propose", 1, "rate", 0, {}>>,
     <<"propose", 2, "cap", 1, {}>>, <<"propose", 2, "franchise", 1, {1, 3}>>}
FewActions == PartyActions \cup ElectionActions \cup PolicyActions
FewSteps ==
    {<<"call", "president">>, <<"call", "council">>,
     <<"appoint", "cb_governor", 1, TRUE>>,
     <<"remove", "cb_governor", "council", TRUE>>, <<"death", 2>>, <<"emigration", 1>>,
     <<"incarceration", 3>>}
=============================================================================
