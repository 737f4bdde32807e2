-------------------------- MODULE MCActionHandoff --------------------------
(* Two settings of the handoff.  Time is in units of 50 ms: the timeouts are *)
(* 2 units.  In the first, two agents race for a list that holds one action  *)
(* and nothing fails; in the second an engine that pauses for its only agent *)
(* meets lost answers, restarts and failures of Redis.                       *)
EXTENDS ActionHandoff
CONSTANTS a1, a2
OnTime == [agents |-> {a1, a2}, ids |-> {1, 2}, max_nonce |-> 1, max_queued |-> 1,
           seen_cap |-> 2, deadline |-> 3, seal_margin |-> 2, pause |-> FALSE,
           pause_max |-> 4, naturalise_after |-> 2, unreliable |-> FALSE, max_faults |-> 0]
Faulty == [agents |-> {a1}, ids |-> {1, 2}, max_nonce |-> 0, max_queued |-> 1,
           seen_cap |-> 2, deadline |-> 2, seal_margin |-> 1, pause |-> TRUE,
           pause_max |-> 3, naturalise_after |-> 1, unreliable |-> TRUE, max_faults |-> 2]
TwoConfigs == {OnTime, Faulty}
=============================================================================
