------------------------------ MODULE Beliefs ------------------------------
(***************************************************************************)
(* The belief engine of polis/society/beliefs.py with the beliefs table    *)
(* that BeliefsProjection (society/projections.py) keeps from its events.  *)
(* A belief state is a record [mem, tab]: the repository and the table,    *)
(* functions from <<agent, proposition>> to [value, confidence] in         *)
(* thousandths.  A proposition is <<"policy">>, <<"trust", outlet>> or     *)
(* <<"fabricates", outlet>>; the registry's other names behave like one of *)
(* the three.                                                              *)
(***************************************************************************)
EXTENDS SocialGraph

CONSTANTS MaxUpdates   \* max_belief_updates_per_call

NoBeliefs == [mem |-> << >>, tab |-> << >>]

\* The bounds and defaults of _registry.
SpecOf(prop) ==
    CASE prop[1] = "policy"     -> [lo |-> -1000, hi |-> 1000, value |->   0, confidence |-> 350]
      [] prop[1] = "trust"      -> [lo |->     0, hi |-> 1000, value |-> 500, confidence |-> 350]
      [] prop[1] = "fabricates" -> [lo |->     0, hi |-> 1000, value |-> 500, confidence |-> 250]

DefaultOf(prop) == [value |-> SpecOf(prop).value, confidence |-> SpecOf(prop).confidence]

Current(b, a, prop) ==
    IF <<a, prop>> \in DOMAIN b.mem THEN b.mem[<<a, prop>>] ELSE DefaultOf(prop)

Alpha(channel) == IF channel = "social" THEN 100 ELSE 80

UpdateKernel(old, target, tau, alpha) ==
    LET d == Distance(target, old.value)
        entrenched == d > 600 /\ old.confidence > 600 /\ tau < 400
        away == Scaled(Scaled(50, 1000 - tau), IF d < 1000 THEN d ELSE 1000)
        pull == Scaled(Scaled(Scaled(target - old.value, tau), 1000 - old.confidence), alpha)
    IN  IF entrenched
        THEN [value |-> Clamped(-1000, 1000,
                                IF target > old.value THEN old.value - away ELSE old.value + away),
              confidence |-> Clamped(0, 1000, old.confidence + 30)]
        ELSE [value |-> Clamped(-1000, 1000, old.value + pull),
              confidence |-> Clamped(0, 1000, old.confidence
                                               + Scaled(Scaled(1000 - d, tau), 20))]

TrustIn(b, g, a, source, channel) ==
    IF channel = "social"
    THEN IF Tied(g, a, source) THEN g.ties[TieKey(g, a, source)].trust ELSE 350
    ELSE Scaled(Current(b, a, <<"trust", source>>).value,
                1000 - Current(b, a, <<"fabricates", source>>).value)

Project(b, g, a, prop, target, source, channel) ==
    LET s == SpecOf(prop)
        new == UpdateKernel(Current(b, a, prop), Clamped(s.lo, s.hi, target),
                            TrustIn(b, g, a, source, channel), Alpha(channel))
    IN  [new EXCEPT !.value = Clamped(s.lo, s.hi, @)]

\* Row of BELIEF_UPDATED and of BELIEF_PRIORS_SET.
Upserted(tab, a, prop, row) == Put(tab, <<a, prop>>, row)

\* Row of BELIEF_DRIFT_APPLIED: the table adds the differences.
Drifted(tab, a, prop, d) ==
    LET s == SpecOf(prop)
        base == IF <<a, prop>> \in DOMAIN tab THEN tab[<<a, prop>>] ELSE DefaultOf(prop)
    IN  Put(tab, <<a, prop>>,
            [value |-> Clamped(s.lo, s.hi, base.value + d.value),
             confidence |-> Clamped(0, 1000, base.confidence + d.confidence)])

\* BeliefEngine.apply on the social and the media channel.
Apply(b, g, a, prop, target, channel, source) ==
    LET old == Current(b, a, prop)
        new == Project(b, g, a, prop, target, source, channel)
        d == [value |-> new.value - old.value,
              confidence |-> new.confidence - old.confidence]
    IN  IF new = old THEN b
        ELSE [mem |-> Put(b.mem, <<a, prop>>, new), tab |-> Drifted(b.tab, a, prop, d)]

\* Clamped to the range; an unknown proposition is dropped, and so is what
\* comes after the limit.
Prepared(updates) ==
    LET known == SelectSeq(updates, LAMBDA u : u.prop # <<"unknown">>)
        inRange(u) == [u EXCEPT !.value = Clamped(SpecOf(u.prop).lo, SpecOf(u.prop).hi, @),
                                !.confidence = Clamped(0, 1000, @)]
        all == [i \in DOMAIN known |-> inRange(known[i])]
    IN  SubSeq(all, 1, IF Len(all) < MaxUpdates THEN Len(all) ELSE MaxUpdates)

MaxStep == 350

\* One update of the call: the step is clamped, and an article's word on its
\* own outlet counts half.
Stepped(old, u) ==
    LET near == old.value + Clamped(-MaxStep, MaxStep, u.value - old.value)
    IN  IF u.selfServing
        THEN [value |-> old.value + Scaled(near - old.value, 500),
              confidence |-> old.confidence + Scaled(u.confidence - old.confidence, 500)]
        ELSE [value |-> near, confidence |-> u.confidence]

\* The sort by proposition keeps the order of the updates of each.
ApplyLlmBeliefUpdates(b, a, updates) ==
    FoldLeft(LAMBDA c, u :
                LET new == Stepped(Current(c, a, u.prop), u)
                IN  [mem |-> Put(c.mem, <<a, u.prop>>, new),
                     tab |-> Upserted(c.tab, a, u.prop, new)],
             b, Prepared(updates))

\* _set_priors: BELIEF_PRIORS_SET carries the rows.
SetPriors(b, a, prop, row) ==
    [mem |-> Put(b.mem, <<a, prop>>, row), tab |-> Upserted(b.tab, a, prop, row)]
=============================================================================
