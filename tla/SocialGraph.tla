---------------------------- MODULE SocialGraph ----------------------------
(***************************************************************************)
(* The social graph of polis/society/graph.py with the relationships table *)
(* that RelationshipsProjection (society/projections.py) keeps from its    *)
(* events.  A graph is a record                                            *)
(*   ties     [<<a, b, type>> -> tie], the repository                      *)
(*   inter    the interactions staged since the last apply_tick            *)
(*   contacts [<<a, b>> -> the ticks the two spent in one place]           *)
(*   decay    [<<a, b, type>> -> tick of the last decay]                   *)
(*   rel      the rows of the relationships table, keyed like ties         *)
(* and a method that changes it is an operator from graphs to graphs that  *)
(* also writes the rows of the events the method stages.  Strength,        *)
(* valence, trust and attention are in thousandths.  One tick is a day     *)
(* (the chronicle profile).  Agents are numbers.  Only the kinds           *)
(* "conversation" and "dm" are ever staged, so no tie turns into a rival.  *)
(***************************************************************************)
EXTENDS Integers, Sequences, FiniteSets, FiniteSetsExt, SequencesExt

CONSTANTS ColocationThreshold,  \* common ticks that make two agents known
          ContactWindow         \* ticks a contact is remembered

None == -1

Clamped(lo, hi, x) == IF x < lo THEN lo ELSE IF x > hi THEN hi ELSE x

Scaled(x, y) == IF x < 0 THEN -(((-x) * y) \div 1000) ELSE (x * y) \div 1000

Distance(x, y) == IF x < y THEN y - x ELSE x - y

Pair(a, b) == IF a < b THEN <<a, b>> ELSE <<b, a>>

Key(a, b, type) == IF a < b THEN <<a, b, type>> ELSE <<b, a, type>>

InitialOf(context) ==
    CASE context = "colocation"   -> [strength |->  50, valence |->   0, trust |-> 500]
      [] context = "conversation" -> [strength |-> 100, valence |->  50, trust |-> 500]
      [] context = "dm"           -> [strength |->  80, valence |->  50, trust |-> 500]
      [] context = "household"    -> [strength |-> 400, valence |-> 300, trust |-> 700]
      [] context = "befriend"     -> [strength |-> 350, valence |-> 250, trust |-> 600]
      [] context = "platform"     -> [strength |->  60, valence |->   0, trust |-> 450]

Dynamics(kind) ==
    IF kind = "conversation" THEN [strength |-> 30, valence |-> 5]
                             ELSE [strength |-> 20, valence |-> 5]

\* ln 2 over the half-life: 30 days, 90 days, and none for kin.
DailyDecay(type) ==
    CASE type = "acquaintance" -> 23 [] type = "friend" -> 8 [] OTHER -> 0

TieEventThreshold == 20

RankOf(type) ==
    CASE type = "acquaintance" -> 1 [] type = "friend" -> 2 [] OTHER -> 3

EmptyGraph ==
    [ties |-> << >>, inter |-> << >>, contacts |-> << >>, decay |-> << >>,
     rel |-> << >>]

Put(f, k, v) == [j \in DOMAIN f \cup {k} |-> IF j = k THEN v ELSE f[j]]

Without(f, k) == [j \in DOMAIN f \ {k} |-> f[j]]

LiveIn(f) == {k \in DOMAIN f : f[k].ended = None}

LiveTies(g, a, b) == {k \in LiveIn(g.ties) : <<k[1], k[2]>> = Pair(a, b)}

\* SocialGraph.tie without a type: the strongest live tie of a pair.
TieKey(g, a, b) ==
    CHOOSE k \in LiveTies(g, a, b) : \A j \in LiveTies(g, a, b) :
        \/ g.ties[k].strength > g.ties[j].strength
        \/ /\ g.ties[k].strength = g.ties[j].strength
           /\ RankOf(k[3]) <= RankOf(j[3])

Tied(g, a, b) == LiveTies(g, a, b) # {}

Strength(g, a, b) == IF Tied(g, a, b) THEN g.ties[TieKey(g, a, b)].strength ELSE 0

StageInteraction(g, a, b, kind, weight) ==
    [g EXCEPT !.inter = Append(@, [a |-> a, b |-> b, kind |-> kind, weight |-> weight])]

(***************************************************************************)
(* Rows of the relationships table, one operator per event kind            *)
(***************************************************************************)
TieFormed(rel, k, tie) == Put(rel, k, tie)

TieUpdated(rel, k, d, driven, t) ==
    IF k \notin DOMAIN rel THEN rel
    ELSE [rel EXCEPT ![k] =
            [@ EXCEPT !.strength = Clamped(0, 1000, @ + d.strength),
                      !.valence = Clamped(-1000, 1000, @ + d.valence),
                      !.last = IF driven THEN t ELSE @]]

TieEnded(rel, k, final, t) ==
    IF k \notin DOMAIN rel THEN rel
    ELSE [rel EXCEPT ![k] = [@ EXCEPT !.ended = t, !.strength = final]]

TieTypeChanged(rel, from, to, t) ==
    IF from \notin DOMAIN rel THEN rel
    ELSE LET old == [rel[from] EXCEPT !.ended = t]
         IN  Put([rel EXCEPT ![from] = old], to,
                 [old EXCEPT !.formed = t, !.ended = None, !.last = t])

(***************************************************************************)
(* Methods                                                                 *)
(***************************************************************************)
Form(g, a, b, type, context, t) ==
    LET k == Key(a, b, type)
        i == InitialOf(context)
        new == i @@ [formed |-> t, ended |-> None, last |-> t]
    IN  IF a = b THEN g
        ELSE IF k \in LiveIn(g.ties)
        THEN [g EXCEPT !.ties[k] =
                [@ EXCEPT !.strength = IF @ < i.strength THEN i.strength ELSE @,
                          !.valence = IF @ < i.valence THEN i.valence ELSE @,
                          !.trust = IF @ < i.trust THEN i.trust ELSE @,
                          !.last = t]]
        ELSE [g EXCEPT !.ties = Put(@, k, new), !.rel = TieFormed(@, k, new)]

End(g, k, t) ==
    [g EXCEPT !.ties[k].ended = t,
              !.decay = Without(@, k),
              !.rel = TieEnded(@, k, g.ties[k].strength, t)]

Transition(g, k, target, t) ==
    LET to == Key(k[1], k[2], target)
        new == [g.ties[k] EXCEPT !.formed = t, !.ended = None]
    IN  IF to \in LiveIn(g.ties) THEN End(g, k, t)
        ELSE [g EXCEPT !.ties = Put([@ EXCEPT ![k].ended = t], to, new),
                       !.decay = Put(Without(@, k), to, t),
                       !.rel = TieTypeChanged(@, k, to, t)]

\* _transition: a warm acquaintance becomes a friend, a faded tie ends.
Developed(g, k, t) ==
    LET row == g.ties[k]
    IN  IF k[3] = "acquaintance" /\ row.strength >= 400 /\ row.valence >= 200
        THEN Transition(g, k, "friend", t)
        ELSE IF row.strength < 20 /\ k[3] # "kin"
        THEN End(g, k, t)
        ELSE g

PairLess(p, q) == p[1] < q[1] \/ (p[1] = q[1] /\ p[2] < q[2])

KeyLess(k, j) ==
    \/ PairLess(k, j)
    \/ k[1] = j[1] /\ k[2] = j[2] /\ RankOf(k[3]) < RankOf(j[3])

DriversOf(g, k) == SelectSeq(g.inter, LAMBDA i : Pair(i.a, i.b) = <<k[1], k[2]>>)

DrivenBy(drivers, field) ==
    FoldLeft(LAMBDA sum, i : sum + Scaled(Dynamics(i.kind)[field], i.weight), 0, drivers)

\* One live row of apply_tick: drivers, decay, event, transition.
Aged(g, k, t) ==
    LET row == g.ties[k]
        drivers == DriversOf(g, k)
        since == IF k \in DOMAIN g.decay THEN g.decay[k]
                 ELSE IF row.formed > row.last THEN row.formed ELSE row.last
        elapsed == IF t > since THEN t - since ELSE 0
        raw == Clamped(0, 1000, row.strength + DrivenBy(drivers, "strength")
                                             - elapsed * DailyDecay(k[3]))
        strength == IF k[3] = "kin" /\ raw < 250 THEN 250 ELSE raw
        valence == Clamped(-1000, 1000, row.valence + DrivenBy(drivers, "valence"))
        d == [strength |-> strength - row.strength, valence |-> valence - row.valence]
        moved == Distance(strength, row.strength) + Distance(valence, row.valence)
        aged == [g EXCEPT !.ties[k] = [@ EXCEPT !.strength = strength,
                                                !.valence = valence,
                                                !.last = IF drivers = << >> THEN @ ELSE t],
                          !.decay = Put(@, k, t),
                          !.rel = IF moved >= TieEventThreshold
                                  THEN TieUpdated(@, k, d, drivers # << >>, t) ELSE @]
    IN  Developed(aged, k, t)

Recorded(g, groups, t) ==
    LET met == {p \in UNION {grp \X grp : grp \in groups} : p[1] < p[2]}
    IN  [g EXCEPT !.contacts =
            [p \in DOMAIN @ \cup met |->
                (IF p \in DOMAIN @ THEN @[p] ELSE {}) \cup (IF p \in met THEN {t} ELSE {})]]

Pruned(contacts, t) ==
    LET recent(p) == {u \in contacts[p] : u > t - ContactWindow}
    IN  [p \in {q \in DOMAIN contacts : recent(q) # {}} |-> recent(p)]

MeetsByKind(i, j) ==
    \/ PairLess(Pair(i.a, i.b), Pair(j.a, j.b))
    \/ Pair(i.a, i.b) = Pair(j.a, j.b) /\ i.kind = "conversation" /\ j.kind = "dm"

FormedIfNew(g, a, b, context, t) ==
    IF Tied(g, a, b) THEN g ELSE Form(g, a, b, "acquaintance", context, t)

ApplyTick(g, t) ==
    LET contacts == Pruned(g.contacts, t)
        known == SetToSortSeq({p \in DOMAIN contacts :
                                 Cardinality(contacts[p]) >= ColocationThreshold},
                              PairLess)
        met == FoldLeft(LAMBDA h, p : FormedIfNew(h, p[1], p[2], "colocation", t),
                        [g EXCEPT !.contacts = contacts], known)
        spoke == FoldLeft(LAMBDA h, i : FormedIfNew(h, i.a, i.b, i.kind, t),
                          met, SortSeq(g.inter, MeetsByKind))
        aged == FoldLeft(LAMBDA h, k : Aged(h, k, t),
                         spoke, SetToSortSeq(LiveIn(spoke.ties), KeyLess))
    IN  [aged EXCEPT !.inter = << >>]

EndAllFor(g, a, t) ==
    FoldLeft(LAMBDA h, k : End(h, k, t), g,
             SetToSortSeq({k \in LiveIn(g.ties) : a \in {k[1], k[2]}}, KeyLess))
=============================================================================
