-------------------------------- MODULE News --------------------------------
(***************************************************************************)
(* The outlets of polis/society/media/news.py, the claim checker of        *)
(* media/checker.py and the revenue adapter of society/ledger.py, with the *)
(* outlets and articles tables of society/projections.py.  A news state is *)
(*   closed    [outlet -> the tick it closed]                              *)
(*   stories   the events of the log a desk may write about, each          *)
(*             [tick, public, holders]                                     *)
(*   since, backlog, taken  per outlet: the last story discovered, the     *)
(*             stories kept for later, the stories handed to a reporter    *)
(*   sources   [<<reporter, source>> -> the tick of the cultivation]       *)
(*   articles  the articles, numbered in the order of their ids            *)
(*   exposures the triples <<agent, article, tick>>                        *)
(*   trusted   the exposures the trust update has used                     *)
(*   budget    [advertiser -> cents left]                                  *)
(*   articleRows, outletRows  the tables                                   *)
(* Headlines, bodies and call ids are left out; an article makes one claim *)
(* that the checker finds "supported", "contradicted" or "unverifiable".   *)
(***************************************************************************)
EXTENDS Platform

CONSTANTS Outlets,            \* numbers
          Editor, Reporters,  \* per outlet: newsroom()
          Firm,               \* per outlet: the owner of the revenue, or None
          Subscribers,        \* per outlet
          SubscriptionPrice,
          Advertisers,        \* [advertiser -> budget]
          CentsPerImpression, \* cpm_cents / 1000
          SourceWindow,       \* ticks a source stays cultivated
          ArticlesShown,      \* articles an agent gets of one distribution
          Week                \* ticks of a week

(***************************************************************************)
(* Rows of the outlets and articles tables, one operator per event kind    *)
(***************************************************************************)
OutletRow == [reach |-> 0, closed |-> None]
OutletRowClosed(row, t) == [reach |-> 0, closed |-> t]
OutletRowBooked(row, impressions) ==
    [row EXCEPT !.reach = IF impressions > @ THEN impressions ELSE @]

ArticleRow == [reach |-> 0, accuracy |-> None, retracted |-> None]
ArticleRowReached(row, reach) == [row EXCEPT !.reach = IF reach > @ THEN reach ELSE @]
ArticleRowRetracted(row, t) == [row EXCEPT !.retracted = t]
\* The average of the scores; an article makes one claim.
ArticleRowChecked(row, score) == IF score = None THEN row ELSE [row EXCEPT !.accuracy = score]

EmptyNews ==
    [closed |-> [o \in Outlets |-> None], stories |-> << >>,
     since |-> [o \in Outlets |-> 0], backlog |-> [o \in Outlets |-> {}],
     taken |-> [o \in Outlets |-> {}], sources |-> << >>, articles |-> << >>,
     exposures |-> {}, trusted |-> {}, budget |-> Advertisers,
     articleRows |-> << >>,
     outletRows |-> [o \in Outlets |-> OutletRow]]

LiveOutlets(n) == {o \in Outlets : n.closed[o] = None}

\* AvailabilityIndex.channel: public, witnessed, or told by a source.
AvailableTo(n, reporter, s, t) ==
    LET story == n.stories[s]
    IN  \/ story.public
        \/ reporter \in story.holders
        \/ \E k \in DOMAIN n.sources :
              /\ k[1] = reporter
              /\ t - n.sources[k] <= SourceWindow
              /\ k[2] \in story.holders

MayCultivate(g, reporter, source) ==
    /\ Tied(g, reporter, source)
    /\ LET k == TieKey(g, reporter, source)
       IN  k[3] = "friend" /\ g.ties[k].trust >= 250

Cultivated(n, reporter, source, t) ==
    [n EXCEPT !.sources = Put(@, <<reporter, source>>, t)]

OutletClosed(n, o, t) ==
    [n EXCEPT !.closed[o] = t, !.outletRows[o] = OutletRowClosed(@, t)]

(***************************************************************************)
(* Articles                                                                *)
(***************************************************************************)
Article(o, reporter, story, draft, t) ==
    [outlet |-> o, reporter |-> reporter, story |-> story, tick |-> t,
     claim |-> draft.claim, stance |-> draft.stance, accuracy |-> None,
     reach |-> 0, retracted |-> None, checked |-> FALSE]

ArticlePublished(n, article) ==
    [n EXCEPT !.articles = Append(@, article), !.articleRows = Append(@, ArticleRow)]

Retracted(n, id, t) ==
    IF id \notin DOMAIN n.articles \/ n.articles[id].retracted # None THEN n
    ELSE [n EXCEPT !.articles[id].retracted = t,
                   !.articleRows[id] = ArticleRowRetracted(@, t)]

ScoreOf(claim) ==
    CASE claim = "supported" -> 1000 [] claim = "contradicted" -> 0 [] OTHER -> None

\* check_pending: every article once; the table averages what was verifiable.
CheckPending(n) ==
    [n EXCEPT !.articles = [id \in DOMAIN @ |->
                  IF @[id].checked THEN @[id]
                  ELSE [@[id] EXCEPT !.accuracy = ScoreOf(n.articles[id].claim), !.checked = TRUE]],
              !.articleRows = [id \in DOMAIN @ |->
                  IF n.articles[id].checked THEN @[id]
                  ELSE ArticleRowChecked(@[id], ScoreOf(n.articles[id].claim))]]

(***************************************************************************)
(* The news cycle                                                          *)
(***************************************************************************)
Discovered(n, o) == {s \in DOMAIN n.stories : s > n.since[o]}

\* rank: the score depends on payloads, so any choice of available stories.
StoryLists(n, o, t) ==
    LET known == n.backlog[o] \cup Discovered(n, o)
        open == {s \in known : \E r \in Reporters[o] : AvailableTo(n, r, s, t)}
    IN  kSubset(Min({Cardinality(open), Cardinality(Reporters[o])}), open)

Taken(n, o, stories) ==
    LET found == Discovered(n, o)
    IN  [n EXCEPT !.backlog[o] = (@ \cup found) \ stories,
                  !.since[o] = IF found = {} THEN @ ELSE Max(found),
                  !.taken[o] = @ \cup stories]

\* A draft is "invalid" (the call failed), poor (thinly sourced or off the
\* outlet's line) or ready; EditorGate sends a poor one back once.
Reviewed(first, second) ==
    IF first.grade = "poor" THEN second ELSE first

\* distribute: what each agent reads, by trust, subscription and article id.
Appeal(b, o, a) ==
    Scaled(350, Current(b, a, <<"trust", o>>).value)
        + (IF a \in Subscribers[o] THEN 150 ELSE 0)

Shown(n, b, a, ids) ==
    LET better(i, j) ==
            LET x == Appeal(b, n.articles[i].outlet, a)
                y == Appeal(b, n.articles[j].outlet, a)
            IN  x > y \/ (x = y /\ i < j)
    IN  {i \in ids : Cardinality({j \in ids : better(j, i)}) < ArticlesShown}

Readings(n, b, audience, ids) ==
    SetToSortSeq(UNION {{a} \X Shown(n, b, a, ids) : a \in audience}, PairLess)

Distributed(n, readings, ids, t) ==
    LET reached(id) == Cardinality({i \in DOMAIN readings : readings[i][2] = id})
        higher(old, id) == IF id \in ids /\ reached(id) > old THEN reached(id) ELSE old
    IN  [n EXCEPT !.exposures = @ \cup {<<readings[i][1], readings[i][2], t>> : i \in DOMAIN readings},
                  !.articles = [id \in DOMAIN @ |-> [@[id] EXCEPT !.reach = higher(@, id)]],
                  !.articleRows = [id \in DOMAIN @ |->
                      IF id \in ids THEN ArticleRowReached(@[id], reached(id)) ELSE @[id]]]

\* apply_media for each reading of an article with a stance.
Persuaded(b, g, n, readings) ==
    FoldLeft(LAMBDA c, r :
                IF n.articles[r[2]].stance = None THEN c
                ELSE Apply(c, g, r[1], <<"policy">>, n.articles[r[2]].stance, "media",
                           n.articles[r[2]].outlet),
             b, readings)

(***************************************************************************)
(* Once a week: books and trust                                            *)
(***************************************************************************)
Impressions(n, o, t) ==
    Cardinality({e \in n.exposures : /\ n.articles[e[2]].outlet = o
                                     /\ (IF t > Week THEN t - Week ELSE 0) <= e[3]})

\* book_outlet_revenue on <<news, cash>>: the advertisers in turn, then the
\* subscribers, each up to what it has.
Charged(acc, payer, payee, cents) ==
    LET paid == Min({cents, acc.cash[payer]})
    IN  [acc EXCEPT !.cash = [@ EXCEPT ![payer] = @ - paid, ![payee] = @ + paid],
                    !.paid = paid]

BookOutletRevenue(n, cash, o, t) ==
    LET due == Impressions(n, o, t) * CentsPerImpression
        ad(acc, x) ==
            LET got == Charged(acc, x, Firm[o], Min({acc.due, acc.budget[x]}))
            IN  [got EXCEPT !.due = @ - got.paid, !.budget[x] = @ - got.paid]
        start == [cash |-> cash, budget |-> n.budget, due |-> due, paid |-> 0]
        ads == FoldLeft(ad, start, SetToSortSeq(DOMAIN n.budget, <))
    IN  IF Firm[o] = None THEN start
        ELSE FoldLeft(LAMBDA acc, s : Charged(acc, s, Firm[o], SubscriptionPrice),
                      ads, SetToSortSeq(Subscribers[o], <))

CloseBooks(n, cash, t) ==
    FoldLeft(LAMBDA acc, o :
                LET booked == BookOutletRevenue(acc.news, acc.cash, o, t)
                    seen == Impressions(acc.news, o, t)
                IN  [news |-> [acc.news EXCEPT !.budget = booked.budget,
                                  !.outletRows[o] = OutletRowBooked(@, seen)],
                     cash |-> booked.cash],
             [news |-> n, cash |-> cash], SetToSortSeq(LiveOutlets(n), <))

\* Mutant: an exposure moves the trust every week again.
TrustDueAgain(n) == {e \in n.exposures : n.articles[e[2]].accuracy # None}

\* update_outlet_trust: 0.05 of the way to the accuracy, as an update whose
\* source is an article of the outlet itself.
TrustDue(n) ==
    {e \in n.exposures \ n.trusted : n.articles[e[2]].accuracy # None}

UpdateOutletTrust(b, n) ==
    FoldLeft(LAMBDA c, e :
                LET prop == <<"trust", n.articles[e[2]].outlet>>
                    old == Current(c, e[1], prop)
                IN  ApplyLlmBeliefUpdates(c, e[1],
                        <<[prop |-> prop,
                           value |-> old.value
                                     + Scaled(n.articles[e[2]].accuracy - old.value, 50),
                           confidence |-> old.confidence, selfServing |-> TRUE]>>),
             b, SetToSortSeq(TrustDue(n), PairLess))
=============================================================================
