------------------------------- MODULE Media -------------------------------
(***************************************************************************)
(* Communication in polis: CommunicationResolver (society/comms.py) over   *)
(* the social graph, the platform, the beliefs and the newsroom, in the    *)
(* phases of SocietyRuntime (society/runtime.py).  A tick perceives (feeds *)
(* and inboxes), collects actions whose gates are checked against the      *)
(* state of that moment, resolves them by actor, ages the ties, and closes *)
(* with the cascades, the refit and the newsroom's cadences.               *)
(*                                                                         *)
(* comms holds conv, the active conversations by id; msgs, the messages in *)
(* the order of tick and id; and offers, the last BEFRIEND of each ordered *)
(* pair.  loc is the world's place of each agent, seen the places of the   *)
(* last observation.  What an agent says is its stance on one proposition. *)
(* musings counts what the reflections of each agent have written on each  *)
(* proposition.                                                            *)
(***************************************************************************)
EXTENDS News

CONSTANTS Agents,          \* numbers
          Places,
          Owner, Rent,     \* per place: its owner (or None) and the fee
          Officials,       \* agents with a public role
          Themes,          \* inputs explored together, with a bound on their number
          Algorithms,      \* values of society.feed_algorithm
          InboxSlice,      \* messages read per tick
          MaxDms,          \* max_dms_per_tick
          IdleTicks,       \* conversation_idle_ticks
          BefriendWindow,  \* ticks a BEFRIEND stays open
          Drafts,          \* per outlet: what a call may return
          StartCash,       \* [Agents \cup firms -> cents]
          LastTick         \* bound on the ticks of a behaviour

VARIABLES tick, stage, queue, inputs, theme, algorithm, graph, comms, plat,
          bel, musings, news, cash, loc, seen, feeds

vars == <<tick, stage, queue, inputs, theme, algorithm, graph, comms, plat,
          bel, musings, news, cash, loc, seen, feeds>>

Genesis ==
    LET kin == Form(EmptyGraph, 1, 2, "kin", "household", 0)
        met == Form(kin, 1, 3, "acquaintance", "befriend", 0)
    IN  IF theme.friends THEN Transition(met, <<1, 3, "acquaintance">>, "friend", 0) ELSE kin

Init ==
    /\ tick = 0 /\ stage = "perceive" /\ queue = << >> /\ inputs = 0
    /\ theme \in Themes
    /\ algorithm \in IF theme.posts THEN Algorithms ELSE {"chronological"}
    /\ graph = Genesis
    /\ comms = [conv |-> << >>, msgs |-> << >>, offers |-> << >>]
    /\ plat = EmptyPlatform
    /\ bel = IF theme.stances
             THEN SetPriors(NoBeliefs, 1, <<"policy">>, [value |-> -300, confidence |-> 350])
             ELSE NoBeliefs
    /\ musings = << >>
    /\ news = EmptyNews
    /\ cash = StartCash
    /\ loc = [a \in Agents |-> theme.at[a]]
    /\ seen = loc
    /\ feeds = [a \in Agents |-> {}]

Stay(next) == stage' = next /\ UNCHANGED <<tick, theme, algorithm>>

(***************************************************************************)
(* Perception: SocietyRuntime.phase1                                       *)
(***************************************************************************)
Unread(a) ==
    {m \in DOMAIN comms.msgs :
        comms.msgs[m].to = a /\ comms.msgs[m].tick < tick /\ comms.msgs[m].read = None}

\* messages_for: the first of the unread ones, sorted by tick and id.
Inbox(a) == {m \in Unread(a) : Cardinality({k \in Unread(a) : k < m}) < InboxSlice}

AllFeeds ==
    FoldSet(LAMBDA a, fs : {Put(f, a, s) : f \in fs,
                                           s \in Feeds(plat, bel, graph, a, tick, algorithm)},
            {<< >>}, Agents)

Perceive ==
    /\ stage = "perceive"
    /\ \E f \in AllFeeds :
          /\ feeds' = f
          /\ plat' = Served(plat, f, tick)
    /\ comms' = [comms EXCEPT !.msgs = [m \in DOMAIN @ |->
                    IF m \in Inbox(@[m].to) THEN [@[m] EXCEPT !.read = tick] ELSE @[m]]]
    /\ seen' = loc
    /\ Stay("act")
    /\ UNCHANGED <<queue, inputs, graph, bel, musings, news, cash, loc>>

(***************************************************************************)
(* Intake: the gates of the resolvers                                      *)
(***************************************************************************)
CoLocated(a) == {b \in Agents \ {a} : seen[b] = seen[a]}

FeeOf(a, place) == IF Owner[place] \in {None, a} THEN 0 ELSE Rent[place]

DmsToday(a, b) ==
    Cardinality({m \in DOMAIN comms.msgs :
        /\ comms.msgs[m].from = a /\ comms.msgs[m].to = b /\ comms.msgs[m].tick = tick})

Staff(o) == Reporters[o] \cup {Editor[o]}

EmployerOf(a) == {o \in LiveOutlets(news) : a \in Staff(o)}

Passes(i) ==
    CASE i.type = "SAY" -> CoLocated(i.actor) # {}
      [] i.type = "DIRECT_MESSAGE" ->
            /\ \/ Tied(graph, i.actor, i.to)
               \/ i.to \in Followees(plat, i.actor)
               \/ i.actor \in Followees(plat, i.to)
               \/ i.to \in Officials
            /\ DmsToday(i.actor, i.to) < MaxDms
      [] i.type = "BROADCAST" ->
            /\ i.actor \in Officials \/ Owner[seen[i.actor]] = i.actor
            /\ cash[i.actor] >= FeeOf(i.actor, seen[i.actor])
      [] i.type = "PUBLISH_ARTICLE" ->
            EmployerOf(i.actor) # {} /\ Min(EmployerOf(i.actor)) = i.outlet
      [] i.type = "RETRACT" ->
            /\ i.article \in DOMAIN news.articles
            /\ EmployerOf(i.actor) # {}
            /\ i.actor = Editor[news.articles[i.article].outlet]
            /\ news.articles[i.article].retracted = None
      [] OTHER -> TRUE

\* Own actions by actor, then those of the news resolver; the order of the
\* actions of one actor is that of their ids, any order.
RankIn(i) == IF i.type \in {"PUBLISH_ARTICLE", "RETRACT"} THEN 100 + i.actor ELSE i.actor

Submit(i) ==
    /\ stage = "act"
    /\ inputs < theme.most
    /\ queue # << >> => RankIn(Last(queue)) <= RankIn(i)
    /\ Passes(i)
    /\ queue' = Append(queue, i)
    /\ inputs' = inputs + 1
    /\ Stay("act")
    /\ UNCHANGED <<graph, comms, plat, bel, musings, news, cash, loc, seen, feeds>>

\* What other parts of the world do before communication is resolved.
Outside(i) ==
    /\ stage = "act" /\ queue = << >>
    /\ inputs < theme.most
    /\ inputs' = inputs + 1
    /\ Stay("act")
    /\ UNCHANGED <<queue, comms, plat, cash, seen, feeds>>

Travel(i) ==
    /\ i.type = "TRAVEL" /\ Outside(i)
    /\ loc' = [loc EXCEPT ![i.actor] = i.place]
    /\ UNCHANGED <<graph, bel, musings, news>>

Die(i) ==
    /\ i.type = "DIE" /\ Outside(i)
    /\ graph' = EndAllFor(graph, i.actor, tick)
    /\ UNCHANGED <<bel, musings, news, loc>>

Mused(m, k) == IF k \in DOMAIN m THEN m[k] ELSE 0

Reflect(i) ==
    /\ i.type = "REFLECT" /\ Outside(i)
    /\ bel' = ApplyLlmBeliefUpdates(bel, i.actor, i.updates)
    /\ musings' = FoldLeft(LAMBDA m, u : Put(m, <<i.actor, u.prop>>, Mused(m, <<i.actor, u.prop>>) + 1),
                           musings, Prepared(i.updates))
    /\ UNCHANGED <<graph, news, loc>>

Happen(i) ==
    /\ i.type = "HAPPEN" /\ Outside(i)
    /\ news' = [news EXCEPT !.stories = Append(@, [tick |-> tick, public |-> i.public,
                                                   holders |-> i.holders])]
    /\ UNCHANGED <<graph, bel, musings, loc>>

Cultivate(i) ==
    /\ i.type = "CULTIVATE" /\ Outside(i)
    /\ MayCultivate(graph, i.actor, i.source)
    /\ news' = Cultivated(news, i.actor, i.source, tick)
    /\ UNCHANGED <<graph, bel, musings, loc>>

CloseOutlet(i) ==
    /\ i.type = "CLOSE" /\ Outside(i)
    /\ i.outlet \in LiveOutlets(news)
    /\ news' = OutletClosed(news, i.outlet, tick)
    /\ UNCHANGED <<graph, bel, musings, loc>>

Resolving ==
    /\ stage = "act"
    /\ Stay("resolve")
    /\ UNCHANGED <<queue, inputs, graph, comms, plat, bel, musings, news, cash, loc, seen, feeds>>

(***************************************************************************)
(* Resolution: CommunicationResolver._resolve_one                          *)
(***************************************************************************)
Next1(type) ==
    /\ stage = "resolve" /\ queue # << >> /\ Head(queue).type = type
    /\ queue' = Tail(queue)
    /\ Stay("resolve")
    /\ UNCHANGED <<inputs, musings, loc, seen, feeds>>

\* attention, with its noise; the crowd term of a handful of agents is small.
Attention(speaker, listener, addressed, noise) ==
    Clamped(0, 1000, 300 + Scaled(500, Strength(graph, speaker, listener))
                         + (IF addressed THEN 200 ELSE 0) + noise)

HearingThreshold == 350

\* open_or_join: an active conversation here that holds all participants.
Joinable(place, members) ==
    {c \in DOMAIN comms.conv : comms.conv[c].place = place /\ members \subseteq comms.conv[c].members}

Turned(conv, c, speaker) ==
    [conv EXCEPT ![c] = [@ EXCEPT !.members = @ \cup {speaker}, !.turn = @ + 1, !.last = tick]]

ConversationsOf(i) ==
    LET members == {i.actor} \cup i.to
        here == Joinable(seen[i.actor], members)
        fresh == <<seen[i.actor], members, tick>>
    IN  IF i.joins /\ comms.conv # << >> THEN DOMAIN comms.conv
        ELSE IF here # {} THEN here ELSE {fresh}

Opened(c) ==
    IF c \in DOMAIN comms.conv THEN comms.conv
    ELSE Put(comms.conv, c, [place |-> c[1], members |-> c[2], turn |-> 0, last |-> tick])

Say ==
    /\ Next1("SAY")
    /\ LET i == Head(queue)
       IN  \E c \in ConversationsOf(i), noise \in [CoLocated(i.actor) -> {-50, 49}] :
             LET att(b) == Attention(i.actor, b, b \in i.to, noise[b])
                 heard == {b \in CoLocated(i.actor) : att(b) >= HearingThreshold}
                 turned == Turned(Opened(c), c, i.actor)
             IN  /\ comms' = [comms EXCEPT !.conv = IF i.closing THEN Without(turned, c)
                                                                 ELSE turned]
                 /\ graph' = FoldLeft(LAMBDA g, b : StageInteraction(g, i.actor, b,
                                                        "conversation", att(b)),
                                      graph, SetToSortSeq(heard, <))
                 /\ bel' = IF i.stance = None THEN bel
                           ELSE FoldLeft(LAMBDA d, b : Apply(d, graph, b, <<"policy">>, i.stance,
                                                             "social", i.actor),
                                         bel, SetToSortSeq(heard, <))
    /\ UNCHANGED <<plat, news, cash>>

\* The id of a message is a hash: it may sort before others of the tick.
DirectMessage ==
    /\ Next1("DIRECT_MESSAGE")
    /\ LET i == Head(queue)
           older == Cardinality({m \in DOMAIN comms.msgs : comms.msgs[m].tick < tick})
       IN  /\ \E place \in (older + 1)..(Len(comms.msgs) + 1) :
                comms' = [comms EXCEPT !.msgs = InsertAt(@, place,
                            [from |-> i.actor, to |-> i.to, tick |-> tick, read |-> None])]
           /\ graph' = StageInteraction(graph, i.actor, i.to, "dm", 1000)
    /\ UNCHANGED <<plat, bel, news, cash>>

\* The fee is checked at intake and charged here: a payer that can no longer
\* pay raises, and the tick is lost.
Broadcast ==
    /\ Next1("BROADCAST")
    /\ LET i == Head(queue)
           fee == FeeOf(i.actor, loc[i.actor])
       IN  /\ cash[i.actor] >= fee
           /\ cash' = IF fee = 0 THEN cash
                      ELSE [cash EXCEPT ![i.actor] = @ - fee, ![Owner[loc[i.actor]]] = @ + fee]
    /\ UNCHANGED <<graph, comms, plat, bel, news>>

BroadcastRaises ==
    /\ stage = "resolve" /\ queue # << >> /\ Head(queue).type = "BROADCAST"
    /\ cash[Head(queue).actor] < FeeOf(Head(queue).actor, loc[Head(queue).actor])
    /\ Stay("raised")
    /\ UNCHANGED <<queue, inputs, graph, comms, plat, bel, musings, news, cash, loc, seen, feeds>>

\* A reply to a post that nobody knows is a root, but no node of its cascade.
PublishPost ==
    /\ Next1("POST")
    /\ plat' = Publish(plat, Head(queue).actor, Head(queue).stance, Head(queue).replyTo, tick)
    /\ UNCHANGED <<graph, comms, bel, news, cash>>

RepostPost ==
    /\ Next1("REPOST") /\ Head(queue).post \in DOMAIN plat.posts
    /\ plat' = Repost(plat, Head(queue).actor, Head(queue).post, tick)
    /\ UNCHANGED <<graph, comms, bel, news, cash>>

RepostRaises ==
    /\ stage = "resolve" /\ queue # << >> /\ Head(queue).type = "REPOST"
    /\ Head(queue).post \notin DOMAIN plat.posts
    /\ Stay("raised")
    /\ UNCHANGED <<queue, inputs, graph, comms, plat, bel, musings, news, cash, loc, seen, feeds>>

Like ==
    /\ Next1("LIKE")
    /\ plat' = Engage(plat, Head(queue).actor, Head(queue).post, "like", tick)
    /\ UNCHANGED <<graph, comms, bel, news, cash>>

Comment ==
    /\ Next1("COMMENT")
    /\ LET i == Head(queue)
       IN  plat' = IF i.post \notin DOMAIN plat.posts THEN plat
                   ELSE Engage(Publish(plat, i.actor, plat.posts[i.post].stance, i.post, tick),
                               i.actor, i.post, "comment", tick)
    /\ UNCHANGED <<graph, comms, bel, news, cash>>

FollowAgent ==
    /\ Next1("FOLLOW")
    /\ LET i == Head(queue)
       IN  /\ plat' = Follow(plat, i.actor, i.to, tick)
           /\ graph' = IF plat' = plat THEN graph
                       ELSE FormedIfNew(graph, i.actor, i.to, "platform", tick)
    /\ UNCHANGED <<comms, bel, news, cash>>

UnfollowAgent ==
    /\ Next1("UNFOLLOW")
    /\ plat' = Unfollow(plat, Head(queue).actor, Head(queue).to, tick)
    /\ UNCHANGED <<graph, comms, bel, news, cash>>

Befriended(g, a, b, prior) ==
    LET met == FormedIfNew(g, a, b, "befriend", tick)
        k == Key(a, b, "acquaintance")
    IN  IF prior # None /\ tick - prior <= BefriendWindow /\ k \in LiveIn(met.ties)
        THEN Transition(met, k, "friend", tick) ELSE met

Befriend ==
    /\ Next1("BEFRIEND")
    /\ LET i == Head(queue)
           prior == IF <<i.to, i.actor>> \in DOMAIN comms.offers
                    THEN comms.offers[<<i.to, i.actor>>] ELSE None
       IN  /\ comms' = [comms EXCEPT !.offers = Put(@, <<i.actor, i.to>>, tick)]
           /\ graph' = Befriended(graph, i.actor, i.to, prior)
    /\ UNCHANGED <<plat, bel, news, cash>>

PublishArticle ==
    /\ Next1("PUBLISH_ARTICLE")
    /\ LET i == Head(queue)
       IN  news' = ArticlePublished(news, Article(i.outlet, i.actor, None, i.draft, tick))
    /\ UNCHANGED <<graph, comms, plat, bel, cash>>

Retract ==
    /\ Next1("RETRACT")
    /\ news' = Retracted(news, Head(queue).article, tick)
    /\ UNCHANGED <<graph, comms, plat, bel, cash>>

(***************************************************************************)
(* The end of phase 5 and phase 7                                          *)
(***************************************************************************)
\* close_idle: idle conversations and those whose members are not all here.
CloseIdle(conv) ==
    LET kept == {c \in DOMAIN conv :
                    /\ tick - conv[c].last < IdleTicks
                    /\ \A a \in conv[c].members : loc[a] = conv[c].place}
    IN  [c \in kept |-> conv[c]]

Occupants == {{a \in Agents : loc[a] = place} : place \in Places}

EndResolution ==
    /\ stage = "resolve" /\ queue = << >>
    /\ comms' = [comms EXCEPT !.conv = CloseIdle(@)]
    /\ graph' = ApplyTick(Recorded(graph, Occupants, tick), tick)
    /\ Stay("close")
    /\ UNCHANGED <<queue, inputs, plat, bel, musings, news, cash, loc, seen, feeds>>

ClosePlatform ==
    /\ stage = "close"
    /\ plat' = LET closed == CloseDue(plat, tick)
               IN  IF tick > 0 THEN Refit(closed, tick - 1) ELSE closed
    /\ Stay("cycle")
    /\ UNCHANGED <<queue, inputs, graph, comms, bel, musings, news, cash, loc, seen, feeds>>

\* run_cycle over the live outlets; a rewrite matters only after a poor draft.
Cycles(n, o) ==
    UNION {{LET kept == Taken(n, o, s)
                draft == Reviewed(first, second)
            IN  IF s = {} \/ draft.grade # "ready" THEN kept
                ELSE ArticlePublished(kept, Article(o, Min(Reporters[o]), Min(s), draft, tick))
            : first \in Drafts[o], second \in Drafts[o]} : s \in StoryLists(n, o, tick)}

RunCycle ==
    /\ stage = "cycle"
    /\ \E n \in FoldSet(LAMBDA o, ns : UNION {Cycles(n, o) : n \in ns}, {news},
                        LiveOutlets(news)) :
         LET ids == DOMAIN n.articles \ DOMAIN news.articles
             readings == Readings(n, bel, Agents, ids)
         IN  /\ news' = Distributed(n, readings, ids, tick)
             /\ bel' = Persuaded(bel, graph, n, readings)
    /\ Stay("desk")
    /\ UNCHANGED <<queue, inputs, graph, comms, plat, musings, cash, loc, seen, feeds>>

\* check_pending every day; books and trust when a week starts.
NextTick ==
    /\ stage = "desk"
    /\ LET checked == CheckPending(news)
           books == CloseBooks(checked, cash, tick)
       IN  IF tick % Week = 0
           THEN /\ cash' = books.cash
                /\ bel' = UpdateOutletTrust(bel, books.news)
                /\ news' = [books.news EXCEPT !.trusted = @ \cup TrustDue(books.news)]
           ELSE /\ news' = checked
                /\ UNCHANGED <<bel, cash>>
    /\ IF tick < LastTick THEN stage' = "perceive" /\ tick' = tick + 1
                          ELSE stage' = "over" /\ tick' = tick
    /\ UNCHANGED <<queue, inputs, theme, algorithm, graph, comms, plat, musings, loc, seen, feeds>>

Ended ==
    /\ stage \in {"over", "raised"}
    /\ UNCHANGED vars

Next ==
    \/ Perceive
    \/ \E i \in theme.actions : Submit(i)
    \/ \E i \in theme.outside : Travel(i)
    \/ \E i \in theme.outside : Die(i)
    \/ \E i \in theme.outside : Reflect(i)
    \/ \E i \in theme.outside : Happen(i)
    \/ \E i \in theme.outside : Cultivate(i)
    \/ \E i \in theme.outside : CloseOutlet(i)
    \/ Resolving
    \/ Say \/ DirectMessage \/ Broadcast \/ BroadcastRaises
    \/ PublishPost \/ RepostPost \/ RepostRaises \/ Like \/ Comment
    \/ FollowAgent \/ UnfollowAgent \/ Befriend
    \/ PublishArticle \/ Retract
    \/ EndResolution \/ ClosePlatform \/ RunCycle \/ NextTick
    \/ Ended

Spec == Init /\ [][Next]_vars

(***************************************************************************)
(* Properties                                                              *)
(***************************************************************************)
\* The ranges of the values and of the control state.
TypeOK ==
    /\ tick \in 0..LastTick /\ inputs \in 0..theme.most
    /\ stage \in {"perceive", "act", "resolve", "close", "cycle", "desk", "over", "raised"}
    /\ \A k \in DOMAIN graph.ties :
          /\ graph.ties[k].strength \in 0..1000 /\ graph.ties[k].trust \in 0..1000
          /\ graph.ties[k].valence \in -1000..1000
    /\ \A k \in DOMAIN bel.mem :
          /\ bel.mem[k].value \in SpecOf(k[2]).lo..SpecOf(k[2]).hi
          /\ bel.mem[k].confidence \in 0..1000
    /\ \A x \in DOMAIN cash : cash[x] >= 0
    /\ \A x \in DOMAIN news.budget : news.budget[x] >= 0

\* Whatever two agents do to each other in a tick (talk, write, follow, offer
\* friendship both ways, drift apart, die), a pair has one live tie, and the
\* relationships table has the same ties with the same begin and end as the
\* repository (SocialGraph.form, end, transition, RelationshipsProjection).
TiesRebuilt ==
    /\ \A k, j \in LiveIn(graph.ties) : <<k[1], k[2]>> = <<j[1], j[2]>> => k = j
    /\ DOMAIN graph.rel = DOMAIN graph.ties
    /\ \A k \in DOMAIN graph.ties :
          /\ graph.rel[k].formed = graph.ties[k].formed
          /\ graph.rel[k].ended = graph.ties[k].ended

\* The posts, beliefs and articles tables, which only see the events, hold what
\* memory holds: a post's reach is the number of its distinct viewers, however
\* often it was shown, a belief is the sum of its drifts, an article's accuracy
\* and reach are those of the store (PostsProjection, BeliefsProjection,
\* ArticlesProjection).
RecordsRebuilt ==
    /\ bel.tab = bel.mem
    /\ plat.postRows = plat.posts
    /\ \A id \in DOMAIN plat.posts : plat.posts[id].reach = Cardinality(Viewed(plat, id))
    /\ \A id \in DOMAIN news.articles :
          LET m == news.articles[id] r == news.articleRows[id]
          IN  m.reach = r.reach /\ m.accuracy = r.accuracy /\ m.retracted = r.retracted

\* What the tables hold is what memory holds, whatever mixture of talk, messages,
\* follows, posts, views, deaths and reflections a day brings.
RecordsAgree == TypeOK /\ TiesRebuilt /\ RecordsRebuilt

\* A feed shows no own post and none outside the window, keeps the slice and the
\* quota of strangers, and the chronological feed shows one post per root and
\* none the agent has met before (FeedService._rank, _in_network).
FeedsRight ==
    stage = "act" => \A a \in Agents :
        LET strangers == {id \in feeds[a] : plat.posts[id].author \notin Followees(plat, a)}
            met == {e.post : e \in {f \in plat.eng : f.agent = a /\ f.tick < tick}}
        IN  /\ Cardinality(feeds[a]) <= FeedSlice
            /\ \A id \in feeds[a] : /\ plat.posts[id].author # a
                                    /\ plat.posts[id].tick > tick - FeedWindow
            /\ algorithm \in {"engagement", "adversarial"} => Cardinality(strangers) <= OutLimit
            /\ algorithm = "chronological" =>
                  /\ strangers = {} /\ feeds[a] \cap met = {}
                  /\ \A i, j \in feeds[a] : plat.posts[i].root = plat.posts[j].root => i = j

\* The engagement model learns from every impression once, on the day after it
\* was made (FeedService.impressions_for_refit, SocietyRuntime.phase7).
LearnedOnce ==
    /\ plat.learned + Cardinality(plat.impr)
          = Cardinality({e \in plat.eng : e.type = "view"})
    /\ \A i \in plat.impr : i.tick >= tick - 1

\* The repost chain of a post, a comment standing for its root.
ChainOf ==
    LET chain[id \in DOMAIN plat.posts] ==
            IF plat.posts[id].repostOf # None THEN 1 + chain[plat.posts[id].repostOf]
            ELSE 0
    IN  chain

\* The report of a closed cascade counts the root and every repost below it and
\* the longest chain, when nobody reposts afterwards.  A root that replies to a
\* post nobody knows is not among them: note leaves replies out (close_due).
CascadesRight ==
    \A root \in DOMAIN plat.closed :
        LET report == plat.closed[root]
            tree == {id \in DOMAIN plat.posts :
                        /\ plat.posts[id].root = root
                        /\ \/ id = root /\ plat.posts[id].replyTo = None
                           \/ plat.posts[id].repostOf # None}
            first == Min({plat.posts[id].tick : id \in tree})
            late == \E id \in tree : plat.posts[id].tick > first + report.lifetime
        IN  late \/ /\ report.size = Cardinality(tree)
                    /\ report.depth = Max({ChainOf[id] : id \in tree})
                    /\ report.reach <= report.impressions

\* Messages are read in the order of their ticks, those of one tick in that of
\* their ids, whichever was sent first, a slice per tick, and an agent with older
\* unread messages has read a full slice (messages_for, SocietyRuntime.phase1).
InboxInOrder ==
    /\ \A m, k \in DOMAIN comms.msgs :
          comms.msgs[m].to = comms.msgs[k].to /\ m < k /\ comms.msgs[k].read # None
             => /\ comms.msgs[m].tick <= comms.msgs[k].tick
                /\ comms.msgs[m].read # None /\ comms.msgs[m].read <= comms.msgs[k].read
    /\ stage = "act" => \A a \in Agents :
          Unread(a) # {} => Cardinality({m \in DOMAIN comms.msgs :
                               comms.msgs[m].to = a /\ comms.msgs[m].read = tick}) = InboxSlice

\* What is shown, learned from, reported and read is what was sent and posted.
ServedRight == FeedsRight /\ LearnedOnce /\ CascadesRight /\ InboxInOrder

\* A desk loses no story and writes it once: what it has discovered is in the
\* backlog or was handed to a reporter, and no outlet has two articles on one
\* story (NewsCycle.run_cycle).
StoriesAccounted ==
    \A o \in Outlets :
        /\ news.backlog[o] \cap news.taken[o] = {}
        /\ news.backlog[o] \cup news.taken[o] = 1..news.since[o]
        /\ \A i, j \in DOMAIN news.articles :
              LET x == news.articles[i] y == news.articles[j]
              IN  x.outlet = o /\ y.outlet = o /\ x.story = y.story /\ x.story # None => i = j

\* An agent's trust in an outlet moves only by articles of that outlet the agent
\* was shown and the checker could verify, each once, or by its own reflections,
\* which may write any proposition (docs/07-SOCIETY-SPEC.md:953), each by a step;
\* and money changes hands without being made (NewsCycle.update_outlet_trust,
\* apply_llm_belief_updates, book_outlet_revenue, CommunicationResolver._broadcast).
TrustEarned ==
    /\ news.trusted \subseteq news.exposures
    /\ \A e \in news.trusted : news.articles[e[2]].accuracy # None
    /\ \A k \in DOMAIN bel.mem : k[2][1] = "trust" =>
          LET used == {e \in news.trusted : e[1] = k[1] /\ news.articles[e[2]].outlet = k[2][2]}
              mused == Mused(musings, k)
              half == IF mused = 0 THEN 12 ELSE 25   \* half of 0.05 of the distance
          IN  /\ used # {} \/ mused > 0
              /\ Distance(bel.mem[k].value, 500)
                    <= half * Cardinality(used) + MaxStep * mused
    /\ FoldSet(LAMBDA x, s : s + cash[x], 0, DOMAIN cash)
          = FoldSet(LAMBDA x, s : s + StartCash[x], 0, DOMAIN StartCash)

\* A newsroom works its stories off once; its readers' trust comes from what they
\* were shown and what they thought, its revenue from what they were shown.
NewsroomSound == StoriesAccounted /\ TrustEarned

\* Unfollowing closes the row of the follows table (FollowsProjection).
FollowsRebuilt == plat.followRows = plat.follows
=============================================================================
