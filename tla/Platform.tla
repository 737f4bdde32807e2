------------------------------ MODULE Platform ------------------------------
(***************************************************************************)
(* The platform of polis/society/media/platform.py and the feed service of *)
(* polis/society/media/feed.py, with the posts, engagements and follows    *)
(* tables of society/projections.py.  A platform is a record               *)
(*   posts    the posts, numbered as they are published; their ids are     *)
(*            hashes, so that those of one tick sort in any order           *)
(*   follows  [<<follower, followee>> -> [start, ended]]                   *)
(*   eng      the engagements, a set of [post, agent, tick, type]          *)
(*   parent, last, closed  the CascadeTracker: parents of the noted posts, *)
(*            last tick of each root, report of each closed root           *)
(*   impr     the impressions no refit has used yet                        *)
(*   learned  the number of impressions the refits used                    *)
(*   postRows, viewers, followRows  the tables                             *)
(* Text, topics and claims are left out; the score of a post is left open. *)
(***************************************************************************)
EXTENDS Beliefs

CONSTANTS FeedSlice,         \* posts a feed shows
          CandidateCap,      \* posts a pool holds
          FeedWindow,        \* ticks a post stays in the pools
          OutLimit,          \* floor(out-of-network quota * slice)
          CascadeIdle        \* ticks after which a cascade is closed

EmptyPlatform ==
    [posts |-> << >>, follows |-> << >>, eng |-> {}, parent |-> << >>,
     last |-> << >>, closed |-> << >>, impr |-> {}, learned |-> 0,
     postRows |-> << >>, viewers |-> {}, followRows |-> << >>]

Followees(p, a) == {f \in {k[2] : k \in LiveIn(p.follows)} : <<a, f>> \in LiveIn(p.follows)}

(***************************************************************************)
(* Cascades                                                                *)
(***************************************************************************)
\* Mutant: every repost hangs from the root.
NotedUnderRoot(p, id, t) ==
    LET post == p.posts[id]
    IN  IF post.replyTo # None /\ post.repostOf = None THEN p
        ELSE [p EXCEPT !.parent = Put(@, id, IF post.repostOf = None THEN None ELSE post.root),
                       !.last = Put(@, post.root, t)]

\* note: a comment is no node; the repost of a comment hangs from the root.
Noted(p, id, t) ==
    LET post == p.posts[id]
        parent == IF post.repostOf \in DOMAIN p.parent \cup {None}
                  THEN post.repostOf ELSE post.root
    IN  IF post.replyTo # None /\ post.repostOf = None THEN p
        ELSE [p EXCEPT !.parent = Put(@, id, parent), !.last = Put(@, post.root, t)]

\* depth_for: the parent may be a root that was not noted.
DepthOf(p) ==
    LET depth[id \in DOMAIN p.parent] ==
            IF p.parent[id] = None THEN 0
            ELSE IF p.parent[id] \notin DOMAIN p.parent THEN 1 ELSE 1 + depth[p.parent[id]]
    IN  depth

NodesOf(p, root) == {id \in DOMAIN p.parent : p.posts[id].root = root}

Report(p, root) ==
    LET nodes == NodesOf(p, root)
        views == {e \in p.eng : e.post \in nodes /\ e.type = "view"}
        ticks == {p.posts[n].tick : n \in nodes}
    IN  [size |-> Cardinality(nodes),
         depth |-> Max({DepthOf(p)[n] : n \in nodes}),
         breadth |-> Max({0} \cup {Cardinality({n \in nodes : p.parent[n] = m})
                                      : m \in {p.parent[n] : n \in nodes} \ {None}}),
         reach |-> Cardinality({e.agent : e \in views}),
         impressions |-> Cardinality(views),
         reposters |-> Cardinality({p.posts[n].author : n \in nodes \ {root}}),
         lifetime |-> Max(ticks) - Min(ticks)]

CloseDue(p, t) ==
    LET due == {r \in DOMAIN p.last \ DOMAIN p.closed : t - p.last[r] >= CascadeIdle}
    IN  [p EXCEPT !.closed = [r \in DOMAIN @ \cup due |->
                                IF r \in due THEN Report(p, r) ELSE @[r]]]

(***************************************************************************)
(* Posts, engagements, follows                                             *)
(***************************************************************************)
\* Row of POST_PUBLISHED.
PostRowInserted(p, post) == [p EXCEPT !.postRows = Append(@, post)]

Published(p, post, t) ==
    LET id == Len(p.posts) + 1
        new == post @@ [tick |-> t, reach |-> 0,
                        root |-> IF post.repostOf # None THEN p.posts[post.repostOf].root
                                 ELSE IF post.replyTo \in DOMAIN p.posts
                                      THEN p.posts[post.replyTo].root
                                 ELSE id]
    IN  PostRowInserted([p EXCEPT !.posts = Append(@, new)], new)

Viewed(p, id) == {e.agent : e \in {f \in p.eng : f.post = id /\ f.type = "view"}}

\* Mutant: the table counts every view.
EngagedRowsEveryView(p, a, id, type) ==
    IF type # "view" THEN p
    ELSE [p EXCEPT !.postRows[id].reach = @ + 1, !.viewers = @ \cup {<<id, a>>}]

\* Rows of POST_ENGAGED: only the first view of a viewer counts.
EngagedRows(p, a, id, type) ==
    IF type # "view" \/ <<id, a>> \in p.viewers THEN p
    ELSE [p EXCEPT !.postRows[id].reach = @ + 1, !.viewers = @ \cup {<<id, a>>}]

Engage(p, a, id, type, t) ==
    LET new == [post |-> id, agent |-> a, tick |-> t, type |-> type]
        q == [p EXCEPT !.eng = @ \cup {new}]
    IN  IF id \notin DOMAIN p.posts \/ new \in p.eng THEN p
        ELSE EngagedRows([q EXCEPT !.posts[id].reach =
                             IF type = "view" THEN Cardinality(Viewed(q, id)) ELSE @],
                         a, id, type)

Publish(p, a, stance, replyTo, t) ==
    LET q == Published(p, [author |-> a, stance |-> stance, replyTo |-> replyTo,
                           repostOf |-> None], t)
    IN  Noted(q, Len(q.posts), t)

Repost(p, a, source, t) ==
    LET q == Published(p, [author |-> a, stance |-> p.posts[source].stance,
                           replyTo |-> None, repostOf |-> source], t)
    IN  Noted(Engage(q, a, source, "repost", t), Len(q.posts), t)

\* Row of FOLLOW_CREATED, which may re-open one.
FollowRowOpened(rows, k, t) == Put(rows, k, [start |-> t, ended |-> None])

\* Row of FOLLOW_ENDED: FollowsProjection does nothing, since its second branch tests
\* for OUTLET_REVENUE_BOOKED, which it does not handle.
FollowRowClosed(rows, k, t) == rows

Follow(p, a, b, t) ==
    IF a = b \/ <<a, b>> \in LiveIn(p.follows) THEN p
    ELSE [p EXCEPT !.follows = Put(@, <<a, b>>, [start |-> t, ended |-> None]),
                   !.followRows = FollowRowOpened(@, <<a, b>>, t)]

Unfollow(p, a, b, t) ==
    IF <<a, b>> \notin LiveIn(p.follows) THEN p
    ELSE [p EXCEPT !.follows[<<a, b>>].ended = t,
                   !.followRows = FollowRowClosed(@, <<a, b>>, t)]

(***************************************************************************)
(* Feeds                                                                   *)
(***************************************************************************)
InWindow(p, t) == {id \in DOMAIN p.posts : t - FeedWindow < p.posts[id].tick}

\* _dedupe: the newest post of each root, of those of one tick any.
Deduped(p, ids) ==
    LET roots == {p.posts[i].root : i \in ids}
        newest(r) == {i \in ids : /\ p.posts[i].root = r
                                  /\ \A j \in ids : p.posts[j].root = r =>
                                                       p.posts[j].tick <= p.posts[i].tick}
    IN  {s \in SUBSET ids : /\ Cardinality(s) = Cardinality(roots)
                            /\ \A r \in roots : s \cap newest(r) # {}}

\* _truncate and the chronological order: the n newest, of those of one tick any.
Newest(p, ids, n) ==
    {s \in kSubset(Min({n, Cardinality(ids)}), ids) :
        \A i \in s, j \in ids \ s : p.posts[j].tick <= p.posts[i].tick}

Truncated(p, ids) == UNION {Newest(p, s, CandidateCap) : s \in Deduped(p, ids)}

InNetwork(p, a, t, excludeEngaged) ==
    LET engaged == {e.post : e \in {f \in p.eng : f.agent = a}}
        rows == {id \in InWindow(p, t) : p.posts[id].author \in Followees(p, a) \ {a}}
    IN  Truncated(p, IF excludeEngaged THEN rows \ engaged ELSE rows)

Citywide(p, a, t) == Truncated(p, {id \in InWindow(p, t) : p.posts[id].author # a})

\* _mixed_pool: the shuffled rest of the city fills the pool up to its cap.
MixedPools(p, a, t) ==
    LET room(inside, out) == Min({CandidateCap - Cardinality(inside), Cardinality(out)})
    IN  UNION {{inside \cup some : some \in kSubset(room(inside, city \ inside), city \ inside)}
               : inside \in InNetwork(p, a, t, FALSE), city \in Citywide(p, a, t)}

\* The adversarial ranker drops a post without a stance and one that would not
\* move the reader away from the mean.
Disperses(p, b, g, a, id) ==
    LET post == p.posts[id]
        held == {k \in DOMAIN b.mem : k[2] = <<"policy">>}
        before == Current(b, a, <<"policy">>).value
        mean == IF held = {} THEN 0
                ELSE FoldSet(LAMBDA k, s : s + b.mem[k].value, 0, held)
                     \div Cardinality(held)
        after == Project(b, g, a, <<"policy">>, post.stance, post.author, "media").value
    IN  /\ post.stance # None
        /\ Distance(after, mean) > Distance(before, mean)

Pools(p, b, g, a, t, algorithm) ==
    CASE algorithm = "chronological" -> InNetwork(p, a, t, TRUE)
      [] algorithm = "random"        -> Citywide(p, a, t)
      [] algorithm = "engagement"    -> MixedPools(p, a, t)
      [] algorithm = "adversarial"   ->
            {{id \in pool : Disperses(p, b, g, a, id)} : pool \in MixedPools(p, a, t)}

\* _rank: in the order of the scores (any order but for the chronological
\* feed) until the slice is full, skipping strangers beyond the quota.
Feeds(p, b, g, a, t, algorithm) ==
    LET out(ids) == {id \in ids : p.posts[id].author \notin Followees(p, a)}
        quota == IF algorithm \in {"engagement", "adversarial"} THEN OutLimit ELSE FeedSlice
        full(pool, ids) ==
            /\ Cardinality(ids) <= FeedSlice
            /\ Cardinality(out(ids)) <= quota
            /\ \/ Cardinality(ids) = FeedSlice
               \/ \A id \in pool \ ids : id \in out(pool) /\ Cardinality(out(ids)) = quota
    IN  UNION {IF algorithm = "chronological" THEN Newest(p, pool, FeedSlice)
               ELSE {ids \in SUBSET pool : full(pool, ids)}
               : pool \in Pools(p, b, g, a, t, algorithm)}

\* build_all after the ranking: one view and one impression per post served.
Served(p, feeds, t) ==
    LET shown == SetToSortSeq({<<a, id>> \in (DOMAIN feeds) \X (DOMAIN p.posts) : id \in feeds[a]},
                              PairLess)
    IN  FoldLeft(LAMBDA q, s : [Engage(q, s[1], s[2], "view", t) EXCEPT
                                  !.impr = @ \cup {[tick |-> t, agent |-> s[1], post |-> s[2]]}],
                 p, shown)

\* impressions_for_refit and refit: the impressions of the day before.
Refit(p, day) ==
    LET rows == {i \in p.impr : i.tick = day}
    IN  [p EXCEPT !.impr = {i \in @ : i.tick > day}, !.learned = @ + Cardinality(rows)]
=============================================================================
