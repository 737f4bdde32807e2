------------------------------ MODULE MCMedia ------------------------------
EXTENDS Media

SayTo(a, to, stance, closing, joins) ==
    [type |-> "SAY", actor |-> a, to |-> to, stance |-> stance, closing |-> closing,
     joins |-> joins]
To(type, a, b) == [type |-> type, actor |-> a, to |-> b]
On(type, a, post) == [type |-> type, actor |-> a, post |-> post]
PostOf(a, stance, replyTo) ==
    [type |-> "POST", actor |-> a, stance |-> stance, replyTo |-> replyTo]
Thinks(a, updates) == [type |-> "REFLECT", actor |-> a, updates |-> updates]
Update(prop, value, confidence) ==
    [prop |-> prop, value |-> value, confidence |-> confidence, selfServing |-> FALSE]
Moves(a, place) == [type |-> "TRAVEL", actor |-> a, place |-> place]
Told(public, holders) == [type |-> "HAPPEN", actor |-> 1, public |-> public, holders |-> holders]

Together == [a \in 1..3 |-> 1]
Apart == [a \in 1..3 |-> IF a = 2 THEN 2 ELSE 1]

Ties ==
    [most |-> 3, friends |-> FALSE, posts |-> FALSE, stances |-> FALSE, at |-> Apart,
     actions |-> {SayTo(1, {3}, None, FALSE, FALSE), SayTo(3, {1, 2}, None, FALSE, TRUE),
                  To("BEFRIEND", 1, 3), To("BEFRIEND", 3, 1), To("DIRECT_MESSAGE", 1, 3),
                  To("FOLLOW", 3, 2)},
     outside |-> {Moves(3, 2), [type |-> "DIE", actor |-> 3]}]

Posts ==
    [most |-> 3, friends |-> FALSE, posts |-> TRUE, stances |-> TRUE, at |-> Apart,
     actions |-> {PostOf(1, 1000, None), PostOf(2, None, 9), PostOf(3, None, 1), On("REPOST", 2, 1), On("REPOST", 3, 2), 
                  On("COMMENT", 3, 1), On("LIKE", 2, 1), To("FOLLOW", 3, 1), To("UNFOLLOW", 3, 1)},
     outside |-> {}]

Opinions ==
    [most |-> 3, friends |-> FALSE, posts |-> FALSE, stances |-> TRUE, at |-> Together,
     actions |-> {SayTo(2, {1}, 1000, TRUE, FALSE), SayTo(3, {1}, 1000, FALSE, FALSE)},
     outside |-> {Thinks(1, <<Update(<<"policy">>, -1000, 900)>>),
                  Thinks(1, <<Update(<<"unknown">>, 0, 0), Update(<<"policy">>, 2000, 1200),
                              Update(<<"policy">>, 900, 100)>>)}]

Venue ==
    [most |-> 3, friends |-> FALSE, posts |-> FALSE, stances |-> FALSE, at |-> Together,
     actions |-> {To("BROADCAST", 2, 0), To("BROADCAST", 3, 0),
                  To("DIRECT_MESSAGE", 1, 2), To("DIRECT_MESSAGE", 3, 2)},
     outside |-> {Moves(2, 2)}]

Desk ==
    [most |-> 3, friends |-> TRUE, posts |-> FALSE, stances |-> TRUE, at |-> Apart,
     actions |-> {[type |-> "PUBLISH_ARTICLE", actor |-> 1, outlet |-> 1,
                   draft |-> [claim |-> "supported", stance |-> None]],
                  [type |-> "RETRACT", actor |-> 2, article |-> 1]},
     outside |-> {Told(TRUE, {}), Told(FALSE, {3}),
                  [type |-> "CULTIVATE", actor |-> 1, source |-> 3],
                  [type |-> "CLOSE", actor |-> 1, outlet |-> 1],
                  Thinks(3, <<Update(<<"trust", 1>>, 1000, 900)>>)}]

AllThemes == {Ties, Posts, Opinions, Venue, Desk}

MCThemes == AllThemes
MCOwner == [p \in 1..2 |-> IF p = 1 THEN 3 ELSE None]
MCRent == [p \in 1..2 |-> 6]
MCEditor == [o \in 1..2 |-> 2]
MCReporters == [o \in 1..2 |-> IF o = 1 THEN {1} ELSE {3}]
MCFirm == [o \in 1..2 |-> IF o = 1 THEN 4 ELSE None]
MCSubscribers == [o \in 1..2 |-> IF o = 1 THEN {3} ELSE {}]
MCAdvertisers == [x \in {2, 3} |-> 3]
MCDrafts ==
    <<[grade : {"ready"}, claim : {"supported", "contradicted"}, stance : {1000}],
      [grade : {"poor", "invalid"}, claim : {"unverifiable"}, stance : {None}]
        \cup [grade : {"ready"}, claim : {"unverifiable"}, stance : {None}]>>
MCStartCash == [x \in 1..4 |-> IF x = 4 THEN 0 ELSE 10]

=============================================================================
