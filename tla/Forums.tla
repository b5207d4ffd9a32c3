--------------------------------- MODULE Forums --------------------------------
(***************************************************************************)
(* Where stakers speak with the weight of their stake: roadmap points,     *)
(* disputes about slashes, curated content, the news feed, comments on a   *)
(* proposal, the daily tip, and the quizzes that unlock tiers.  Each has   *)
(* storage of its own; texts and hashes are elements of small sets.        *)
(***************************************************************************)
EXTENDS PoolBase

CONSTANTS
    MaxItems,       \* model bound on ids of every kind
    Points,         \* points a roadmap vote may give
    PointsBudget,   \* VOTE_POINTS_BUDGET
    EpochLedgers,   \* ROADMAP_EPOCH_LEDGERS, LEDGERS_PER_DAY, the quota epoch
    Windows,        \* values for the dispute window
    MaxDisputes,    \* MAX_OPEN_DISPUTES
    Hashes,         \* content hashes
    MaxContent,     \* model bound on curated items
    QuotaOps,       \* values for operations_per_epoch
    NewsCap,        \* items kept in the feed
    ThreadCap,      \* MAX_COMMENTS_PER_PROPOSAL
    Tiers, Attempts \* tiers and attempts of a quiz

ASSUME ForumAssumption ==
    /\ MaxItems \in Nat /\ Points \subseteq Nat /\ PointsBudget \in Nat /\ EpochLedgers \in Nat \ {0}
    /\ Windows \subseteq Nat /\ Tiers \subseteq Nat /\ Attempts \subseteq Nat

Ids == 1..MaxItems

VARIABLES roadmap, disputes, curation, news, thread, tips, quizzes
forum_vars == <<roadmap, disputes, curation, news, thread, tips, quizzes>>

no_weights == [u \in Users |-> 0]

-------------------------------------------------------------------------------
\* Roadmap items and the points each user gave them in its epoch.
RoadmapInit ==
    roadmap = [live |-> {}, votes |-> [i \in Ids |-> 0], next |-> 1,
               alloc |-> [u \in Users |-> [i \in Ids |-> 0]], epoch |-> [u \in Users |-> NoLedger]]

add_roadmap_item ==
    /\ roadmap.next \in Ids
    /\ roadmap' = [roadmap EXCEPT !.live = @ \cup {roadmap.next}, !.next = @ + 1]

remove_roadmap_item(i) ==
    /\ i \in roadmap.live
    /\ roadmap' = [roadmap EXCEPT !.live = @ \ {i}, !.votes = [@ EXCEPT ![i] = 0]]

current_epoch == now \div EpochLedgers

\* Mutant: the points of an earlier epoch stay on the items.
vote_roadmap_item_kept(u, i, weight) ==
    LET fresh == roadmap.epoch[u] \notin {NoLedger, current_epoch}
        mine  == IF fresh THEN [j \in Ids |-> 0] ELSE roadmap.alloc[u]
        given == [mine EXCEPT ![i] = weight]
    IN  /\ shares[u] > 0 /\ i \in roadmap.live /\ weight <= PointsBudget
        /\ sum(given) <= PointsBudget
        /\ roadmap' = [roadmap EXCEPT !.votes[i] = @ + weight - mine[i],
                                      !.alloc[u] = given, !.epoch[u] = current_epoch]

\* A new epoch takes the old points back from every item that still exists first.
vote_roadmap_item(u, i, weight) ==
    LET fresh == roadmap.epoch[u] \notin {NoLedger, current_epoch}
        mine  == IF fresh THEN [j \in Ids |-> 0] ELSE roadmap.alloc[u]
        given == [mine EXCEPT ![i] = weight]
        back  == [j \in Ids |-> roadmap.votes[j] -
                      IF fresh /\ j \in roadmap.live THEN roadmap.alloc[u][j] ELSE 0]
    IN  /\ shares[u] > 0 /\ i \in roadmap.live /\ weight <= PointsBudget
        /\ sum(given) <= PointsBudget
        /\ roadmap' = [roadmap EXCEPT !.votes = [back EXCEPT ![i] = back[i] + weight - mine[i]],
                !.alloc = [@ EXCEPT ![u] = given], !.epoch = [@ EXCEPT ![u] = current_epoch]]

RoadmapNext ==
    \/ add_roadmap_item
    \/ \E i \in Ids : remove_roadmap_item(i) \/ \E u \in Users, w \in Points : vote_roadmap_item(u, i, w)

\* The votes of a live item are the points its voters have on it now, within budget.
points_live ==
    /\ \A i \in roadmap.live :
           roadmap.votes[i] = sum([u \in Users |-> roadmap.alloc[u][i]])
    /\ \A u \in Users : sum(roadmap.alloc[u]) <= PointsBudget

-------------------------------------------------------------------------------
\* Slashes, the disputes about them and the window; `paid' counts transfers to the treasury.
DisputeInit ==
    disputes = [window |-> 1, raised |-> FALSE, slash |-> <<>>, list |-> <<>>, open |-> 0,
                linked |-> [s \in Ids |-> 0], paid |-> [s \in Ids |-> 0]]

set_slash_dispute_window(w) ==
    disputes' = [disputes EXCEPT !.window = w, !.raised = @ \/ w > disputes.window]

record_slash(u, amount) ==
    /\ Len(disputes.slash) < MaxItems
    /\ disputes' = [disputes EXCEPT !.slash = Append(@, [user |-> u, amount |-> amount, at |-> now])]

dispute_slash(u, s) ==
    /\ disputes.slash[s].user = u
    /\ now <= disputes.slash[s].at + disputes.window
    /\ disputes.linked[s] = 0 /\ disputes.open < MaxDisputes /\ Len(disputes.list) < MaxItems
    /\ disputes' = [disputes EXCEPT
            !.list = Append(@, [slash |-> s, overturn |-> 0, uphold |-> 0, resolved |-> FALSE,
                                deadline |-> now + disputes.window, voted |-> no_weights]),
            !.open = @ + 1, !.linked = [@ EXCEPT ![s] = Len(disputes.list) + 1]]

vote_on_dispute(u, d, overturn) ==
    LET weight == amount_of(u)
        p      == disputes.list[d]
        voted  == [p EXCEPT !.overturn = @ + IF overturn THEN weight ELSE 0,
                            !.uphold = @ + IF overturn THEN 0 ELSE weight,
                            !.voted = [@ EXCEPT ![u] = weight]]
    IN  /\ ~p.resolved /\ now <= p.deadline
        /\ shares[u] > 0 /\ p.voted[u] = 0
        /\ disputes' = [disputes EXCEPT !.list = [@ EXCEPT ![d] = voted]]

\* Mutant: a dispute can be resolved before its deadline.
resolve_dispute_early(d) ==
    LET p == disputes.list[d]
        s == p.slash
    IN  /\ ~p.resolved
        /\ disputes' = [disputes EXCEPT
                !.list = [@ EXCEPT ![d] = [p EXCEPT !.resolved = TRUE]],
                !.open = @ - 1, !.linked = [@ EXCEPT ![s] = 0],
                !.paid = [@ EXCEPT ![s] = disputes.paid[s] + IF p.overturn > p.uphold THEN 0 ELSE 1]]
        /\ IF p.overturn > p.uphold THEN UNCHANGED <<wallet, held>>
           ELSE push(Admin, disputes.slash[s].amount)

\* Upheld, also by nobody: the slashed amount goes to the treasury out of the contract.
resolve_dispute(d) ==
    LET p == disputes.list[d]
        s == p.slash
    IN  /\ ~p.resolved /\ now > p.deadline
        /\ disputes' = [disputes EXCEPT
                !.list = [@ EXCEPT ![d] = [p EXCEPT !.resolved = TRUE]],
                !.open = @ - 1, !.linked = [@ EXCEPT ![s] = 0],
                !.paid = [@ EXCEPT ![s] = disputes.paid[s] + IF p.overturn > p.uphold THEN 0 ELSE 1]]
        /\ IF p.overturn > p.uphold THEN UNCHANGED <<wallet, held>>
           ELSE push(Admin, disputes.slash[s].amount)

DisputeNext ==
    \/ /\ \/ \E w \in Windows : set_slash_dispute_window(w)
          \/ \E u \in Users, a \in Amounts : record_slash(u, a)
          \/ \E u \in Users, s \in DOMAIN disputes.slash : dispute_slash(u, s)
          \/ \E u \in Users, d \in DOMAIN disputes.list, o \in BOOLEAN : vote_on_dispute(u, d, o)
       /\ UNCHANGED <<wallet, held>>
    \/ \E d \in DOMAIN disputes.list : resolve_dispute(d)

\* A slash is disputed, hence paid for, once, unless the window was lengthened meanwhile;
\* open disputes are counted.
slashes_settled_once ==
    /\ ~disputes.raised => \A s \in Ids : disputes.paid[s] <= 1
    /\ disputes.open = Cardinality({d \in DOMAIN disputes.list : ~disputes.list[d].resolved})

-------------------------------------------------------------------------------
\* Curated items in order of submission, the votes by hash, and the submitters' quota.
CurationInit ==
    curation = [items |-> <<>>, voted |-> [h \in Hashes |-> no_weights], epoch |-> 0, ops |-> 0,
                peak |-> 1, used |-> no_weights, start |-> [u \in Users |-> NoLedger]]

\* The usage of nobody is reset; `peak' remembers the largest quota there ever was.
set_quota_config(n) ==
    curation' = [curation EXCEPT !.epoch = EpochLedgers, !.ops = n, !.peak = Max({@, n})]

\* While no quota is configured the allowance is 0, which consume_quota takes at its word.
allowance(u) ==
    IF curation.epoch = 0 THEN 0
    ELSE IF totalShares = 0 THEN 1
    ELSE LET raw == (curation.ops * ((shares[u] * 10000) \div totalShares)) \div 10000
         IN  IF raw < 1 THEN 1 ELSE raw

stale_usage(u) ==
    \/ curation.start[u] = NoLedger
    \/ curation.epoch > 0 /\ now > curation.start[u] + curation.epoch

\* Mutant: a stale usage is emptied but keeps its start.
consume_quota_unstarted(u) ==
    LET used == (IF stale_usage(u) THEN 0 ELSE curation.used[u]) + 1
    IN  [ok |-> used <= allowance(u), used |-> used,
         start |-> IF curation.start[u] = NoLedger THEN now ELSE curation.start[u]]

\* consume_quota for one operation: the usage it leaves, and whether it is allowed.
consume_quota(u) ==
    LET used == (IF stale_usage(u) THEN 0 ELSE curation.used[u]) + 1
    IN  [ok |-> used <= allowance(u), used |-> used, start |-> IF stale_usage(u) THEN now ELSE curation.start[u]]

submit_content(u, h) ==
    LET quota == consume_quota(u)
    IN  /\ shares[u] > 0 /\ Len(curation.items) < MaxContent
        /\ quota.ok
        /\ curation' = [curation EXCEPT
                !.items = Append(@, [hash |-> h, author |-> u, at |-> now, for |-> 0, against |-> 0, closed |-> FALSE]),
                !.used[u] = quota.used, !.start[u] = quota.start]

\* The first item of a hash is the one that is voted on and closed, also after a resubmission.
first_of(h) == SelectInSeq(curation.items, LAMBDA it : it.hash = h)

vote_on_content(u, h, approve) ==
    /\ shares[u] > 0 /\ curation.voted[h][u] = 0
    /\ first_of(h) # 0 /\ ~curation.items[first_of(h)].closed
    /\ curation' = [curation EXCEPT
            !.items[first_of(h)].for = @ + IF approve THEN amount_of(u) ELSE 0,
            !.items[first_of(h)].against = @ + IF approve THEN 0 ELSE amount_of(u),
            !.voted[h][u] = amount_of(u)]

close_content_vote(h) ==
    /\ first_of(h) # 0 /\ ~curation.items[first_of(h)].closed
    /\ curation' = [curation EXCEPT !.items[first_of(h)].closed = TRUE]

CurationNext ==
    \/ \E n \in QuotaOps : set_quota_config(n)
    \/ \E h \in Hashes : close_content_vote(h)
           \/ \E u \in Users : submit_content(u, h) \/ \E a \in BOOLEAN : vote_on_content(u, h, a)

\* The usage is what was submitted since its epoch began, within the largest whole
\* quota however the stake and the configuration move; and every vote on a hash is counted once, on one item.
curation_fair ==
    /\ \A u \in Users : curation.start[u] # NoLedger =>
           /\ curation.used[u] = Cardinality({i \in DOMAIN curation.items :
                  curation.items[i].author = u /\ curation.items[i].at >= curation.start[u]})
           /\ curation.used[u] <= curation.peak
    /\ \A h \in Hashes :
           sum(curation.voted[h]) =
               sum([i \in DOMAIN curation.items |-> IF curation.items[i].hash = h
                                        THEN curation.items[i].for + curation.items[i].against ELSE 0])

-------------------------------------------------------------------------------
\* The feed: at most NewsCap items; the oldest unpromoted one makes room.
MaxNews == NewsCap + 1    \* model bound: one item more than the feed keeps

NewsInit == news = [items |-> <<>>, count |-> 0, voted |-> [i \in 0..MaxNews |-> {}]]

\* Mutant: the oldest item makes room, promoted or not.
make_room_oldest(items) == IF Len(items) >= NewsCap THEN RemoveAt(items, 1) ELSE items

make_room(items) ==
    LET i == SelectInSeq(items, LAMBDA it : ~it.promoted)
    IN  IF Len(items) >= NewsCap THEN RemoveAt(items, IF i = 0 THEN 1 ELSE i) ELSE items

submit_news_item(u) ==
    /\ shares[u] > 0 /\ news.count < MaxNews
    /\ news' = [news EXCEPT !.count = @ + 1,
            !.items = Append(make_room(@), [id |-> news.count, promote |-> 0, suppress |-> 0, promoted |-> FALSE])]

\* Promoted for good once twice the opposition is exceeded.
vote_news_item(u, i, promote) ==
    LET it == news.items[i]
        p  == it.promote + IF promote THEN shares[u] ELSE 0
        s  == it.suppress + IF promote THEN 0 ELSE shares[u]
    IN  /\ shares[u] > 0 /\ u \notin news.voted[it.id]
        /\ news' = [news EXCEPT !.voted[it.id] = @ \cup {u},
                !.items[i] = [it EXCEPT !.promote = p, !.suppress = s, !.promoted = @ \/ p > s * 2]]

suppress_item(i) == news' = [news EXCEPT !.items = RemoveAt(@, i)]

NewsNext ==
    \/ \E u \in Users : submit_news_item(u)
           \/ \E i \in DOMAIN news.items, p \in BOOLEAN : vote_news_item(u, i, p)
    \/ \E i \in DOMAIN news.items : suppress_item(i)

\* A promoted item makes room for a new one only when nothing unpromoted is left.
promoted_kept ==
    news'.count > news.count =>
        \/ \A i \in DOMAIN news.items : news.items[i].promoted
        \/ \A i \in DOMAIN news.items : news.items[i].promoted => news.items[i] \in ToSet(news'.items)

-------------------------------------------------------------------------------
\* Comments on a proposal, heaviest stake first; `posted' is every comment ever made.
ThreadInit == thread = [kept |-> <<>>, posted |-> <<>>]

\* Mutant: a comment also goes before its equals.
insert_comment_first(s, c) ==
    LET i == SelectInSeq(s, LAMBDA d : c.weight >= d.weight)
    IN  IF i = 0 THEN Append(s, c) ELSE InsertAt(s, i, c)

\* Before the first lighter comment, at the end otherwise.
insert_comment(s, c) ==
    LET i == SelectInSeq(s, LAMBDA d : c.weight > d.weight)
    IN  IF i = 0 THEN Append(s, c) ELSE InsertAt(s, i, c)

post_proposal_comment(u) ==
    LET c == [author |-> u, weight |-> shares[u], at |-> Len(thread.posted)]
        s == insert_comment(thread.kept, c)
    IN  /\ Len(thread.posted) < MaxItems + 1
        /\ thread' = [posted |-> Append(thread.posted, c),
                      kept |-> SubSeq(s, 1, IF Len(s) > ThreadCap THEN ThreadCap ELSE Len(s))]

ThreadNext == \E u \in Users : post_proposal_comment(u)

\* Insertion and truncation together keep the ThreadCap heaviest, the earlier before equals.
thread_is_top ==
    LET ahead(c, d) == c.weight > d.weight \/ (c.weight = d.weight /\ c.at < d.at)
        rank(c) == Cardinality({d \in ToSet(thread.posted) : ahead(d, c)}) + 1
    IN  \A c \in ToSet(thread.posted) :
            IF rank(c) <= ThreadCap THEN thread.kept[rank(c)] = c ELSE c \notin ToSet(thread.kept)

-------------------------------------------------------------------------------
\* Tips of each day, one per author and one vote per staker and day, and the featured tip.
Days == 0..(MaxLedger \div EpochLedgers)
today == now \div EpochLedgers

TipInit ==
    tips = [day |-> [d \in Days |-> <<>>], next |-> 0, author |-> [u \in Users |-> NoLedger],
            voted |-> [d \in Days |-> no_weights], featured |-> [day |-> NoLedger, id |-> 0, votes |-> 0]]

submit_daily_tip(u) ==
    /\ shares[u] > 0 /\ tips.author[u] # today /\ tips.next < MaxItems
    /\ LET listed == Append(tips.day[today], [id |-> tips.next, votes |-> 0])
       IN  tips' = [tips EXCEPT !.day = [@ EXCEPT ![today] = listed],
                                !.next = @ + 1, !.author = [@ EXCEPT ![u] = today]]

\* Mutant: one vote per tip rather than per day.
vote_daily_tip_each(u, i) ==
    /\ shares[u] > 0 /\ i \in DOMAIN tips.day[today]
    /\ tips.day[today][i].votes < shares[u]
    /\ tips' = [tips EXCEPT !.day[today][i].votes = @ + shares[u], !.voted[today][u] = shares[u]]

vote_daily_tip(u, i) ==
    /\ shares[u] > 0 /\ tips.voted[today][u] = 0
    /\ i \in DOMAIN tips.day[today]
    /\ LET tip    == tips.day[today][i]
           listed == [tips.day[today] EXCEPT ![i] = [tip EXCEPT !.votes = tip.votes + shares[u]]]
           voters == [tips.voted[today] EXCEPT ![u] = shares[u]]
       IN  tips' = [tips EXCEPT !.day = [@ EXCEPT ![today] = listed],
                                !.voted = [@ EXCEPT ![today] = voters]]

\* The first of the most voted, at any time, also again and for the day under way.
finalize_daily_tip(d) ==
    LET best == Max({tips.day[d][i].votes : i \in DOMAIN tips.day[d]})
        i    == SelectInSeq(tips.day[d], LAMBDA t : t.votes = best)
    IN  /\ tips.day[d] # <<>>
        /\ tips' = [tips EXCEPT !.featured = [day |-> d, id |-> tips.day[d][i].id, votes |-> best]]

TipNext ==
    \/ \E u \in Users : submit_daily_tip(u) \/ \E i \in Ids : vote_daily_tip(u, i)
    \/ \E d \in Days : finalize_daily_tip(d)

tips_voted_once ==
    \A d \in Days : sum([i \in DOMAIN tips.day[d] |-> tips.day[d][i].votes]) = sum(tips.voted[d])

-------------------------------------------------------------------------------
\* Quizzes, the quizzes a user completed, its attempts left (-1: none made) and its tier.
QuizInit ==
    quizzes = [list |-> <<>>, done |-> [u \in Users |-> {}], tier |-> no_weights,
               left |-> [u \in Users |-> [i \in Ids |-> -1]], wrong |-> [u \in Users |-> [i \in Ids |-> 0]]]

add_quiz(tier, attempts) ==
    /\ attempts > 0 /\ Len(quizzes.list) < MaxItems
    /\ quizzes' = [quizzes EXCEPT !.list = Append(@, [tier |-> tier, attempts |-> attempts])]

\* Mutant: the last attempt is not counted down.
submit_quiz_answer_again(u, i, right) ==
    LET left == IF quizzes.left[u][i] = -1 THEN quizzes.list[i].attempts ELSE quizzes.left[u][i]
    IN  /\ i \notin quizzes.done[u] /\ quizzes.left[u][i] # 0 /\ quizzes.wrong[u][i] < 3
        /\ quizzes' = IF right THEN [quizzes EXCEPT !.done[u] = @ \cup {i}]
                      ELSE [quizzes EXCEPT !.left[u][i] = IF left > 1 THEN left - 1 ELSE 1, !.wrong[u][i] = @ + 1]

submit_quiz_answer(u, i, right) ==
    LET quiz  == quizzes.list[i]
        left  == IF quizzes.left[u][i] = -1 THEN quiz.attempts ELSE quizzes.left[u][i]
        tier  == IF quiz.tier > quizzes.tier[u] THEN quiz.tier ELSE quizzes.tier[u]
        lefts == [quizzes.left[u] EXCEPT ![i] = left - 1]
        wrong == [quizzes.wrong[u] EXCEPT ![i] = quizzes.wrong[u][i] + 1]
    IN  /\ i \notin quizzes.done[u] /\ quizzes.left[u][i] # 0
        /\ quizzes' = IF right
             THEN [quizzes EXCEPT !.done = [@ EXCEPT ![u] = quizzes.done[u] \cup {i}], !.tier = [@ EXCEPT ![u] = tier]]
             ELSE [quizzes EXCEPT !.left = [@ EXCEPT ![u] = lefts], !.wrong = [@ EXCEPT ![u] = wrong]]

QuizNext ==
    \/ \E t \in Tiers, n \in Attempts : add_quiz(t, n)
    \/ \E u \in Users, i \in DOMAIN quizzes.list, r \in BOOLEAN : submit_quiz_answer(u, i, r)

\* A tier is earned by a completed quiz, and nobody answers wrong more often than allowed.
tiers_earned ==
    \A u \in Users :
        /\ quizzes.tier[u] = Max({0} \cup {quizzes.list[i].tier : i \in quizzes.done[u]})
        /\ \A i \in DOMAIN quizzes.list : quizzes.wrong[u][i] <= quizzes.list[i].attempts

-------------------------------------------------------------------------------
ForumInit == RoadmapInit /\ DisputeInit /\ CurationInit /\ NewsInit /\ ThreadInit /\ TipInit /\ QuizInit

\* The forum `f' is used; the pool goes on.
ForumNext(f) ==
    \/ f = "roadmap" /\ RoadmapNext /\ UNCHANGED <<base_vars, disputes, curation, news, thread, tips, quizzes>>
    \/ f = "dispute" /\ DisputeNext /\ UNCHANGED <<now, pool, rewardPool, roadmap, curation, news, thread, tips, quizzes>>
    \/ f = "curation" /\ CurationNext /\ UNCHANGED <<base_vars, roadmap, disputes, news, thread, tips, quizzes>>
    \/ f = "news" /\ NewsNext /\ UNCHANGED <<base_vars, roadmap, disputes, curation, thread, tips, quizzes>>
    \/ f = "thread" /\ ThreadNext /\ UNCHANGED <<base_vars, roadmap, disputes, curation, news, tips, quizzes>>
    \/ f = "tip" /\ TipNext /\ UNCHANGED <<base_vars, roadmap, disputes, curation, news, thread, quizzes>>
    \/ f = "quiz" /\ QuizNext /\ UNCHANGED <<base_vars, roadmap, disputes, curation, news, thread, tips>>
    \/ f \in {"roadmap", "curation", "thread"} /\ PoolMoves /\ UNCHANGED forum_vars
    \/ f \in {"dispute", "news", "tip"} /\ TimePasses /\ UNCHANGED forum_vars

===============================================================================
