--------------------------- MODULE MCMatchFilters ---------------------------
EXTENDS MatchFilters, FiniteSetsExt, Functions

Default == [percent |-> 90, memePercent |-> 95, annoy |-> 170, meme |-> TRUE,
            title |-> 0, sameSub |-> FALSE, days |-> 0, older |-> TRUE,
            author |-> TRUE, cross |-> TRUE, dead |-> FALSE, text |-> 50]
MCConfig == [k \in {"image", "link", "text"} |->
               CASE k = "image" -> Default
                 [] k = "link"  -> [Default EXCEPT !.days = 7, !.dead = TRUE]
                 [] k = "text"  -> [Default EXCEPT !.days = 7, !.sameSub = TRUE, !.dead = TRUE]]
MCSubRow == [target_image_match |-> 90, target_image_meme_match |-> 95, meme_filter |-> FALSE,
             check_title_similarity |-> FALSE, target_title_match |-> 50,
             same_sub_only |-> FALSE, target_days_old |-> 0, filter_same_author |-> TRUE,
             filter_crossposts |-> TRUE, target_text_distance |-> 50]

\* At most two parameters differ from their defaults; a request always has a
\* target, of which 0 stands for the default.
Params == [target_match_percent : {75}, target_title_match : {50},
           filter_dead_matches : {TRUE}, only_older_matches : {FALSE},
           filter_same_author : {FALSE}, include_crossposts : BOOLEAN,
           target_meme_match_percent : {80}, meme_filter : {FALSE},
           same_sub : {TRUE}, max_days_old : {0, 4}]
ColumnValues ==
           [target_image_match : {75}, target_image_meme_match : {80}, meme_filter : {TRUE},
            check_title_similarity : {TRUE}, same_sub_only : {TRUE}, target_days_old : {4},
            filter_same_author : {FALSE}, filter_crossposts : {FALSE},
            target_text_distance : {20}]
Upto2(R) == LET D == DOMAIN (CHOOSE r \in R : TRUE)
            IN  UNION {{Restrict(r, P) : r \in R} : P \in kSubset(0, D) \cup kSubset(1, D) \cup kSubset(2, D)}

MCOrders ==
    [kind : {"image", "link", "text"}, from : {"default"}, post : {TRUE}, asked : {<<>>}]
    \cup [kind : {"image"}, from : {"request"}, post : BOOLEAN,
           asked : {p @@ [target_match_percent |-> 0] : p \in Upto2(Params)}]
    \cup [kind : {"image", "link", "text"}, from : {"sub"}, post : {TRUE}, asked : Upto2(ColumnValues)]

MCChecked == [id |-> "c", age |-> 4, author |-> "me", sub |-> "here"]

\* Posts that fit, and posts that fail to in one respect, or at its boundary.
Good(i, a) == [id |-> i, author |-> "other", crosspost |-> FALSE, age |-> a, sub |-> "here",
               title |-> 100, annoy |-> 0, ham |-> 0, meme |-> 0, hashable |-> TRUE,
               live |-> TRUE, state |-> "up", stored |-> TRUE, distance |-> 90]
Variants(i, a) ==
    LET g == Good(i, a)
    IN  {g, [g EXCEPT !.author = "me"], [g EXCEPT !.crosspost = TRUE], [g EXCEPT !.age = 4],
         [g EXCEPT !.age = 9], [g EXCEPT !.sub = "there"], [g EXCEPT !.title = 50],
         [g EXCEPT !.ham = 2], [g EXCEPT !.ham = 5], [g EXCEPT !.ham = 14],
         [g EXCEPT !.annoy = 171], [g EXCEPT !.meme = 1], [g EXCEPT !.meme = 9],
         [g EXCEPT !.hashable = FALSE], [g EXCEPT !.live = FALSE],
         [g EXCEPT !.state = "removed"], [g EXCEPT !.state = "unlisted"],
         [g EXCEPT !.stored = FALSE], [g EXCEPT !.distance = 30], [g EXCEPT !.id = "c"]}
\* Posts that a filter which does not see the others could confuse.
Confusing(i, a) == {p \in Variants(i, a) : p.crosspost \/ p.age # a \/ p.id # i \/ p.state # "up"
                        \/ p.ham # 0 \/ p.meme # 0 \/ ~ p.hashable \/ ~ p.live}
MCAnswers == {<<>>, <<Good("a", 6), Good("b", 8), Good("a", 6)>>}
             \cup {<<a, Good("b", 8)>> : a \in Variants("a", 6)}
             \cup {<<Good("a", 6), b>> : b \in Variants("b", 8)}
             \cup {<<a, Good("b", 8), Good("d", 8)>> : a \in Confusing("a", 6)}
             \cup {s \in Confusing("a", 6) \X Confusing("b", 8) : s[1].id # s[2].id}
=============================================================================
