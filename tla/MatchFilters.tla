----------------------------- MODULE MatchFilters ---------------------------
(***************************************************************************)
(* One search for the posts that another post, or an image, repeats:        *)
(* check_image of DuplicateImageService, link_search and                    *)
(* text_search_by_post, with the settings they are given and the filters    *)
(* they share (filter_search_results).                                      *)
(*                                                                         *)
(* The settings come from the configuration (searches at ingest), from a    *)
(* request of the site, or from the row of a monitored sub.  A None or 0    *)
(* that the code tests for its truth is 0.  Distances are whole numbers,    *)
(* ages count half days.                                                    *)
(***************************************************************************)
EXTENDS Integers, Sequences, FiniteSets, SequencesExt

CONSTANTS
    Config,     \* [{"image", "link", "text"} -> Settings], default_<kind>_...
    SubRow,     \* the columns of a monitored sub that steer a search
    Orders,     \* the ways a search is ordered, see Settings
    Answers,    \* sequences of posts an index or the database can answer, see Post
    Checked,    \* the post that is searched for
    HashSize, MemeHashSize,     \* characters of a hash, of a meme hash
    ChunkSize   \* posts in one request to the utility API, 100

\* The columns of SearchSettings that are read.
SearchSettings ==
    [percent : Int, memePercent : Int, annoy : Int, title : Int, days : Int, text : Int,
     meme : BOOLEAN, sameSub : BOOLEAN, older : BOOLEAN, author : BOOLEAN,
     cross : BOOLEAN, dead : BOOLEAN]

\* Parameters of a request and columns of a sub; what is no number is a switch.
Columns == {"target_image_match", "target_image_meme_match", "meme_filter",
            "check_title_similarity", "target_title_match", "same_sub_only",
            "target_days_old", "filter_same_author", "filter_crossposts",
            "target_text_distance"}
Numbers == {"target_image_match", "target_image_meme_match", "target_title_match",
            "target_days_old", "target_text_distance", "target_match_percent",
            "target_meme_match_percent", "max_days_old"}
Typed(f) == \A p \in DOMAIN f : f[p] \in IF p \in Numbers THEN Int ELSE BOOLEAN

\* A row of post, with its distances to the post or image that is searched for.
Post == [id : STRING \ {"none"}, author : STRING, sub : STRING, state : STRING,
         age : Int, title : Int, annoy : Int, distance : Int,
         ham : 0..HashSize, meme : 0..MemeHashSize,
         crosspost : BOOLEAN, hashable : BOOLEAN, live : BOOLEAN, stored : BOOLEAN]

ASSUME FiltersAssumption ==
    /\ HashSize \in Nat \ {0} /\ MemeHashSize \in Nat \ {0}
    /\ ChunkSize \in Nat \ {0}
    /\ Config \in [{"image", "link", "text"} -> SearchSettings]
    /\ DOMAIN SubRow = Columns /\ Typed(SubRow)
    /\ Checked.age \in Int
    /\ \A o \in Orders : /\ o.kind \in DOMAIN Config
                         /\ o.from \in {"default", "request", "sub"}
                         /\ o.post \in BOOLEAN /\ Typed(o.asked)
                         /\ o.from = "request" => /\ o.kind = "image"
                                                 /\ "target_match_percent" \in DOMAIN o.asked
                         /\ o.from # "request" => o.post
                         /\ o.from = "default" => DOMAIN o.asked = {}
                         /\ o.from = "sub" => DOMAIN o.asked \subseteq Columns

\* A post is found with the row it has, however many indexes know it.
ASSUME AnswersAssumption ==
    \A a \in Answers : /\ a \in Seq(Post)
                      /\ \A i, j \in DOMAIN a : a[i].id = a[j].id => a[i] = a[j]

VARIABLES
    order,      \* what is searched for, and with which parameters
    meme,       \* the index API knows a template of the image, its meme hash can be made
    answer,     \* of the index API, or of the database
    step,
    settings,   \* made by the caller; check_image overwrites its percent
    template,   \* search_results.meme_template is set
    matches, closest,
    skipped,    \* posts the utility API gave no answer for
    found       \* what the filters were given
vars == <<order, meme, answer, step, settings, template, matches, closest, skipped, found>>

NoMatch == [id |-> "none"]
Ids(ms) == {ms[i].post.id : i \in DOMAIN ms}
-----------------------------------------------------------------------------
\* The settings.

Given(p)     == p \in DOMAIN order.asked
IfGiven(p, d)   == IF Given(p) THEN order.asked[p] ELSE d
OrDefault(p, d) == IF Given(p) /\ order.asked[p] # 0 THEN order.asked[p] ELSE d

\* get_image_search_settings_from_request; a request without a
\* target_match_percent is refused before it is a search, one with 0 gets the
\* default.
FromRequest ==
    LET c == Config["image"]
    IN  [c EXCEPT !.percent = OrDefault("target_match_percent", @),
                  !.title   = OrDefault("target_title_match", @),
                  !.dead    = IfGiven("filter_dead_matches", @),
                  !.older   = IfGiven("only_older_matches", @),
                  !.author  = IfGiven("filter_same_author", @),
                  !.cross   = ~ IfGiven("include_crossposts", ~ @),
                  !.memePercent = OrDefault("target_meme_match_percent", @),
                  !.meme    = IfGiven("meme_filter", @),
                  !.sameSub = IfGiven("same_sub", @),
                  !.days    = OrDefault("max_days_old", Config["link"].days)]

\* The row of the sub; filter_dead_matches is left at its default, FALSE, and
\* the setting made from filter_removed_matches is read by no filter.
FromSub ==
    LET row == [c \in Columns |-> IfGiven(c, SubRow[c])]
    IN  [percent |-> row.target_image_match,
         memePercent |-> row.target_image_meme_match,
         annoy   |-> Config["image"].annoy,
         meme    |-> row.meme_filter,
         title   |-> IF row.check_title_similarity THEN row.target_title_match ELSE 0,
         sameSub |-> row.same_sub_only,
         days    |-> row.target_days_old,
         older   |-> TRUE,
         author  |-> row.filter_same_author,
         cross   |-> row.filter_crossposts,
         dead    |-> FALSE,
         text    |-> row.target_text_distance]

\* The settings of each way to order a search.
Settings ==
    CASE order.from = "default" -> Config[order.kind]
      [] order.from = "request" -> FromRequest
      [] order.from = "sub"     -> FromSub
-----------------------------------------------------------------------------
\* The matches.

\* The elements of ms at the places in S, those first that come before the others.
Arrange(ms, S, before) ==
    LET rank(i) == Cardinality({j \in S : <<j, i>> \in before})
    IN  [k \in 1..Cardinality(S) |-> ms[CHOOSE i \in S : rank(i) = k]]

\* The list of those that pass a test, in the order they have.
Only(ms, S) == Arrange(ms, S, {p \in S \X S : p[1] <= p[2]})
Filter(ms, Test(_)) == Only(ms, {i \in DOMAIN ms : Test(ms[i])})

Match(p) == [post |-> p, ham |-> p.ham, size |-> HashSize, title |-> 0]

\* Mutant: every index may answer the same post.
RemoveDuplicates_None(ms) == ms

RemoveDuplicates(ms) ==
    Only(ms, {i \in DOMAIN ms : \A j \in 1..(i - 1) : ms[j].post.id # ms[i].post.id})

\* get_hamming_from_percent: distance <= size - percent / 100 * size.
WithinPercent(distance, percent, size) == 100 * distance <= (100 - percent) * size

\* Mutant: a match of the same second is taken for older.
NewerFilter_SameTime(m) == m.post.age >= Checked.age

\* filter_newer_matches
NewerFilter(m) == m.post.age > Checked.age

\* filter_days_old_matches counts whole days.
DaysFilter(m) == m.post.age \div 2 <= settings.days

\* filter_title_distance
TitleFilter(m) == m.title > settings.title

SamePostFilter(m)  == m.post.id # Checked.id
AuthorFilter(m)    == m.post.author # Checked.author
CrossPostFilter(m) == ~ m.post.crosspost
SameSubFilter(m)   == m.post.sub = Checked.sub

\* filter_search_results up to the utility API, with a post to compare with.
Passes(m) ==
    /\ SamePostFilter(m)
    /\ settings.author  => AuthorFilter(m)
    /\ settings.cross   => CrossPostFilter(m)
    /\ settings.older   => NewerFilter(m)
    /\ settings.sameSub => SameSubFilter(m)
    /\ settings.title > 0 => TitleFilter(m)
    /\ settings.days > 0  => DaysFilter(m)

Chunk(i) == (i - 1) \div ChunkSize

\* filter_removed_posts_util_api: what the API says of the chunks it answers, in
\* the order of its answer, a post it does not list is dropped; the chunks it
\* does not answer are kept.
Listed(ms, down) ==
    {i \in DOMAIN ms : Chunk(i) \in down \/ ms[i].post.state = "up"}
Reported(ms, down) ==
    {[i \in DOMAIN s |-> ms[s[i]]] :
        s \in {t \in SetToSeqs(Listed(ms, down)) :
                 \A i \in 1..(Len(t) - 1) :
                    \/ Chunk(t[i]) < Chunk(t[i + 1])
                    \/ /\ Chunk(t[i]) = Chunk(t[i + 1])
                       /\ Chunk(t[i]) \in down => t[i] < t[i + 1]}}

\* get_closest_image_match: highest percent first, ties in the order they have.
\* Mutant: lowest percent first.
Closest_Reversed(ms, valid) ==
    LET live == {i \in DOMAIN ms : valid => ms[i].post.live}
    IN  IF live = {} THEN 0
        ELSE CHOOSE i \in live :
                \A j \in live : ms[j].ham < ms[i].ham \/ (ms[j].ham = ms[i].ham /\ i <= j)

Closest(ms, valid) ==
    LET live == {i \in DOMAIN ms : valid => ms[i].post.live}
    IN  IF live = {} THEN 0
        ELSE CHOOSE i \in live :
                \A j \in live : ms[j].ham > ms[i].ham \/ (ms[j].ham = ms[i].ham /\ i <= j)

\* sort_reposts by created_at; the sort is stable.
Before(ms) == {p \in (DOMAIN ms) \X (DOMAIN ms) :
                 \/ ms[p[1]].post.age > ms[p[2]].post.age
                 \/ ms[p[1]].post.age = ms[p[2]].post.age /\ p[1] <= p[2]}
SortReposts(ms) == Arrange(ms, DOMAIN ms, Before(ms))
-----------------------------------------------------------------------------
Init ==
    /\ order \in Orders
    /\ meme \in IF order.kind = "image" THEN {"no", "template", "nohash"} ELSE {"no"}
    /\ answer \in Answers
    /\ step = "search"
    /\ settings = Settings
    /\ template = FALSE
    /\ matches = <<>> /\ found = <<>>
    /\ closest = NoMatch
    /\ skipped = {}

\* What the filters start from.  Titles are compared for images only.
Begin(ms) ==
    LET titled == order.kind = "image" /\ order.post /\ settings.title > 0
    IN  /\ matches' = [i \in DOMAIN ms |->
                          IF titled THEN [ms[i] EXCEPT !.title = ms[i].post.title] ELSE ms[i]]
        /\ found' = matches'
        /\ step' = "filter"

\* Mutant: the target of the memes is taken for both hashes.
DetectMeme_OneTarget ==
    /\ template' = (settings.meme /\ meme = "template")
    /\ settings' = IF settings.meme /\ meme # "no"
                   THEN [settings EXCEPT !.percent = settings.memePercent] ELSE settings

\* _get_meme_template and the meme hash of the image; without the hash the meme
\* filter is switched off, and the target stays at 100.
DetectMeme ==
    /\ template' = (settings.meme /\ meme = "template")
    /\ settings' = IF settings.meme /\ meme # "no"
                   THEN [settings EXCEPT !.percent = 100] ELSE settings

CheckImage ==
    /\ step = "search" /\ order.kind = "image"
    /\ DetectMeme
    /\ Begin(RemoveDuplicates([i \in DOMAIN answer |-> Match(answer[i])]))
    /\ UNCHANGED <<order, meme, answer, closest, skipped>>

LinkSearch ==
    /\ step = "search" /\ order.kind = "link"
    /\ Begin([i \in DOMAIN answer |-> Match(answer[i])])
    /\ UNCHANGED <<order, meme, answer, settings, template, closest, skipped>>

\* A post that the text index knows and the database does not is passed over.
TextSearch ==
    /\ step = "search" /\ order.kind = "text"
    /\ LET stored == Filter(answer, LAMBDA p : p.stored)
       IN  Begin([i \in DOMAIN stored |-> Match(stored[i])])
    /\ UNCHANGED <<order, meme, answer, settings, template, closest, skipped>>

\* NoIndexException and IndexApiException; a link search needs no index.
SearchFails ==
    /\ step = "search" /\ order.kind # "link"
    /\ step' = "failed"
    /\ UNCHANGED <<order, meme, answer, settings, template, matches, closest, skipped, found>>

FilterSearchResults ==
    /\ step = "filter"
    /\ LET passed == IF order.post THEN Filter(matches, Passes) ELSE matches
       IN  IF order.post /\ settings.dead
           THEN \E down \in SUBSET {Chunk(i) : i \in DOMAIN passed} :
                  /\ matches' \in Reported(passed, down)
                  /\ skipped' = {passed[i].post.id : i \in {j \in DOMAIN passed : Chunk(j) \in down}}
           ELSE matches' = passed /\ UNCHANGED skipped
    /\ step' = IF order.kind = "image"
               THEN IF matches = <<>> THEN "done" ELSE "closest"
               ELSE IF order.kind = "text" THEN "text" ELSE "done"
    /\ UNCHANGED <<order, meme, answer, settings, template, closest, found>>

\* The API answers 200 with what is no listing, or with an id the batch does not
\* have.  The second puts a None among the matches, which the search, or saving
\* its first match, then fails on; behind the first match of a link it would be
\* reported, and is no post.
FilterFails ==
    /\ step = "filter" /\ order.post /\ settings.dead
    /\ Filter(matches, Passes) # <<>>
    /\ step' = "failed"
    /\ UNCHANGED <<order, meme, answer, settings, template, matches, closest, skipped, found>>

\* text_distance_filter
TextFilter ==
    /\ step = "text"
    /\ matches' = Filter(matches, LAMBDA m : m.post.distance >= settings.text)
    /\ step' = "done"
    /\ UNCHANGED <<order, meme, answer, settings, template, closest, skipped, found>>

\* The closest match of a meme gets its distance in meme hashes; a hash that
\* cannot be made ends the search with a TypeError.
SetClosest ==
    /\ step = "closest"
    /\ LET i == Closest(matches, template \/ settings.dead)
       IN  IF i = 0 \/ 100 * (HashSize - matches[i].ham) <= 40 * HashSize
           THEN step' = "distance" /\ UNCHANGED <<matches, closest>>
           ELSE IF template /\ ~ matches[i].post.hashable
           THEN step' = "failed" /\ UNCHANGED <<matches, closest>>
           ELSE /\ matches' = IF template
                              THEN [matches EXCEPT ![i].ham = matches[i].post.meme,
                                                   ![i].size = MemeHashSize]
                              ELSE matches
                /\ closest' = matches'[i].post
                /\ step' = "distance"
    /\ UNCHANGED <<order, meme, answer, settings, template, skipped, found>>

\* annoy_distance_filter and hamming_distance_filter
DistanceFilter ==
    /\ step = "distance"
    /\ matches' = Filter(matches, LAMBDA m :
                    /\ m.post.annoy <= settings.annoy
                    /\ WithinPercent(m.ham, settings.percent, HashSize))
    /\ step' = IF template THEN "meme" ELSE "sort"
    /\ UNCHANGED <<order, meme, answer, settings, template, closest, skipped, found>>

\* _final_meme_filter; a cached hash is that of the same image.
MemeFilter ==
    /\ step = "meme"
    /\ LET near == Filter(matches, LAMBDA m :
                     /\ m.post.hashable
                     /\ WithinPercent(m.post.meme, settings.memePercent, MemeHashSize))
       IN  matches' = [i \in DOMAIN near |->
                         [near[i] EXCEPT !.ham = near[i].post.meme, !.size = MemeHashSize]]
    /\ step' = "sort"
    /\ UNCHANGED <<order, meme, answer, settings, template, closest, skipped, found>>

Sort ==
    /\ step = "sort"
    /\ matches' = SortReposts(matches)
    /\ step' = "done"
    /\ UNCHANGED <<order, meme, answer, settings, template, closest, skipped, found>>

Next ==
    \/ CheckImage \/ LinkSearch \/ TextSearch \/ SearchFails
    \/ FilterSearchResults \/ FilterFails \/ TextFilter
    \/ SetClosest \/ DistanceFilter \/ MemeFilter \/ Sort

Spec == Init /\ [][Next]_vars
-----------------------------------------------------------------------------
TypeOK ==
    /\ order.kind \in DOMAIN Config
    /\ meme \in {"no", "template", "nohash"}
    /\ step \in {"search", "filter", "text", "closest", "distance", "meme", "sort",
                 "done", "failed"}
    /\ settings.percent \in {Settings.percent, 100} /\ template \in BOOLEAN
    /\ Ids(matches) \subseteq Ids(found)
    /\ closest = NoMatch \/ closest.id \in Ids(found)
    /\ \A i \in DOMAIN matches : matches[i].ham \in 0..matches[i].size

\* What a search is to find among the posts it was given.  The filters run in a
\* fixed order, overwrite distances and targets on the way, and read settings
\* that are made anew for every way to order a search; this asks of each post
\* only what the docstrings of the settings say.  Within the last day of
\* max_days_old, and where the utility API gave no answer, either is right; the
\* closest match of a meme is held to all of its meme hash.  No title is
\* compared in a search for links or texts, so a title target leaves nothing.
Fits(p, days) ==
    /\ order.post =>
         /\ p.id # Checked.id
         /\ ~ (settings.author /\ p.author = Checked.author)
         /\ p.crosspost => IF Given("include_crossposts")
                           THEN order.asked["include_crossposts"] ELSE ~ settings.cross
         /\ settings.older => p.age > Checked.age
         /\ ~ (settings.sameSub /\ p.sub # Checked.sub)
         /\ settings.title > 0 => order.kind = "image" /\ p.title > settings.title
         /\ settings.days > 0 => p.age < 2 * days
    /\ order.kind = "text" => p.distance >= settings.text
    /\ order.kind = "image" =>
         /\ p.annoy <= settings.annoy
         /\ IF settings.meme /\ meme # "no"
            THEN IF template /\ p = closest THEN p.meme = 0 ELSE p.ham = 0
            ELSE 100 * (HashSize - p.ham) >= Settings.percent * HashSize
    /\ template => /\ p.hashable
                   /\ 100 * (MemeHashSize - p.meme) >= settings.memePercent * MemeHashSize

ResultIsWanted ==
    step = "done" =>
        \A i \in DOMAIN found :
            LET p == found[i].post
                dead == order.post /\ settings.dead /\ p.state # "up"
            IN  /\ p.id \in Ids(matches)
                   => Fits(p, settings.days + 1) /\ (dead => p.id \in skipped)
                /\ Fits(p, settings.days) /\ ~ dead => p.id \in Ids(matches)

\* The post that is named as the original of an image is the oldest of all that
\* are reported, and no post is reported twice however many indexes know it.
OldestFirst ==
    step = "done" /\ order.kind = "image" =>
        \A i, j \in DOMAIN matches : i < j =>
            /\ matches[i].post.age >= matches[j].post.age
            /\ matches[i].post.id # matches[j].post.id

\* No reported match is closer to the image than the one that is named the
\* closest, unless its picture is gone.
ClosestIsBest ==
    step = "done" /\ order.kind = "image" =>
        \A i \in DOMAIN matches :
            \/ (template \/ settings.dead) /\ ~ matches[i].post.live
            \/ closest # NoMatch /\ closest.ham <= matches[i].post.ham
            \/ closest = NoMatch /\ 100 * (HashSize - matches[i].post.ham) <= 40 * HashSize

\* "Has to be after closest match so we don't drop closest": a closest match
\* within the target of the memes is among the reported ones.
ClosestIsKept ==
    /\ step = "done" /\ template /\ closest # NoMatch
    /\ closest.ham = 0 /\ closest.annoy <= settings.annoy
    /\ WithinPercent(closest.meme, settings.memePercent, MemeHashSize)
    => closest.id \in Ids(matches)
=============================================================================
