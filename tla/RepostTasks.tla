----------------------------- MODULE RepostTasks ----------------------------
(***************************************************************************)
(* What the ingest orders for each new post: check_image_repost_save and    *)
(* link_repost_check, with the rows of repost they write, the meme          *)
(* templates they make and the users they have told (notify_watch), and the *)
(* watches those users set and end.                                         *)
(*                                                                         *)
(* A search is one step: what it reports of the posts it can know is a      *)
(* constant here, and the subject of MatchFilters.  The task for texts is   *)
(* not ordered by the ingest.                                               *)
(***************************************************************************)
EXTENDS Naturals, Sequences, FiniteSets, FiniteSetsExt

CONSTANTS
    Images, Links,  \* posts, numbered in the order they were created
    Old,        \* those that are there, and checked, from the beginning
    Same,       \* [Posts -> SUBSET Posts], older posts a search finds
    Exact,      \* [Images -> SUBSET Images], those with an identical hash
    Near,       \* [Images -> SUBSET Images], those that pass the meme filter
    MemeSub,    \* images posted to a sub with meme in its name
    HighMatch,  \* number of matches that makes a template, 6
    Watched,    \* an image that a user may watch
    Rows,       \* ids of its rows of repost_watch
    InitialRows,    \* the sets of rows there may be at the beginning
    Workers,
    MaxRetries, \* 20
    MaxWishes,  \* bound on what the user does about watches
    MaxFaults   \* bound on calls that fail, and on workers that die

Posts == Images \cup Links

ASSUME RepostAssumption ==
    /\ Posts \subseteq Nat /\ IsFiniteSet(Posts) /\ Images \cap Links = {}
    /\ Same \in [Posts -> SUBSET Posts]
    /\ Exact \in [Images -> SUBSET Images] /\ Near \in [Images -> SUBSET Images]
    /\ \A p \in Posts : \A q \in Same[p] : q < p /\ (q \in Images <=> p \in Images)
    /\ \A p \in Images : Near[p] \subseteq Exact[p] /\ Exact[p] \subseteq Same[p]
    /\ MemeSub \subseteq Images /\ Old \subseteq Posts
    /\ Watched \in Images
    /\ InitialRows \subseteq SUBSET Rows
    /\ Rows \subseteq Nat /\ IsFiniteSet(Rows) /\ IsFiniteSet(Workers)
    /\ HighMatch \in Nat /\ MaxRetries \in Nat /\ MaxWishes \in Nat /\ MaxFaults \in Nat

Steps == {"idle", "url", "first", "second", "record", "watch", "link", "told"}
Jobs  == [step : Steps, post : Posts \cup {0}, tries : Nat,
          strict : BOOLEAN,         \* the settings ask for an identical hash
          template : BOOLEAN,       \* the search used a template
          found : SUBSET Posts,
          ids : SUBSET Rows]        \* the watches to tell of
Idle  == [step |-> "idle", post |-> 0, tries |-> 0, strict |-> FALSE,
          template |-> FALSE, found |-> {}, ids |-> {}]

VARIABLES
    saved,      \* posts in the database
    indexed,    \* images the index API searches
    queue,      \* <<post, tries>> of the tasks that wait
    notes,      \* <<post, ids>> of the tasks of notify_watch that wait
    job,        \* [Workers -> Jobs]
    templates,  \* [Images -> Nat], rows of meme_template made from an image
    learned,    \* images whose template the index API serves
    reposts,    \* [Posts -> Seq(Posts)], the originals of its rows of repost
    row,        \* [Rows -> {"none", "on", "off"}], repost_watch
    replied,    \* the user has answered yes to the offer of a watch
    ended,      \* [Posts -> how its task ended]
    known,      \* [Posts -> what there was to find when it was saved]
    wish,       \* the user has a watch that is not ended: "none", "on", "off"
    stale,      \* watches that somebody was about to be told of when they ended
    wishes, faults
vars == <<saved, indexed, queue, notes, job, templates, learned, reposts,
          row, replied, ended, known, wish, stale, wishes, faults>>

Database == <<saved, indexed, templates, learned, reposts>>
Watches  == <<row, replied, wish, stale, wishes>>
History  == <<ended, known>>

Fault == faults < MaxFaults /\ faults' = faults + 1
Visible(p) == Same[p] \cap (IF p \in Images THEN indexed ELSE saved)
End(w, how) ==
    /\ job' = [job EXCEPT ![w] = Idle]
    /\ ended' = [ended EXCEPT ![job[w].post] = how]

Init ==
    /\ saved = Old /\ indexed = {}
    /\ queue = {} /\ notes = {}
    /\ job = [w \in Workers |-> Idle]
    /\ templates = [p \in Images |-> 0] /\ learned = {}
    /\ reposts = [p \in Posts |-> <<>>]
    /\ row \in {[i \in Rows |-> IF i \in I THEN "on" ELSE "none"] : I \in InitialRows}
    /\ replied = FALSE
    /\ ended = [p \in Posts |-> IF p \in Old THEN "done" ELSE "no"]
    /\ known = [p \in Posts |-> {}]
    /\ wish = IF \E i \in Rows : row[i] = "on" THEN "on" ELSE "none"
    /\ stale = {}
    /\ wishes = 0 /\ faults = 0
-----------------------------------------------------------------------------
\* The surroundings.

\* The ingest (see Ingest) saves a post and orders its check.
Save(p) ==
    /\ p \notin saved
    /\ saved' = saved \cup {p}
    /\ queue' = queue \cup {<<p, 0>>}
    /\ known' = [known EXCEPT ![p] = Visible(p)]
    /\ UNCHANGED <<indexed, notes, job, templates, learned, reposts,
                   Watches, ended, faults>>

IndexPost(p) ==
    /\ p \in saved \ indexed
    /\ indexed' = indexed \cup {p}
    /\ UNCHANGED <<saved, queue, notes, job, templates, learned, reposts,
                   Watches, History, faults>>

Learn(p) ==
    /\ templates[p] > 0 /\ p \notin learned
    /\ learned' = learned \cup {p}
    /\ UNCHANGED <<saved, indexed, queue, notes, job, templates, reposts,
                   Watches, History, faults>>
-----------------------------------------------------------------------------
\* check_image_repost_save

\* A template of the image itself, or of one that is like it.
HasTemplate(p) == ({p} \cup Exact[p]) \cap learned # {}

Take(w) ==
    /\ job[w].step = "idle"
    /\ \E t \in queue :
         /\ queue' = queue \ {t}
         /\ job' = [job EXCEPT ![w] =
                      [Idle EXCEPT !.step = IF t[1] \in Images THEN "url" ELSE "link",
                                   !.post = t[1], !.tries = t[2]]]
    /\ UNCHANGED <<Database, notes, Watches, History, faults>>

\* A deleted image is skipped: the task that is to delete its post fails, see
\* Housekeeping.  A request that times out ends the task.
CheckUrl(w) ==
    /\ job[w].step = "url"
    /\ \/ /\ job' = [job EXCEPT ![w].step = "first"]
          /\ UNCHANGED <<ended, faults>>
       \/ Fault /\ End(w, "skipped")
    /\ UNCHANGED <<Database, queue, notes, Watches, known>>

\* Mutant: one try too many.
Retry_OneMore(w) ==
    LET j == job[w]
    IN  /\ queue' = IF j.tries <= MaxRetries THEN queue \cup {<<j.post, j.tries + 1>>} ELSE queue
        /\ job' = [job EXCEPT ![w] = Idle]
        /\ ended' = IF j.tries <= MaxRetries THEN ended ELSE [ended EXCEPT ![j.post] = "exhausted"]

\* Mutant: a task that is to be tried again is not queued again.
Retry_Drops(w) ==
    /\ job' = [job EXCEPT ![w] = Idle]
    /\ ended' = IF job[w].tries < MaxRetries THEN ended
                ELSE [ended EXCEPT ![job[w].post] = "exhausted"]
    /\ UNCHANGED queue

\* autoretry_for
Retry(w) ==
    LET j == job[w]
    IN  /\ queue' = IF j.tries < MaxRetries THEN queue \cup {<<j.post, j.tries + 1>>} ELSE queue
        /\ job' = [job EXCEPT ![w] = Idle]
        /\ ended' = IF j.tries < MaxRetries THEN ended ELSE [ended EXCEPT ![j.post] = "exhausted"]

\* What check_image finds; the settings keep the target that a template set.
Report(p, strict, template) ==
    indexed \cap (IF template THEN Near[p] ELSE IF strict THEN Exact[p] ELSE Same[p])

\* check_image is called twice, with the same settings.  The index API may give
\* no template; or a meme hash fails, so that none is used, with the target set.
\* The row of repost_search may be lost, which nothing here depends on.
Search(w, step, next) ==
    /\ job[w].step = step
    /\ LET p == job[w].post
           finds(strict, template) ==
              job' = [job EXCEPT ![w].step = next, ![w].strict = strict,
                                 ![w].template = template,
                                 ![w].found = Report(p, strict, template)]
       IN  \/ /\ finds(job[w].strict \/ HasTemplate(p), HasTemplate(p))
              /\ UNCHANGED <<queue, ended, faults>>
           \/ /\ HasTemplate(p) /\ Fault
              /\ \E strict \in {job[w].strict, TRUE} : finds(strict, FALSE)
              /\ UNCHANGED <<queue, ended>>
           \/ Fault /\ Retry(w)                             \* NoIndexException
           \/ Fault /\ End(w, "failed") /\ UNCHANGED queue  \* any other
    /\ UNCHANGED <<Database, notes, Watches, known>>

FirstSearch(w)  == Search(w, "first", "second")
SecondSearch(w) == Search(w, "second", "record")

\* check_for_high_match_meme
NeedsTemplate(w) ==
    /\ ~ job[w].template
    /\ job[w].post \in MemeSub
    /\ Cardinality(job[w].found) >= HighMatch

\* Mutant: the row is written before the template is made.
MakeTemplate_AfterRow(w) ==
    /\ job[w].step = "record" /\ NeedsTemplate(w)
    /\ templates' = [templates EXCEPT ![job[w].post] = @ + 1]
    /\ reposts' = [reposts EXCEPT ![job[w].post] = Append(@, Min(job[w].found))]
    /\ Retry(w)
    /\ UNCHANGED <<saved, indexed, learned, notes, Watches, known, faults>>

MakeTemplate(w) ==
    /\ job[w].step = "record" /\ NeedsTemplate(w)
    /\ \/ /\ templates' = [templates EXCEPT ![job[w].post] = @ + 1]
          /\ Retry(w)
          /\ UNCHANGED faults
       \/ /\ Fault /\ End(w, "failed")
          /\ UNCHANGED <<templates, queue>>
    /\ UNCHANGED <<saved, indexed, learned, reposts, notes, Watches, known>>

\* Mutant: the newest match is named.
Original_Newest(found) == Max(found)

\* The first of the matches, which are sorted by age.
Original(found) == Min(found)

\* save_image_repost_result; a template whose hash cannot be made is not made.
\* After a commit that fails, of the row or of a template (an IntegrityError, when
\* the post is gone), the session writes nothing, and its next query may raise.
SaveImageRepost(w) ==
    /\ job[w].step = "record"
    /\ LET p == job[w].post
           write == reposts' = [reposts EXCEPT ![p] = Append(@, Original(job[w].found))]
           watch == job' = [job EXCEPT ![w].step = "watch"] /\ UNCHANGED ended
       IN  \/ job[w].found = {} /\ End(w, "done") /\ UNCHANGED <<reposts, faults>>
           \/ job[w].found # {} /\ ~ NeedsTemplate(w) /\ write /\ watch /\ UNCHANGED faults
           \/ job[w].found # {} /\ NeedsTemplate(w) /\ write /\ watch /\ Fault
           \/ /\ job[w].found # {} /\ Fault
              /\ watch \/ End(w, "failed")
              /\ UNCHANGED reposts
    /\ UNCHANGED <<saved, indexed, templates, learned, queue, notes, Watches, known>>

\* Mutant: a watch that has been ended counts.
ActiveWatches_All(found) ==
    IF Watched \in found THEN {i \in Rows : row[i] # "none"} ELSE {}

\* check_for_post_watch
ActiveWatches(found) ==
    IF Watched \in found THEN {i \in Rows : row[i] = "on"} ELSE {}

CheckForPostWatch(w) ==
    /\ job[w].step = "watch"
    /\ notes' = LET ids == ActiveWatches(job[w].found)
                IN  IF ids = {} THEN notes ELSE notes \cup {<<job[w].post, ids>>}
    /\ End(w, "done")
    /\ UNCHANGED <<Database, queue, Watches, known, faults>>

CheckImageRepostSave(w) ==
    \/ CheckUrl(w) \/ FirstSearch(w) \/ SecondSearch(w)
    \/ MakeTemplate(w) \/ SaveImageRepost(w) \/ CheckForPostWatch(w)
-----------------------------------------------------------------------------
\* link_repost_check: the matches are in no order, and a row needs its search.
LinkRepostCheck(w) ==
    /\ job[w].step = "link"
    /\ LET p == job[w].post
       IN  \/ /\ IF Visible(p) = {} THEN UNCHANGED reposts
                 ELSE \E q \in Visible(p) : reposts' = [reposts EXCEPT ![p] = Append(@, q)]
              /\ End(w, "done")
              /\ UNCHANGED faults
           \/ Fault /\ End(w, "failed") /\ UNCHANGED reposts
    /\ UNCHANGED <<saved, indexed, templates, learned, queue, notes, Watches, known>>
-----------------------------------------------------------------------------
\* notify_watch: all messages first, then each watch is written back as it was
\* when the task was ordered, even one that has been removed since, and committed.

Tell(w) ==
    /\ job[w].step = "idle"
    /\ \E n \in notes :
         /\ notes' = notes \ {n}
         /\ \/ /\ job' = [job EXCEPT ![w] = [Idle EXCEPT !.step = "told", !.post = n[1],
                                                         !.ids = n[2]]]
               /\ UNCHANGED faults
            \/ Fault /\ UNCHANGED job
    /\ UNCHANGED <<Database, queue, Watches, History>>

SaveDetection(w) ==
    /\ job[w].step = "told"
    /\ \E i \in job[w].ids :
         /\ row' = [row EXCEPT ![i] = "on"]
         /\ job' = IF job[w].ids = {i} THEN [job EXCEPT ![w] = Idle]
                   ELSE [job EXCEPT ![w].ids = @ \ {i}]
    /\ UNCHANGED <<Database, queue, notes, replied, wish, stale, wishes, History, faults>>

NotifyWatch(w) == Tell(w) \/ SaveDetection(w)
-----------------------------------------------------------------------------
\* What the user does.

InFlight == UNION ({n[2] : n \in notes} \cup {job[w].ids : w \in Workers}
                   \cup {IF job[w].step = "watch" THEN ActiveWatches(job[w].found) ELSE {} : w \in Workers})
Wishes   == wishes < MaxWishes /\ wishes' = wishes + 1
Changes(r) ==
    /\ row' = r
    /\ wish' = IF \E i \in Rows : r[i] = "on" THEN "on" ELSE "off"
    /\ stale' = stale \cup {i \in InFlight : r[i] # "on"}
NewRow   == {i \in Rows : row[i] = "none" /\ i \notin InFlight /\ i \notin stale}
Existing == {i \in Rows : row[i] # "none"}
Others   == <<Database, queue, notes, job, History, faults>>

\* PostWatch.on_post looks for no row of the same user and post.
SiteWatch ==
    /\ NewRow # {} /\ Wishes
    /\ Changes([row EXCEPT ![Min(NewRow)] = "on"])
    /\ UNCHANGED <<replied, Others>>

\* PostWatch.on_patch
SiteToggle(i) ==
    /\ row[i] # "none" /\ Wishes
    /\ Changes([row EXCEPT ![i] = IF @ = "on" THEN "off" ELSE "on"])
    /\ UNCHANGED <<replied, Others>>

\* PostWatch.on_delete
SiteDelete(i) ==
    /\ row[i] # "none" /\ Wishes
    /\ Changes([row EXCEPT ![i] = "none"])
    /\ UNCHANGED <<replied, Others>>

\* A summons with watch or unwatch: the first row that is found.
SummonsWatch ==
    /\ Wishes
    /\ IF Existing = {} THEN NewRow # {} /\ Changes([row EXCEPT ![Min(NewRow)] = "on"])
       ELSE Changes([row EXCEPT ![Min(Existing)] = "on"])
    /\ UNCHANGED <<replied, Others>>

SummonsUnwatch ==
    /\ Existing # {} /\ row[Min(Existing)] = "on" /\ Wishes
    /\ Changes([row EXCEPT ![Min(Existing)] = "off"])
    /\ UNCHANGED <<replied, Others>>

\* The user answers yes to the offer; check_inbox reads the newest 500 messages
\* every time, and those it has acted on again.
Reply ==
    /\ ~ replied /\ Wishes
    /\ replied' = TRUE
    /\ UNCHANGED <<row, wish, stale, Others>>

ProcessWatchRequest ==
    /\ replied
    /\ Existing = {} /\ NewRow # {}
    /\ row' = [row EXCEPT ![Min(NewRow)] = "on"]
    /\ wish' = IF wish = "none" THEN "on" ELSE wish
    /\ UNCHANGED <<replied, stale, wishes, Others>>

User ==
    /\ Watched \in saved
    /\ \/ SiteWatch \/ SummonsWatch \/ SummonsUnwatch \/ Reply \/ ProcessWatchRequest
       \/ \E i \in Rows : SiteToggle(i) \/ SiteDelete(i)
-----------------------------------------------------------------------------
\* A worker dies: its task is not delivered again.
Crash(w) ==
    /\ job[w].step # "idle" /\ Fault
    /\ IF job[w].step = "told" THEN job' = [job EXCEPT ![w] = Idle] /\ UNCHANGED ended
       ELSE End(w, "crashed")
    /\ UNCHANGED <<Database, queue, notes, Watches, known>>

Work(w) == Take(w) \/ CheckImageRepostSave(w) \/ LinkRepostCheck(w) \/ NotifyWatch(w)

Next ==
    \/ \E p \in Posts : Save(p)
    \/ \E p \in Images : IndexPost(p) \/ Learn(p)
    \/ \E w \in Workers : Work(w) \/ Crash(w)
    \/ User

\* The workers take what is queued; a task of each queue is taken in the end.
Spec     == Init /\ [][Next]_vars
FairSpec == Spec /\ \A w \in Workers : WF_vars(Work(w))
-----------------------------------------------------------------------------
TypeOK ==
    /\ indexed \subseteq saved /\ saved \subseteq Posts
    /\ queue \subseteq saved \X (0..MaxRetries)
    /\ notes \subseteq saved \X SUBSET Rows
    /\ job \in [Workers -> Jobs]
    /\ templates \in [Images -> Nat] /\ learned \subseteq Images
    /\ \A p \in Posts : reposts[p] \in Seq(Same[p])
    /\ row \in [Rows -> {"none", "on", "off"}] /\ replied \in BOOLEAN
    /\ ended \in [Posts -> {"no", "done", "failed", "skipped", "exhausted", "crashed"}]
    /\ known \in [Posts -> SUBSET Posts]
    /\ wish \in {"none", "on", "off"} /\ stale \subseteq Rows

\* However often the task of a post is tried again, it ends once, with at most
\* one row of repost; and a task that ended as it should has written one if there
\* was something to find when its post was saved, unless a template has since
\* narrowed what counts.
RecordedOnce ==
    \A p \in Posts :
        /\ Len(reposts[p]) <= 1
        /\ ended[p] = "done" /\ known[p] # {} /\ faults = 0
           => Len(reposts[p]) = 1 \/ (p \in Images /\ learned \cap ({p} \cup Exact[p]) # {})

\* The original that is named is the oldest that could be known when the post
\* was saved, or an older one that has become known since, whatever is indexed,
\* tried again or checked meanwhile.
OldestIsNamed ==
    \A p \in Images :
        reposts[p] # <<>> /\ known[p] # {} /\ learned = {} => reposts[p][1] <= Min(known[p])

\* A user who has ended every watch of a post has none, unless somebody was about
\* to be told of it, or the user once took the offer of a watch.
EndedStaysEnded ==
    wish = "off" /\ ~ replied => \A i \in Rows \ stale : row[i] # "on"

\* Every task ends, whatever fails and however often it is tried again.
EventuallyEnded == <>[](\A p \in saved : ended[p] # "no")
=============================================================================
