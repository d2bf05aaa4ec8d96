----------------------------- MODULE SubMonitor -----------------------------
(***************************************************************************)
(* The checks of new posts on monitored subs and what they do to a post.   *)
(*                                                                         *)
(* The ingest orders a check 20 seconds before it saves the post            *)
(* (save_new_post); a submonitor worker reviews the author, looks for the  *)
(* author's reposts, searches for the post, and sends one task for every    *)
(* measure the settings of the sub ask for (process_monitored_subreddit_   *)
(* submission, MonitoredSubService); the workers of reddit_action_tasks.py *)
(* carry the tasks out.                                                     *)
(*                                                                         *)
(* Both kinds of tasks leave the broker when a worker takes them.  A check *)
(* reads the database in one session: until it commits, what it loaded     *)
(* stays as it was, a change that is not committed included.                *)
(***************************************************************************)
EXTENDS Naturals

CONSTANTS
    Posts,
    Users,
    Author,        \* [Posts -> Users]
    Workers,       \* of the queue submonitor
    MaxOrders,     \* bound: checks of one post
    Reposts,       \* posts with matches
    Checkable,     \* posts of a type that is checked, no crosspost, ...
    Promoters,     \* users with flagged links
    HighVolume,    \* users whose reposts of the week reach the threshold
    Exempt,        \* [Users -> SUBSET Whys], the whitelist of the sub
    AllSettings,   \* the settings the moderators choose from
    Refused,       \* measures the bot has no permission for, or a ban with a
                   \* reason Reddit finds too long
    MaxRetries,    \* of a measure Reddit is too busy for
    MaxFaults      \* bound: deaths and unexpected errors

\* The columns of monitored_sub that are flags of a measure.
Options ==
    {"comment_on_repost", "comment_on_oc", "report_reposts", "lock_post",
     "remove_repost", "send_repost_modmail", "mark_as_oc", "sticky_comment",
     "lock_response_comment",
     "adult_promoter_remove_post", "adult_promoter_ban_user",
     "adult_promoter_notify_mod_mail",
     "high_volume_reposter_remove_post", "high_volume_reposter_ban_user",
     "high_volume_reposter_notify_mod_mail"}

\* What the check of a post sends, in the order in which it sends it, and what
\* the tasks send in their turn.
CheckKinds == {"comment", "report", "lock", "remove", "ban", "oc", "modmail"}
TaskKinds  == {"sticky", "lock_comment", "cannot_remove", "cannot_ban", "cannot_oc"}
Kinds      == CheckKinds \cup TaskKinds
Whys       == {"promoter", "volume", "search"}
Steps == {"idle", "review", "decide", "user", "search", "post"}

\* A check is one order of the ingest, a measure what a task is to do.
Checks   == [post: Posts, n: 1..MaxOrders]
Measures == [kind: Kinds, why: Whys]
Orders   == [check: Checks, measure: Measures]
Tasks    == [order: Orders, tries: 0..MaxRetries]

ASSUME SubMonitorAssumption ==
    /\ Posts # {}
    /\ Author \in [Posts -> Users]
    /\ MaxOrders \in Nat \ {0}
    /\ Reposts \subseteq Posts
    /\ Checkable \subseteq Posts
    /\ Promoters \subseteq Users
    /\ HighVolume \subseteq Users
    /\ Exempt \in [Users -> SUBSET Whys]
    /\ AllSettings \subseteq SUBSET Options
    /\ Refused \subseteq {"comment", "lock", "remove", "oc", "ban", "sticky",
                          "lock_comment"}
    /\ MaxRetries \in Nat
    /\ MaxFaults \in Nat

VARIABLES
    \* database
    saved,      \* posts
    settings,   \* the row of monitored_sub
    reviews,    \* [Users -> Reviews], user_review.content_links_found
    stale,      \* users whose review is a week old
    banned,     \* the sub is in banned_subreddit
    \* broker and workers
    check,      \* [Checks -> CheckStates]
    under,      \* [Checks -> SUBSET Options], the settings a check works with: no
                \* commit makes the session forget the row that it holds
    job,        \* [Workers -> Jobs]
    queue,      \* tasks of the queue reddit_actions
    \* Reddit and history
    asked,      \* measures that were sent to the broker
    done,       \* measures that had their effect
    lost,       \* measures that were given up
    faults

vars == <<saved, settings, reviews, stale, banned, check, under, job, queue,
          asked, done, lost, faults>>

rows    == <<saved, settings, reviews, stale>>
actions == <<queue, asked, done, lost>>

Reviews     == {"none", "clean", "flagged"}
CheckStates == {"none", "waiting", "running", "recorded", "skipped", "missed"}
Ended       == {"recorded", "skipped", "missed"}

\* loaded: the review as the session read it; review: as the session holds it,
\* "fresh" when a commit made it forget what it read, "broken" when it refuses all
\* further work.
Views == Reviews \cup {"fresh", "broken"}
Jobs  == [step: Steps, check: Checks, loaded: Reviews, review: Views,
          todo: SUBSET Measures]

TypeOK ==
    /\ saved \subseteq Posts
    /\ settings \in AllSettings
    /\ reviews \in [Users -> Reviews]
    /\ stale \subseteq Users
    /\ banned \in BOOLEAN
    /\ check \in [Checks -> CheckStates]
    /\ under \in [Checks -> SUBSET Options]
    /\ job \in [Workers -> Jobs]
    /\ queue \subseteq Tasks
    /\ asked \subseteq Orders
    /\ done \subseteq Orders
    /\ lost \subseteq Orders
    /\ faults \in 0..MaxFaults

AnyCheck == CHOOSE c \in Checks : TRUE

Idle == [step |-> "idle", check |-> AnyCheck, loaded |-> "none",
         review |-> "none", todo |-> {}]

Init ==
    /\ saved = {}
    /\ settings \in AllSettings
    /\ reviews = [u \in Users |-> "none"]
    /\ stale = {}
    /\ banned = FALSE
    /\ check = [c \in Checks |-> "none"]
    /\ under = [c \in Checks |-> {}]
    /\ job = [w \in Workers |-> Idle]
    /\ queue = {}
    /\ asked = {}
    /\ done = {}
    /\ lost = {}
    /\ faults = 0

Fault == faults < MaxFaults /\ faults' = faults + 1

-----------------------------------------------------------------------------
(* Around the checks                                                       *)

\* Two workers of the ingest that save the same post order two checks.
Order(c) ==
    /\ check[c] = "none"
    /\ c.n > 1 => check[[c EXCEPT !.n = @ - 1]] # "none"
    /\ check' = [check EXCEPT ![c] = "waiting"]
    /\ UNCHANGED <<rows, banned, under, job, actions, faults>>

Save(p) ==
    /\ p \notin saved
    /\ \E c \in Checks : c.post = p /\ check[c] # "none"
    /\ saved' = saved \cup {p}
    /\ UNCHANGED <<settings, reviews, stale, banned, check, under, job, actions,
                   faults>>

\* A new revision of the wiki page or an edit on the site.
ChangeSettings ==
    /\ settings' \in AllSettings \ {settings}
    /\ UNCHANGED <<saved, reviews, stale, banned, check, under, job, actions,
                   faults>>

\* A week passes since the last review of a user.
Age(u) ==
    /\ reviews[u] # "none"
    /\ u \notin stale
    /\ stale' = stale \cup {u}
    /\ UNCHANGED <<saved, settings, reviews, banned, check, under, job, actions,
                   faults>>

-----------------------------------------------------------------------------
(* sub_monitor_check_post and process_monitored_subreddit_submission       *)

At(w, step) == job[w].step = step
Settings(w) == under[job[w].check]
Post(w)     == job[w].check.post
User(w)     == Author[Post(w)]

\* The check of w ends.
End(w, result) ==
    /\ check' = [check EXCEPT ![job[w].check] = result]
    /\ job' = [job EXCEPT ![w] = Idle]

\* The check of w goes on.
Goes(w, step, review, todo) ==
    job' = [job EXCEPT ![w] = [step |-> step, check |-> @.check, loaded |-> @.loaded,
                               review |-> review, todo |-> todo]]

AdultPromoter == {"adult_promoter_remove_post", "adult_promoter_ban_user",
                  "adult_promoter_notify_mod_mail"}

\* A review is due when a flag of the sub asks for it and the last one is a
\* week old (process_monitored_subreddit_submission, check_user_for_only_fans).
ReviewDue(u) ==
    /\ settings \cap AdultPromoter # {}
    /\ reviews[u] = "none" \/ u \in stale

\* A post that is not saved yet ("Post ... does exist") is not checked at all.
Take(w, c) ==
    /\ At(w, "idle")
    /\ check[c] = "waiting"
    /\ IF c.post \in saved
       THEN /\ check' = [check EXCEPT ![c] = "running"]
            /\ under' = [under EXCEPT ![c] = settings]
            /\ LET r == reviews[Author[c.post]] IN
                 job' = [job EXCEPT ![w] =
                   [step |-> IF ReviewDue(Author[c.post]) THEN "review" ELSE "decide",
                    check |-> c, loaded |-> r, review |-> r, todo |-> {}]]
       ELSE /\ check' = [check EXCEPT ![c] = "missed"]
            /\ UNCHANGED <<under, job>>
    /\ UNCHANGED <<rows, banned, actions, faults>>

\* Another worker wrote the first review of the user meanwhile.
Clash(w) == job[w].loaded = "none" /\ reviews[User(w)] # "none"

\* check_user_for_only_fans ends with a commit, after which the session reads
\* the row again.  The links of a promoter are not always found.  SQLAlchemy
\* writes the flag when it differs from the one that was loaded; the row of a new
\* user may meet the row of another worker, and after that error nobody calls
\* rollback.
Review(w) ==
    /\ At(w, "review")
    /\ \E result \in {"clean"} \cup (IF User(w) \in Promoters THEN {"flagged"} ELSE {}) :
         /\ reviews' = IF Clash(w) \/ result = job[w].loaded
                       THEN reviews
                       ELSE [reviews EXCEPT ![User(w)] = result]
         /\ Goes(w, "decide", IF Clash(w) THEN "broken" ELSE "fresh", {})
    /\ stale' = IF Clash(w) THEN stale ELSE stale \ {User(w)}
    /\ UNCHANGED <<saved, settings, banned, check, under, actions, faults>>

\* The user or the API does not answer.  The flag was reset before the request,
\* and the session keeps that value although it is never committed.
ReviewFails(w) ==
    /\ At(w, "review")
    /\ Goes(w, "decide", IF job[w].loaded = "none" THEN "none" ELSE "clean", {})
    /\ UNCHANGED <<rows, banned, check, under, actions, faults>>

\* The measures whose flag is set.
FlaggedMeasures(s, flags, why) == {[kind |-> f[2], why |-> why] : f \in {x \in flags : x[1] \in s}}

PromoterFlags ==
    {<<"adult_promoter_remove_post", "remove">>, <<"adult_promoter_ban_user", "ban">>,
     <<"adult_promoter_notify_mod_mail", "modmail">>}

VolumeFlags ==
    {<<"high_volume_reposter_remove_post", "remove">>,
     <<"high_volume_reposter_ban_user", "ban">>,
     <<"high_volume_reposter_notify_mod_mail", "modmail">>}

RepostFlags ==
    {<<"comment_on_repost", "comment">>, <<"report_reposts", "report">>,
     <<"lock_post", "lock">>, <<"remove_repost", "remove">>,
     <<"send_repost_modmail", "modmail">>}

OcFlags == {<<"comment_on_repost", "comment">>, <<"mark_as_oc", "oc">>}

\* handle_only_fans_check: a flag for modmail alone has no effect.
PromoterMeasures(s) ==
    IF s \cap {"adult_promoter_remove_post", "adult_promoter_ban_user"} = {}
    THEN {}
    ELSE FlaggedMeasures(s, PromoterFlags, "promoter")

\* handle_high_volume_reposter_check
VolumeMeasures(s) == FlaggedMeasures(s, VolumeFlags, "volume")

\* Mutant: the measures against reposts do not depend on the matches.
SearchMeasures_Always(p, s) == FlaggedMeasures(s, RepostFlags, "search")

\* check_submission: without matches it returns early unless comment_on_oc is
\* set, and the comment on OC is left if comment_on_repost is set too.
SearchMeasures(p, s) ==
    IF p \in Reposts THEN FlaggedMeasures(s, RepostFlags, "search")
    ELSE IF "comment_on_oc" \in s THEN FlaggedMeasures(s, OcFlags, "search")
    ELSE {}

\* The flag as the session sees it.
Flagged(w) == "flagged" = IF job[w].review = "fresh" THEN reviews[User(w)]
                                                      ELSE job[w].review

\* The measures against the author.  The count of the author's reposts is
\* missing while update_top_reposters fills its table again.
Decide(w) ==
    /\ At(w, "decide")
    /\ IF job[w].review = "broken"
       THEN End(w, "missed")
       ELSE /\ \E counted \in SUBSET HighVolume :
                 Goes(w, "user", job[w].review,
                   (IF Flagged(w) /\ "promoter" \notin Exempt[User(w)]
                    THEN PromoterMeasures(Settings(w)) ELSE {})
                   \cup (IF User(w) \in counted /\ "volume" \notin Exempt[User(w)]
                         THEN VolumeMeasures(Settings(w)) ELSE {}))
            /\ UNCHANGED check
    /\ UNCHANGED <<rows, banned, under, actions, faults>>

\* The measures against a promoter come before those against a high volume
\* reposter, and each kind has its place.
Turn(m) ==
    (CASE m.why = "promoter" -> 0 [] m.why = "volume" -> 10 [] OTHER -> 20)
    + (CASE m.kind = "comment" -> 1 [] m.kind = "report" -> 2 [] m.kind = "lock" -> 3
         [] m.kind = "remove" -> 4 [] m.kind = "ban" -> 5 [] m.kind = "oc" -> 6
         [] OTHER -> 7)

\* The next task is sent to the workers of reddit_actions.
Send(w) ==
    /\ At(w, "user") \/ At(w, "post")
    /\ \E m \in job[w].todo :
         /\ \A x \in job[w].todo : Turn(m) <= Turn(x)
         /\ LET o == [check |-> job[w].check, measure |-> m] IN
              /\ queue' = queue \cup {[order |-> o, tries |-> 0]}
              /\ asked' = asked \cup {o}
         /\ Goes(w, job[w].step, job[w].review, job[w].todo \ {m})
    /\ UNCHANGED <<rows, banned, check, under, done, lost, faults>>

\* should_check_post
ShouldCheck(w) ==
    /\ At(w, "user")
    /\ job[w].todo = {}
    /\ IF Post(w) \in Checkable /\ "search" \notin Exempt[User(w)]
       THEN Goes(w, "search", job[w].review, {}) /\ UNCHANGED check
       ELSE End(w, "skipped")
    /\ UNCHANGED <<rows, banned, under, actions, faults>>

\* Mutant: the sub is looked up again for the search, in another session.
Search_Reread(w) ==
    /\ At(w, "search")
    /\ under' = [under EXCEPT ![job[w].check] = settings]
    /\ Goes(w, "post", job[w].review, SearchMeasures(Post(w), settings))
    /\ UNCHANGED <<rows, banned, check, actions, faults>>

Search(w) ==
    /\ At(w, "search")
    /\ Goes(w, "post", job[w].review, SearchMeasures(Post(w), Settings(w)))
    /\ UNCHANGED <<rows, banned, check, under, actions, faults>>

\* Mutant: the row is written as soon as the search has its result.
Record_Early(w) ==
    /\ At(w, "post")
    /\ End(w, "recorded")
    /\ UNCHANGED <<rows, banned, under, actions, faults>>

\* create_checked_post, the last thing a check does
Record(w) ==
    /\ At(w, "post")
    /\ job[w].todo = {}
    /\ End(w, "recorded")
    /\ UNCHANGED <<rows, banned, under, actions, faults>>

\* Mutant: the exception reaches Celery and the check is run again.
Abandon_Retried(w) ==
    /\ ~ At(w, "idle")
    /\ Fault
    /\ End(w, "waiting")
    /\ UNCHANGED <<rows, banned, under, actions>>

\* The worker dies, or anything raises: no index, no credits, a lost database,
\* a sub that was removed.  sub_monitor_check_post logs it and returns, so that
\* its autoretry_for never sees an exception.
Abandon(w) ==
    /\ ~ At(w, "idle")
    /\ Fault
    /\ End(w, "missed")
    /\ UNCHANGED <<rows, banned, under, actions>>

-----------------------------------------------------------------------------
(* reddit_action_tasks.py                                                  *)

Kind(t) == t.order.measure.kind

\* The same order with another kind of measure.
OfKind(o, kind) == [check |-> o.check, measure |-> [kind |-> kind, why |-> o.measure.why]]

\* The task a task sends for the same check and the same reason.
Then(t, kind) == [order |-> OfKind(t.order, kind), tries |-> 0]

\* What leave_comment_task sends when it has left the comment.
FollowUps(t) ==
    {Then(t, k) : k \in
       {x \in {"sticky", "lock_comment"} :
          /\ Kind(t) = "comment"
          /\ IF x = "sticky" THEN "sticky_comment" \in under[t.order.check]
                             ELSE "lock_response_comment" \in under[t.order.check]}}

Locked(p) == \E o \in done : o.measure.kind = "lock" /\ o.check.post = p

Replace(t, S) ==
    /\ queue' = (queue \ {t}) \cup S
    /\ asked' = asked \cup {x.order : x \in S}

\* Reddit does it.  A worker that dies after the comment sends no follow-ups.
Perform(t) ==
    /\ Kind(t) \notin Refused
    /\ \/ Replace(t, FollowUps(t)) /\ UNCHANGED faults
       \/ FollowUps(t) # {} /\ Replace(t, {}) /\ Fault
    /\ done' = done \cup {t.order}
    /\ UNCHANGED <<rows, banned, check, under, job, lost>>

\* Mutant: after the last retry the task is sent afresh.
Busy_Afresh(t) ==
    /\ Replace(t, {[t EXCEPT !.tries = IF @ < MaxRetries THEN @ + 1 ELSE 0]})
    /\ UNCHANGED <<rows, banned, check, under, job, done, lost, faults>>

\* Mutant: the last retry is followed by another one.
Busy_OneMore(t) ==
    /\ IF t.tries <= MaxRetries
       THEN Replace(t, {[t EXCEPT !.tries = @ + 1]}) /\ UNCHANGED lost
       ELSE Replace(t, {}) /\ lost' = lost \cup {t.order}
    /\ UNCHANGED <<rows, banned, check, under, job, done, faults>>

\* TooManyRequests: the only error autoretry_for names.
Busy(t) ==
    /\ IF t.tries < MaxRetries
       THEN Replace(t, {[t EXCEPT !.tries = @ + 1]}) /\ UNCHANGED lost
       ELSE Replace(t, {}) /\ lost' = lost \cup {t.order}
    /\ UNCHANGED <<rows, banned, check, under, job, done, faults>>

Notices(t) ==
    {Then(t, n[2]) : n \in {x \in {<<"remove", "cannot_remove">>, <<"ban", "cannot_ban">>,
                                  <<"oc", "cannot_oc">>} : x[1] = Kind(t)}}

\* Forbidden: the moderators are told, or the sub counts as one that bans the
\* bot, or it is only logged.
Deny(t) ==
    /\ Kind(t) \in Refused
    /\ Replace(t, Notices(t))
    /\ banned' = (banned \/ Kind(t) = "comment")
    /\ lost' = lost \cup {t.order}
    /\ UNCHANGED <<rows, check, under, job, done, faults>>

\* THREAD_LOCKED: the comment is dropped without a word.
TooLate(t) ==
    /\ Kind(t) = "comment"
    /\ Locked(t.order.check.post)
    /\ Replace(t, {})
    /\ lost' = lost \cup {t.order}
    /\ UNCHANGED <<rows, banned, check, under, job, done, faults>>

\* Any other error is logged, the rate limit of comments included, or the
\* worker dies.
Fail(t) ==
    /\ Fault
    /\ Replace(t, {})
    /\ lost' = lost \cup {t.order}
    /\ UNCHANGED <<rows, banned, check, under, job, done>>

-----------------------------------------------------------------------------
Around ==
    \/ \E c \in Checks : Order(c)
    \/ \E p \in Posts : Save(p)
    \/ ChangeSettings
    \/ \E u \in Users : Age(u)

Worker(w) ==
    \/ \E c \in Checks : Take(w, c)
    \/ Review(w) \/ ReviewFails(w) \/ Decide(w) \/ Send(w)
    \/ ShouldCheck(w) \/ Search(w) \/ Record(w)

Execute(t) == Perform(t) \/ Busy(t) \/ Deny(t) \/ TooLate(t)

Next ==
    \/ Around
    \/ \E w \in Workers : Worker(w) \/ Abandon(w)
    \/ \E t \in queue : Execute(t) \/ Fail(t)

Spec == Init /\ [][Next]_vars

\* The workers of both queues are always running.
FairSpec ==
    /\ Spec
    /\ \A w \in Workers : WF_vars(Worker(w))
    /\ WF_vars(\E t \in queue : Execute(t))

-----------------------------------------------------------------------------
(* Properties                                                              *)

OrdersFor(c, measures) == {[check |-> c, measure |-> m] : m \in measures}

\* The row in monitored_sub_checked is the last word: every measure the
\* settings of the check call for has been sent before.
RecordedIsOrdered ==
    \A c \in Checks : check[c] = "recorded" =>
      OrdersFor(c, SearchMeasures(c.post, under[c])) \subseteq asked

\* Nothing is done to a post without a reason: its author was found to be a
\* promoter or counted as a high volume reposter, or the post was to be checked
\* and has matches where the measure is one against reposts, and the author is
\* not exempt; a comment is stickied or locked after it was left, and a missing
\* permission is reported after it was met.
Against == {"report", "lock", "remove", "modmail", "cannot_remove"}

Reason(o) ==
    /\ o.measure.why \notin Exempt[Author[o.check.post]]
    /\ CASE o.measure.why = "promoter" -> Author[o.check.post] \in Promoters
         [] o.measure.why = "volume" -> Author[o.check.post] \in HighVolume
         [] OTHER -> /\ o.check.post \in Checkable
                     /\ o.measure.kind \in Against => o.check.post \in Reposts
                     /\ o.measure.kind = "oc" => o.check.post \notin Reposts

Justified ==
    \A o \in asked :
      /\ Reason(o)
      /\ o.measure.kind \in {"sticky", "lock_comment"} => OfKind(o, "comment") \in done
      /\ o.measure.kind = "cannot_remove" => OfKind(o, "remove") \in lost
      /\ o.measure.kind = "cannot_ban" => OfKind(o, "ban") \in lost
      /\ o.measure.kind = "cannot_oc" => OfKind(o, "oc") \in lost

\* The settings s ask for this: a flag that is set, in the part of the check
\* that goes by it, or the task before it was sent with it.
CallsFor(s, o) ==
    IF o.measure.kind \in CheckKinds
    THEN o.measure \in PromoterMeasures(s) \cup VolumeMeasures(s)
                       \cup SearchMeasures(o.check.post, s)
    ELSE /\ o.measure.kind = "sticky" => "sticky_comment" \in s
         /\ o.measure.kind = "lock_comment" => "lock_response_comment" \in s

\* Moderators change the settings while a check is under way, and its tasks are
\* carried out later still; but what comes of one check is what one version of
\* the settings asks for, from the measures against the author to the sticky
\* comment.
OneVersion ==
    \A c \in Checks : \E s \in AllSettings :
      \A o \in asked : o.check = c => CallsFor(s, o)

\* Every check ends, and everything it asked for is done or given up.
EventuallySettled ==
    \A c \in Checks :
      check[c] # "none" ~>
        /\ check[c] \in Ended
        /\ \A o \in asked : o.check = c => o \in done \cup lost

\* "Should the bot check all new submissions on your sub": the check of a post
\* that is saved comes to its end.
AllChecked ==
    \A c \in Checks :
      (check[c] = "waiting" /\ c.post \in saved) ~> check[c] \in {"recorded", "skipped"}

\* "Remove posts created by users confirmed to promote Only Fans": a user who
\* is flagged in the database when the check begins and still is when it
\* decides is taken for a promoter.
PromotersCaught ==
    [][\A w \in Workers :
         /\ Decide(w)
         /\ job[w].loaded = "flagged"
         /\ reviews[User(w)] = "flagged"
         /\ "promoter" \notin Exempt[User(w)]
         /\ "adult_promoter_remove_post" \in Settings(w)
         => [kind |-> "remove", why |-> "promoter"] \in job'[w].todo]_vars

\* The measures a task may ask for when it has done its own, or may not do it.
Following(pairs) ==
    [m \in Measures |-> {x \in Measures : x.why = m.why /\ <<m.kind, x.kind>> \in pairs}]
AfterDone == Following({<<"comment", "sticky">>, <<"comment", "lock_comment">>})
AfterLost == Following({<<"remove", "cannot_remove">>, <<"ban", "cannot_ban">>, <<"oc", "cannot_oc">>})

\* The checks keep the ledger of MeasureLedger.  Several parts of a check may ask
\* for the same kind of measure, two workers of the ingest may order a check, tasks
\* are retried, sessions break and workers die; yet no check runs or ends twice or
\* asks for anything after its end, no measure is asked for or settled twice, and
\* what a task asks for comes with the end of that task.
LedgerOf == INSTANCE MeasureLedger
LedgerSpec == LedgerOf!Spec
=============================================================================
