# RedditRepostSleuth in TLA+

RedditRepostSleuth is a Reddit bot: it stores every new submission, finds
reposts among them, answers users who mention it, and acts for the moderators
of the subs that invited it. It is a set of Python processes that share a MySQL
database (SQLAlchemy sessions behind a unit of work), a Redis broker (Celery
tasks) and Reddit (PRAW). Hardly anything in it is hard to compute; what is
hard is that its processes interleave at every commit, call and task, that each
of these may fail, that containers are restarted (`restart: unless-stopped` in
`docker-compose.yml`), and that much of the code catches every exception.

Paths below are relative to `src/redditrepostsleuth/`.

## The system

Facts that every part relies on, and the models take over:

- **Sessions.** `UnitOfWork.__exit__` only closes the session: what was not
  committed is gone. `expire_on_commit` is off, and MySQL reads a snapshot, so
  what a session has loaded stays as it was. A failed flush without a rollback
  leaves a session that refuses all work.
- **Tasks.** Celery acknowledges a task when a worker takes it, so that a worker
  that dies loses it. `autoretry_for` sees only what the task lets through.
- **Workers.** `docker-compose.yml` starts 16 ingest workers, 10 submonitor
  workers, 3 for Reddit actions, 14 and 6 for image and link reposts, 16 for
  deletions, 15 for scheduled tasks; the summons service is one process.
- **Unique keys.** `post.post_id`, `summons.comment_id`, `monitored_sub.name`,
  `banned_user.name`, `banned_subreddit.subreddit`, `user_review.username`,
  `subreddit.name`, the revision ids and meme hashes are unique. Watches,
  reposts, check rows, logged comments, meme templates and votes are not.

| Component | State it keeps | Operations | What is hard, and what makes it correct |
|---|---|---|---|
| Summons service (`summonssvc/`, `core/services/response_handler.py`) | rows of `summons`, `bot_comment`, `banned_user`, `banned_subreddit`, `repost_watch` | poll mentions, handle a summons: ban, limit, earlier response, repost search, watch, unwatch; reply or message; close the row | The reply is public before any row says so; an open row is handled again. One answer per mention, the limit per hour, nobody banned is answered, every answerable mention is closed |
| Ingest (`ingestsvc/`) | the cursor `newest_id`, a token, jobs | catch up after a restart in batches of jobs, follow the newest ids | Resumes from whatever row is newest. No post is missed, the catch-up ends |
| Saving posts (`core/celery/tasks/ingest_tasks.py`) | `post`, broker | deduplicate, prepare, order the sub's check, insert, order the search | Tasks twice, in parallel, dying between steps. Saved once, searched once, checked if saved |
| Monitored sub checks (`submonitorsvc/`, `monitored_sub_task_logic.py`) | `monitored_sub_checked`, `user_review`, the session | review the author, measures against promoters and high volume reposters, search, send the measures, row | Settings and reviews change under way; a check dies between sends. Nothing twice, nothing without reason, recorded means ordered |
| Reddit actions (`reddit_action_tasks.py`) | broker, `bot_comment`, `banned_subreddit` | comment, sticky, lock, remove, ban, report, OC, modmail | Retries, refusals, locks that win over comments. Every task ends |
| Repost tasks (`repost_tasks.py`, `core/util/repost/`, `repost_filters.py`, `duplicateimageservice.py`) | `repost`, `repost_search`, `meme_template` | search, filter, save the repost, notify watches | A retry repeats everything before the exception; the meme template changes shared settings |
| Config updater (`subreddit_config_updater.py`) | wiki pages, revisions, `monitored_sub` | read a revision, apply it, write missing keys back, site edits | A revision is committed before it is applied; wiki and site overwrite each other |
| Activation and refresh (`new_activation_monitor.py`, `managed_subreddit.py`, `scheduled_task_logic.py`) | `monitored_sub`, invitations | accept an invitation, daily moderator check, removal | Row before invitation; counter reset but sub left inactive |
| Watches (`repost_tasks.py`, `inbox_monitor.py`, site) | `repost_watch` | create, drop, notify | No unique key: duplicates and double notices |
| Bans (`summonshandler.py`, `misc_admin_tasks.py`, `celeryconfig.py`) | `banned_user`, `banned_subreddit` | ban, expire, lift | The expiry is scheduled under a name no task has |
| Meme voting (site, `scheduled_task_logic.py`) | potential templates and votes | vote, decide at +10 or -10 | Totals kept beside the votes |
| Deleted posts (`deleted_post_monitor.py`, `admin_tasks.py`) | `post` and what refers to it | check batches, delete, stamp | What an answer leaves out is deleted |
| Proxy pool, RedGifs token (`core/proxy_manager.py`, `redgifs_token_manager.py`) | pool and rows of proxies; cached tokens | hand out, report, cool down; fetch, cache, drop | One pool per process, one table for all |
| Statistics (`scheduled_task_logic.py`) | `stat_*` | delete, then insert | Readers in between see nothing |
| Inbox and hot post monitors, site API | shared rows | as named | Write the rows of the components above; the hot post monitor is started by nothing |
| Formatting, parsing, hashing, metrics, notifications, migrations, scripts | none | | No state that others depend on |

How they interact:

    Reddit --ids--> ingest --save_new_post(s)--> ingest workers --insert--> post
                                                   |        |
                     (20 s later) sub_monitor_check|        |image/link repost tasks
                                                   v        v
    monitored_sub --settings--> submonitor workers --tasks--> reddit_actions workers --> Reddit
         ^   user_review <--review--+                         bot_comment, banned_subreddit
         |                                                          |
    wiki, site, activation, daily refresh         mentions --> summons service --> Reddit

The summons service reads what the others write: `post` (a summons waits until
its post is ingested), `bot_comment` (the automatic comment of a sub),
`monitored_sub`, `banned_subreddit`.

## Modules

| Module | Models | Checked by |
|---|---|---|
| `Summons` | the summons service and what it meets: users, time, ingest, automatic comments | `MCSummons`, `Summons*.cfg` |
| `Ingest` | the ingest process, the queue `post_ingest` and its workers | `MCIngest`, `Ingest*.cfg` |
| `PostStore` | what `Ingest` promises the rest: a store of posts, each saved once and searched at most once, afterwards | a property of run `ingest`, a theorem |
| `SubMonitor` | the checks of new posts on monitored subs and the workers of `reddit_actions` | `MCSubMonitor`, `SubMonitor*.cfg` |
| `MeasureLedger` | what `SubMonitor` promises the moderators: a check runs once, a measure is asked for once, while it runs, and settled once | a property of run `submonitor`, a theorem |
| `ConfigUpdater` | the two copies of a sub's settings: the row and the wiki page | `MCConfigUpdater`, `ConfigUpdater.cfg` |
| `SubLifecycle` | how a sub becomes monitored and stops being so: invitation, row, refresh, removal | `MCSubLifecycle`, `SubLifecycle*.cfg` |
| `MatchFilters` | one search: its settings, its filters, `check_image` | `MCMatchFilters`, `MatchFilters*.cfg` |
| `RepostTasks` | the tasks of new images and links, their retries, rows, templates, and the watches | `MCRepostTasks`, `RepostTasks.cfg` |
| `Statistics` | the top lists of reposts and reposters | with `Housekeeping` |
| `MemeVotes` | votes on meme templates | with `Housekeeping` |
| `Subreddits` | the rows of subs and the update of their data | with `Housekeeping` |
| `Deletions` | the deleted post monitor, its tasks and its proxies | with `Housekeeping` |
| `Housekeeping` | the four of them next to each other | `MCHousekeeping`, `Housekeeping.cfg` |
| `SummonsProofs`, `IngestProofs`, `SubMonitorProofs`, `ConfigProofs`, `LifecycleProofs`, `RepostProofs`, `HousekeepingProofs`, `MatchFiltersProofs` | theorems about the module of that name | TLAPS |

Definitions named `X_Y` are mutants: a bug one could make in `X`. None is part
of a specification; each is there to show that a property would notice.

The modules meet at shared rows, each of which one module owns; another
module sees it as an input that may change at any time: the row of a sub is
`SubLifecycle`'s, its settings `ConfigUpdater`'s, and `SubMonitor` works with
whatever settings it reads (`under`); a post is `Ingest`'s, and `RepostTasks` and
`SubMonitor` start from its order; a search is one step of `RepostTasks` and
`Summons`, and all of `MatchFilters`.

### Summons

The process is a program counter: `idle` (between polls), `next` (in the loop
over the listing), `process` (a row is open and the handler starts), `notify`,
`respond`, `pm`, `log` (the reply is out, its row is not), `save`, `remove`. A
step ends at each commit and each call to Reddit, so that `Crash`, `SaveFails`,
`HandlingRaises` and `AnswerUnacknowledged` can fall between any two. The state
of a row (`summons`, `record`) is absent, open or closed and what it refers to;
`replies` and `pms` are what Reddit shows. `Receive` inserts a row, `Resume`
takes an open one again, `SkipMention` is the whole chain of reasons not to.
`RefuseBanned`, `BanUser`, `PointToResponse`, `RejectType`, `EnableWatch`,
`DisableWatch` and `SearchReposts` are the branches of `process_summons` in
their order. Two keys are kept apart because the code mixes them: `DbId` is the
integer key of a post, `LeadingNumber` what MySQL makes of its text id when it
compares the two. Environment actions stand for users (`Mention`, `LoseAuthor`),
time (`GrowOld`), the ingest (`IngestPost`), submonitor (`AutoRespond`) and the
daily job (`LiftSubBan`).

`lost` and `served` are history: answers whose record a failure destroyed, and
summons whose command was executed.

### Ingest and PostStore

Ids are numbers; `shown` are those Reddit returns. The process is `phase`:
`Start` finds the newest row and the newest post, `StartBatch`, `FetchJob`,
`UnusableAnswer` and `QueueBatch` are the catch-up, `Fetch`, `RefreshToken`,
`QueuePost` and `Advance` the loop of `main`. A worker takes a task
(`save_new_posts` is split by `PassOn`), and goes through `save_new_post`:
`Discard`, `RetryLater`, `Prepare` (which ends with the order of the check),
`Insert` (the unique key decides), `Dispatch` (the search). The payload of a
task is what Reddit said when the post was fetched, whether its gallery was
processed included, and a retry carries the same payload.

`PostStore` has two variables and two actions; the refinement maps `saved` to
`posts` and is the identity on `searches`.

### SubMonitor and MeasureLedger

A check is a pair of a post and a number (two savers of one post order two); its
life is `none`, `waiting`, `running` and then `recorded` (its row is written),
`skipped` (`should_check_post` says no) or `missed` (it came to nothing). A
worker holds the step, the flag of the author as its session loaded and as it
sees it now, and what it has still to send:

| Action | Code |
|---|---|
| `Order`, `Save` | `save_new_post`: the check is sent before the post is committed |
| `Take` | `process_monitored_subreddit_submission` reads post, sub and user; without the post it returns |
| `Review`, `ReviewFails` | `check_user_for_only_fans`, with the flag reset first, the commit, the clash of two first reviews |
| `Decide` | `handle_only_fans_check`, `handle_high_volume_reposter_check` |
| `ShouldCheck`, `Search` | `should_check_post`, `check_submission` |
| `Send` | the `apply_async` calls, one at a time, in their order (`Turn`) |
| `Record` | `create_checked_post` |
| `Abandon` | a death, or any exception: `sub_monitor_check_post` swallows it |
| `Perform`, `Deny`, `TooLate`, `Busy`, `Fail` | a task of `reddit_action_tasks.py` succeeds, is refused, meets a locked post, meets TooManyRequests, fails otherwise |

`under` are the settings a check works with: those of its beginning. `asked`,
`done` and `lost` record what was sent and what became of it. The settings that
name a measure are kept as a set of flags; which posts have matches, may be
checked, and which authors are promoters, high volume reposters or exempt are
constants. The search itself (an index over HTTP and filters) is abstracted to
`Reposts`.

The site may change the settings between any two steps. A check still works with
one version of them: it reads its row once, and its session does not expire what it
has loaded when the review commits (`expire_on_commit` is off). `OneVersion` says so of
what it asks for: the measures against the author and those against the repost are
decided on the two sides of a search over HTTP, the sticky comment and its lock later
still, and all must fit the same settings.

`MeasureLedger` keeps the four variables that others see, `check`, `asked`, `done` and
`lost`, under the same names, and forgets the rest. `AfterDone` and `AfterLost` say
which measures may follow one that was done, or refused.

### ConfigUpdater

`pages` are the revisions of the wiki page (documents that give some of the
options a value, or `Broken`), `row` the row of `monitored_sub`, `stored`, `valid`
and `notified` the rows and flags of `monitored_sub_config_revision`. A worker
holds a copy of the row that nothing refreshes and goes through the commits and
calls of its task, one a step:

| Action | Code |
|---|---|
| `QueueCheck`, `TakeCheck`, `Fetch`, `Compare` | `queue_config_updates_task`, `check_for_subreddit_config_update_task` (not for a sub the bot does not moderate, or without its permission), the page with its revision, and that revision against those stored |
| `StoreRevision`, `StoreNew`, `Load` | `_create_revision`, `_load_new_config`: the revision first, the row afterwards, a merge of the whole copy |
| `SetValidity`, `Tell`, `MarkNotified` | `_set_config_validity`, `_notify_*`, `_set_config_notified` |
| `Missing`, `Rewrite`, `StoreWritten` | a page that lacks options is written from the row; the id of the new revision is fetched again |
| `CreatePage`, `StoreCreated`, `Sync`, `SyncFails` | `create_initial_wiki_config` for a sub without a page |
| `SiteRead`, `SiteCommit`, `SiteSend`, `SiteFails` | `on_patch` of the site: a request reads the row, commits the column it has changed, and orders the page to be written from what it has read (`edits` are the requests under way) |
| `TakeWrite`, `WritePage` | `update_subreddit_config_from_database` |
| `Refresh`, `Remove`, `SubIsGone`, `Abort` | the other writers of the row, the loss of the sub, a death or a failed call |

`loaded`, `last`, `touched`, `overlap` and `skipped` are history: which revisions
reached the row, whether somebody else has changed it since, whether two checks
ever ran side by side, and which revisions a task stored without loading them.

### SubLifecycle

`home`, `mod`, `granted`, `invited` and `letter` are what Reddit knows of one sub;
`row` is its row, with an id that tells it from a row it replaces. `Poll`,
`Accept`, `Notify`, `MarkSent` are the steps of `activate_sub` (the row is
committed before the invitation is accepted); `TakeRefresh`, `IsMod`, `IsNotMod`,
`Warn`, `RemoveFailing`, `Details` those of `update_monitored_sub_data`; `Site*` the
endpoints. A commit (`Commit`, `Changed`) writes only the columns the session has
changed, into the row it has read, if that one is still there. `misses`, `warned`,
`welcomed` and `accepted` are history.

### MatchFilters

One search from the order to the result. `Settings` are made in the three ways
the code makes them (configuration, request of the site, row of a sub), and
`check_image` overwrites the caller's target when it finds a meme. The steps are
the functions of the code in their order; the search may fail (`SearchFails`), and so
may the filter that asks the utility API (`FilterFails`: an answer that is no listing, or
names a post that is not in the batch). `Passes` is `filter_search_results`
without the utility API, `Reported` what that API makes of a list. Distances,
similarities and ages are given with each post. `Fits` says of a single post,
without regard to the order of the filters, what the docstrings of the settings
mean: it is the reference the result is compared with. A filter and the sort are
stated by the places of the list they keep: `Arrange(ms, S, before)` is the list of
the elements at the places `S`, those first that come before the others; `Filter`
keeps their order, `SortReposts` is by age and, as a stable sort is, by place for
equal ages. Two assumptions say what the inputs are: `FiltersAssumption` gives the
settings, columns and parameters their types (a request of the site is for an
image, has the one parameter that is required, and only it may come without a post), `AnswersAssumption` says that an answer is
a list of posts, and that two places of it with one id hold one post.

### RepostTasks

A task of an image checks its URL, searches twice with the same settings object,
makes a meme template and raises to be tried with it (`MakeTemplate`, `Retry`), or
writes its row of repost and looks for watches. The commit of that row may fail,
as may the hash of a meme template; the task goes on from both. `NotifyWatch` tells
of one watch after the other, with a commit for each; `LinkRepostCheck` does the same in
one session. `IndexPost` and `Learn` are the index service, which knows a post and
a template some time after they are saved. `row` are the watches of one user on
one post; the site, summons, the inbox and `notify_watch` write them, the last one
from a copy made when the check found the watch.

### Housekeeping

Four background jobs that share no variable: in a behaviour of `Housekeeping` one
of them (`part`) moves and the others rest, which covers the interleavings of two
of them as far as the properties, each about one part, can tell.

`Statistics`: a worker goes through lists (`DeleteList` commits, `InsertCounts`
commits one by one or together). `MemeVotes`: requests of the site read in one
query and write in another; the check loads all rows once; ids are numbers that
grow, so the newest row is the one with the greatest id, and the rows the check
has still to go through are a set. `Subreddits`:
`save_subreddit`, the unique name, the update with its four tries. `Deletions`: the
monitor's query without an order and with a limit (`Some`), batches, chunks that
the utility API answers or not, tasks, and the wait for each of them. A task that
fails makes that wait raise and the monitor start again (`Raise`); one whose worker has
died is waited for without end (`Stuck`).

## What is checked

| Run | Question | States | Bounds |
|---|---|---|---|
| `summons` | `AnsweredOnce`, `ServedWithinLimit`, `CommentRecorded`, `ClosedIsFinal` | a few million | two mentions of one user on two posts, limit 1, one failure |
| `summons_live` | `EventuallyClosed` | fewer | a listing of one, so that newer mentions push older ones out; one failure |
| `summons_one_reply` | finds that two users get two public replies on a sub with `only_allow_one_summons` | | no failure |
| `ingest` | `ResumeSafe`, `SavedIsChecked`, `StoreSpec` | 1.8 million | three ids, two workers, batches of two jobs, one retry, one failure |
| `ingest_live` | `EventuallyHandled` | 240 000 | window of two over three ids, one worker, expiring tokens, one failure |
| `submonitor` | `RecordedIsOrdered`, `Justified`, `OneVersion`, `LedgerSpec` | 470 000 | two posts of one author, two workers, two settings, one retry, one failure |
| `submonitor_live` | `EventuallySettled` | 90 000 | one post, two checks, refused measures, one retry, one failure |
| `config` | `ToldTheTruth`, `NotifiedIsInForce`, `PageComesIntoForce` | 970 000 | two options, two edits of the page, two workers, one event of another kind |
| `lifecycle` | `WelcomeIsTrue`, `RemovedAfterWarning`, `InvitationIsAnswered`, `LostSubIsRemoved` | 600 000 | two invitations, two workers, two disturbances, counter up to 5 |
| `filters` | `ResultIsWanted`, `OldestFirst`, `ClosestIsBest` | 1.1 million | up to three posts, each failing in one respect; any two settings changed; chunks of two |
| `reposts` | `RecordedOnce`, `OldestIsNamed`, `EndedStaysEnded`, `EventuallyEnded` | 760 000 | two new posts, two workers, one retry, two failures, two rows of a watch, two wishes |
| `housekeeping` | `RowsAreCounted`, `VotesAddUp`, `SubredditGetsData`, `RecheckedInTime` | 650 000 | two workers and three tasks; two users and ids; two subs; four posts in batches of two; one failure each |

Every run checks with 2 workers in one to three minutes. The type invariants
are checked with the first run of each module.

Run `submonitor` has its two workers as a symmetry set: no constant and no action
tells them apart, and none of its properties names one.

**Why the bounds are enough.** The interesting cases need two of something: two
mentions of one user for the limit and for the one-reply rule, two workers for
the duplicate insert, the clash of reviews, the stale copy of a row and the list
that is counted twice, two checks of one post, a window smaller than the ids so
that the cursor moves, a chunk smaller than the gap so that a batch has seams,
two edits so that an older revision can come late, two invitations so that one
is left over from an earlier activation, four failed checks because that is when
a sub is removed. A filter looks at one post, and only the chunks of the utility
API, the duplicates, the closest match and the order look at several: two or
three posts are enough to meet each. One failure is enough to stop the
system between any two steps, and what a second one adds is a repetition of the
first; the theorems have no such bound. `MaxFaults`, `MaxRetries` (10 for galleries,
20 for images, Celery's 3 for actions, 1 in the runs), `MaxId`, `QueueLimit`,
`InboxLimit` (25 to 100 mentions in praw), `MaxOrders`, `Max` and `MaxTotal` (events of
each kind, and together), `MaxFails`, `MaxWishes`, `MaxTasks`, `MaxMoves`, `MaxSaves`,
`MaxBads`, `MaxChanges` and the faults of each part of `Housekeeping` are all the
bounds there are.

**Findings.** `summons_one_reply` ends in a violation: the code answers twice where
the wiki says it answers once; the sentence is quoted in `PROJECT.json`. The
counterexample is short and needs no failure. Other disagreements follow below.

**Deadlock** is checked where the system cannot stop (`Summons`, `Ingest`,
`SubMonitor`). It is switched off in the runs whose environment is bounded by a
number of events: when the edits, invitations, wishes, votes or tasks are used up
and all work is done, nothing is left to happen. A search (`MatchFilters`) ends.

### Fairness

- `Summons`: weak fairness of the service as a whole. It is one process in a
  restarted container whose loop never stops; nothing is assumed about users,
  time, the ingest or failures. Not assumed: that a mention stays in the listing,
  young and with its author; `EventuallyClosed` speaks only of those that do.
- `Ingest`: weak fairness of the process and of each worker, and strong fairness
  of `Fetch`: the token may expire again and again, but it outlives a request
  (`RefreshToken` gets one that lives for hours), so a request that is possible
  again and again is answered. The catch-up gets no such help (known divergences).
- `SubMonitor`: weak fairness of each worker and of the workers of
  `reddit_actions` together (three take from one queue). `Busy` counts as
  progress, because Celery gives up after its retries. Nothing is assumed about
  saves, settings, time, or which of a task's outcomes Reddit chooses.
- `ConfigUpdater`: weak fairness of `QueueCheck` (beat, every hour) and of each
  worker. Nothing is assumed about moderators, the site or the other jobs;
  `PageComesIntoForce` excludes what the code has no repair for (`Undisturbed`).
- `SubLifecycle`: weak fairness of `QueueRefresh` (beat, every day), of the request
  on the site that has begun, and of polls, activations and refreshes of each
  worker. Not assumed: that an invitation is accepted, that a letter is forgotten.
- `RepostTasks`: weak fairness of each worker; the index may be late for ever.
- `Housekeeping`: weak fairness of the workers of `Subreddits` together, and in
  `Deletions` of the monitor, of the workers together, and of the second half of
  `update_proxies` (a task that has deleted the old rows inserts the new ones).
  Nothing is assumed about votes and top lists, which have safety properties only.

### Known divergences

Where code and words differ, or the code cannot do what it is for. Each of the
first seven has a configuration that is not among the runs; TLC ends it with a
counterexample, e.g. `tlc -config SummonsAnswered.cfg MCSummons`.

| Configuration | Property | What it shows |
|---|---|---|
| `SummonsAnswered.cfg`, `MCSummons` | `ClosedMeansAnswered` | a reply refused by RATELIMIT is swallowed and its summons closed as replied, so that the poll never repeats it |
| `IngestToken.cfg`, `MCIngest` | `BackfillEnds` | a token that expires during the catch-up makes it repeat the same refused requests for ever |
| `IngestGallery.cfg`, `MCIngest` | `GivenUpUnprocessed` | the retry of a gallery carries the metadata that said it was not processed, and gives it up although it is |
| `SubMonitorChecked.cfg`, `MCSubMonitor` | `AllChecked` | two checks review a new author at once, and the second comes to nothing though nothing failed |
| `SubMonitorPromoter.cfg`, `MCSubMonitor` | `PromotersCaught` | a failing review leaves a flagged promoter taken for clean |
| `SubLifecycleBackUp.cfg`, `MCSubLifecycle` | `SetsItselfBackUp` | a sub that mods the bot again has its counter reset but its row stays inactive, unlike what the message says |
| `MatchFiltersClosest.cfg`, `MCMatchFilters` | `ClosestIsKept` | the distance of the closest meme is overwritten in meme hashes before a filter measures it against the plain hash, which can drop it |

Met while modelling, and modelled as they are:

- `bulk_delete` (`admin_tasks.py`) names tables of the old schema: it fails at the
  first one and removes nothing. Dead posts stay, stay overdue, and are asked for
  every time; once there are as many as the query returns, nothing else is
  (`RecheckedInTime` is stated below that number).
- The monitor's wait for its tasks has no limit: a worker that dies with one
  stops it until its container is restarted by hand (`RecheckedInTime` is stated for a
  monitor that is not `Stuck`).
- Where an edit, a check or a request writes from a copy that has grown old, the
  newer value is lost, and nothing repairs it: settings (`ConfigUpdater`), totals of
  votes (`MemeVotes`), a watch that was ended while its notice was ordered
  (`RepostTasks`), a list that two workers make at once (`Statistics`). The models take
  these steps and note them in history variables (`touched`, `overlap`, `skipped`,
  `disturbed`, `stale`, `clash`, `lost`); the properties are stated without them, as
  the hazards of this kind in `PROJECT.json` say.
- The original of a link is whatever post the database returns first
  (`find_all_by_url` has no order).
- `retry_kwards` (`maintenance_tasks.py`) is no option of a task: Celery's 3 retries
  apply instead of 50. `record_task_status` swallows every exception, so that the
  `autoretry_for` of scheduled tasks never sees one.
- `remove-expired-bans` is scheduled under a name no task has; the entries for
  proxies, meme votes and the profile token are commented out.
- The queue `watch_notify` has no worker in `docker-compose.yml`. `notify_watch` is
  modelled as if one were started; without it, watches are never notified.
- The failure handler of `update_last_deleted_check` fails itself.
- `on_post_refresh` of the site calls its helper with an argument too many.
- `report_proxy_failure` and its counterparts are called by nothing.
- `queue_subreddit_data_updates` orders a task that does nothing for rows that exist.
- The ingest has no way past 100 ids in a row that Reddit withholds; the model
  assumes shorter gaps (`Withhold`).

## What is proved

TLAPS checks these for all values of the constants that satisfy the named
assumption of the module (`SummonsAssumption`, `IngestAssumption`, `SubMonitorAssumption`
and so on), which say what type the constants have, and where it is needed that
there is at least one post, one id, one order.

**Summons.** `SummonsInvariant`: `TypeOK`, `HandlingOK` (the row that is being
handled is open, and nothing is out before it was sent) and `Ledger`. The
answers of an open mention are exactly those whose record was lost plus the one
of the handling in progress, those of a closed one at most one more. One
answer per mention is not inductive: without the ledger a state with an answer
out and an open row could be in the middle of nothing. `SummonsAnsweredOnce` and
`SummonsClosedIsFinal` follow. `SummonsServedWithinLimit` needs more:
`Rooted` (what is in the inbox, and whose row exists, was sent) and the order of
ages in the inbox, so that admitting a summons compares its own hour with those
that are counted; the proof is by cardinality of a set that gains one element.
`SummonsBannedGetNoReply` (proved only, no run checks it) needs that the requestor
admitted at the start of the handling is not banned by anything but his own
handling: the service is one process, and nothing else bans users.
`SummonsCommentRecorded` needs `RecordOK`: a handling whose outcome is a comment
has left and logged it by the time the row is saved, and no other step unlogs it.

**Ingest.** `IngestInvariant`: `SentOK` (what was handed to the broker is closed
downwards: below a queued id everything was queued, given up or taken down),
`TasksOK` (what waits or is worked on was handed over), `LoopOK` (what the
process has fetched or has still to fetch continues what was sent, chunk by
chunk), `DispatchOK` (a search about to be ordered is of a saved, unsearched
post that no other worker holds) and `ChecksOK`. From it `IngestResumeSafe`,
`IngestSavedIsChecked`, and `IngestImplementsStore`: the initial states map to
those of `PostStore`, and each step to a `Save`, an `OrderSearch` or a stutter.

**SubMonitor.** `SubMonitorInvariant`: `JobsOK` (a running check belongs to one
worker), `TodoOK` and `AskedOK` (what a worker has to send, and what its check
has asked for, fit its step), `TasksOK` (one task for each measure that is
neither done nor given up), `GroundsOK` (flags are of promoters, and each
measure to be sent has its reason) and `PostOK` (between the search and the row
every measure is sent or still to be sent), and `OnceEach` (what is still to be
sent was not asked for, what waits is not settled), which alone is not inductive:
that a new measure was never asked for follows from the step of the worker
(before the decision nothing was asked, before the search nothing of the
search), that the follow-up of a task is new from `Justified` (a sticky exists
only after its comment was left, and the comment still waits), and that no other
worker holds it from `JobsOK`. So all are proved together; `SubMonitorRecordedIsOrdered`
and `SubMonitorJustified` follow. So does `SubMonitorOneVersion`: whatever was asked for,
or is still to be sent, fits the settings the check began with (`UnderOK`), and no later
step changes those (`UnderFrame`).
`SubMonitorKeepsLedger` is the refinement: `SubMonitor` implements `MeasureLedger`, which
has no workers, queues, tries, settings or reviews. Each step of a check is an
`Order`, a `Begin`, an `Ask`, an `End` or a stutter (`JobsOK`: only a running check asks or
ends), each step of a task a `Carry`, a `GiveUp` or a stutter (a retry); that the
measures a task asks for are new, and among those that may follow its own, is
`Followers`. The ledger says of steps what the invariants do not say of states: no
check asks for anything after its end, however late its tasks are, and a notice
or a sticky is asked for in the very step that ends the task before it.

**ConfigUpdater.** `ConfigInvariant`: `JobsOK` (a running task has a copy of the row and
a revision of the page, and its step fits what became of that revision: loaded,
or not JSON), `RevisionsOK` (what is told, stored and marked is about revisions of
the page, and `ToldTheTruth`) and `ForceOK`. `NotifiedIsInForce` is not inductive: a
check that has fetched an old revision could overwrite the row after a newer one
was marked. `ForceOK` says why it cannot without overlap: one check runs, what
it has still to load is newer than everything marked, and what it has loaded is
in force until somebody touches the row. The theorems are `ConfigTypeOK`,
`ConfigToldTheTruth` and `ConfigNotifiedIsInForce`, from `ConfigAssumption`.

**SubLifecycle.** `LifecycleInvariant`: `TypeOK`, `WelcomeOK` (an invitation that a poll is
about to announce was accepted) and `CountOK`. That a removed sub had missed
four checks in a row is not inductive: a refresh counts from its own copy of the
row, and two refreshes, or one of a row that was replaced, could write any count.
`CountOK` says that without overlap one refresh is under way, its copy has the
count of the row (or it is of an older row, and then the new one counts none), no
row counts more than there were misses, and one that counts two was warned, is
about to be, or lost the warning to a fault. `NewRow` needs an id that no refresh
holds, by the pigeonhole. `LifecycleTypeOK`, `LifecycleWelcomeIsTrue` and
`LifecycleRemovedAfterWarning`, from `LifecycleAssumption`.

**RepostTasks.** `RepostInvariant` has a part for each thing that could go wrong.
`PlaceOK`: the task of a post waits, or one worker has it, or it has ended.
`WrittenOK`: a row is there while the task has not ended only if the worker that
has it is at its last step, so that no retry finds its own row. `FoundOK`: what a
worker has found has all that was known when the post was saved, unless a
template applies; this is the step from what an index shows to what a row
names, and needs `KnownOK` (what was known stays visible). `WatchOK`: a watch that
somebody is about to be told of is on, or was read before it ended. None of
`RecordedOnce`, `OldestIsNamed` and `EndedStaysEnded` is inductive alone: a queue
with a task of a post whose row is written would break the first, a worker with
half of what is known the second, a `notify_watch` that was ordered for a watch
nobody ever read the third. `RepostTypeOK`, `RepostRecordedOnce`,
`RepostOldestIsNamed`, `RepostEndedStaysEnded`, from `RepostAssumption`.

**Housekeeping.** Each part has an invariant of its own, kept by its steps and left
alone by those of the others.
*Top lists*, `CountInvariant`: outside of a clash one worker is at a list
(`AloneOK`), what it has still to insert is not there (`OnceOK`), and what is not
there is still to be inserted or was lost (`MissingOK`). `RowsAreCounted` needs all
three: that a count is inserted at most once holds because nobody else deletes
or inserts in between, and that says `AloneOK`.
*Votes*, `VoteInvariant`: `ReadOK` says of a request between its read and its write
that its row is of an id that is used up (so that no other row gets it, and the
write goes to the row that was read or to none) and that the vote it replaces is
still there. `VotesAddUp` follows with facts about sums: `SumFunction` of the
community modules is defined by recursion over sets, so the proof first shows by
induction over the numbers that its equation has a solution (`SumsExists`), that a
sum does not depend on the order (`SumsFacts`) or on anything but its summands
(`SumsAgree`), and then what one more or one changed summand does to it
(`SumAppend`, `SumChange`).
*Subs*, `SubInvariant`: only a sub with a row is asked about (`AskedOK`), which is why
data is never known of a sub without one.
*Deleted posts*, `DelInvariant`: the posts of a batch are asked about, alive or dead,
one of them at a time, and a batch begins with all three empty (`PlacesOK`); without
this, a post found alive could be among those that are deleted.
`HousekeepingTypeOK` combines them. From the assumptions of the four modules.

**MatchFilters.** `FiltersInvariant`. The properties speak of a search that has ended;
the invariant says at each step what the filters have left so far. `KeptOK` is the
centre of it: a post that was found is among the matches exactly if it passes the
tests that have run (`Wanted`), with its row, and with the distance the next test is
to read. `Wanted` grows with the steps, and is where the order of the code matters:
after `SetClosest` the closest match of a meme carries its distance in meme hashes, so
the tests of plain hashes hold it to another number than all other matches;
`SettingsOK` says that the target they are held to is 100 then, and the caller's
otherwise. `ClosestOK` says that nothing left is closer than the match that was
named, and that a match without a name is too far; it has to be said of every step
after `SetClosest`, as filters drop matches in between. `OldestFirst` is about the last
step alone, but needs that no post is twice in the list at any earlier one.

Its lemmas on lists say that filtering and sorting pick the elements at some places,
each once: the number of places before one grows along the order (`RankGrows`), so
that every number up to the size of the set is the rank of exactly one place
(`RankFound`, by induction over the numbers), and `Arranged` follows: a
list of that length, of those elements, in that order. `ReportedTakes` says the same
of what the utility API makes of a list. There is then one lemma per action, and
at the end `WantedFits`: what passes the tests as the code runs them is what `Fits`
asks for, in whole numbers (`Percent`, `NearFits`). `FiltersTypeOK`, `FiltersResultIsWanted`,
`FiltersOldestFirst`, `FiltersClosestIsBest`, from `FiltersAssumption` and
`AnswersAssumption`. Before it was proved, TLC checked the invariant itself on a thinner
instance (one changed parameter).

**Induction.** The library's induction theorems take an operator as a parameter,
which none of the provers can instantiate. Where a proof needs induction over the
numbers, it is made for a set of numbers: one that has 0, and n + 1 with n, is all
of them (`UpFromZero`, from the well-foundedness of `<`).

**Only model-checked.** The liveness properties (`EventuallyClosed`,
`EventuallyHandled`, `EventuallySettled`, `PageComesIntoForce`, `InvitationIsAnswered`,
`LostSubIsRemoved`, `EventuallyEnded`, `SubredditGetsData`, `RecheckedInTime`): fairness
and ENABLED are beyond the prover. Properties that are violated are refuted, not
proved. All invariants and action properties of the runs that pass have a theorem.

## Not modelled

- *Texts, parsing, hashing, metrics, notifications, migrations, scripts*: no
  state that a property is about.
- *Image and text indexes*: HTTP services outside the repository; a search is
  the set of posts it finds matches for, or an answer that is filtered.
- *Private subs* (`process_monitored_sub`) and the *hot post monitor*: no container
  starts those services.
- *Row locks* of MySQL while a session has not committed: a worker that waits
  for one is a worker that has not taken its next step.
- *Delays* (the countdown of 20 seconds, `request_delay`, the pause of a retry):
  time only; a check may come before its post is saved, as it may in the code.
- *What fails before it does anything*: the reports for meme voting and the
  template made by votes (columns that are gone), the expiry of bans (never
  scheduled under its name), reports about proxies (called by nothing).
- *Daily totals, the cleanup of old searches, the RedGifs token*: rows, or a cached
  string, that no other step depends on.
- *Read-only endpoints*, sign-in and the admin's edits of single rows on the site.

## Plan

Done: `Summons`; `Ingest` with `PostStore`; `SubMonitor` with
`MeasureLedger`; `ConfigUpdater`; `SubLifecycle`;
`MatchFilters`; `RepostTasks` with the watches; `Statistics`, `MemeVotes`, `Subreddits` and
`Deletions` under `Housekeeping`; the proof modules above.

Left, in order of importance:

1. `Pipeline`: `Ingest` and `SubMonitor` composed over the queue between them and the
   table of posts, in place of `Order` and `Save`.
2. Abstract specifications of `ConfigUpdater` (a row that follows the newest page)
   and `SubLifecycle` (a row that is there while the bot moderates), with the
   conditions under which the code implements them.

At most twelve runs are kept, and one configuration outside of them for each
known divergence.
