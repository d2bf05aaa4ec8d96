------------------------------- MODULE Ingest -------------------------------
(***************************************************************************)
(* The ingest of posts: ingestsvc/ingestsvc.py walks the ids of Reddit's   *)
(* posts in their order and queues every post it finds; the workers of     *)
(* core/celery/tasks/ingest_tasks.py save each post and order its checks.  *)
(*                                                                         *)
(* After a start the process first fetches the range between the newest    *)
(* row of the database and the newest post of Reddit, in batches of jobs   *)
(* that are repeated until all of them succeed; then it asks again and     *)
(* again for the ids that follow the last post it got.                     *)
(*                                                                         *)
(* A task leaves the broker when a worker takes it (Celery acknowledges    *)
(* early), so a worker that dies loses it.  What a task carries is what    *)
(* Reddit answered when the post was fetched.                              *)
(***************************************************************************)
EXTENDS Naturals, Sequences

CONSTANTS
    MaxId,        \* bound: ids of posts
    Window,       \* ids one request of the loop asks for
    Chunk,        \* ids one job of the backfill asks for
    JobLimit,     \* jobs gathered together
    Workers,
    Monitored,    \* posts of active monitored subs
    Searched,     \* posts of type image or link
    Galleries,    \* posts with a gallery, that Reddit processes for a while
    Refusable,    \* posts whose image is gone, of no use, ...
    Removable,    \* posts that may be taken down (REMOVAL_REASONS_TO_SKIP)
    MaxRetries,   \* of a task whose gallery is not processed
    Expiry,       \* the phases in which the access token may expire
    QueueLimit,   \* bound: tasks that wait when the loop asks again
    MaxFaults     \* bound: crashes, failed commits, unusable answers

Ids    == 1..MaxId
Phases == {"start", "backfill", "batch", "fetch", "queue"}

ASSUME IngestAssumption ==
    /\ MaxId \in Nat \ {0}
    /\ Window \in Nat \ {0}
    /\ Chunk \in Nat \ {0}
    /\ JobLimit \in Nat \ {0}
    /\ Monitored \subseteq Ids
    /\ Searched \subseteq Ids
    /\ Galleries \subseteq Ids
    /\ Refusable \subseteq Ids
    /\ Removable \subseteq Ids
    /\ MaxRetries \in Nat
    /\ Expiry \subseteq Phases
    /\ QueueLimit \in Nat
    /\ MaxFaults \in Nat

VARIABLES
    \* Reddit
    frontier,   \* the highest id given out
    shown,      \* the posts the API returns
    takenDown,  \* posts with a removal reason the ingest skips
    processing, \* galleries that are not processed yet
    \* database
    posts,      \* Post.post_id, a unique key
    newestRow,  \* the post with the highest primary key
    \* broker
    queue,      \* post_ingest, tasks save_new_post and save_new_posts
    checks,     \* posts a check of the monitored sub was ordered for
    searches,   \* [Ids -> Nat], orders to search for reposts
    \* the ingest process and the workers
    phase,
    newest,     \* newest_id, the cursor
    ahead,      \* backfill: the next id; loop: the last id of the answer
    jobs,       \* first ids of the chunks still to be fetched
    found,      \* posts_to_save, as Reddit answered them
    token,
    job,        \* [Workers -> Jobs], what each worker does
    \* history
    sent,       \* posts that were handed to the broker
    dropped,    \* posts given up: refused, failed, lost with a worker
    faults

reddit == <<frontier, shown, takenDown, processing>>
rows   == <<posts, newestRow>>
orders == <<checks, searches>>
loop   == <<phase, newest, ahead, jobs, found, token>>
vars   == <<frontier, shown, takenDown, processing, posts, newestRow, queue,
            checks, searches, phase, newest, ahead, jobs, found, token, job,
            sent, dropped, faults>>

Kinds == {"post", "batch"}
Steps == {"idle", "prepare", "insert", "dispatch", "split"}

\* A post as the API answered it: raw when its gallery was not processed.
Payload == [id: Ids, raw: BOOLEAN]

\* save_new_post of one post, save_new_posts of all posts of a batch
Task == [kind: Kinds, post: Payload, retries: 0..MaxRetries, posts: SUBSET Payload]
Jobs == [step: Steps, task: Task]

Answered(i)  == [id |-> i, raw |-> i \in processing]
PostTask(p)  == [kind |-> "post", post |-> p, retries |-> 0, posts |-> {}]
NoPost       == [id |-> 1, raw |-> FALSE]
BatchTask(S) == [kind |-> "batch", post |-> NoPost, retries |-> 0, posts |-> S]
Idle         == [step |-> "idle", task |-> PostTask(NoPost)]

IdsOf(S) == {p.id : p \in S}

TypeOK ==
    /\ frontier \in Ids
    /\ shown \subseteq 1..frontier
    /\ takenDown \subseteq shown
    /\ processing \subseteq Galleries
    /\ posts \subseteq Ids
    /\ newestRow \in posts
    /\ queue \in Seq(Task)
    /\ checks \subseteq Ids
    /\ searches \in [Ids -> Nat]
    /\ phase \in Phases
    /\ newest \in Ids
    /\ ahead \in Nat
    /\ jobs \subseteq Nat
    /\ found \subseteq Payload
    /\ token \in {"fresh", "expired"}
    /\ job \in [Workers -> Jobs]
    /\ sent \subseteq Ids
    /\ dropped \subseteq Ids
    /\ faults \in 0..MaxFaults

\* The service starts on a database with one post (main() needs a newest one).
Init ==
    /\ frontier = 1
    /\ shown = {1}
    /\ takenDown = {}
    /\ processing = Galleries \ {1}
    /\ posts = {1}
    /\ newestRow = 1
    /\ queue = <<>>
    /\ checks = Monitored \cap {1}
    /\ searches = [i \in Ids |-> 0]
    /\ phase = "start"
    /\ newest = 1
    /\ ahead = 1
    /\ jobs = {}
    /\ found = {}
    /\ token = "fresh"
    /\ job = [w \in Workers |-> Idle]
    /\ sent = {1}
    /\ dropped = {}
    /\ faults = 0

Enqueue(task) == queue' = Append(queue, task)

Fault == faults < MaxFaults /\ faults' = faults + 1

-----------------------------------------------------------------------------
(* Reddit                                                                  *)

Publish ==
    /\ frontier < MaxId
    /\ frontier' = frontier + 1
    /\ shown' = shown \cup {frontier + 1}
    /\ UNCHANGED <<takenDown, processing, rows, queue, orders, loop, job,
                   sent, dropped, faults>>

\* An id whose post the API never returns (private subs).  Fewer of them
\* follow each other than a request of the loop asks for.
Withhold ==
    /\ frontier < MaxId
    /\ \E i \in shown : frontier + 2 < i + Window
    /\ frontier' = frontier + 1
    /\ UNCHANGED <<shown, takenDown, processing, rows, queue, orders, loop,
                   job, sent, dropped, faults>>

TakeDown(i) ==
    /\ i \in shown \cap Removable
    /\ takenDown' = takenDown \cup {i}
    /\ UNCHANGED <<frontier, shown, processing, rows, queue, orders, loop, job,
                   sent, dropped, faults>>

GalleryProcessed(i) ==
    /\ i \in shown \cap processing
    /\ processing' = processing \ {i}
    /\ UNCHANGED <<frontier, shown, takenDown, rows, queue, orders, loop, job,
                   sent, dropped, faults>>

TokenExpires ==
    /\ phase \in Expiry
    /\ token' = "expired"
    /\ UNCHANGED <<reddit, rows, queue, orders, phase, newest, ahead,
                   jobs, found, job, sent, dropped, faults>>

-----------------------------------------------------------------------------
(* main and ingest_range                                                   *)

\* get_newest_praw_post_id may lag behind what the API returns by id.
Start ==
    /\ phase = "start"
    /\ newest' \in shown
    /\ ahead' = newestRow
    /\ phase' = "backfill"
    /\ UNCHANGED <<reddit, rows, queue, orders, jobs, found, token, job,
                   sent, dropped, faults>>

\* The chunks follow each other up to newest, which is excluded; the first
\* empty one is requested too and tells that the range is exhausted.
StartBatch ==
    /\ phase = "backfill"
    /\ jobs' = {ahead} \cup {i \in {ahead + Chunk * k : k \in 1..(JobLimit - 1)} :
                              i < newest + Chunk}
    /\ ahead' = ahead + Chunk * JobLimit
    /\ phase' = "batch"
    /\ UNCHANGED <<reddit, rows, queue, orders, newest, found, token, job,
                   sent, dropped, faults>>

\* Mutant: the last id of the range is missed.
Requested_Short(first) ==
    {i \in Ids : first <= i /\ i < first + Chunk /\ i + 1 < newest}

Requested(first) == {i \in Ids : first <= i /\ i < first + Chunk /\ i < newest}

\* A job succeeds.  One that fails is repeated: nothing changes.
FetchJob(first) ==
    /\ phase = "batch"
    /\ first \in jobs
    /\ token = "fresh"
    /\ found' = found \cup {Answered(i) : i \in (Requested(first) \cap shown) \ takenDown}
    /\ jobs' = jobs \ {first}
    /\ UNCHANGED <<reddit, rows, queue, orders, phase, newest, ahead,
                   token, job, sent, dropped, faults>>

\* Status 200 without data: the job counts as done.
UnusableAnswer(first) ==
    /\ phase = "batch"
    /\ first \in jobs
    /\ token = "fresh"
    /\ Fault
    /\ jobs' = jobs \ {first}
    /\ dropped' = dropped \cup Requested(first)
    /\ UNCHANGED <<reddit, rows, queue, orders, phase, newest, ahead,
                   found, token, job, sent>>

QueueBatch ==
    /\ phase = "batch"
    /\ jobs = {}
    /\ Enqueue(BatchTask(found))
    /\ sent' = sent \cup IdsOf(found)
    /\ found' = {}
    /\ phase' = IF ahead < newest + Chunk THEN "backfill" ELSE "fetch"
    /\ UNCHANGED <<reddit, rows, orders, newest, ahead, jobs, token, job, dropped,
                   faults>>

\* The ids from the cursor on; without an answer the loop asks again.
Answer == {i \in shown : newest <= i /\ i < newest + Window}

\* Mutant: the cursor moves past the ids that were asked for.
Fetch_Requested ==
    /\ phase = "fetch"
    /\ token = "fresh"
    /\ Answer # {}
    /\ Len(queue) <= QueueLimit
    /\ found' = {Answered(i) : i \in Answer \ takenDown}
    /\ ahead' = newest + Window
    /\ phase' = "queue"
    /\ UNCHANGED <<reddit, rows, queue, orders, newest, jobs, token, job,
                   sent, dropped, faults>>

Fetch ==
    /\ phase = "fetch"
    /\ token = "fresh"
    /\ Answer # {}
    /\ Len(queue) <= QueueLimit
    /\ found' = {Answered(i) : i \in Answer \ takenDown}
    /\ ahead' \in Answer
    /\ \A i \in Answer : i <= ahead'
    /\ phase' = "queue"
    /\ UNCHANGED <<reddit, rows, queue, orders, newest, jobs, token, job,
                   sent, dropped, faults>>

\* Status 401, or ten minutes since the last refresh.
RefreshToken ==
    /\ phase = "fetch"
    /\ token = "expired"
    /\ token' = "fresh"
    /\ UNCHANGED <<reddit, rows, queue, orders, phase, newest, ahead,
                   jobs, found, job, sent, dropped, faults>>

\* queue_posts_for_ingest, one task per post in the order of the answer.
QueuePost ==
    /\ phase = "queue"
    /\ \E p \in found :
         /\ \A q \in found : p.id <= q.id
         /\ Enqueue(PostTask(p))
         /\ sent' = sent \cup {p.id}
         /\ found' = found \ {p}
    /\ UNCHANGED <<reddit, rows, orders, phase, newest, ahead, jobs, token, job,
                   dropped, faults>>

Advance ==
    /\ phase = "queue"
    /\ found = {}
    /\ newest' = ahead
    /\ phase' = "fetch"
    /\ UNCHANGED <<reddit, rows, queue, orders, ahead, jobs, found, token,
                   job, sent, dropped, faults>>

\* The process dies and docker starts it again.
Crash ==
    /\ phase # "start"
    /\ Fault
    /\ phase' = "start"
    /\ newest' = 1
    /\ ahead' = 1
    /\ jobs' = {}
    /\ found' = {}
    /\ token' = "fresh"
    /\ UNCHANGED <<reddit, rows, queue, orders, job, sent, dropped>>

-----------------------------------------------------------------------------
(* The workers                                                             *)

At(w, step) == job[w].step = step

Become(w, step) == job' = [job EXCEPT ![w].step = step]

Finish(w) == job' = [job EXCEPT ![w] = Idle]

\* The next task: a batch is to be split, a post to be looked up and, if it is
\* not there, to be saved.
Take(w) ==
    /\ At(w, "idle")
    /\ queue # <<>>
    /\ queue' = Tail(queue)
    /\ LET t == Head(queue) IN
         job' = [job EXCEPT ![w] =
                   CASE t.kind = "batch" -> [step |-> "split", task |-> t]
                     [] t.kind = "post" /\ t.post.id \in posts -> Idle
                     [] OTHER -> [step |-> "prepare", task |-> t]]
    /\ UNCHANGED <<reddit, rows, orders, loop, sent, dropped, faults>>

Rest(w) == job[w].task.posts

\* save_new_posts: one task save_new_post for each post of the batch, in the
\* order in which the jobs succeeded.
PassOn(w) ==
    /\ At(w, "split")
    /\ \/ \E p \in Rest(w) :
            /\ Enqueue(PostTask(p))
            /\ job' = [job EXCEPT ![w].task.posts = @ \ {p}]
       \/ /\ Rest(w) = {}
          /\ Finish(w)
          /\ UNCHANGED queue
    /\ UNCHANGED <<reddit, rows, orders, loop, sent, dropped, faults>>

Post(w) == job[w].task.post.id
Raw(w)  == job[w].task.post.raw

\* The image is gone, its URL invalid, it is an imgur video, or pre_process_post
\* raises any other exception: the task ends.
Discard(w) ==
    /\ At(w, "prepare")
    /\ Post(w) \in Refusable
    /\ dropped' = dropped \cup {Post(w)}
    /\ Finish(w)
    /\ UNCHANGED <<reddit, rows, queue, orders, loop, sent, faults>>

\* Mutant: the task is queued again without end.
RetryLater_Forever(w) ==
    /\ At(w, "prepare")
    /\ Raw(w)
    /\ Enqueue([job[w].task EXCEPT !.retries = @ + 1])
    /\ Finish(w)
    /\ UNCHANGED <<reddit, rows, orders, loop, sent, dropped, faults>>

\* GalleryNotProcessed: Celery queues the same task again, max_retries times.
RetryLater(w) ==
    /\ At(w, "prepare")
    /\ Raw(w)
    /\ IF job[w].task.retries < MaxRetries
       THEN /\ Enqueue([job[w].task EXCEPT !.retries = @ + 1])
            /\ UNCHANGED dropped
       ELSE /\ dropped' = dropped \cup {Post(w)}
            /\ UNCHANGED queue
    /\ Finish(w)
    /\ UNCHANGED <<reddit, rows, orders, loop, sent, faults>>

\* Mutant: the check of a monitored sub is left to a later step.
Prepare_Unchecked(w) ==
    /\ At(w, "prepare")
    /\ ~ Raw(w)
    /\ Become(w, "insert")
    /\ UNCHANGED <<reddit, rows, queue, orders, loop, sent, dropped, faults>>

\* The hashes are made; the check of a monitored sub is ordered before the
\* post is saved, to run 20 seconds later.
Prepare(w) ==
    /\ At(w, "prepare")
    /\ ~ Raw(w)
    /\ checks' = checks \cup ({Post(w)} \cap Monitored)
    /\ Become(w, "insert")
    /\ UNCHANGED <<reddit, rows, queue, searches, loop, sent, dropped, faults>>

\* Mutant: a post another worker saved does not end the task.
Insert_Again(w) ==
    /\ At(w, "insert")
    /\ posts' = posts \cup {Post(w)}
    /\ newestRow' = Post(w)
    /\ Become(w, "dispatch")
    /\ UNCHANGED <<reddit, queue, orders, loop, sent, dropped, faults>>

\* The unique key refuses a post another worker saved meanwhile.
Insert(w) ==
    /\ At(w, "insert")
    /\ IF Post(w) \in posts
       THEN Finish(w) /\ UNCHANGED rows
       ELSE /\ posts' = posts \cup {Post(w)}
            /\ newestRow' = Post(w)
            /\ Become(w, "dispatch")
    /\ UNCHANGED <<reddit, queue, orders, loop, sent, dropped, faults>>

\* Any other error of the commit is logged and the post forgotten.
InsertFails(w) ==
    /\ At(w, "insert")
    /\ Fault
    /\ dropped' = dropped \cup {Post(w)}
    /\ Finish(w)
    /\ UNCHANGED <<reddit, rows, queue, orders, loop, sent>>

Dispatch(w) ==
    /\ At(w, "dispatch")
    /\ searches' = IF Post(w) \in Searched
                   THEN [searches EXCEPT ![Post(w)] = @ + 1]
                   ELSE searches
    /\ Finish(w)
    /\ UNCHANGED <<reddit, rows, queue, checks, loop, sent, dropped, faults>>

WorkerCrash(w) ==
    /\ ~ At(w, "idle")
    /\ Fault
    /\ dropped' = dropped \cup (IF At(w, "split") THEN IdsOf(Rest(w)) ELSE {Post(w)})
    /\ Finish(w)
    /\ UNCHANGED <<reddit, rows, queue, orders, loop, sent>>

-----------------------------------------------------------------------------
Reddit ==
    \/ Publish \/ Withhold \/ TokenExpires
    \/ \E i \in Ids : TakeDown(i) \/ GalleryProcessed(i)

Backfill ==
    \/ Start \/ StartBatch \/ QueueBatch
    \/ \E first \in jobs : FetchJob(first)

FollowNew == Fetch \/ RefreshToken \/ QueuePost \/ Advance

Worker(w) ==
    \/ Take(w) \/ PassOn(w)
    \/ Discard(w) \/ RetryLater(w) \/ Prepare(w) \/ Insert(w) \/ Dispatch(w)

Failure ==
    \/ Crash
    \/ \E first \in jobs : UnusableAnswer(first)
    \/ \E w \in Workers : InsertFails(w) \/ WorkerCrash(w)

Next ==
    \/ Reddit \/ Backfill \/ FollowNew \/ Failure
    \/ \E w \in Workers : Worker(w)

Spec == Init /\ [][Next]_vars

\* The containers are always running, Reddit answers in the end, and a token
\* lives long enough for a request.
FairSpec ==
    /\ Spec
    /\ WF_vars(Backfill \/ FollowNew)
    /\ SF_vars(Fetch)
    /\ \A w \in Workers : WF_vars(Worker(w))

-----------------------------------------------------------------------------
(* Properties                                                              *)

\* A restart resumes from the newest row of the database, whichever worker
\* saved it: no post below it was missed, every one the API showed has been
\* queued, was taken down before, or was given up for a failure.
ResumeSafe ==
    \A i \in shown : i < newestRow => i \in sent \cup dropped \cup takenDown

\* A post of a monitored sub that is in the database has had its check
\* ordered, whatever died after the insert.
SavedIsChecked == posts \cap Monitored \subseteq checks

\* Tasks delivered twice, retried and executed by two workers at once still
\* save a post once and order its search for reposts at most once.
Store == INSTANCE PostStore WITH saved <- posts

StoreSpec == Store!Spec

\* Every post the API shows is saved in the end and, if it is to be searched,
\* searched, or its worker refuses or loses it, or it is taken down: whether it
\* came before, during or after an outage of the ingest.
EventuallyHandled ==
    \A i \in Ids :
      i \in shown ~> \/ i \in posts /\ (i \in Searched => searches[i] = 1)
                     \/ i \in dropped \cup takenDown

\* "Take a range of posts and attempt to ingest them.  Mainly used to catch
\* any missed posts while script is down": the catch-up comes to an end.
BackfillEnds == phase = "backfill" ~> phase = "fetch"

\* The task of a post whose gallery is still processing is retried, so the post
\* is given up only while Reddit still processes it.
GivenUpUnprocessed ==
    [][\A i \in Galleries : i \in dropped' \ dropped => i \in processing]_vars
=============================================================================
