---------------------------- MODULE IngestProofs ----------------------------
(***************************************************************************)
(* What holds of the ingest for every range of ids, every number of        *)
(* workers and every failure: its type invariant, that a post is saved     *)
(* once and searched at most once, that the check of a monitored sub is    *)
(* ordered before, and that a restart resumes where nothing is missed.     *)
(***************************************************************************)
EXTENDS Ingest, TLAPS

\* Every id the API showed below n was handed to the broker, given up or taken
\* down.
Done       == sent \cup dropped \cup takenDown
Covered(n) == \A i \in shown : i < n => i \in Done

\* The broker gets the posts in such an order that none below them is missed.
SentOK ==
    /\ sent \subseteq shown
    /\ {1, newestRow} \subseteq sent
    /\ \A n \in sent : Covered(n)

\* What waits in the queue or at a worker was handed to the broker.
SentTask == {t \in Task : t.post.id \in sent /\ IdsOf(t.posts) \subseteq sent}
TasksOK  == queue \in Seq(SentTask) /\ \A w \in Workers : job[w].task \in SentTask

\* What the process has fetched or is about to fetch continues what was sent.
LoopOK ==
    /\ newest \in shown
    /\ IdsOf(found) \subseteq shown
    /\ phase \in {"start", "backfill", "fetch"} => found = {}
    /\ phase # "batch" => jobs = {}
    /\ phase \in {"backfill", "batch"} =>
         \A i \in shown : i < ahead /\ i < newest =>
           i \in Done \cup IdsOf(found) \/ \E f \in jobs : i \in Requested(f)
    /\ phase = "batch" => /\ \A i \in IdsOf(found) : i < ahead /\ i < newest
                          /\ \A f \in jobs : f + Chunk <= ahead
    /\ phase = "fetch" => Covered(newest)
    /\ phase = "queue" =>
         /\ ahead \in shown
         /\ \A i \in shown : i <= ahead => i \in Done \cup IdsOf(found)
         /\ \A i \in IdsOf(found) : i <= ahead

\* A post whose search is about to be ordered is saved, has not been searched,
\* and no other worker is about to order its search.
DispatchOK ==
    /\ \A i \in Ids : searches[i] > 0 => i \in posts
    /\ \A w \in Workers : At(w, "dispatch") => Post(w) \in posts /\ searches[Post(w)] = 0
    /\ \A w, v \in Workers :
         At(w, "dispatch") /\ At(v, "dispatch") /\ w # v => Post(w) # Post(v)

\* A post that is about to be saved has had its check ordered.
ChecksOK ==
    /\ SavedIsChecked
    /\ \A w \in Workers : At(w, "insert") /\ Post(w) \in Monitored => Post(w) \in checks

IInv == TypeOK /\ SentOK /\ TasksOK /\ LoopOK /\ DispatchOK /\ ChecksOK

LEMMA InitType == Init => TypeOK
<1> SUFFICES ASSUME Init PROVE TypeOK
  OBVIOUS
<1> USE IngestAssumption DEF Init, Ids
<1>1. Idle \in Jobs
  BY DEF Idle, Jobs, Steps, PostTask, NoPost, Task, Kinds, Payload
<1>2. job \in [Workers -> Jobs]
  BY <1>1
<1>3. /\ frontier \in Ids /\ shown \subseteq 1..frontier
      /\ takenDown \subseteq shown /\ processing \subseteq Galleries
      /\ posts \subseteq Ids /\ newestRow \in posts
      /\ checks \subseteq Ids /\ searches \in [Ids -> Nat]
  OBVIOUS
<1>4. /\ queue \in Seq(Task) /\ phase \in Phases
      /\ newest \in Ids /\ ahead \in Nat /\ jobs \subseteq Nat /\ found \subseteq Payload
      /\ token \in {"fresh", "expired"}
  BY DEF Phases
<1>5. sent \subseteq Ids /\ dropped \subseteq Ids /\ faults \in 0..MaxFaults
  OBVIOUS
<1>6. QED
  BY <1>2, <1>3, <1>4, <1>5 DEF TypeOK

LEMMA TaskTypes ==
    /\ \A i \in Ids : Answered(i) \in Payload
    /\ \A p \in Payload : PostTask(p) \in Task
    /\ \A S \in SUBSET Payload : BatchTask(S) \in Task
    /\ Idle \in Jobs
  BY IngestAssumption
     DEF Answered, PostTask, BatchTask, Idle, NoPost, Task, Jobs, Payload, Kinds, Steps, Ids

LEMMA ShownIds == TypeOK => shown \subseteq Ids /\ shown \subseteq Nat
<1> SUFFICES ASSUME TypeOK, NEW i \in shown PROVE i \in Ids /\ i \in Nat
  OBVIOUS
<1>1. frontier \in 1..MaxId /\ i \in 1..frontier
  BY DEF TypeOK, Ids
<1>2. QED
  BY <1>1, IngestAssumption DEF Ids

LEMMA TypeStep == TypeOK /\ LoopOK /\ [Next]_vars => TypeOK'
<1> SUFFICES ASSUME TypeOK, LoopOK, [Next]_vars PROVE TypeOK'
  OBVIOUS
<1> USE IngestAssumption DEF TypeOK, reddit, rows, orders, loop
<1>1. ASSUME Publish PROVE TypeOK'
  BY <1>1 DEF Publish, Ids
<1>2. ASSUME Withhold PROVE TypeOK'
  <2>1. frontier' \in Ids /\ 1..frontier \subseteq 1..frontier'
    BY <1>2 DEF Withhold, Ids
  <2>2. UNCHANGED <<shown, takenDown, processing, rows, queue, orders, loop,
                    job, sent, dropped, faults>>
    BY <1>2 DEF Withhold
  <2>3. QED
    BY <2>1, <2>2
<1>3. ASSUME NEW i \in Ids, TakeDown(i) PROVE TypeOK'
  BY <1>3 DEF TakeDown
<1>4. ASSUME NEW i \in Ids, GalleryProcessed(i) PROVE TypeOK'
  BY <1>4 DEF GalleryProcessed
<1>5. ASSUME TokenExpires PROVE TypeOK'
  BY <1>5 DEF TokenExpires
<1>6. ASSUME Start PROVE TypeOK'
  BY <1>6, SMTT(30) DEF Start, Ids, Phases
<1>7. ASSUME StartBatch PROVE TypeOK'
  <2>1. Chunk * JobLimit \in Nat /\ \A k \in Nat : Chunk * k \in Nat
    OBVIOUS
  <2>2. jobs' \subseteq Nat
    <3>1. {ahead + Chunk * k : k \in 1..(JobLimit - 1)} \subseteq Nat
      BY <2>1
    <3>2. QED
      BY <1>7, <3>1 DEF StartBatch
  <2>3. ahead' \in Nat
    BY <1>7, <2>1 DEF StartBatch
  <2>4. QED
    BY <1>7, <2>2, <2>3 DEF StartBatch, Phases
<1>8. ASSUME NEW f \in jobs, FetchJob(f) PROVE TypeOK'
  BY <1>8, TaskTypes DEF FetchJob, Requested
<1>9. ASSUME QueueBatch PROVE TypeOK'
  <2>1. queue' \in Seq(Task)
    BY <1>9, TaskTypes DEF QueueBatch, Enqueue
  <2>2. sent' \subseteq Ids
    BY <1>9 DEF QueueBatch, IdsOf, Payload
  <2>3. QED
    BY <1>9, <2>1, <2>2 DEF QueueBatch, Phases
<1>10. ASSUME Fetch PROVE TypeOK'
  <2>1. Answer \subseteq Ids
    BY ShownIds DEF Answer
  <2>2. found' \subseteq Payload
    BY <1>10, <2>1, TaskTypes DEF Fetch
  <2>3. ahead' \in Nat
    BY <1>10, <2>1 DEF Fetch, Ids
  <2>4. QED
    BY <1>10, <2>2, <2>3 DEF Fetch, Phases
<1>11. ASSUME RefreshToken PROVE TypeOK'
  BY <1>11 DEF RefreshToken
<1>12. ASSUME QueuePost PROVE TypeOK'
  <2>1. PICK p \in found : /\ Enqueue(PostTask(p))
                           /\ sent' = sent \cup {p.id}
                           /\ found' = found \ {p}
    BY <1>12 DEF QueuePost
  <2>2. queue' \in Seq(Task) /\ sent' \subseteq Ids
    BY <2>1, TaskTypes DEF Enqueue, Payload
  <2>3. QED
    BY <1>12, <2>1, <2>2 DEF QueuePost
<1>13. ASSUME Advance, ahead \in Ids PROVE TypeOK'
  BY <1>13 DEF Advance, Phases
<1>14. ASSUME Crash PROVE TypeOK'
  BY <1>14 DEF Crash, Fault, Phases, Ids
<1>15. ASSUME NEW f \in jobs, UnusableAnswer(f) PROVE TypeOK'
  BY <1>15 DEF UnusableAnswer, Fault, Requested
<1>16. ASSUME NEW w \in Workers, Worker(w) \/ InsertFails(w) \/ WorkerCrash(w)
       PROVE TypeOK'
  <2> DEFINE t == job[w].task
  <2>1. /\ job[w] \in Jobs /\ t \in Task /\ Post(w) \in Ids
        /\ Raw(w) \in BOOLEAN /\ Rest(w) \subseteq Payload
    BY <1>16 DEF Jobs, Task, Payload, Post, Raw, Rest
  <2>2. /\ Finish(w) => job' \in [Workers -> Jobs]
        /\ \A s \in Steps : Become(w, s) => job' \in [Workers -> Jobs]
    <3>1. \A s \in Steps : [job[w] EXCEPT !.step = s] \in Jobs
      BY <2>1 DEF Jobs
    <3>2. QED
      BY <3>1, TaskTypes DEF Finish, Become
  <2>3. IdsOf(Rest(w)) \subseteq Ids
    BY <2>1 DEF IdsOf, Payload
  <2>4. CASE Take(w)
    <3> DEFINE h == Head(queue)
    <3>1. h \in Task /\ queue' \in Seq(Task)
      BY <2>4 DEF Take
    <3>2. \A s \in Steps : [step |-> s, task |-> h] \in Jobs
      BY <3>1 DEF Jobs
    <3>3. job' = [job EXCEPT ![w] = [step |-> "split", task |-> h]] \/ Finish(w)
          \/ job' = [job EXCEPT ![w] = [step |-> "prepare", task |-> h]]
      BY <2>4 DEF Take, Finish
    <3>4. job' \in [Workers -> Jobs]
      BY <2>2, <3>2, <3>3 DEF Steps
    <3>5. QED
      BY <2>4, <3>1, <3>4 DEF Take
  <2>5. CASE PassOn(w)
    <3>1. ASSUME NEW p \in Rest(w), Enqueue(PostTask(p)),
                 job' = [job EXCEPT ![w].task.posts = @ \ {p}]
          PROVE queue' \in Seq(Task) /\ job' \in [Workers -> Jobs]
      <4>1. queue' \in Seq(Task)
        BY <2>1, <3>1, TaskTypes DEF Enqueue
      <4>2. [t EXCEPT !.posts = @ \ {p}] \in Task
        BY <2>1 DEF Task
      <4>3. [job[w] EXCEPT !.task.posts = @ \ {p}] \in Jobs
        BY <2>1, <4>2 DEF Jobs
      <4>4. QED
        BY <3>1, <4>1, <4>3
    <3>2. queue' \in Seq(Task) /\ job' \in [Workers -> Jobs]
      BY <2>2, <2>5, <3>1 DEF PassOn
    <3>3. QED
      BY <2>5, <3>2 DEF PassOn
  <2>6. CASE Discard(w)
    BY <2>1, <2>2, <2>6 DEF Discard
  <2>7. CASE RetryLater(w)
    <3>1. CASE t.retries < MaxRetries
      <4>1. t.retries + 1 \in 0..MaxRetries
        <5>1. t.retries \in 0..MaxRetries
          BY <2>1 DEF Task
        <5>2. ASSUME NEW n \in 0..MaxRetries, n < MaxRetries
              PROVE n + 1 \in 0..MaxRetries
          BY <5>2
        <5>3. QED
          BY <3>1, <5>1, <5>2
      <4>2. [t EXCEPT !.retries = t.retries + 1] \in Task
        BY <2>1, <4>1 DEF Task
      <4>3. queue' = Append(queue, [t EXCEPT !.retries = t.retries + 1])
        BY <2>7, <3>1 DEF RetryLater, Enqueue
      <4>4. queue' \in Seq(Task)
        BY <4>2, <4>3
      <4>5. QED
        BY <2>2, <2>7, <3>1, <4>4 DEF RetryLater
    <3>2. CASE ~ (t.retries < MaxRetries)
      BY <2>1, <2>2, <2>7, <3>2 DEF RetryLater
    <3>3. QED
      BY <3>1, <3>2
  <2>8. CASE Prepare(w)
    BY <2>1, <2>2, <2>8 DEF Prepare, Steps
  <2>9. CASE Insert(w)
    <3>1. job' \in [Workers -> Jobs]
      BY <2>2, <2>9 DEF Insert, Steps
    <3>2. posts' \subseteq Ids /\ newestRow' \in posts'
      BY <2>1, <2>9 DEF Insert
    <3>3. QED
      BY <2>9, <3>1, <3>2 DEF Insert
  <2>10. CASE Dispatch(w)
    <3>1. searches' \in [Ids -> Nat]
      BY <2>1, <2>10 DEF Dispatch
    <3>2. QED
      BY <2>2, <2>10, <3>1 DEF Dispatch
  <2>11. CASE InsertFails(w)
    BY <2>1, <2>2, <2>11 DEF InsertFails, Fault
  <2>12. CASE WorkerCrash(w)
    <3>1. dropped' \subseteq Ids
      BY <2>1, <2>3, <2>12 DEF WorkerCrash
    <3>2. QED
      BY <2>2, <2>12, <3>1 DEF WorkerCrash, Fault
  <2>13. QED
    BY <1>16, <2>4, <2>5, <2>6, <2>7, <2>8, <2>9, <2>10, <2>11, <2>12 DEF Worker
<1>17. CASE UNCHANGED vars
  BY <1>17 DEF vars
<1>18. Advance => ahead \in Ids
  BY ShownIds DEF LoopOK, Advance
<1>19. QED
  BY <1>1, <1>2, <1>3, <1>4, <1>5, <1>6, <1>7, <1>8, <1>9, <1>10, <1>11, <1>12,
     <1>13, <1>14, <1>15, <1>16, <1>17, <1>18
     DEF Next, Reddit, Backfill, FollowNew, Failure, Worker
LEMMA InitRest == Init => SentOK /\ TasksOK /\ LoopOK /\ DispatchOK /\ ChecksOK
<1> SUFFICES ASSUME Init PROVE SentOK /\ TasksOK /\ LoopOK /\ DispatchOK /\ ChecksOK
  OBVIOUS
<1>1. SentOK
  BY DEF Init, SentOK, Covered, Done
<1>2. Idle.task \in SentTask /\ Idle.step = "idle"
  BY TaskTypes DEF Init, Idle, Jobs, PostTask, NoPost, SentTask, IdsOf
<1>3. TasksOK
  BY <1>2 DEF Init, TasksOK
<1>4. LoopOK
  BY DEF Init, LoopOK, IdsOf
<1>5. DispatchOK /\ ChecksOK
  BY <1>2 DEF Init, DispatchOK, ChecksOK, SavedIsChecked, At
<1>6. QED
  BY <1>1, <1>3, <1>4, <1>5

LEMMA ChecksStep == TypeOK /\ ChecksOK /\ [Next]_vars => ChecksOK'
<1> SUFFICES ASSUME TypeOK, ChecksOK, [Next]_vars PROVE ChecksOK'
  OBVIOUS
<1> USE DEF ChecksOK, SavedIsChecked, At, Post, reddit, rows, orders, loop
<1>1. CASE UNCHANGED <<posts, checks, job>>
  BY <1>1
<1>2. ASSUME NEW w \in Workers, Worker(w) \/ InsertFails(w) \/ WorkerCrash(w)
      PROVE ChecksOK'
  <2>1. Idle.step = "idle" /\ job[w] \in Jobs
    BY <1>2 DEF Idle, TypeOK
  <2> USE <2>1 DEF TypeOK, Jobs, Finish, Become
  <2>2. CASE Take(w)
    <3>1. /\ job' = [job EXCEPT ![w] = job'[w]]
          /\ job'[w].step # "insert"
      BY <2>2 DEF Take
    <3>2. QED
      BY <2>2, <3>1 DEF Take
  <2>3. CASE PassOn(w)
    BY <2>3, ZenonT(30) DEF PassOn
  <2>4. CASE Discard(w)
    BY <2>4 DEF Discard
  <2>5. CASE RetryLater(w)
    BY <2>5 DEF RetryLater
  <2>6. CASE Prepare(w)
    BY <2>6 DEF Prepare
  <2>7. CASE Insert(w)
    BY <2>7 DEF Insert
  <2>8. CASE Dispatch(w)
    BY <2>8 DEF Dispatch
  <2>9. CASE InsertFails(w)
    BY <2>9 DEF InsertFails
  <2>10. CASE WorkerCrash(w)
    BY <2>10 DEF WorkerCrash
  <2>11. QED
    BY <1>2, <2>2, <2>3, <2>4, <2>5, <2>6, <2>7, <2>8, <2>9, <2>10 DEF Worker
<1>3. QED
  BY <1>1, <1>2
     DEF vars, Next, Reddit, Backfill, FollowNew, Failure, Worker, Publish, Withhold,
         TakeDown, GalleryProcessed, TokenExpires, Start, StartBatch, FetchJob,
         QueueBatch, Fetch, RefreshToken, QueuePost, Advance, Crash, UnusableAnswer
LEMMA DispatchStep == TypeOK /\ DispatchOK /\ [Next]_vars => DispatchOK'
<1> SUFFICES ASSUME TypeOK, DispatchOK, [Next]_vars PROVE DispatchOK'
  OBVIOUS
<1> USE DEF DispatchOK, At, Post, reddit, rows, orders, loop
<1>1. CASE UNCHANGED <<posts, searches, job>>
  BY <1>1
<1>2. ASSUME NEW w \in Workers, Worker(w) \/ InsertFails(w) \/ WorkerCrash(w)
      PROVE DispatchOK'
  <2>1. Idle.step = "idle" /\ job[w] \in Jobs /\ Post(w) \in Ids
    BY <1>2 DEF Idle, TypeOK, Jobs, Task, Payload
  <2> USE <2>1 DEF TypeOK, Finish, Become
  \* a step after which w is not about to order a search
  <2>2. ASSUME \A v \in Workers : v # w => job'[v] = job[v],
               job'[w].step # "dispatch",
               posts \subseteq posts', UNCHANGED searches
        PROVE DispatchOK'
    BY <2>2, SMTT(30)
  <2>3. CASE Take(w)
    <3>1. /\ job' = [job EXCEPT ![w] = job'[w]]
          /\ job'[w].step # "dispatch"
      BY <2>3 DEF Take
    <3>2. QED
      BY <2>2, <2>3, <3>1 DEF Take
  <2>4. CASE PassOn(w)
    BY <2>2, <2>4 DEF PassOn, Jobs
  <2>5. CASE Discard(w)
    BY <2>2, <2>5 DEF Discard
  <2>6. CASE RetryLater(w)
    BY <2>2, <2>6 DEF RetryLater
  <2>7. CASE Prepare(w)
    BY <2>2, <2>7 DEF Prepare, Jobs
  <2>8. CASE Insert(w)
    <3>1. CASE Post(w) \in posts
      BY <2>2, <2>8, <3>1 DEF Insert
    <3>2. CASE Post(w) \notin posts
      <4>1. /\ posts' = posts \cup {Post(w)} /\ UNCHANGED searches
            /\ job' = [job EXCEPT ![w].step = "dispatch"]
        BY <2>8, <3>2 DEF Insert
      <4>2. /\ job'[w].step = "dispatch" /\ job'[w].task = job[w].task
            /\ \A v \in Workers : v # w => job'[v] = job[v]
        BY <4>1 DEF Jobs
      <4>3. searches[Post(w)] = 0
        BY <3>2
      <4>4. QED
        BY <3>2, <4>1, <4>2, <4>3
    <3>3. QED
      BY <3>1, <3>2
  <2>9. CASE Dispatch(w)
    <3>1. /\ \A v \in Workers : v # w => job'[v] = job[v]
          /\ job'[w].step # "dispatch" /\ UNCHANGED posts
      BY <2>9 DEF Dispatch
    <3>2. /\ \A i \in Ids : i # Post(w) => searches'[i] = searches[i]
          /\ Post(w) \in posts
      BY <2>9 DEF Dispatch
    <3>3. QED
      BY <3>1, <3>2, <2>9 DEF Dispatch
  <2>10. CASE InsertFails(w)
    BY <2>2, <2>10 DEF InsertFails
  <2>11. CASE WorkerCrash(w)
    BY <2>2, <2>11 DEF WorkerCrash
  <2>12. QED
    BY <1>2, <2>3, <2>4, <2>5, <2>6, <2>7, <2>8, <2>9, <2>10, <2>11 DEF Worker
<1>3. QED
  BY <1>1, <1>2
     DEF vars, Next, Reddit, Backfill, FollowNew, Failure, Worker, Publish, Withhold,
         TakeDown, GalleryProcessed, TokenExpires, Start, StartBatch, FetchJob,
         QueueBatch, Fetch, RefreshToken, QueuePost, Advance, Crash, UnusableAnswer

\* Every step of the ingest is a step of the store, or none of the store.
LEMMA StoreStep == TypeOK /\ DispatchOK /\ [Next]_vars => [Store!Next]_<<posts, searches>>
<1> SUFFICES ASSUME TypeOK, DispatchOK, [Next]_vars,
                    ~ UNCHANGED <<posts, searches>>
             PROVE Store!Next
  BY DEF Store!Next
<1>1. PICK w \in Workers : Insert(w) \/ Dispatch(w)
  BY DEF vars, Next, Reddit, Backfill, FollowNew, Failure, Worker, Publish, Withhold,
         TakeDown, GalleryProcessed, TokenExpires, Start, StartBatch, FetchJob,
         QueueBatch, Fetch, RefreshToken, QueuePost, Advance, Crash, UnusableAnswer,
         Take, PassOn, Discard, RetryLater, Prepare, InsertFails, WorkerCrash,
         reddit, rows, orders, loop
<1>2. Post(w) \in Ids
  BY DEF TypeOK, Jobs, Task, Payload, Post
<1>3. CASE Insert(w)
  <2>1. Store!Save(Post(w))
    BY <1>3 DEF Insert, Store!Save, orders, rows
  <2>2. QED
    BY <1>2, <2>1 DEF Store!Next
<1>4. CASE Dispatch(w)
  <2>1. Post(w) \in posts /\ searches[Post(w)] = 0 /\ UNCHANGED posts
    BY <1>4 DEF Dispatch, DispatchOK, rows
  <2>2. searches' = [searches EXCEPT ![Post(w)] = 1]
    BY <1>2, <1>4, <2>1 DEF Dispatch, TypeOK, rows
  <2>3. QED
    BY <1>2, <2>1, <2>2 DEF Store!Next, Store!OrderSearch
<1>5. QED
  BY <1>1, <1>3, <1>4
LEMMA SentTaskFacts ==
    ASSUME TypeOK, SentOK, TasksOK, sent \subseteq sent'
    PROVE  /\ SentTask \subseteq SentTask'
           /\ \A p \in Payload : p.id \in sent => PostTask(p) \in SentTask
           /\ Idle.task \in SentTask
           /\ queue \in Seq(SentTask')
<1>1. SentTask \subseteq SentTask'
  BY DEF SentTask
<1>2. \A p \in Payload : p.id \in sent => PostTask(p) \in SentTask
  BY TaskTypes DEF SentTask, PostTask, IdsOf
<1>3. Idle.task \in SentTask
  <2>1. Idle.task \in Task /\ Idle.task.post = NoPost /\ Idle.task.posts = {}
    BY TaskTypes DEF Idle, Jobs, PostTask
  <2>2. 1 \in sent
    BY DEF SentOK
  <2>3. QED
    BY <2>1, <2>2 DEF SentTask, NoPost, IdsOf
<1>4. queue \in Seq(SentTask')
  BY <1>1 DEF TasksOK
<1>5. QED
  BY <1>1, <1>2, <1>3, <1>4

LEMMA TasksStep == TypeOK /\ SentOK /\ TasksOK /\ [Next]_vars => TasksOK'
<1> SUFFICES ASSUME TypeOK, SentOK, TasksOK, [Next]_vars PROVE TasksOK'
  OBVIOUS
<1> USE DEF reddit, rows, orders, loop
<1>1. ASSUME sent \subseteq sent', UNCHANGED <<queue, job>> PROVE TasksOK'
  BY <1>1, SentTaskFacts DEF TasksOK
<1>2. ASSUME QueueBatch PROVE TasksOK'
  <2>1. BatchTask(found) \in Task /\ IdsOf(found) \subseteq sent' /\ sent \subseteq sent'
    BY <1>2, TaskTypes DEF QueueBatch, TypeOK
  <2>2. BatchTask(found) \in SentTask'
    BY <2>1 DEF SentTask, BatchTask, NoPost, SentOK
  <2>3. queue' = Append(queue, BatchTask(found)) /\ UNCHANGED job
    BY <1>2 DEF QueueBatch, Enqueue
  <2>4. QED
    BY <2>1, <2>2, <2>3, SentTaskFacts DEF TasksOK
<1>3. ASSUME QueuePost PROVE TasksOK'
  <2>1. PICK p \in found : Enqueue(PostTask(p)) /\ sent' = sent \cup {p.id}
    BY <1>3 DEF QueuePost
  <2>2. PostTask(p) \in SentTask'
    BY <2>1, TaskTypes DEF SentTask, PostTask, IdsOf, TypeOK
  <2>3. queue' = Append(queue, PostTask(p)) /\ UNCHANGED job
    BY <1>3, <2>1 DEF QueuePost, Enqueue
  <2>4. QED
    BY <2>1, <2>2, <2>3, SentTaskFacts DEF TasksOK
<1>4. ASSUME NEW w \in Workers, Worker(w) \/ InsertFails(w) \/ WorkerCrash(w)
      PROVE TasksOK'
  <2> DEFINE t == job[w].task
  <2>1. /\ job[w] \in Jobs /\ t \in SentTask /\ UNCHANGED sent
        /\ SentTask' = SentTask /\ Idle.task \in SentTask
    <3>1. UNCHANGED sent
      BY <1>4 DEF Worker, Take, PassOn, Discard, RetryLater, Prepare, Insert, Dispatch,
                  InsertFails, WorkerCrash
    <3>2. QED
      BY <1>4, <3>1, SentTaskFacts DEF TasksOK, SentTask, TypeOK
  <2>2. ASSUME queue' \in Seq(SentTask), job'[w].task \in SentTask,
               \A v \in Workers : v # w => job'[v] = job[v]
        PROVE TasksOK'
    BY <2>1, <2>2 DEF TasksOK
  <2>3. /\ Finish(w) => /\ job'[w].task \in SentTask
                        /\ \A v \in Workers : v # w => job'[v] = job[v]
        /\ \A s \in Steps : Become(w, s) => /\ job'[w].task \in SentTask
                                             /\ \A v \in Workers : v # w => job'[v] = job[v]
    BY <1>4, <2>1 DEF Finish, Become, TypeOK, Jobs
  <2>4. queue \in Seq(SentTask)
    BY DEF TasksOK
  <2>5. CASE Take(w)
    <3>1. Head(queue) \in SentTask /\ queue' \in Seq(SentTask)
      BY <2>4, <2>5 DEF Take
    <3>2. /\ job'[w].task \in {Idle.task, Head(queue)}
          /\ \A v \in Workers : v # w => job'[v] = job[v]
      BY <1>4, <2>5 DEF Take, TypeOK
    <3>3. QED
      BY <2>1, <2>2, <3>1, <3>2
  <2>6. CASE PassOn(w)
    <3>1. ASSUME NEW p \in Rest(w), Enqueue(PostTask(p)),
                 job' = [job EXCEPT ![w].task.posts = @ \ {p}]
          PROVE TasksOK'
      <4>1. p \in Payload /\ p.id \in sent
        BY <2>1, <3>1 DEF Rest, SentTask, Task, IdsOf
      <4>2. queue' \in Seq(SentTask)
        BY <2>4, <3>1, <4>1, SentTaskFacts, <2>1 DEF Enqueue
      <4>3. [t EXCEPT !.posts = @ \ {p}] \in SentTask
        BY <2>1 DEF SentTask, Task, IdsOf
      <4>4. /\ job'[w].task = [t EXCEPT !.posts = @ \ {p}]
            /\ \A v \in Workers : v # w => job'[v] = job[v]
        BY <1>4, <2>1, <3>1 DEF TypeOK, Jobs
      <4>5. QED
        BY <2>2, <4>2, <4>3, <4>4
    <3>2. CASE Rest(w) = {} /\ Finish(w) /\ UNCHANGED queue
      BY <2>2, <2>3, <2>4, <3>2
    <3>3. QED
      BY <2>6, <3>1, <3>2 DEF PassOn
  <2>7. CASE RetryLater(w)
    <3>1. CASE t.retries < MaxRetries
      <4>1. [t EXCEPT !.retries = t.retries + 1] \in SentTask
        <5>1. t.retries + 1 \in 0..MaxRetries
          BY <2>1, <3>1, IngestAssumption DEF SentTask, Task
        <5>2. QED
          BY <2>1, <5>1 DEF SentTask, Task
      <4>2. queue' = Append(queue, [t EXCEPT !.retries = t.retries + 1]) /\ Finish(w)
        BY <2>7, <3>1 DEF RetryLater, Enqueue
      <4>3. QED
        BY <2>2, <2>3, <2>4, <4>1, <4>2
    <3>2. CASE ~ (t.retries < MaxRetries)
      BY <2>2, <2>3, <2>4, <2>7, <3>2 DEF RetryLater
    <3>3. QED
      BY <3>1, <3>2
  <2>8. CASE Discard(w) \/ Prepare(w) \/ Insert(w) \/ Dispatch(w)
             \/ InsertFails(w) \/ WorkerCrash(w)
    <3>1. UNCHANGED queue /\ (Finish(w) \/ \E s \in Steps : Become(w, s))
      BY <2>8 DEF Discard, Prepare, Insert, Dispatch, InsertFails, WorkerCrash, Steps
    <3>2. QED
      BY <2>2, <2>3, <2>4, <3>1
  <2>9. QED
    BY <1>4, <2>5, <2>6, <2>7, <2>8 DEF Worker
<1>5. QED
  BY <1>1, <1>2, <1>3, <1>4
     DEF vars, Next, Reddit, Backfill, FollowNew, Failure, Worker, Publish, Withhold,
         TakeDown, GalleryProcessed, TokenExpires, Start, StartBatch, FetchJob,
         Fetch, RefreshToken, Advance, Crash, UnusableAnswer
LEMMA SentStep == TypeOK /\ SentOK /\ TasksOK /\ LoopOK /\ [Next]_vars => SentOK'
<1> SUFFICES ASSUME TypeOK, SentOK, TasksOK, LoopOK, [Next]_vars PROVE SentOK'
  OBVIOUS
<1> USE DEF SentOK, Covered, Done, reddit, rows, orders, loop
<1>1. ASSUME UNCHANGED <<shown, newestRow, sent>>, dropped \subseteq dropped',
             takenDown \subseteq takenDown'
      PROVE SentOK'
  BY <1>1
<1>2. ASSUME Publish PROVE SentOK'
  <2>1. \A n \in sent : n \in Nat /\ n <= frontier
    BY DEF TypeOK, Ids
  <2>2. /\ shown' = shown \cup {frontier + 1} /\ frontier \in Nat
        /\ UNCHANGED <<newestRow, sent, dropped, takenDown>>
    BY <1>2 DEF Publish, TypeOK, Ids
  <2>3. QED
    BY <2>1, <2>2
<1>3. ASSUME QueueBatch PROVE SentOK'
  <2>1. /\ sent' = sent \cup IdsOf(found) /\ phase = "batch" /\ jobs = {}
        /\ UNCHANGED <<shown, newestRow, dropped, takenDown>>
    BY <1>3 DEF QueueBatch
  <2>2. \A n \in IdsOf(found) : \A i \in shown : i < n => i \in Done'
    <3> SUFFICES ASSUME NEW n \in IdsOf(found), NEW i \in shown, i < n
                 PROVE  i \in Done'
      OBVIOUS
    <3>1. n < ahead /\ n < newest
      BY <2>1 DEF LoopOK
    <3>2. i < ahead /\ i < newest
      <4>1. i \in Nat /\ n \in Nat /\ ahead \in Nat /\ newest \in Nat
        BY ShownIds DEF TypeOK, LoopOK
      <4>2. QED
        BY <3>1, <4>1
    <3>3. QED
      BY <2>1, <3>2 DEF LoopOK
  <2>3. QED
    BY <2>1, <2>2 DEF LoopOK
<1>4. ASSUME QueuePost PROVE SentOK'
  <2>1. PICK p \in found : /\ \A q \in found : p.id <= q.id
                           /\ sent' = sent \cup {p.id}
    BY <1>4 DEF QueuePost
  <2>2. UNCHANGED <<shown, newestRow, dropped, takenDown>> /\ phase = "queue"
    BY <1>4 DEF QueuePost
  <2>3. \A i \in shown : i < p.id => i \in Done
    <3> SUFFICES ASSUME NEW i \in shown, i < p.id PROVE i \in Done
      OBVIOUS
    <3>1. p.id \in shown /\ p.id <= ahead
      BY <2>2 DEF LoopOK, IdsOf
    <3>2. i \in Nat /\ p.id \in Nat /\ ahead \in Nat
      BY <3>1, ShownIds DEF TypeOK
    <3>3. i \in Done \cup IdsOf(found)
      BY <2>2, <3>1, <3>2 DEF LoopOK
    <3>4. i \notin IdsOf(found)
      BY <2>1, <3>2 DEF IdsOf, TypeOK, Payload, Ids
    <3>5. QED
      BY <3>3, <3>4
  <2>4. p.id \in shown
    BY DEF LoopOK, IdsOf
  <2>5. QED
    BY <2>1, <2>2, <2>3, <2>4
<1>5. ASSUME NEW w \in Workers, Worker(w) \/ InsertFails(w) \/ WorkerCrash(w)
      PROVE SentOK'
  <2>1. Post(w) \in sent
    BY DEF TasksOK, SentTask, Post
  <2>2. /\ UNCHANGED <<shown, sent, takenDown>> /\ dropped \subseteq dropped'
        /\ newestRow' \in {newestRow, Post(w)}
    BY <1>5 DEF Worker, Take, PassOn, Discard, RetryLater, Prepare, Insert, Dispatch,
                InsertFails, WorkerCrash
  <2>3. QED
    BY <2>1, <2>2
<1>6. QED
  BY <1>1, <1>2, <1>3, <1>4, <1>5
     DEF vars, Next, Reddit, Backfill, FollowNew, Failure, Worker, Withhold,
         TakeDown, GalleryProcessed, TokenExpires, Start, StartBatch, FetchJob,
         Fetch, RefreshToken, Advance, Crash, UnusableAnswer
\* The chunks of a batch follow each other without a gap.
LEMMA ChunkOf ==
    ASSUME NEW d \in Nat, NEW c \in Nat \ {0}, NEW n \in Nat, d < c * n
    PROVE  \E k \in 0..(n - 1) : c * k <= d /\ d < c * k + c
<1> DEFINE k == d \div c
<1>1. k \in Nat /\ c * k <= d /\ d < c * k + c
  OBVIOUS
<1>2. k < n
  <2>1. ASSUME k >= n PROVE FALSE
    <3>1. c * k >= c * n
      BY <2>1, <1>1
    <3>2. QED
      BY <3>1, <1>1
  <2>2. QED
    BY <2>1, <1>1
<1>3. k \in 0..(n - 1)
  BY <1>1, <1>2
<1>4. QED
  BY <1>1, <1>3

LEMMA IdsOfAnswered == \A S : IdsOf({Answered(i) : i \in S}) = S
<1>1. \A i : Answered(i).id = i
  BY DEF Answered
<1>2. QED
  BY <1>1 DEF IdsOf

LEMMA LoopStep == TypeOK /\ SentOK /\ LoopOK /\ [Next]_vars => LoopOK'
<1> SUFFICES ASSUME TypeOK, SentOK, LoopOK, [Next]_vars PROVE LoopOK'
  OBVIOUS
<1> USE IngestAssumption DEF Covered, Done, reddit, rows, orders, loop
<1>0. /\ \A i \in shown : i \in Nat /\ i \in Ids /\ i <= frontier
      /\ newest \in Nat /\ ahead \in Nat /\ frontier \in Nat
      /\ jobs \subseteq Nat
  BY ShownIds DEF TypeOK, LoopOK, Ids
\* steps of Reddit and of the workers
<1>1. ASSUME UNCHANGED <<shown, sent, phase, newest, ahead, jobs, found>>,
             dropped \subseteq dropped', takenDown \subseteq takenDown'
      PROVE LoopOK'
  <2>1. Done \subseteq Done' /\ \A f \in jobs : Requested(f)' = Requested(f)
    BY <1>1 DEF Requested
  <2>2. QED
    BY <1>1, <2>1 DEF LoopOK
<1>2. ASSUME Publish PROVE LoopOK'
  <2>1. /\ shown' = shown \cup {frontier + 1}
        /\ UNCHANGED <<sent, dropped, takenDown, phase, newest, ahead, jobs, found>>
    BY <1>2 DEF Publish
  <2>2. newest <= frontier
    BY <1>0 DEF LoopOK
  <2>3. phase = "queue" => ahead <= frontier
    BY <1>0 DEF LoopOK
  <2>4. \A f \in jobs : Requested(f)' = Requested(f)
    BY <2>1 DEF Requested
  <2>5. QED
    BY <1>0, <2>1, <2>2, <2>3, <2>4 DEF LoopOK
<1>3. ASSUME Start PROVE LoopOK'
  <2>1. /\ newest' \in shown /\ ahead' = newestRow /\ phase' = "backfill"
        /\ phase = "start"
        /\ UNCHANGED <<shown, sent, dropped, takenDown, jobs, found>>
    BY <1>3 DEF Start
  <2>2. \A i \in shown : i < newestRow => i \in Done
    BY DEF SentOK
  <2>3. found = {} /\ jobs = {}
    BY <2>1 DEF LoopOK
  <2>4. QED
    BY <2>1, <2>2, <2>3 DEF LoopOK, IdsOf
<1>4. ASSUME StartBatch PROVE LoopOK'
  <2>1. /\ phase = "backfill" /\ phase' = "batch" /\ ahead' = ahead + Chunk * JobLimit
        /\ UNCHANGED <<shown, sent, dropped, takenDown, newest, found>>
    BY <1>4 DEF StartBatch
  <2>2. found = {} /\ newest \in shown
    BY <2>1 DEF LoopOK
  <2>3. ASSUME NEW i \in shown, i < ahead', i < newest
        PROVE  i \in Done \/ \E f \in jobs' : i \in Requested(f)'
    <3>1. CASE i < ahead
      BY <2>1, <2>2, <2>3, <3>1 DEF LoopOK, IdsOf
    <3>2. CASE ahead <= i
      <4> DEFINE d == i - ahead
      <4>1. d \in Nat /\ Chunk \in Nat \ {0} /\ JobLimit \in Nat /\ d < Chunk * JobLimit
        BY <1>0, <2>1, <2>3, <3>2
      <4>2. PICK k \in 0..(JobLimit - 1) : Chunk * k <= d /\ d < Chunk * k + Chunk
        <5> HIDE DEF d
        <5>1. QED
          BY <4>1, ChunkOf
      <4>0. PICK f \in Nat : f = ahead + Chunk * k
        BY <1>0
      <4>3. Chunk * k \in Nat /\ f <= i /\ i < f + Chunk
        BY <1>0, <4>0, <4>1, <4>2
      <4>4. f < newest + Chunk
        BY <1>0, <2>3, <4>3
      <4>5. f \in jobs'
        <5>1. CASE k = 0
          <6>1. f = ahead
            BY <1>0, <4>0, <5>1
          <6>2. QED
            BY <1>4, <6>1 DEF StartBatch
        <5>2. CASE k # 0
          <6>1. k \in 1..(JobLimit - 1)
            BY <4>2, <5>2
          <6>2. QED
            BY <1>4, <4>0, <4>4, <6>1 DEF StartBatch
        <5>3. QED
          BY <5>1, <5>2
      <4>6. i \in Requested(f)'
        BY <1>0, <2>1, <2>3, <4>3 DEF Requested
      <4>7. QED
        BY <4>5, <4>6
    <3>3. QED
      BY <1>0, <2>3, <3>1, <3>2
  <2>4. ASSUME NEW f \in jobs' PROVE f + Chunk <= ahead'
    <3>1. PICK k \in 0..(JobLimit - 1) : f = ahead + Chunk * k
      <4>1. CASE f = ahead
        <5>1. 0 \in 0..(JobLimit - 1) /\ f = ahead + Chunk * 0
          BY <1>0, <4>1
        <5>2. QED
          BY <5>1
      <4>2. CASE f # ahead
        <5>1. \E k \in 1..(JobLimit - 1) : f = ahead + Chunk * k
          BY <1>4, <2>4, <4>2 DEF StartBatch
        <5>2. QED
          BY <5>1
      <4>3. QED
        BY <4>1, <4>2
    <3>2. Chunk * k + Chunk <= Chunk * JobLimit
      <4>1. k \in Nat /\ k + 1 <= JobLimit /\ Chunk * (k + 1) = Chunk * k + Chunk
        OBVIOUS
      <4>2. Chunk * (k + 1) <= Chunk * JobLimit
        BY <4>1
      <4>3. QED
        BY <4>1, <4>2
    <3>3. QED
      BY <1>0, <2>1, <3>1, <3>2
  <2>5. QED
    BY <2>1, <2>2, <2>3, <2>4 DEF LoopOK, IdsOf
<1>5. ASSUME NEW f \in jobs, FetchJob(f) PROVE LoopOK'
  <2>1. /\ phase = "batch" /\ jobs' = jobs \ {f}
        /\ found' = found \cup {Answered(i) : i \in (Requested(f) \cap shown) \ takenDown}
        /\ UNCHANGED <<shown, sent, dropped, takenDown, phase, newest, ahead>>
    BY <1>5 DEF FetchJob
  <2>2. IdsOf(found') = IdsOf(found) \cup ((Requested(f) \cap shown) \ takenDown)
    <3>1. IdsOf(found') = IdsOf(found)
                           \cup IdsOf({Answered(i) : i \in (Requested(f) \cap shown) \ takenDown})
      BY <2>1 DEF IdsOf
    <3>2. QED
      BY <3>1, IdsOfAnswered
  <2>3. \A g \in jobs : Requested(g)' = Requested(g)
    BY <2>1 DEF Requested
  <2>4. \A i \in Requested(f) \cap shown : i < ahead /\ i < newest
    <3>1. f \in Nat /\ f + Chunk <= ahead
      BY <1>0, <2>1 DEF LoopOK
    <3>2. QED
      BY <1>0, <3>1 DEF Requested
  <2>5. QED
    BY <2>1, <2>2, <2>3, <2>4 DEF LoopOK
<1>6. ASSUME NEW f \in jobs, UnusableAnswer(f) PROVE LoopOK'
  <2>1. /\ phase = "batch" /\ jobs' = jobs \ {f} /\ dropped' = dropped \cup Requested(f)
        /\ UNCHANGED <<shown, sent, takenDown, phase, newest, ahead, found>>
    BY <1>6 DEF UnusableAnswer
  <2>2. \A g \in jobs : Requested(g)' = Requested(g)
    BY <2>1 DEF Requested
  <2>3. QED
    BY <2>1, <2>2 DEF LoopOK
<1>7. ASSUME QueueBatch PROVE LoopOK'
  <2>1. /\ phase = "batch" /\ jobs = {} /\ found' = {}
        /\ sent' = sent \cup IdsOf(found)
        /\ phase' = IF ahead < newest + Chunk THEN "backfill" ELSE "fetch"
        /\ UNCHANGED <<shown, dropped, takenDown, newest, ahead, jobs>>
    BY <1>7 DEF QueueBatch
  <2>2. \A i \in shown : i < ahead /\ i < newest => i \in Done'
    BY <2>1 DEF LoopOK
  <2>3. phase' = "fetch" => \A i \in shown : i < newest => i < ahead
    BY <1>0, <2>1
  <2>4. newest' \in shown' /\ IdsOf(found') = {} /\ phase' \in {"backfill", "fetch"}
    BY <2>1 DEF LoopOK, IdsOf
  <2>5. QED
    BY <2>1, <2>2, <2>3, <2>4 DEF LoopOK
<1>8. ASSUME Fetch PROVE LoopOK'
  <2>1. /\ phase = "fetch" /\ phase' = "queue"
        /\ found' = {Answered(i) : i \in Answer \ takenDown}
        /\ ahead' \in Answer /\ \A i \in Answer : i <= ahead'
        /\ UNCHANGED <<shown, sent, dropped, takenDown, newest, jobs>>
    BY <1>8 DEF Fetch
  <2>2. IdsOf(found') = Answer \ takenDown
    BY <2>1, IdsOfAnswered
  <2>3. \A i \in shown : i <= ahead' => i < newest \/ i \in Answer
    BY <1>0, <2>1 DEF Answer
  <2>4. \A i \in shown : i < newest => i \in Done
    BY <2>1 DEF LoopOK
  <2>5. jobs = {} /\ newest \in shown /\ Answer \subseteq shown
    BY <2>1 DEF LoopOK, Answer
  <2>6. QED
    BY <2>1, <2>2, <2>3, <2>4, <2>5 DEF LoopOK
<1>9. ASSUME QueuePost PROVE LoopOK'
  <2>1. PICK p \in found : sent' = sent \cup {p.id} /\ found' = found \ {p}
    BY <1>9 DEF QueuePost
  <2>2. /\ phase = "queue"
        /\ UNCHANGED <<shown, dropped, takenDown, phase, newest, ahead, jobs>>
    BY <1>9 DEF QueuePost
  <2>3. /\ IdsOf(found') \subseteq IdsOf(found)
        /\ IdsOf(found) \subseteq IdsOf(found') \cup {p.id}
    BY <2>1 DEF IdsOf
  <2>4. QED
    BY <2>1, <2>2, <2>3 DEF LoopOK
<1>10. ASSUME Advance PROVE LoopOK'
  <2>1. /\ phase = "queue" /\ phase' = "fetch" /\ found = {} /\ newest' = ahead
        /\ UNCHANGED <<shown, sent, dropped, takenDown, ahead, jobs, found>>
    BY <1>10 DEF Advance
  <2>2. /\ ahead \in shown /\ jobs = {}
        /\ \A i \in shown : i <= ahead => i \in Done
    BY <2>1 DEF LoopOK, IdsOf
  <2>3. \A i \in shown : i < ahead => i \in Done
    BY <1>0, <2>2
  <2>4. QED
    BY <2>1, <2>2, <2>3 DEF LoopOK, IdsOf
<1>11. ASSUME Crash PROVE LoopOK'
  BY <1>11 DEF Crash, SentOK, LoopOK, IdsOf
<1>12. ASSUME NEW w \in Workers, Worker(w) \/ InsertFails(w) \/ WorkerCrash(w)
       PROVE LoopOK'
  <2>1. /\ UNCHANGED <<shown, sent, phase, newest, ahead, jobs, found, takenDown>>
        /\ dropped \subseteq dropped'
    BY <1>12 DEF Worker, Take, PassOn, Discard, RetryLater, Prepare, Insert, Dispatch,
                 InsertFails, WorkerCrash
  <2>2. QED
    BY <1>1, <2>1
<1>13. QED
  BY <1>1, <1>2, <1>3, <1>4, <1>5, <1>6, <1>7, <1>8, <1>9, <1>10, <1>11, <1>12
     DEF vars, Next, Reddit, Backfill, FollowNew, Failure, Withhold,
         TakeDown, GalleryProcessed, TokenExpires, RefreshToken
-----------------------------------------------------------------------------
THEOREM IngestInvariant == Spec => []IInv
<1>1. Init => IInv
  BY InitType, InitRest DEF IInv
<1>2. IInv /\ [Next]_vars => IInv'
  BY TypeStep, SentStep, TasksStep, LoopStep, DispatchStep, ChecksStep DEF IInv
<1>3. QED
  BY <1>1, <1>2, PTL DEF Spec

\* Every variable keeps its type; no task is retried more than MaxRetries times.
THEOREM IngestTypeOK == Spec => []TypeOK
<1>1. IInv => TypeOK
  BY DEF IInv
<1>2. QED
  BY <1>1, IngestInvariant, PTL

\* Wherever the workers have got to, a restart from the newest row misses no
\* post: all that the API showed below it were queued, given up or taken down.
THEOREM IngestResumeSafe == Spec => []ResumeSafe
<1>1. IInv => ResumeSafe
  BY DEF IInv, SentOK, Covered, Done, ResumeSafe
<1>2. QED
  BY <1>1, IngestInvariant, PTL

\* A saved post of a monitored sub has had its check ordered.
THEOREM IngestSavedIsChecked == Spec => []SavedIsChecked
<1>1. IInv => SavedIsChecked
  BY DEF IInv, ChecksOK
<1>2. QED
  BY <1>1, IngestInvariant, PTL

\* The ingest implements the store: a post is saved once, and its search for
\* reposts is ordered at most once and only after the post is saved.
THEOREM IngestImplementsStore == Spec => StoreSpec
<1>1. Init => Store!Init
  BY IngestAssumption DEF Init, Store!Init, Ids
<1>2. IInv /\ [Next]_vars => [Store!Next]_<<posts, searches>>
  BY StoreStep DEF IInv
<1>3. QED
  BY <1>1, <1>2, IngestInvariant, PTL DEF Spec, StoreSpec, Store!Spec
=============================================================================
