----------------------------- MODULE RepostProofs ----------------------------
(***************************************************************************)
(* What holds of the checks of new posts and of the watches for every set   *)
(* of posts, every number of workers, retries and failures: a post is       *)
(* recorded at most once, the oldest original is the one that is named, and *)
(* a watch that has been ended is not revived.                              *)
(***************************************************************************)
EXTENDS RepostTasks, SequenceTheorems, WellFoundedInduction, TLAPS

TaskSteps  == {"url", "first", "second", "record", "watch", "link"}
ImageSteps == {"url", "first", "second", "record", "watch"}
Held(w, p) == job[w].step \in TaskSteps /\ job[w].post = p

\* The shape of what TypeOK leaves open.
ShapeOK ==
    /\ reposts \in [Posts -> Seq(Posts)] /\ faults \in Nat
    /\ \A w \in Workers :
         /\ job[w].step # "idle" => job[w].post \in saved
         /\ job[w].step \in TaskSteps => (job[w].post \in Images <=> job[w].step # "link")
         /\ job[w].step \in {"record", "watch"} => job[w].found \subseteq Same[job[w].post]

\* The task of a post waits, or one worker has it, or it has ended.
PlaceOK ==
    /\ \A s, t \in queue : s[1] = t[1] => s = t
    /\ \A t \in queue : ended[t[1]] = "no" /\ \A w \in Workers : ~ Held(w, t[1])
    /\ \A v, w \in Workers : \A p \in Posts : Held(v, p) /\ Held(w, p) => v = w
    /\ \A w \in Workers : \A p \in Posts : Held(w, p) => ended[p] = "no"
    /\ \A p \in Posts \ saved : ended[p] = "no"

\* A row is written once, and by a task that will not be tried again.
WrittenOK ==
    \A p \in Posts :
        /\ Len(reposts[p]) <= 1
        /\ ended[p] = "no" /\ reposts[p] # <<>> =>
             \E w \in Workers : Held(w, p) /\ job[w].step = "watch"

\* What a search has found has all that could be known when the post was saved,
\* unless a template was used.
FoundOK ==
    \A w \in Workers :
        /\ job[w].step \in ImageSteps /\ (job[w].strict \/ job[w].template) => HasTemplate(job[w].post)
        /\ job[w].step \in {"second", "record", "watch"} =>
             HasTemplate(job[w].post) \/ known[job[w].post] \subseteq job[w].found
        /\ job[w].step = "watch" => faults > 0 \/ reposts[job[w].post] # <<>>

KnownOK ==
    /\ \A p \in Posts : known[p] \subseteq Visible(p)
    /\ \A p \in Posts : ended[p] = "done" /\ known[p] # {} /\ faults = 0 =>
         reposts[p] # <<>> \/ (p \in Images /\ HasTemplate(p))
    /\ OldestIsNamed

\* Who is about to be told of a watch that is not on has read it before it ended.
WatchOK ==
    /\ \A i \in InFlight : i \in stale \/ row[i] = "on"
    /\ EndedStaysEnded

IInv == TypeOK /\ ShapeOK /\ PlaceOK /\ WrittenOK /\ FoundOK /\ KnownOK /\ WatchOK

\* A step of w for the post p: what it may do to the rows of repost, and what
\* it leaves alone.
Rewrites(p) ==
    /\ reposts' \in [Posts -> Seq(Posts)] /\ reposts'[p] \in Seq(Same[p])
    /\ \A q \in Posts \ {p} : reposts'[q] = reposts[q]
    /\ Len(reposts'[p]) <= 1
    /\ p \in Images /\ reposts'[p] # <<>> /\ known[p] # {} /\ learned = {} =>
         reposts'[p][1] <= Min(known[p])

Works(w, p) ==
    /\ p \in saved
    /\ \A q \in Posts : Held(w, q) => q = p
    /\ \A v \in Workers : Held(v, p) => v = w
    /\ UNCHANGED <<saved, indexed, learned, known, Watches>>
    /\ templates' \in [Images -> Nat]
    /\ faults' \in Nat /\ faults <= faults'
    /\ Rewrites(p)

-----------------------------------------------------------------------------
\* The operators of the model.

\* The least element of a set of numbers, by well-foundedness of their order.
LEMMA MinFacts ==
    ASSUME NEW S \in SUBSET Nat, S # {}
    PROVE  Min(S) \in S /\ \A y \in S : Min(S) <= y
<1> DEFINE R == OpToRel(<, Nat)
<1>1. IsWellFoundedOn(R, Nat)
  BY NatLessThanWellFounded
<1>2. \A x, y \in Nat : <<y, x>> \in R <=> y < x
  BY DEF OpToRel
<1> HIDE DEF R
<1>3. PICK x \in S : \A y \in S : ~ (<<y, x>> \in R)
  BY <1>1, WFMin
<1>4. ASSUME NEW y \in S
      PROVE  x <= y
  <2>1. ~ (y < x)
    BY <1>2, <1>3
  <2> QED
    BY <2>1
<1> QED
  BY <1>4 DEF Min

LEMMA SameNat ==
    ASSUME NEW p \in Posts
    PROVE  Same[p] \subseteq Posts /\ Same[p] \subseteq Nat
  BY RepostAssumption

\* Who is to be told: of the notes, of the messages under way, and of the posts
\* whose row has just been written.
LEMMA InFlightMember ==
    ASSUME NEW i
    PROVE  i \in InFlight <=> \/ \E n \in notes : i \in n[2]
                              \/ \E w \in Workers : i \in job[w].ids
                              \/ \E w \in Workers :
                                    /\ job[w].step = "watch" /\ Watched \in job[w].found
                                    /\ i \in Rows /\ row[i] = "on"
<1> DEFINE A == {n[2] : n \in notes}
           B == {job[w].ids : w \in Workers}
           C == {IF job[w].step = "watch" THEN ActiveWatches(job[w].found) ELSE {} : w \in Workers}
<1>1. InFlight = UNION (A \cup B \cup C)
  BY DEF InFlight
<1>2. i \in UNION A <=> \E n \in notes : i \in n[2]
  OBVIOUS
<1>3. i \in UNION B <=> \E w \in Workers : i \in job[w].ids
  OBVIOUS
<1>4. i \in UNION C <=> \E w \in Workers :
         /\ job[w].step = "watch" /\ Watched \in job[w].found
         /\ i \in Rows /\ row[i] = "on"
  <2>1. i \in UNION C <=> \E w \in Workers :
           i \in (IF job[w].step = "watch" THEN ActiveWatches(job[w].found) ELSE {})
    OBVIOUS
  <2> QED
    BY <2>1 DEF ActiveWatches
<1> HIDE DEF A, B, C
<1> QED
  BY <1>1, <1>2, <1>3, <1>4

LEMMA InFlightType ==
    ASSUME TypeOK
    PROVE  InFlight \subseteq Rows
<1> SUFFICES ASSUME NEW i \in InFlight
             PROVE  i \in Rows
  OBVIOUS
<1>1. CASE \E n \in notes : i \in n[2]
  BY <1>1 DEF TypeOK
<1>2. CASE \E w \in Workers : i \in job[w].ids
  BY <1>2 DEF TypeOK, Jobs
<1>3. CASE i \in Rows
  BY <1>3
<1> QED
  BY <1>1, <1>2, <1>3, InFlightMember

LEMMA IdleFacts == Idle \in Jobs /\ Idle.step = "idle" /\ Idle.ids = {}
  BY DEF Idle, Jobs, Steps

LEMMA OtherJobs ==
    ASSUME TypeOK, NEW w \in Workers, NEW j \in Jobs, job' = [job EXCEPT ![w] = j]
    PROVE  /\ job' \in [Workers -> Jobs] /\ job'[w] = j
           /\ \A v \in Workers : v # w => job'[v] = job[v]
  BY DEF TypeOK

-----------------------------------------------------------------------------
\* The watches, as long as the user does nothing.

LEMMA WatchKeeps ==
    ASSUME WatchOK, UNCHANGED Watches,
           \A i \in InFlight' : i \in InFlight \/ i \in stale \/ row[i] = "on"
    PROVE  WatchOK'
<1>1. UNCHANGED <<row, replied, wish, stale>>
  BY DEF Watches
<1>2. EndedStaysEnded'
  BY <1>1 DEF WatchOK, EndedStaysEnded
<1>3. \A i \in InFlight' : i \in stale' \/ row'[i] = "on"
  BY <1>1 DEF WatchOK
<1> QED
  BY <1>2, <1>3 DEF WatchOK

LEMMA InFlightAfter ==
    \A i : i \in InFlight' <=>
        \/ \E n \in notes' : i \in n[2]
        \/ \E w \in Workers : i \in job'[w].ids
        \/ \E w \in Workers : /\ job'[w].step = "watch" /\ Watched \in job'[w].found
                              /\ i \in Rows /\ row'[i] = "on"
<1> DEFINE P(i) ==
        i \in InFlight <=> \/ \E n \in notes : i \in n[2]
                           \/ \E w \in Workers : i \in job[w].ids
                           \/ \E w \in Workers :
                                 /\ job[w].step = "watch" /\ Watched \in job[w].found
                                 /\ i \in Rows /\ row[i] = "on"
<1>1. \A i : P(i)
  BY InFlightMember
<1>2. (\A i : P(i))'
  BY <1>1, PTL
<1> QED
  BY <1>2

\* A step of one worker that orders no message but of watches that are on.
LEMMA WatchWorks ==
    ASSUME TypeOK, WatchOK, UNCHANGED Watches, NEW w \in Workers, NEW j \in Jobs,
           job' = [job EXCEPT ![w] = j],
           \A i \in j.ids : i \in InFlight \/ row[i] = "on",
           \A n \in notes' : n \in notes \/ \A i \in n[2] : i \in InFlight \/ row[i] = "on"
    PROVE  WatchOK'
<1>1. row' = row /\ job'[w] = j /\ \A v \in Workers : v # w => job'[v] = job[v]
  BY OtherJobs DEF Watches
<1>2. ASSUME NEW i \in InFlight'
      PROVE  i \in InFlight \/ row[i] = "on"
  <2>1. CASE \E n \in notes' : i \in n[2]
    BY <2>1, InFlightMember
  <2>2. CASE \E v \in Workers : i \in job'[v].ids
    BY <2>2, <1>1, InFlightMember
  <2>3. CASE row'[i] = "on"
    BY <2>3, <1>1
  <2> QED
    BY <2>1, <2>2, <2>3, <1>2, InFlightAfter
<1> QED
  BY <1>2, WatchKeeps

-----------------------------------------------------------------------------
\* A worker does a step for a post: what is left to show of its job, of the
\* queue and of how the task has ended.

LEMMA WorkShape ==
    ASSUME IInv, NEW w \in Workers, NEW p \in Posts, NEW j \in Jobs, Works(w, p),
           job' = [job EXCEPT ![w] = j],
           queue' \subseteq saved \X (0..MaxRetries),
           notes' \subseteq saved \X SUBSET Rows,
           ended' \in [Posts -> {"no", "done", "failed", "skipped", "exhausted", "crashed"}],
           j.step # "idle" => j.post = p,
           j.step \in TaskSteps => (p \in Images <=> j.step # "link"),
           j.step \in {"record", "watch"} => j.found \subseteq Same[p]
    PROVE  TypeOK' /\ ShapeOK'
<1>1. TypeOK /\ ShapeOK
  BY DEF IInv
<1>2. /\ job' \in [Workers -> Jobs] /\ job'[w] = j
      /\ \A v \in Workers : v # w => job'[v] = job[v]
  BY <1>1, OtherJobs
<1>3. UNCHANGED <<saved, indexed, learned, known, row, replied, wish, stale>>
  BY DEF Works, Watches
<1>4. \A q \in Posts : reposts'[q] \in Seq(Same[q])
  BY <1>1 DEF Works, Rewrites, TypeOK
<1>5. TypeOK'
  BY <1>1, <1>2, <1>3, <1>4 DEF TypeOK, Works
<1>6. ASSUME NEW v \in Workers
      PROVE  /\ job'[v].step # "idle" => job'[v].post \in saved
             /\ job'[v].step \in TaskSteps => (job'[v].post \in Images <=> job'[v].step # "link")
             /\ job'[v].step \in {"record", "watch"} => job'[v].found \subseteq Same[job'[v].post]
  <2>1. CASE v = w
    BY <2>1, <1>2 DEF Works, TaskSteps
  <2>2. CASE v # w
    BY <2>2, <1>2, <1>1 DEF ShapeOK
  <2> QED
    BY <2>1, <2>2
<1> QED
  BY <1>3, <1>5, <1>6 DEF ShapeOK, Works, Rewrites

\* A row that is there is that of a task that has ended or is about to.
LEMMA WorkWritten ==
    ASSUME IInv, NEW w \in Workers, NEW p \in Posts, NEW j \in Jobs, Works(w, p),
           job' = [job EXCEPT ![w] = j],
           \A q \in Posts \ {p} : ended'[q] = ended[q],
           ended'[p] = "no" /\ reposts'[p] # <<>> => j.post = p /\ j.step = "watch"
    PROVE  WrittenOK'
<1>1. job'[w] = j /\ \A v \in Workers : v # w => job'[v] = job[v]
  BY OtherJobs DEF IInv
<1> SUFFICES ASSUME NEW q \in Posts
             PROVE  /\ Len(reposts'[q]) <= 1
                    /\ ended'[q] = "no" /\ reposts'[q] # <<>> =>
                         \E v \in Workers : Held(v, q)' /\ job'[v].step = "watch"
  BY DEF WrittenOK
<1>2. CASE q = p
  BY <1>1, <1>2 DEF Works, Rewrites, Held, TaskSteps
<1>3. CASE q # p
  <2>1. reposts'[q] = reposts[q] /\ ended'[q] = ended[q]
    BY <1>3 DEF Works, Rewrites
  <2>2. Len(reposts[q]) <= 1
    BY DEF IInv, WrittenOK
  <2>3. ASSUME ended[q] = "no", reposts[q] # <<>>
        PROVE  \E v \in Workers : Held(v, q)' /\ job'[v].step = "watch"
    <3>1. PICK v \in Workers : Held(v, q) /\ job[v].step = "watch"
      BY <2>3 DEF IInv, WrittenOK
    <3>2. v # w
      BY <3>1, <1>3 DEF Works
    <3> QED
      BY <3>1, <3>2, <1>1 DEF Held
  <2> QED
    BY <2>1, <2>2, <2>3
<1> QED
  BY <1>2, <1>3

LEMMA WorkFound ==
    ASSUME IInv, NEW w \in Workers, NEW p \in Posts, NEW j \in Jobs, Works(w, p),
           job' = [job EXCEPT ![w] = j],
           j.step # "idle" => j.post = p,
           j.step \in ImageSteps /\ (j.strict \/ j.template) => HasTemplate(p),
           j.step \in {"second", "record", "watch"} => HasTemplate(p) \/ known[p] \subseteq j.found,
           j.step = "watch" => faults' > 0 \/ reposts'[p] # <<>>
    PROVE  FoundOK'
<1>1. job'[w] = j /\ \A v \in Workers : v # w => job'[v] = job[v]
  BY OtherJobs DEF IInv
<1>2. learned' = learned /\ known' = known
  BY DEF Works
<1>3. ASSUME NEW v \in Workers
      PROVE  /\ job'[v].step \in ImageSteps /\ (job'[v].strict \/ job'[v].template) =>
                  HasTemplate(job'[v].post)
             /\ job'[v].step \in {"second", "record", "watch"} =>
                  HasTemplate(job'[v].post) \/ known[job'[v].post] \subseteq job'[v].found
             /\ job'[v].step = "watch" => faults' > 0 \/ reposts'[job'[v].post] # <<>>
  <2>1. CASE v = w
    BY <2>1, <1>1 DEF ImageSteps
  <2>2. CASE v # w
    <3>1. job'[v] = job[v]
      BY <2>2, <1>1
    <3>2. ASSUME job[v].step = "watch"
          PROVE  faults' > 0 \/ reposts'[job[v].post] # <<>>
      <4>1. job[v].post \in Posts /\ Held(v, job[v].post)
        BY <3>2 DEF IInv, TypeOK, ShapeOK, Held, TaskSteps
      <4>2. job[v].post # p
        BY <4>1, <2>2 DEF Works
      <4>3. reposts'[job[v].post] = reposts[job[v].post]
        BY <4>1, <4>2 DEF Works, Rewrites
      <4>4. faults > 0 \/ reposts[job[v].post] # <<>>
        BY <3>2 DEF IInv, FoundOK
      <4> QED
        BY <4>3, <4>4 DEF Works, IInv, ShapeOK
    <3> QED
      BY <3>1, <3>2 DEF IInv, FoundOK
  <2> QED
    BY <2>1, <2>2
<1> QED
  BY <1>2, <1>3 DEF FoundOK, HasTemplate

LEMMA WorkKnown ==
    ASSUME IInv, NEW w \in Workers, NEW p \in Posts, Works(w, p),
           \A q \in Posts \ {p} : ended'[q] = ended[q],
           ended'[p] = "done" /\ known[p] # {} /\ faults' = 0 =>
             reposts'[p] # <<>> \/ (p \in Images /\ HasTemplate(p))
    PROVE  KnownOK'
<1>1. saved' = saved /\ indexed' = indexed /\ learned' = learned /\ known' = known
  BY DEF Works
<1>2. \A q \in Posts : known'[q] \subseteq Visible(q)'
  BY <1>1 DEF IInv, KnownOK, Visible
<1>3. ASSUME NEW q \in Posts, ended'[q] = "done", known[q] # {}, faults' = 0
      PROVE  reposts'[q] # <<>> \/ (q \in Images /\ HasTemplate(q))
  <2>1. faults = 0
    BY <1>3 DEF Works, IInv, ShapeOK
  <2>2. CASE q = p
    BY <1>3, <2>2
  <2>3. CASE q # p
    BY <1>3, <2>1, <2>3 DEF IInv, KnownOK, Works, Rewrites
  <2> QED
    BY <2>2, <2>3
<1>4. ASSUME NEW q \in Images, reposts'[q] # <<>>, known[q] # {}, learned = {}
      PROVE  reposts'[q][1] <= Min(known[q])
  <2>0. q \in Posts
    BY DEF Posts
  <2>1. CASE q = p
    BY <1>4, <2>1 DEF Works, Rewrites
  <2>2. CASE q # p
    BY <1>4, <2>0, <2>2 DEF Works, Rewrites, IInv, KnownOK, OldestIsNamed
  <2> QED
    BY <2>1, <2>2
<1>5. OldestIsNamed'
  BY <1>1, <1>4 DEF OldestIsNamed
<1> QED
  BY <1>1, <1>2, <1>3, <1>5 DEF KnownOK, HasTemplate

-----------------------------------------------------------------------------
\* Where the task of a post is: it stays with its worker, it ends, or it waits.

LEMMA HeldAfter ==
    ASSUME IInv, NEW w \in Workers, NEW j \in Jobs, job' = [job EXCEPT ![w] = j],
           NEW v \in Workers, NEW q
    PROVE  Held(v, q)' <=> IF v = w THEN j.step \in TaskSteps /\ j.post = q ELSE Held(v, q)
  BY OtherJobs DEF IInv, Held

LEMMA PlaceStays ==
    ASSUME IInv, NEW w \in Workers, NEW j \in Jobs, job' = [job EXCEPT ![w] = j],
           UNCHANGED <<saved, queue, ended>>,
           \A q \in Posts : Held(w, q) <=> j.step \in TaskSteps /\ j.post = q
    PROVE  PlaceOK'
<1>1. \A v \in Workers, q \in Posts : Held(v, q)' <=> Held(v, q)
  BY HeldAfter
<1>2. \A t \in queue : t[1] \in Posts
  BY DEF IInv, TypeOK
<1>3. PlaceOK
  BY DEF IInv
<1> QED
  BY <1>1, <1>2, <1>3 DEF PlaceOK

LEMMA PlaceEnds ==
    ASSUME IInv, NEW w \in Workers, NEW p \in Posts, Held(w, p), job' = [job EXCEPT ![w] = Idle],
           UNCHANGED <<saved, queue>>, p \in saved,
           \A q \in Posts \ {p} : ended'[q] = ended[q]
    PROVE  PlaceOK'
<1>1. \A v \in Workers, q \in Posts : Held(v, q)' <=> v # w /\ Held(v, q)
  BY HeldAfter, IdleFacts DEF TaskSteps
<1>2. \A t \in queue : t[1] \in Posts /\ t[1] # p
  BY DEF IInv, TypeOK, PlaceOK
<1>3. \A v \in Workers : v # w => ~ Held(v, p)
  BY DEF IInv, PlaceOK
<1>4. PlaceOK
  BY DEF IInv
<1>5. ASSUME NEW v \in Workers, NEW q \in Posts, Held(v, q)'
      PROVE  ended'[q] = "no"
  BY <1>5, <1>1, <1>3, <1>4 DEF PlaceOK
<1>6. \A t \in queue : ended'[t[1]] = "no" /\ \A v \in Workers : ~ Held(v, t[1])'
  BY <1>1, <1>2, <1>4 DEF PlaceOK
<1> QED
  BY <1>1, <1>4, <1>5, <1>6 DEF PlaceOK

LEMMA PlaceWaits ==
    ASSUME IInv, NEW w \in Workers, NEW p \in Posts, Held(w, p), job' = [job EXCEPT ![w] = Idle],
           NEW n \in Nat, queue' = queue \cup {<<p, n>>}, UNCHANGED <<saved, ended>>
    PROVE  PlaceOK'
<1>1. \A v \in Workers, q \in Posts : Held(v, q)' <=> v # w /\ Held(v, q)
  BY HeldAfter, IdleFacts DEF TaskSteps
<1>2. \A t \in queue : t[1] \in Posts /\ t[1] # p
  BY DEF IInv, TypeOK, PlaceOK
<1>3. \A v \in Workers : v # w => ~ Held(v, p)
  BY DEF IInv, PlaceOK
<1>4. PlaceOK
  BY DEF IInv
<1>5. ended[p] = "no"
  BY <1>4 DEF PlaceOK
<1>6. \A s, t \in queue' : s[1] = t[1] => s = t
  BY <1>2, <1>4 DEF PlaceOK
<1>7. \A t \in queue' : ended'[t[1]] = "no" /\ \A v \in Workers : ~ Held(v, t[1])'
  <2> SUFFICES ASSUME NEW t \in queue'
               PROVE  ended[t[1]] = "no" /\ \A v \in Workers : ~ Held(v, t[1])'
    OBVIOUS
  <2>1. CASE t \in queue
    BY <2>1, <1>1, <1>2, <1>4 DEF PlaceOK
  <2>2. CASE t = <<p, n>>
    BY <2>2, <1>1, <1>3, <1>5
  <2> QED
    BY <2>1, <2>2
<1> QED
  BY <1>1, <1>4, <1>6, <1>7 DEF PlaceOK

LEMMA PlaceTaken ==
    ASSUME IInv, NEW w \in Workers, NEW t \in queue, NEW j \in Jobs, job' = [job EXCEPT ![w] = j],
           queue' = queue \ {t}, UNCHANGED <<saved, ended>>,
           job[w].step = "idle", j.post = t[1]
    PROVE  PlaceOK'
<1>1. \A v \in Workers, q \in Posts : Held(v, q)' => Held(v, q) \/ (v = w /\ q = t[1])
  BY HeldAfter
<1>2. /\ \A s \in queue : s[1] \in Posts
      /\ \A s \in queue' : s[1] # t[1]
  BY DEF IInv, TypeOK, PlaceOK
<1>3. PlaceOK
  BY DEF IInv
<1>4. \A v \in Workers : ~ Held(v, t[1])
  BY <1>3 DEF PlaceOK
<1>5. ASSUME NEW v \in Workers, NEW u \in Workers, NEW q \in Posts, Held(v, q)', Held(u, q)'
      PROVE  v = u
  BY <1>5, <1>1, <1>3, <1>4 DEF PlaceOK
<1>6. ASSUME NEW v \in Workers, NEW q \in Posts, Held(v, q)'
      PROVE  ended[q] = "no"
  BY <1>6, <1>1, <1>3 DEF PlaceOK
<1>7. ASSUME NEW s \in queue'
      PROVE  ended[s[1]] = "no" /\ \A v \in Workers : ~ Held(v, s[1])'
  BY <1>7, <1>1, <1>2, <1>3 DEF PlaceOK
<1> QED
  BY <1>3, <1>5, <1>6, <1>7 DEF PlaceOK

-----------------------------------------------------------------------------
\* The steps of a task, of which the actions are made: it goes on, it ends, or
\* it is tried again.

LEMMA TaskFacts ==
    ASSUME IInv, NEW w \in Workers, job[w].step \in TaskSteps
    PROVE  /\ job[w] \in Jobs /\ job[w].post \in saved /\ job[w].post \in Posts
           /\ Held(w, job[w].post) /\ ended[job[w].post] = "no"
           /\ \A q \in Posts : Held(w, q) => q = job[w].post
           /\ \A v \in Workers : Held(v, job[w].post) => v = w
           /\ job[w].step # "watch" => reposts[job[w].post] = <<>>
<1>1. job[w] \in Jobs /\ job[w].post \in saved /\ job[w].post \in Posts
  BY DEF IInv, TypeOK, ShapeOK, TaskSteps
<1>2. Held(w, job[w].post) /\ \A q \in Posts : Held(w, q) => q = job[w].post
  BY DEF Held
<1>3. ended[job[w].post] = "no" /\ \A v \in Workers : Held(v, job[w].post) => v = w
  BY <1>1, <1>2 DEF IInv, PlaceOK
<1>4. ASSUME job[w].step # "watch", reposts[job[w].post] # <<>>
      PROVE  FALSE
  <2>1. PICK v \in Workers : Held(v, job[w].post) /\ job[v].step = "watch"
    BY <1>1, <1>3, <1>4 DEF IInv, WrittenOK
  <2> QED
    BY <2>1, <1>3, <1>4
<1> QED
  BY <1>1, <1>2, <1>3, <1>4

LEMMA SameRewrites ==
    ASSUME IInv, NEW p \in Posts, UNCHANGED reposts
    PROVE  Rewrites(p)
  BY DEF IInv, TypeOK, ShapeOK, WrittenOK, KnownOK, OldestIsNamed, Rewrites

LEMMA AppendRewrites ==
    ASSUME IInv, NEW p \in Posts, reposts[p] = <<>>, NEW q \in Same[p],
           reposts' = [reposts EXCEPT ![p] = Append(@, q)],
           p \in Images /\ known[p] # {} /\ learned = {} => q <= Min(known[p])
    PROVE  Rewrites(p) /\ reposts'[p] # <<>>
<1>1. q \in Posts
  BY SameNat
<1>2. Append(reposts[p], q) = <<q>>
  OBVIOUS
<1>3. /\ reposts' \in [Posts -> Seq(Posts)] /\ reposts'[p] = <<q>>
      /\ \A r \in Posts \ {p} : reposts'[r] = reposts[r]
  BY <1>1, <1>2 DEF IInv, ShapeOK
<1>4. <<q>> \in Seq(Same[p]) /\ Len(<<q>>) = 1 /\ <<q>>[1] = q /\ <<q>> # <<>>
  <2>1. \A S : q \in S => <<q>> \in Seq(S)
    OBVIOUS
  <2> QED
    BY <2>1
<1> QED
  BY <1>3, <1>4 DEF Rewrites

LEMMA TaskContinues ==
    ASSUME IInv, NEW w \in Workers, job[w].step \in TaskSteps, Works(w, job[w].post),
           NEW j \in Jobs, job' = [job EXCEPT ![w] = j], UNCHANGED <<queue, notes, ended>>,
           j.step \in TaskSteps, j.post = job[w].post, j.ids = job[w].ids,
           j.post \in Images <=> j.step # "link",
           j.step \in {"record", "watch"} => j.found \subseteq Same[j.post],
           j.step \in ImageSteps /\ (j.strict \/ j.template) => HasTemplate(j.post),
           j.step \in {"second", "record", "watch"} =>
             HasTemplate(j.post) \/ known[j.post] \subseteq j.found,
           j.step = "watch" => faults' > 0 \/ reposts'[j.post] # <<>>,
           reposts'[j.post] # <<>> => j.step = "watch"
    PROVE  IInv'
<1> DEFINE p == job[w].post
<1>1. p \in Posts /\ ended[p] = "no" /\ Held(w, p)
  BY TaskFacts
<1>2. TypeOK' /\ ShapeOK'
  BY <1>1, WorkShape DEF IInv, TypeOK
<1>3. PlaceOK'
  BY <1>1, PlaceStays DEF Held, Works
<1>4. WrittenOK'
  BY <1>1, WorkWritten
<1>5. FoundOK'
  BY <1>1, WorkFound
<1>6. KnownOK'
  BY <1>1, WorkKnown
<1>7. \A i \in j.ids : i \in InFlight
  BY InFlightMember
<1>8. WatchOK'
  BY <1>7, WatchWorks DEF IInv, Works
<1> QED
  BY <1>2, <1>3, <1>4, <1>5, <1>6, <1>8 DEF IInv

LEMMA TaskEnds ==
    ASSUME IInv, NEW w \in Workers, job[w].step \in TaskSteps, Works(w, job[w].post),
           NEW how \in {"done", "failed", "skipped", "exhausted", "crashed"},
           End(w, how), UNCHANGED queue,
           notes' \subseteq saved \X SUBSET Rows,
           \A n \in notes' : n \in notes \/ \A i \in n[2] : row[i] = "on",
           how = "done" /\ known[job[w].post] # {} /\ faults' = 0 =>
             \/ reposts'[job[w].post] # <<>>
             \/ job[w].post \in Images /\ HasTemplate(job[w].post)
    PROVE  IInv'
<1> DEFINE p == job[w].post
<1>1. p \in Posts /\ p \in saved /\ ended[p] = "no" /\ Held(w, p)
  BY TaskFacts
<1>2. /\ ended' \in [Posts -> {"no", "done", "failed", "skipped", "exhausted", "crashed"}]
      /\ ended'[p] = how /\ \A q \in Posts \ {p} : ended'[q] = ended[q]
  BY <1>1 DEF End, IInv, TypeOK
<1>3. job' = [job EXCEPT ![w] = Idle] /\ Idle \in Jobs
  BY IdleFacts DEF End
<1>4. TypeOK' /\ ShapeOK'
  BY <1>1, <1>2, <1>3, IdleFacts, WorkShape DEF IInv, TypeOK, TaskSteps
<1>5. PlaceOK'
  BY <1>1, <1>2, <1>3, PlaceEnds DEF Works
<1>6. WrittenOK'
  BY <1>1, <1>2, <1>3, WorkWritten
<1>7. FoundOK'
  BY <1>1, <1>3, IdleFacts, WorkFound DEF ImageSteps
<1>8. KnownOK'
  BY <1>1, <1>2, WorkKnown
<1>9. WatchOK'
  BY <1>3, IdleFacts, WatchWorks DEF IInv, Works
<1> QED
  BY <1>4, <1>5, <1>6, <1>7, <1>8, <1>9 DEF IInv

LEMMA TaskRetries ==
    ASSUME IInv, NEW w \in Workers, job[w].step \in TaskSteps \ {"watch"}, Works(w, job[w].post),
           Retry(w), UNCHANGED <<reposts, notes>>
    PROVE  IInv'
<1> DEFINE p == job[w].post
           n == job[w].tries
<1>1. /\ p \in Posts /\ p \in saved /\ ended[p] = "no" /\ Held(w, p) /\ reposts[p] = <<>>
      /\ n \in Nat
  BY TaskFacts DEF Jobs
<1>2. notes' \subseteq saved \X SUBSET Rows
  BY DEF IInv, TypeOK
<1>3. CASE n < MaxRetries
  <2>1. /\ queue' = queue \cup {<<p, n + 1>>} /\ job' = [job EXCEPT ![w] = Idle]
        /\ UNCHANGED ended
    BY <1>3 DEF Retry
  <2>2. queue' \subseteq saved \X (0..MaxRetries)
    BY <1>1, <1>3, <2>1, RepostAssumption DEF IInv, TypeOK
  <2>3. TypeOK' /\ ShapeOK'
    BY <1>1, <1>2, <2>1, <2>2, IdleFacts, WorkShape DEF IInv, TypeOK, TaskSteps
  <2>4. PlaceOK'
    <3>1. n + 1 \in Nat
      BY <1>1
    <3> HIDE DEF n
    <3> QED
      BY <1>1, <2>1, <3>1, PlaceWaits DEF Works
  <2>5. WrittenOK'
    BY <1>1, <2>1, IdleFacts, WorkWritten
  <2>6. FoundOK'
    BY <1>1, <2>1, IdleFacts, WorkFound DEF ImageSteps
  <2>7. KnownOK'
    BY <1>1, <2>1, WorkKnown
  <2>8. WatchOK'
    BY <2>1, IdleFacts, WatchWorks DEF IInv, Works
  <2> QED
    BY <2>3, <2>4, <2>5, <2>6, <2>7, <2>8 DEF IInv
<1>4. CASE ~ (n < MaxRetries)
  <2>1. End(w, "exhausted") /\ UNCHANGED queue
    BY <1>4 DEF Retry, End
  <2> QED
    BY <1>2, <2>1, TaskEnds
<1> QED
  BY <1>3, <1>4

LEMMA FaultFacts ==
    ASSUME IInv, Fault
    PROVE  faults' \in Nat /\ faults <= faults' /\ faults' > 0
  BY DEF IInv, ShapeOK, Fault

LEMMA SameFaults ==
    ASSUME IInv, UNCHANGED faults
    PROVE  faults' \in Nat /\ faults <= faults'
  BY DEF IInv, ShapeOK

LEMMA WorksFor ==
    ASSUME IInv, NEW w \in Workers, job[w].step \in TaskSteps,
           UNCHANGED <<saved, indexed, learned, known, Watches>>,
           templates' \in [Images -> Nat], faults' \in Nat, faults <= faults',
           Rewrites(job[w].post)
    PROVE  Works(w, job[w].post)
  BY TaskFacts DEF Works

-----------------------------------------------------------------------------
\* The actions.

LEMMA CheckUrlStep ==
    ASSUME IInv, NEW w \in Workers, CheckUrl(w)
    PROVE  IInv'
<1>1. job[w].step = "url" /\ job[w].step \in TaskSteps
  BY DEF CheckUrl, TaskSteps
<1>2. /\ job[w] \in Jobs /\ job[w].post \in Posts /\ job[w].post \in Images
      /\ reposts[job[w].post] = <<>>
  BY <1>1, TaskFacts DEF IInv, ShapeOK
<1>3. UNCHANGED <<saved, indexed, templates, learned, reposts, queue, notes, Watches, known>>
  BY DEF CheckUrl, Database
<1>4. templates' \in [Images -> Nat] /\ notes' \subseteq saved \X SUBSET Rows
  BY <1>3 DEF IInv, TypeOK
<1>5. CASE job' = [job EXCEPT ![w].step = "first"] /\ UNCHANGED <<ended, faults>>
  <2> DEFINE j == [job[w] EXCEPT !.step = "first"]
  <2>1. /\ j \in Jobs /\ job' = [job EXCEPT ![w] = j]
        /\ j.step = "first" /\ j.post = job[w].post /\ j.ids = job[w].ids
        /\ j.strict = job[w].strict /\ j.template = job[w].template
    BY <1>2, <1>5 DEF Jobs, Steps
  <2>2. Works(w, job[w].post)
    BY <1>1, <1>2, <1>3, <1>4, <1>5, SameFaults, SameRewrites, WorksFor
  <2>3. job[w].strict \/ job[w].template => HasTemplate(job[w].post)
    BY <1>1 DEF IInv, FoundOK, ImageSteps
  <2>4. j.step \in TaskSteps /\ j.step \notin {"link", "second", "record", "watch"}
    BY <2>1 DEF TaskSteps
  <2>5. UNCHANGED <<queue, notes, ended>> /\ reposts'[job[w].post] = <<>>
    BY <1>2, <1>3, <1>5
  <2> HIDE DEF j
  <2> QED
    BY <1>1, <1>2, <2>1, <2>2, <2>3, <2>4, <2>5, TaskContinues
<1>6. CASE Fault /\ End(w, "skipped")
  <2>1. Works(w, job[w].post)
    BY <1>1, <1>2, <1>3, <1>4, <1>6, FaultFacts, SameRewrites, WorksFor
  <2> QED
    BY <1>1, <1>3, <1>4, <1>6, <2>1, TaskEnds
<1> QED
  BY <1>5, <1>6 DEF CheckUrl

LEMMA SearchStep ==
    ASSUME IInv, NEW w \in Workers, NEW step \in {"first", "second"},
           NEW next \in {"second", "record"}, Search(w, step, next)
    PROVE  IInv'
<1> DEFINE p == job[w].post
<1>1. job[w].step = step /\ job[w].step \in TaskSteps \ {"watch"} /\ job[w].step \in ImageSteps
  BY DEF Search, TaskSteps, ImageSteps
<1>2. job[w] \in Jobs /\ p \in Posts /\ p \in Images /\ reposts[p] = <<>>
  BY <1>1, TaskFacts DEF IInv, ShapeOK
<1>3. UNCHANGED <<saved, indexed, templates, learned, reposts, notes, Watches, known>>
  BY DEF Search, Database
<1>4. templates' \in [Images -> Nat] /\ notes' \subseteq saved \X SUBSET Rows
  BY <1>3 DEF IInv, TypeOK
<1>5. job[w].strict \/ job[w].template => HasTemplate(p)
  BY <1>1 DEF IInv, FoundOK
<1>6. Same[p] \subseteq Posts /\ Near[p] \subseteq Same[p] /\ Exact[p] \subseteq Same[p]
  BY <1>2, RepostAssumption
<1>7. ASSUME Works(w, p), UNCHANGED <<queue, ended>>, NEW template \in BOOLEAN,
             NEW strict \in BOOLEAN, strict \/ template => HasTemplate(p),
             job' = [job EXCEPT ![w].step = next, ![w].strict = strict,
                                ![w].template = template,
                                ![w].found = Report(p, strict, template)]
      PROVE  IInv'
  <2> DEFINE found == Report(p, strict, template)
             j == [job[w] EXCEPT !.step = next, !.strict = strict, !.template = template,
                                 !.found = found]
  <2>1. strict => HasTemplate(p)
    BY <1>7
  <2>2. found \subseteq Same[p] /\ found \subseteq Posts
    BY <1>6 DEF Report
  <2>3. HasTemplate(p) \/ known[p] \subseteq found
    BY <1>2, <1>7, <2>1 DEF Report, IInv, KnownOK, Visible
  <2> HIDE DEF found
  <2>4. /\ j \in Jobs /\ j.step = next /\ j.post = p /\ j.ids = job[w].ids
        /\ j.strict = strict /\ j.template = template /\ j.found = found
    <3>1. next \in Steps /\ strict \in BOOLEAN /\ template \in BOOLEAN /\ found \in SUBSET Posts
      BY <1>7, <2>1, <2>2 DEF Steps
    <3>2. j = [job[w] EXCEPT !.step = next, !.strict = strict, !.template = template,
                             !.found = found]
      OBVIOUS
    <3> HIDE DEF j
    <3>3. /\ j.step = next /\ j.post = p /\ j.ids = job[w].ids
          /\ j.strict = strict /\ j.template = template /\ j.found = found
      BY <1>2, <3>2 DEF Jobs
    <3>4. j \in Jobs
      BY <1>2, <3>1, <3>2 DEF Jobs
    <3> QED
      BY <3>3, <3>4
  <2>5. job' = [job EXCEPT ![w] = j]
    BY <1>7 DEF found
  <2> HIDE DEF j
  <2>6. j.step \in ImageSteps /\ (j.strict \/ j.template) => HasTemplate(j.post)
    BY <1>7, <2>1, <2>4
  <2>7. j.step \in TaskSteps /\ j.step # "watch" /\ j.step # "link"
    BY <2>4 DEF TaskSteps
  <2> QED
    BY <1>1, <1>2, <1>3, <1>7, <2>2, <2>3, <2>4, <2>5, <2>6, <2>7, TaskContinues
<1>8. DEFINE finds(strict, template) ==
               job' = [job EXCEPT ![w].step = next, ![w].strict = strict,
                                  ![w].template = template,
                                  ![w].found = Report(p, strict, template)]
<1>9. CASE finds(job[w].strict \/ HasTemplate(p), HasTemplate(p)) /\ UNCHANGED <<queue, ended, faults>>
  <2>1. Works(w, p)
    BY <1>1, <1>2, <1>3, <1>4, <1>9, SameFaults, SameRewrites, WorksFor
  <2>2. HasTemplate(p) \in BOOLEAN /\ job[w].strict \in BOOLEAN
    BY <1>2 DEF HasTemplate, Jobs
  <2>3. (job[w].strict \/ HasTemplate(p)) \in BOOLEAN
        /\ ((job[w].strict \/ HasTemplate(p)) \/ HasTemplate(p) => HasTemplate(p))
    BY <1>5, <2>2
  <2> QED
    BY <1>7, <1>9, <2>1, <2>2, <2>3
<1>10. CASE /\ HasTemplate(p) /\ Fault
            /\ \E strict \in {job[w].strict, TRUE} : finds(strict, FALSE)
            /\ UNCHANGED <<queue, ended>>
  <2>1. Works(w, p)
    BY <1>1, <1>2, <1>3, <1>4, <1>10, FaultFacts, SameRewrites, WorksFor
  <2>2. PICK strict \in {job[w].strict, TRUE} : finds(strict, FALSE)
    BY <1>10
  <2>3. strict \in BOOLEAN
    BY <1>2 DEF Jobs
  <2> QED
    BY <1>7, <1>10, <2>1, <2>2, <2>3
<1>11. CASE Fault /\ Retry(w)
  <2>1. Works(w, p)
    BY <1>1, <1>2, <1>3, <1>4, <1>11, FaultFacts, SameRewrites, WorksFor
  <2> QED
    BY <1>1, <1>3, <1>11, <2>1, TaskRetries
<1>12. CASE Fault /\ End(w, "failed") /\ UNCHANGED queue
  <2>1. Works(w, p)
    BY <1>1, <1>2, <1>3, <1>4, <1>12, FaultFacts, SameRewrites, WorksFor
  <2> QED
    BY <1>1, <1>3, <1>4, <1>12, <2>1, TaskEnds
<1> QED
  BY <1>9, <1>10, <1>11, <1>12 DEF Search

LEMMA MakeTemplateStep ==
    ASSUME IInv, NEW w \in Workers, MakeTemplate(w)
    PROVE  IInv'
<1> DEFINE p == job[w].post
<1>1. job[w].step = "record" /\ job[w].step \in TaskSteps \ {"watch"}
  BY DEF MakeTemplate, TaskSteps
<1>2. p \in Posts /\ p \in Images
  BY <1>1, TaskFacts DEF IInv, ShapeOK
<1>3. UNCHANGED <<saved, indexed, learned, reposts, notes, Watches, known>>
  BY DEF MakeTemplate
<1>4. notes' \subseteq saved \X SUBSET Rows
  BY <1>3 DEF IInv, TypeOK
<1>5. CASE /\ templates' = [templates EXCEPT ![p] = @ + 1]
           /\ Retry(w) /\ UNCHANGED faults
  <2>1. templates' \in [Images -> Nat]
    BY <1>2, <1>5 DEF IInv, TypeOK
  <2>2. Works(w, p)
    BY <1>1, <1>2, <1>3, <1>5, <2>1, SameFaults, SameRewrites, WorksFor
  <2> QED
    BY <1>1, <1>3, <1>5, <2>2, TaskRetries
<1>6. CASE Fault /\ End(w, "failed") /\ UNCHANGED <<templates, queue>>
  <2>1. templates' \in [Images -> Nat]
    BY <1>6 DEF IInv, TypeOK
  <2>2. Works(w, p)
    BY <1>1, <1>2, <1>3, <1>6, <2>1, FaultFacts, SameRewrites, WorksFor
  <2> QED
    BY <1>1, <1>3, <1>4, <1>6, <2>2, TaskEnds
<1> QED
  BY <1>5, <1>6 DEF MakeTemplate

\* The oldest of what was found is at least as old as all that could be known.
LEMMA OriginalFacts ==
    ASSUME IInv, NEW w \in Workers, job[w].step = "record", job[w].found # {}
    PROVE  /\ Original(job[w].found) \in Same[job[w].post]
           /\ job[w].post \in Images /\ known[job[w].post] # {} /\ learned = {} =>
                Original(job[w].found) <= Min(known[job[w].post])
<1> DEFINE p == job[w].post
           f == job[w].found
<1>1. p \in Posts /\ f \subseteq Same[p]
  BY TaskFacts DEF TaskSteps, IInv, ShapeOK
<1>2. f \subseteq Nat
  BY <1>1, SameNat
<1>3. Min(f) \in f /\ \A y \in f : Min(f) <= y
  BY <1>2, MinFacts
<1>4. ASSUME known[p] # {}, learned = {}
      PROVE  Min(f) <= Min(known[p])
  <2>1. known[p] \subseteq f
    BY <1>4 DEF IInv, FoundOK, HasTemplate
  <2>2. Min(known[p]) \in known[p]
    BY <1>2, <1>4, <2>1, MinFacts
  <2> QED
    BY <1>3, <2>1, <2>2
<1> QED
  BY <1>1, <1>3, <1>4 DEF Original

LEMMA SaveImageRepostStep ==
    ASSUME IInv, NEW w \in Workers, SaveImageRepost(w)
    PROVE  IInv'
<1> DEFINE p == job[w].post
           write == reposts' = [reposts EXCEPT ![p] = Append(@, Original(job[w].found))]
           watch == job' = [job EXCEPT ![w].step = "watch"] /\ UNCHANGED ended
<1>1. job[w].step = "record" /\ job[w].step \in TaskSteps
  BY DEF SaveImageRepost, TaskSteps
<1>2. /\ p \in Posts /\ p \in Images /\ job[w] \in Jobs /\ reposts[p] = <<>>
      /\ job[w].found \subseteq Same[p]
  BY <1>1, TaskFacts DEF IInv, ShapeOK
<1>3. UNCHANGED <<saved, indexed, templates, learned, queue, notes, Watches, known>>
  BY DEF SaveImageRepost
<1>4. templates' \in [Images -> Nat] /\ notes' \subseteq saved \X SUBSET Rows
  BY <1>3 DEF IInv, TypeOK
<1>5. HasTemplate(p) \/ known[p] \subseteq job[w].found
  BY <1>1 DEF IInv, FoundOK
<1>6. ASSUME Works(w, p), watch, faults' > 0 \/ reposts'[p] # <<>>
      PROVE  IInv'
  <2> DEFINE j == [job[w] EXCEPT !.step = "watch"]
  <2>1. /\ j \in Jobs /\ job' = [job EXCEPT ![w] = j]
        /\ j.step = "watch" /\ j.post = p /\ j.ids = job[w].ids /\ j.found = job[w].found
        /\ j.strict = job[w].strict /\ j.template = job[w].template
    BY <1>2, <1>6 DEF Jobs, Steps
  <2>2. job[w].strict \/ job[w].template => HasTemplate(p)
    BY <1>1 DEF IInv, FoundOK, ImageSteps
  <2>3. j.step \in TaskSteps
    BY <2>1 DEF TaskSteps
  <2> HIDE DEF j
  <2> QED
    BY <1>1, <1>2, <1>3, <1>5, <1>6, <2>1, <2>2, <2>3, TaskContinues
<1>7. ASSUME job[w].found # {}, write
      PROVE  Rewrites(p) /\ reposts'[p] # <<>>
  BY <1>1, <1>2, <1>7, OriginalFacts, AppendRewrites
<1>8. CASE job[w].found = {} /\ End(w, "done") /\ UNCHANGED <<reposts, faults>>
  <2>1. Works(w, p)
    BY <1>1, <1>2, <1>3, <1>4, <1>8, SameFaults, SameRewrites, WorksFor
  <2> QED
    BY <1>1, <1>2, <1>3, <1>4, <1>5, <1>8, <2>1, TaskEnds
<1>9. CASE job[w].found # {} /\ write /\ watch /\ UNCHANGED faults
  <2>1. Works(w, p)
    BY <1>1, <1>3, <1>4, <1>7, <1>9, SameFaults, WorksFor
  <2> QED
    BY <1>6, <1>7, <1>9, <2>1
<1>10. CASE job[w].found # {} /\ write /\ watch /\ Fault
  <2>1. Works(w, p)
    BY <1>1, <1>3, <1>4, <1>7, <1>10, FaultFacts, WorksFor
  <2> QED
    BY <1>6, <1>7, <1>10, <2>1
<1>11. CASE Fault /\ (watch \/ End(w, "failed")) /\ UNCHANGED reposts
  <2>1. Works(w, p)
    BY <1>1, <1>2, <1>3, <1>4, <1>11, FaultFacts, SameRewrites, WorksFor
  <2>2. CASE watch
    BY <1>6, <1>11, <2>1, <2>2, FaultFacts
  <2>3. CASE End(w, "failed")
    BY <1>1, <1>3, <1>4, <1>11, <2>1, <2>3, TaskEnds
  <2> QED
    BY <1>11, <2>2, <2>3
<1> QED
  BY <1>8, <1>9, <1>10, <1>11 DEF SaveImageRepost

LEMMA CheckForPostWatchStep ==
    ASSUME IInv, NEW w \in Workers, CheckForPostWatch(w)
    PROVE  IInv'
<1> DEFINE p == job[w].post
           ids == ActiveWatches(job[w].found)
<1>1. job[w].step = "watch" /\ job[w].step \in TaskSteps
  BY DEF CheckForPostWatch, TaskSteps
<1>2. p \in Posts /\ p \in saved
  BY <1>1, TaskFacts
<1>3. UNCHANGED <<saved, indexed, templates, learned, reposts, queue, Watches, known, faults>>
  BY DEF CheckForPostWatch, Database
<1>4. templates' \in [Images -> Nat]
  BY <1>3 DEF IInv, TypeOK
<1>5. ids \subseteq Rows /\ \A i \in ids : row[i] = "on"
  BY DEF ActiveWatches
<1>6. \A n \in notes' : n \in notes \/ n = <<p, ids>>
  BY DEF CheckForPostWatch
<1> HIDE DEF ids
<1>7. notes' \subseteq saved \X SUBSET Rows
  BY <1>2, <1>5, <1>6 DEF IInv, TypeOK
<1>8. Works(w, p)
  BY <1>1, <1>2, <1>3, <1>4, SameFaults, SameRewrites, WorksFor
<1>9. faults > 0 \/ reposts[p] # <<>>
  BY <1>1 DEF IInv, FoundOK
<1>10. \A n \in notes' : n \in notes \/ \A i \in n[2] : row[i] = "on"
  BY <1>5, <1>6
<1>11. End(w, "done")
  BY DEF CheckForPostWatch
<1> QED
  BY <1>1, <1>3, <1>7, <1>8, <1>9, <1>10, <1>11, TaskEnds DEF IInv, ShapeOK

LEMMA LinkRepostCheckStep ==
    ASSUME IInv, NEW w \in Workers, LinkRepostCheck(w)
    PROVE  IInv'
<1> DEFINE p == job[w].post
<1>1. job[w].step = "link" /\ job[w].step \in TaskSteps
  BY DEF LinkRepostCheck, TaskSteps
<1>2. p \in Posts /\ p \notin Images /\ reposts[p] = <<>>
  BY <1>1, TaskFacts DEF IInv, ShapeOK
<1>3. UNCHANGED <<saved, indexed, templates, learned, queue, notes, Watches, known>>
  BY DEF LinkRepostCheck
<1>4. templates' \in [Images -> Nat] /\ notes' \subseteq saved \X SUBSET Rows
  BY <1>3 DEF IInv, TypeOK
<1>5. CASE Visible(p) = {} /\ UNCHANGED reposts /\ End(w, "done") /\ UNCHANGED faults
  <2>1. Works(w, p)
    BY <1>1, <1>2, <1>3, <1>4, <1>5, SameFaults, SameRewrites, WorksFor
  <2>2. known[p] = {}
    BY <1>2, <1>5 DEF IInv, KnownOK
  <2> QED
    BY <1>1, <1>3, <1>4, <1>5, <2>1, <2>2, TaskEnds
<1>6. CASE /\ \E q \in Visible(p) : reposts' = [reposts EXCEPT ![p] = Append(@, q)]
           /\ End(w, "done") /\ UNCHANGED faults
  <2>1. PICK q \in Same[p] : reposts' = [reposts EXCEPT ![p] = Append(@, q)]
    BY <1>6 DEF Visible
  <2>2. Rewrites(p) /\ reposts'[p] # <<>>
    BY <1>2, <2>1, AppendRewrites
  <2>3. Works(w, p)
    BY <1>1, <1>3, <1>4, <1>6, <2>2, SameFaults, WorksFor
  <2> QED
    BY <1>1, <1>3, <1>4, <1>6, <2>2, <2>3, TaskEnds
<1>7. CASE Fault /\ End(w, "failed") /\ UNCHANGED reposts
  <2>1. Works(w, p)
    BY <1>1, <1>2, <1>3, <1>4, <1>7, FaultFacts, SameRewrites, WorksFor
  <2> QED
    BY <1>1, <1>3, <1>4, <1>7, <2>1, TaskEnds
<1> QED
  BY <1>5, <1>6, <1>7 DEF LinkRepostCheck

LEMMA TakeStep ==
    ASSUME IInv, NEW w \in Workers, Take(w)
    PROVE  IInv'
<1>1. PICK t \in queue :
        /\ queue' = queue \ {t}
        /\ job' = [job EXCEPT ![w] =
                     [Idle EXCEPT !.step = IF t[1] \in Images THEN "url" ELSE "link",
                                  !.post = t[1], !.tries = t[2]]]
  BY DEF Take
<1> DEFINE p == t[1]
           j == [Idle EXCEPT !.step = IF p \in Images THEN "url" ELSE "link",
                             !.post = p, !.tries = t[2]]
<1>2. job[w].step = "idle"
  BY DEF Take
<1>3. UNCHANGED <<saved, indexed, templates, learned, reposts, notes, Watches, ended, known, faults>>
  BY DEF Take, Database, History
<1>4. t \in saved \X (0..MaxRetries) /\ p \in Posts /\ p \in saved /\ t[2] \in Nat
  <2>1. t \in saved \X (0..MaxRetries) /\ saved \subseteq Posts
    BY DEF IInv, TypeOK
  <2>2. MaxRetries \in Nat
    BY RepostAssumption
  <2> QED
    BY <2>1, <2>2
<1>5. /\ j \in Jobs /\ j.step = IF p \in Images THEN "url" ELSE "link"
      /\ j.post = p /\ j.ids = {} /\ j.strict = FALSE /\ j.template = FALSE
  BY <1>4 DEF Jobs, Steps, Idle
<1>6. job' = [job EXCEPT ![w] = j]
  BY <1>1
<1> HIDE DEF j
<1>7. templates' \in [Images -> Nat]
  BY <1>3 DEF IInv, TypeOK
<1>8. Works(w, p)
  <2>1. \A v \in Workers : ~ Held(v, p)
    BY DEF IInv, PlaceOK
  <2>2. \A q \in Posts : ~ Held(w, q)
    BY <1>2 DEF Held, TaskSteps
  <2>3. Rewrites(p) /\ faults' \in Nat /\ faults <= faults'
    BY <1>3, <1>4, SameRewrites, SameFaults
  <2> QED
    BY <1>3, <1>4, <1>7, <2>1, <2>2, <2>3 DEF Works
<1>9. reposts[p] = <<>>
  <2>1. ended[p] = "no" /\ \A v \in Workers : ~ Held(v, p)
    BY DEF IInv, PlaceOK
  <2> QED
    BY <1>4, <2>1 DEF IInv, WrittenOK
<1>10. /\ queue' \subseteq saved \X (0..MaxRetries) /\ notes' \subseteq saved \X SUBSET Rows
       /\ ended' \in [Posts -> {"no", "done", "failed", "skipped", "exhausted", "crashed"}]
  BY <1>1, <1>3 DEF IInv, TypeOK
<1>11. TypeOK' /\ ShapeOK'
  BY <1>4, <1>5, <1>6, <1>8, <1>10, WorkShape DEF TaskSteps
<1>12. PlaceOK'
  BY <1>1, <1>2, <1>3, <1>5, <1>6, PlaceTaken
<1>13. WrittenOK'
  BY <1>3, <1>4, <1>5, <1>6, <1>8, <1>9, WorkWritten
<1>14. FoundOK'
  BY <1>4, <1>5, <1>6, <1>8, WorkFound DEF ImageSteps
<1>15. KnownOK'
  <2>1. ended[p] = "no"
    BY DEF IInv, PlaceOK
  <2> QED
    BY <1>3, <1>4, <1>8, <2>1, WorkKnown
<1>16. WatchOK'
  BY <1>3, <1>5, <1>6, WatchWorks DEF IInv
<1> QED
  BY <1>11, <1>12, <1>13, <1>14, <1>15, <1>16 DEF IInv

-----------------------------------------------------------------------------
\* What happens beside the tasks: messages, the user, and the surroundings.

\* No task moves, and nothing is recorded.
LEMMA Aside ==
    ASSUME IInv, UNCHANGED <<Database, queue, History>>,
           job' \in [Workers -> Jobs],
           \A w \in Workers : \/ job'[w] = job[w]
                             \/ /\ job[w].step \in {"idle", "told"} /\ job'[w].step \in {"idle", "told"}
                                /\ job'[w].step = "told" => job'[w].post \in saved,
           notes' \subseteq notes,
           faults' \in Nat, faults <= faults',
           row' \in [Rows -> {"none", "on", "off"}], replied' \in BOOLEAN,
           wish' \in {"none", "on", "off"}, stale' \subseteq Rows,
           WatchOK'
    PROVE  IInv'
<1>1. UNCHANGED <<saved, indexed, templates, learned, reposts, queue, ended, known>>
  BY DEF Database, History
<1>2. \A w \in Workers, q \in Posts : Held(w, q)' <=> Held(w, q)
  BY DEF Held, TaskSteps
<1>3. \A w \in Workers : job'[w].step \in TaskSteps => job'[w] = job[w]
  BY DEF TaskSteps
<1>4. TypeOK'
  BY <1>1 DEF IInv, TypeOK
<1>5. ShapeOK'
  BY <1>1, <1>3 DEF IInv, ShapeOK, TaskSteps
<1>6. PlaceOK'
  <2>1. \A t \in queue : t[1] \in Posts
    BY DEF IInv, TypeOK
  <2>2. PlaceOK
    BY DEF IInv
  <2> QED
    BY <1>1, <1>2, <2>1, <2>2 DEF PlaceOK
<1>7. WrittenOK'
  <2>1. ASSUME NEW q \in Posts, NEW w \in Workers, Held(w, q), job[w].step = "watch"
        PROVE  Held(w, q)' /\ job'[w].step = "watch"
    BY <2>1, <1>2
  <2> QED
    BY <1>1, <2>1 DEF IInv, WrittenOK
<1>8. FoundOK'
  BY <1>1, <1>3 DEF IInv, ShapeOK, FoundOK, HasTemplate, TaskSteps, ImageSteps
<1>9. KnownOK'
  <2>1. \A q \in Posts : known'[q] \subseteq Visible(q)'
    BY <1>1 DEF IInv, KnownOK, Visible
  <2>2. ASSUME NEW q \in Posts, ended'[q] = "done", known'[q] # {}, faults' = 0
        PROVE  reposts'[q] # <<>> \/ (q \in Images /\ HasTemplate(q))
    <3>1. faults = 0
      BY <2>2 DEF IInv, ShapeOK
    <3> QED
      BY <1>1, <2>2, <3>1 DEF IInv, KnownOK
  <2>3. OldestIsNamed'
    BY <1>1 DEF IInv, KnownOK, OldestIsNamed
  <2> QED
    BY <1>1, <2>1, <2>2, <2>3 DEF KnownOK, HasTemplate
<1> QED
  BY <1>4, <1>5, <1>6, <1>7, <1>8, <1>9 DEF IInv

LEMMA TellStep ==
    ASSUME IInv, NEW w \in Workers, Tell(w)
    PROVE  IInv'
<1>1. PICK n \in notes :
        /\ notes' = notes \ {n}
        /\ \/ /\ job' = [job EXCEPT ![w] = [Idle EXCEPT !.step = "told", !.post = n[1], !.ids = n[2]]]
              /\ UNCHANGED faults
           \/ Fault /\ UNCHANGED job
  BY DEF Tell
<1>2. job[w].step = "idle" /\ UNCHANGED <<Database, queue, Watches, History>>
  BY DEF Tell
<1>3. UNCHANGED <<row, replied, wish, stale>> /\ notes' \subseteq notes
  BY <1>1, <1>2 DEF Watches
<1>4. /\ row' \in [Rows -> {"none", "on", "off"}] /\ replied' \in BOOLEAN
      /\ wish' \in {"none", "on", "off"} /\ stale' \subseteq Rows
  BY <1>3 DEF IInv, TypeOK
<1>5. CASE /\ job' = [job EXCEPT ![w] = [Idle EXCEPT !.step = "told", !.post = n[1], !.ids = n[2]]]
           /\ UNCHANGED faults
  <2> DEFINE j == [Idle EXCEPT !.step = "told", !.post = n[1], !.ids = n[2]]
  <2>1. n \in saved \X SUBSET Rows /\ n[1] \in Posts
    BY DEF IInv, TypeOK
  <2>2. j \in Jobs /\ j.step = "told" /\ j.post = n[1] /\ j.ids = n[2]
    BY <2>1 DEF Jobs, Steps, Idle
  <2> HIDE DEF j
  <2>3. job' = [job EXCEPT ![w] = j]
    BY <1>5 DEF j
  <2>4. /\ job' \in [Workers -> Jobs] /\ job'[w] = j
        /\ \A v \in Workers : v # w => job'[v] = job[v]
    BY <2>2, <2>3, OtherJobs DEF IInv
  <2>5. \A i \in n[2] : i \in InFlight
    BY InFlightMember
  <2>6. WatchOK'
    BY <1>2, <1>3, <2>2, <2>3, <2>5, WatchWorks DEF IInv
  <2> QED
    BY <1>2, <1>3, <1>4, <1>5, <2>1, <2>2, <2>4, <2>6, SameFaults, Aside
<1>6. CASE Fault /\ UNCHANGED job
  <2>1. \A i \in InFlight' : i \in InFlight
    <3> TAKE i \in InFlight'
    <3>1. UNCHANGED <<job, row>> /\ notes' \subseteq notes
      BY <1>3, <1>6
    <3> QED
      BY <3>1, InFlightAfter, InFlightMember
  <2>2. WatchOK'
    BY <1>2, <2>1, WatchKeeps DEF IInv
  <2>3. job' \in [Workers -> Jobs]
    BY <1>6 DEF IInv, TypeOK
  <2> QED
    BY <1>2, <1>3, <1>4, <1>6, <2>2, <2>3, FaultFacts, Aside
<1> QED
  BY <1>1, <1>5, <1>6

LEMMA SaveDetectionStep ==
    ASSUME IInv, NEW w \in Workers, SaveDetection(w)
    PROVE  IInv'
<1>1. PICK i \in job[w].ids :
        /\ row' = [row EXCEPT ![i] = "on"]
        /\ job' = IF job[w].ids = {i} THEN [job EXCEPT ![w] = Idle]
                  ELSE [job EXCEPT ![w].ids = @ \ {i}]
  BY DEF SaveDetection
<1>2. /\ job[w].step = "told" /\ job[w] \in Jobs /\ i \in Rows
      /\ UNCHANGED <<Database, queue, notes, replied, wish, stale, History, faults>>
  BY <1>1 DEF SaveDetection, IInv, TypeOK, Jobs
<1>3. PICK j \in Jobs :
        /\ job' = [job EXCEPT ![w] = j]
        /\ j.ids \subseteq job[w].ids /\ j.step \in {"idle", "told"}
        /\ j.step = "told" => j.post = job[w].post
  <2>1. CASE job[w].ids = {i}
    BY <1>1, <2>1, IdleFacts
  <2>2. CASE job[w].ids # {i}
    <3> DEFINE j == [job[w] EXCEPT !.ids = job[w].ids \ {i}]
    <3>1. job' = [job EXCEPT ![w] = j]
      BY <1>1, <2>2
    <3>2. /\ j \in Jobs /\ j.ids \subseteq job[w].ids
          /\ j.step = "told" /\ j.post = job[w].post
      BY <1>2 DEF Jobs
    <3> HIDE DEF j
    <3> QED
      BY <3>1, <3>2
  <2> QED
    BY <2>1, <2>2
<1>4. /\ job' \in [Workers -> Jobs] /\ job'[w] = j
      /\ \A v \in Workers : v # w => job'[v] = job[v]
  BY <1>3, OtherJobs DEF IInv
<1>5. /\ row' \in [Rows -> {"none", "on", "off"}] /\ replied' \in BOOLEAN
      /\ wish' \in {"none", "on", "off"} /\ stale' \subseteq Rows
  BY <1>1, <1>2 DEF IInv, TypeOK
<1>6. \A k \in Rows : row'[k] = "on" => row[k] = "on" \/ k \in InFlight
  BY <1>1, InFlightMember DEF IInv, TypeOK
<1>7. \A k \in Rows : row[k] = "on" => row'[k] = "on"
  BY <1>1 DEF IInv, TypeOK
<1>8. ASSUME NEW k \in InFlight'
      PROVE  k \in stale' \/ row'[k] = "on"
  <2>1. CASE k \in InFlight
    <3>1. k \in Rows /\ (k \in stale \/ row[k] = "on")
      BY <2>1, InFlightType DEF IInv, WatchOK
    <3> QED
      BY <3>1, <1>2, <1>7
  <2>2. CASE k \notin InFlight
    <3>1. ~ \E n \in notes' : k \in n[2]
      BY <1>2, <2>2, InFlightMember
    <3>2. ~ \E v \in Workers : k \in job'[v].ids
      BY <1>3, <1>4, <2>2, InFlightMember
    <3> QED
      BY <3>1, <3>2, <1>8, InFlightAfter
  <2> QED
    BY <2>1, <2>2
<1>9. EndedStaysEnded'
  <2> SUFFICES ASSUME wish = "off", ~ replied, NEW k \in Rows \ stale
               PROVE  row'[k] # "on"
    BY <1>2 DEF EndedStaysEnded
  <2> QED
    BY <1>6 DEF IInv, WatchOK, EndedStaysEnded
<1>10. WatchOK'
  BY <1>8, <1>9 DEF WatchOK
<1>11. job[w].post \in saved
  BY <1>2 DEF IInv, ShapeOK
<1> QED
  BY <1>2, <1>3, <1>4, <1>5, <1>10, <1>11, SameFaults, Aside

LEMMA CrashStep ==
    ASSUME IInv, NEW w \in Workers, Crash(w)
    PROVE  IInv'
<1>1. /\ job[w].step # "idle" /\ Fault
      /\ UNCHANGED <<Database, queue, notes, Watches, known>>
  BY DEF Crash
<1>2. UNCHANGED <<saved, indexed, templates, learned, reposts, row, replied, wish, stale>>
  BY <1>1 DEF Database, Watches
<1>3. CASE job[w].step = "told"
  <2>1. job' = [job EXCEPT ![w] = Idle] /\ UNCHANGED ended
    BY <1>3 DEF Crash
  <2>2. /\ job' \in [Workers -> Jobs] /\ job'[w] = Idle
        /\ \A v \in Workers : v # w => job'[v] = job[v]
    BY <2>1, IdleFacts, OtherJobs DEF IInv
  <2>3. WatchOK'
    BY <1>1, <2>1, IdleFacts, WatchWorks DEF IInv
  <2>4. /\ row' \in [Rows -> {"none", "on", "off"}] /\ replied' \in BOOLEAN
        /\ wish' \in {"none", "on", "off"} /\ stale' \subseteq Rows
    BY <1>2 DEF IInv, TypeOK
  <2>5. UNCHANGED History
    BY <1>1, <2>1 DEF History
  <2> QED
    BY <1>1, <1>3, <2>2, <2>3, <2>4, <2>5, IdleFacts, FaultFacts, Aside
<1>4. CASE job[w].step # "told"
  <2>1. job[w].step \in TaskSteps
    BY <1>1, <1>4 DEF IInv, TypeOK, Jobs, Steps, TaskSteps
  <2>2. End(w, "crashed")
    BY <1>4 DEF Crash
  <2>3. templates' \in [Images -> Nat] /\ notes' \subseteq saved \X SUBSET Rows
    BY <1>1, <1>2 DEF IInv, TypeOK
  <2>4. Works(w, job[w].post)
    BY <1>1, <1>2, <2>1, <2>3, FaultFacts, TaskFacts, SameRewrites, WorksFor
  <2> QED
    BY <1>1, <2>1, <2>2, <2>3, <2>4, TaskEnds
<1> QED
  BY <1>3, <1>4

LEMMA ChangesStep ==
    ASSUME IInv, NEW r, r \in [Rows -> {"none", "on", "off"}], Changes(r), UNCHANGED <<replied, Others>>
    PROVE  IInv'
<1>1. /\ row' = r /\ wish' = IF \E i \in Rows : r[i] = "on" THEN "on" ELSE "off"
      /\ stale' = stale \cup {i \in InFlight : r[i] # "on"}
  BY DEF Changes
<1>2. UNCHANGED <<replied, Database, queue, notes, job, History, faults>>
  BY DEF Others
<1>3. stale' \subseteq Rows /\ replied' \in BOOLEAN /\ job' \in [Workers -> Jobs]
  <2>1. InFlight \subseteq Rows
    BY InFlightType DEF IInv
  <2> QED
    BY <1>1, <1>2, <2>1 DEF IInv, TypeOK
<1>4. ASSUME NEW i \in InFlight'
      PROVE  i \in stale' \/ row'[i] = "on"
  <2>1. i \in InFlight \/ row'[i] = "on"
    BY <1>2, <1>4, InFlightAfter, InFlightMember
  <2> QED
    BY <1>1, <2>1
<1>5. EndedStaysEnded'
  BY <1>1 DEF EndedStaysEnded
<1>6. WatchOK'
  BY <1>4, <1>5 DEF WatchOK
<1> QED
  BY <1>1, <1>2, <1>3, <1>6, SameFaults, Aside

LEMMA ProcessWatchRequestStep ==
    ASSUME IInv, ProcessWatchRequest
    PROVE  IInv'
<1>1. /\ replied = TRUE /\ row' = [row EXCEPT ![Min(NewRow)] = "on"]
      /\ wish' = (IF wish = "none" THEN "on" ELSE wish)
      /\ UNCHANGED <<replied, stale, Database, queue, notes, job, History, faults>>
  BY DEF ProcessWatchRequest, Others, IInv, TypeOK
<1>2. /\ row' \in [Rows -> {"none", "on", "off"}] /\ replied' \in BOOLEAN
      /\ wish' \in {"none", "on", "off"} /\ stale' \subseteq Rows /\ job' \in [Workers -> Jobs]
  BY <1>1 DEF IInv, TypeOK
<1>3. \A i \in Rows : row[i] = "on" => row'[i] = "on"
  BY <1>1 DEF IInv, TypeOK
<1>4. ASSUME NEW i \in InFlight'
      PROVE  i \in stale' \/ row'[i] = "on"
  <2>1. i \in InFlight \/ row'[i] = "on"
    BY <1>1, <1>4, InFlightAfter, InFlightMember
  <2>2. i \in InFlight => i \in stale \/ row'[i] = "on"
    BY <1>3, InFlightType DEF IInv, WatchOK
  <2> QED
    BY <1>1, <2>1, <2>2
<1>5. EndedStaysEnded'
  BY <1>1 DEF EndedStaysEnded
<1>6. WatchOK'
  BY <1>4, <1>5 DEF WatchOK
<1> QED
  BY <1>1, <1>2, <1>6, SameFaults, Aside

LEMMA UserStep ==
    ASSUME IInv, User
    PROVE  IInv'
<1>1. row \in [Rows -> {"none", "on", "off"}]
  BY DEF IInv, TypeOK
<1>2. CASE SiteWatch
  <2> DEFINE r == [row EXCEPT ![Min(NewRow)] = "on"]
  <2>1. r \in [Rows -> {"none", "on", "off"}]
    BY <1>1
  <2> QED
    BY <1>2, <2>1, ChangesStep DEF SiteWatch
<1>3. CASE SummonsWatch
  <2>1. /\ [row EXCEPT ![Min(NewRow)] = "on"] \in [Rows -> {"none", "on", "off"}]
        /\ [row EXCEPT ![Min(Existing)] = "on"] \in [Rows -> {"none", "on", "off"}]
    BY <1>1
  <2> QED
    BY <1>3, <2>1, ChangesStep DEF SummonsWatch
<1>4. CASE SummonsUnwatch
  <2>1. [row EXCEPT ![Min(Existing)] = "off"] \in [Rows -> {"none", "on", "off"}]
    BY <1>1
  <2> QED
    BY <1>4, <2>1, ChangesStep DEF SummonsUnwatch
<1>5. CASE Reply
  <2>1. replied' = TRUE /\ UNCHANGED <<row, wish, stale, Database, queue, notes, job, History, faults>>
    BY <1>5 DEF Reply, Others
  <2>2. /\ row' \in [Rows -> {"none", "on", "off"}] /\ replied' \in BOOLEAN
        /\ wish' \in {"none", "on", "off"} /\ stale' \subseteq Rows /\ job' \in [Workers -> Jobs]
    BY <2>1 DEF IInv, TypeOK
  <2>3. \A i \in InFlight' : i \in InFlight
    BY <2>1, InFlightAfter, InFlightMember
  <2>4. WatchOK'
    BY <2>1, <2>3 DEF IInv, WatchOK, EndedStaysEnded
  <2> QED
    BY <2>1, <2>2, <2>4, SameFaults, Aside
<1>6. CASE ProcessWatchRequest
  BY <1>6, ProcessWatchRequestStep
<1>7. ASSUME NEW i \in Rows, SiteToggle(i)
      PROVE  IInv'
  <2>1. [row EXCEPT ![i] = IF @ = "on" THEN "off" ELSE "on"] \in [Rows -> {"none", "on", "off"}]
    BY <1>1
  <2> QED
    BY <1>7, <2>1, ChangesStep DEF SiteToggle
<1>8. ASSUME NEW i \in Rows, SiteDelete(i)
      PROVE  IInv'
  <2>1. [row EXCEPT ![i] = "none"] \in [Rows -> {"none", "on", "off"}]
    BY <1>1
  <2> QED
    BY <1>8, <2>1, ChangesStep DEF SiteDelete
<1> QED
  BY <1>2, <1>3, <1>4, <1>5, <1>6, <1>7, <1>8 DEF User

\* A post that is saved is new: no row, no task, and nothing known of it.
LEMMA SaveStep ==
    ASSUME IInv, NEW p \in Posts, Save(p)
    PROVE  IInv'
<1>1. /\ p \notin saved /\ saved' = saved \cup {p} /\ queue' = queue \cup {<<p, 0>>}
      /\ known' = [known EXCEPT ![p] = Visible(p)]
      /\ UNCHANGED <<indexed, notes, job, templates, learned, reposts,
                     row, replied, wish, stale, ended, faults>>
  BY DEF Save, Watches
<1>2. known'[p] = Visible(p) /\ \A q \in Posts \ {p} : known'[q] = known[q]
  BY <1>1 DEF IInv, TypeOK
<1>3. ended[p] = "no" /\ \A w \in Workers : ~ Held(w, p)
  BY <1>1 DEF IInv, PlaceOK, ShapeOK, Held, TaskSteps
<1>4. reposts[p] = <<>>
  BY <1>3 DEF IInv, WrittenOK
<1>5. \A t \in queue : t[1] \in Posts /\ t[1] # p
  BY <1>1 DEF IInv, TypeOK
<1>6. Visible(p) \subseteq Posts
  BY SameNat DEF Visible
<1>7. TypeOK'
  <2>1. 0 \in 0..MaxRetries
    BY RepostAssumption
  <2>2. queue' \subseteq saved' \X (0..MaxRetries) /\ notes' \subseteq saved' \X SUBSET Rows
    BY <1>1, <2>1 DEF IInv, TypeOK
  <2>3. known' \in [Posts -> SUBSET Posts]
    BY <1>1, <1>6 DEF IInv, TypeOK
  <2> QED
    BY <1>1, <2>2, <2>3 DEF IInv, TypeOK
<1>8. ShapeOK'
  BY <1>1 DEF IInv, ShapeOK
<1>9. PlaceOK'
  <2>1. \A w \in Workers, q \in Posts : Held(w, q)' <=> Held(w, q)
    BY <1>1 DEF Held
  <2>2. PlaceOK
    BY DEF IInv
  <2>3. \A s, t \in queue' : s[1] = t[1] => s = t
    BY <1>1, <1>5, <2>2 DEF PlaceOK
  <2>4. ASSUME NEW t \in queue'
        PROVE  ended'[t[1]] = "no" /\ \A w \in Workers : ~ Held(w, t[1])'
    <3>1. CASE t \in queue
      BY <3>1, <1>1, <1>5, <2>1, <2>2 DEF PlaceOK
    <3>2. CASE t = <<p, 0>>
      BY <3>2, <1>1, <1>3, <2>1
    <3> QED
      BY <1>1, <3>1, <3>2
  <2> QED
    BY <1>1, <2>1, <2>2, <2>3, <2>4 DEF PlaceOK
<1>10. WrittenOK'
  BY <1>1 DEF IInv, WrittenOK, Held
<1>11. FoundOK'
  <2>1. \A w \in Workers : job[w].step # "idle" => job[w].post # p /\ job[w].post \in Posts
    BY <1>1 DEF IInv, ShapeOK, TypeOK
  <2> QED
    BY <1>1, <1>2, <2>1 DEF IInv, FoundOK, HasTemplate
<1>12. KnownOK'
  <2>1. \A q \in Posts : known'[q] \subseteq Visible(q)'
    BY <1>1, <1>2 DEF IInv, KnownOK, Visible
  <2>2. ASSUME NEW q \in Posts, ended'[q] = "done", known'[q] # {}, faults' = 0
        PROVE  reposts'[q] # <<>> \/ (q \in Images /\ HasTemplate(q))
    BY <1>1, <1>2, <1>3, <2>2 DEF IInv, KnownOK
  <2>3. ASSUME NEW q \in Images, reposts'[q] # <<>>, known'[q] # {}, learned' = {}
        PROVE  reposts'[q][1] <= Min(known'[q])
    <3>1. q \in Posts /\ q # p
      BY <1>1, <1>4, <2>3 DEF Posts
    <3> QED
      BY <1>1, <1>2, <2>3, <3>1 DEF IInv, KnownOK, OldestIsNamed
  <2>4. OldestIsNamed'
    BY <2>3 DEF OldestIsNamed
  <2> QED
    BY <1>1, <2>1, <2>2, <2>4 DEF KnownOK, HasTemplate
<1>13. WatchOK'
  <2>1. \A i \in InFlight' : i \in InFlight
    BY <1>1, InFlightAfter, InFlightMember
  <2> QED
    BY <1>1, <2>1 DEF IInv, WatchOK, EndedStaysEnded
<1> QED
  BY <1>7, <1>8, <1>9, <1>10, <1>11, <1>12, <1>13 DEF IInv

\* The index learns of an image, or of a template: what can be found grows.
LEMMA IndexStep ==
    ASSUME IInv, NEW p \in Images, IndexPost(p) \/ Learn(p)
    PROVE  IInv'
<1>1. /\ indexed \subseteq indexed' /\ indexed' \subseteq saved
      /\ learned \subseteq learned' /\ learned' \subseteq Images
      /\ UNCHANGED <<saved, queue, notes, job, templates, reposts,
                     row, replied, wish, stale, ended, known, faults>>
  BY DEF IndexPost, Learn, Watches, History, IInv, TypeOK
<1>2. TypeOK'
  BY <1>1 DEF IInv, TypeOK
<1>3. ShapeOK'
  BY <1>1 DEF IInv, ShapeOK
<1>4. PlaceOK' /\ WrittenOK'
  <2>1. \A w \in Workers : \A q : Held(w, q)' <=> Held(w, q)
    BY <1>1 DEF Held
  <2> QED
    BY <1>1, <2>1 DEF IInv, PlaceOK, WrittenOK
<1>5. FoundOK'
  BY <1>1 DEF IInv, FoundOK, HasTemplate
<1>6. KnownOK'
  <2>1. \A q \in Posts : known'[q] \subseteq Visible(q)'
    BY <1>1 DEF IInv, KnownOK, Visible
  <2>2. OldestIsNamed'
    BY <1>1 DEF IInv, KnownOK, OldestIsNamed
  <2>3. \A q \in Posts : HasTemplate(q) => HasTemplate(q)'
    BY <1>1 DEF HasTemplate
  <2> QED
    BY <1>1, <2>1, <2>2, <2>3 DEF IInv, KnownOK
<1>7. WatchOK'
  <2>1. \A i \in InFlight' : i \in InFlight
    BY <1>1, InFlightAfter, InFlightMember
  <2> QED
    BY <1>1, <2>1 DEF IInv, WatchOK, EndedStaysEnded
<1> QED
  BY <1>2, <1>3, <1>4, <1>5, <1>6, <1>7 DEF IInv

-----------------------------------------------------------------------------
\* The theorems.

LEMMA RepostInit == Init => IInv
<1> SUFFICES ASSUME Init
             PROVE  IInv
  OBVIOUS
<1>1. /\ saved = Old /\ indexed = {} /\ queue = {} /\ notes = {} /\ learned = {}
      /\ job = [w \in Workers |-> Idle] /\ templates = [p \in Images |-> 0]
      /\ reposts = [p \in Posts |-> <<>>] /\ replied = FALSE
      /\ ended = [p \in Posts |-> IF p \in Old THEN "done" ELSE "no"]
      /\ known = [p \in Posts |-> {}] /\ stale = {} /\ faults = 0
      /\ wish = IF \E i \in Rows : row[i] = "on" THEN "on" ELSE "none"
  BY DEF Init
<1>2. PICK I \in InitialRows : row = [i \in Rows |-> IF i \in I THEN "on" ELSE "none"]
  BY DEF Init
<1>3. \A w \in Workers : job[w] = Idle
  BY <1>1
<1>4. TypeOK
  <2>1. saved \subseteq Posts
    BY <1>1, RepostAssumption
  <2>2. row \in [Rows -> {"none", "on", "off"}] /\ wish \in {"none", "on", "off"}
    BY <1>1, <1>2
  <2>3. job \in [Workers -> Jobs]
    BY <1>1, IdleFacts
  <2>4. \A p \in Posts : reposts[p] \in Seq(Same[p])
    BY <1>1
  <2>5. ended \in [Posts -> {"no", "done", "failed", "skipped", "exhausted", "crashed"}]
    BY <1>1
  <2> QED
    BY <1>1, <2>1, <2>2, <2>3, <2>4, <2>5 DEF TypeOK
<1>5. ShapeOK
  BY <1>1, <1>3, IdleFacts DEF ShapeOK, TaskSteps
<1>6. \A w \in Workers, p \in Posts : ~ Held(w, p)
  BY <1>3, IdleFacts DEF Held, TaskSteps
<1>7. PlaceOK
  BY <1>1, <1>6 DEF PlaceOK
<1>8. WrittenOK
  BY <1>1 DEF WrittenOK
<1>9. FoundOK
  BY <1>3, IdleFacts DEF FoundOK, ImageSteps
<1>10. KnownOK
  BY <1>1 DEF KnownOK, OldestIsNamed, Posts
<1>11. WatchOK
  <2>1. \A i : i \notin InFlight
    BY <1>1, <1>3, IdleFacts, InFlightMember
  <2>2. EndedStaysEnded
    BY <1>1 DEF EndedStaysEnded
  <2> QED
    BY <2>1, <2>2 DEF WatchOK
<1> QED
  BY <1>4, <1>5, <1>7, <1>8, <1>9, <1>10, <1>11 DEF IInv

LEMMA RepostStep == IInv /\ [Next]_vars => IInv'
<1> SUFFICES ASSUME IInv, [Next]_vars
             PROVE  IInv'
  OBVIOUS
<1>1. ASSUME NEW p \in Posts, Save(p)
      PROVE  IInv'
  BY <1>1, SaveStep
<1>2. ASSUME NEW p \in Images, IndexPost(p) \/ Learn(p)
      PROVE  IInv'
  BY <1>2, IndexStep
<1>3. ASSUME NEW w \in Workers, Work(w)
      PROVE  IInv'
  <2>1. CASE CheckImageRepostSave(w)
    <3>1. CASE FirstSearch(w)
      BY <3>1, SearchStep DEF FirstSearch
    <3>2. CASE SecondSearch(w)
      BY <3>2, SearchStep DEF SecondSearch
    <3> QED
      BY <2>1, <3>1, <3>2, CheckUrlStep, MakeTemplateStep, SaveImageRepostStep,
         CheckForPostWatchStep DEF CheckImageRepostSave
  <2> QED
    BY <1>3, <2>1, TakeStep, LinkRepostCheckStep, TellStep, SaveDetectionStep
       DEF Work, NotifyWatch
<1>4. ASSUME NEW w \in Workers, Crash(w)
      PROVE  IInv'
  BY <1>4, CrashStep
<1>5. CASE User
  BY <1>5, UserStep
<1>6. CASE UNCHANGED vars
  <2>1. UNCHANGED <<Database, queue, notes, job, row, replied, wish, stale, History, faults>>
    BY <1>6 DEF vars, Database, History
  <2>2. /\ row' \in [Rows -> {"none", "on", "off"}] /\ replied' \in BOOLEAN
        /\ wish' \in {"none", "on", "off"} /\ stale' \subseteq Rows /\ job' \in [Workers -> Jobs]
    BY <2>1 DEF IInv, TypeOK
  <2>3. \A i \in InFlight' : i \in InFlight
    BY <2>1, InFlightAfter, InFlightMember
  <2>4. WatchOK'
    BY <2>1, <2>3 DEF IInv, WatchOK, EndedStaysEnded
  <2> QED
    BY <2>1, <2>2, <2>4, SameFaults, Aside
<1> QED
  BY <1>1, <1>2, <1>3, <1>4, <1>5, <1>6 DEF Next

\* Of every check of a new post: its task is at one place, its row of repost is
\* written once and last, its matches have all that was known when it was saved,
\* and a message about a watch that is not on was ordered before that ended.
THEOREM RepostInvariant == Spec => []IInv
  BY RepostInit, RepostStep, PTL DEF Spec

\* Posts, tasks, rows of repost and watches have the values they may have; a task
\* is tried again at most MaxRetries times.
THEOREM RepostTypeOK == Spec => []TypeOK
<1>1. IInv => TypeOK
  BY DEF IInv
<1> QED
  BY <1>1, RepostInvariant, PTL

\* check_image_repost_save and link_repost_check write at most one row of repost
\* for a post however often the task is tried again, and one when there was
\* something to find and nothing failed.
THEOREM RepostRecordedOnce == Spec => []RecordedOnce
<1>1. IInv => RecordedOnce
  <2> SUFFICES ASSUME IInv, NEW p \in Posts
               PROVE  /\ Len(reposts[p]) <= 1
                      /\ ended[p] = "done" /\ known[p] # {} /\ faults = 0
                         => Len(reposts[p]) = 1 \/ (p \in Images /\ learned \cap ({p} \cup Exact[p]) # {})
    BY DEF RecordedOnce
  <2>1. Len(reposts[p]) <= 1 /\ reposts[p] \in Seq(Posts)
    BY DEF IInv, WrittenOK, ShapeOK
  <2>2. reposts[p] # <<>> => Len(reposts[p]) = 1
    <3>1. reposts[p] # <<>> => Len(reposts[p]) \in Nat \ {0}
      BY <2>1, EmptySeq
    <3> DEFINE n == Len(reposts[p])
    <3>2. n <= 1
      BY <2>1
    <3> HIDE DEF n
    <3>3. n \in Nat \ {0} => n = 1
      BY <3>2
    <3> QED
      BY <3>1, <3>3 DEF n
  <2>3. ended[p] = "done" /\ known[p] # {} /\ faults = 0 =>
          reposts[p] # <<>> \/ (p \in Images /\ learned \cap ({p} \cup Exact[p]) # {})
    BY DEF IInv, KnownOK, HasTemplate
  <2> QED
    BY <2>1, <2>2, <2>3
<1> QED
  BY <1>1, RepostInvariant, PTL

\* The row that is written names the oldest original that could be known, whatever
\* the order in which posts are saved, indexed and checked.
THEOREM RepostOldestIsNamed == Spec => []OldestIsNamed
<1>1. IInv => OldestIsNamed
  BY DEF IInv, KnownOK
<1> QED
  BY <1>1, RepostInvariant, PTL

\* A watch that its user has ended is on again only if notify_watch had already
\* been ordered for it.
THEOREM RepostEndedStaysEnded == Spec => []EndedStaysEnded
<1>1. IInv => EndedStaysEnded
  BY DEF IInv, WatchOK
<1> QED
  BY <1>1, RepostInvariant, PTL
=============================================================================
