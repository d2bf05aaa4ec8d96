-------------------------- MODULE SubMonitorProofs --------------------------
(***************************************************************************)
(* What holds of the checks of monitored subs for every set of posts,      *)
(* users, workers and settings and any number of failures: nothing is      *)
(* asked for twice, nothing is done without a reason, a recorded check has *)
(* asked for all its settings call for, and the ledger of MeasureLedger is *)
(* kept.                                                                   *)
(***************************************************************************)
EXTENDS SubMonitor, TLAPS

Working(w) == job[w].step # "idle"

\* A check is the work of one worker.
JobsOK ==
    /\ \A w \in Workers : Working(w) => check[job[w].check] = "running"
    /\ \A w, v \in Workers :
         Working(w) /\ Working(v) /\ job[w].check = job[v].check => w = v

\* What a worker has still to send depends on how far it is.
TodoOK ==
    \A w \in Workers :
      /\ job[w].step \notin {"user", "post"} => job[w].todo = {}
      /\ \A m \in job[w].todo :
           /\ m.kind \in CheckKinds
           /\ job[w].step = "user" => m.why \in {"promoter", "volume"}
           /\ job[w].step = "post" => m.why = "search"

\* What a check has asked for so far.
AskedOK ==
    /\ \A o \in asked : check[o.check] \notin {"none", "waiting"}
    /\ \A w \in Workers : \A o \in asked :
         Working(w) /\ o.check = job[w].check =>
           /\ job[w].step \notin {"review", "decide"}
           /\ job[w].step \in {"user", "search"} => o.measure.why # "search"

\* One task for each measure that is neither done nor given up.
TasksOK ==
    /\ \A t \in queue : t.order \in asked
    /\ \A t, x \in queue : t.order = x.order => t = x
    /\ done \subseteq asked
    /\ lost \subseteq asked

\* A check asks for a measure once, although several parts of it may ask for
\* the same kind, and nothing is tried again once it is done or given up.
OnceEach ==
    /\ \A w \in Workers : \A m \in job[w].todo :
         [check |-> job[w].check, measure |-> m] \notin asked
    /\ \A t \in queue : t.order \notin done \cup lost

\* What the decisions of a worker rest on.
GroundsOK ==
    /\ \A u \in Users : reviews[u] = "flagged" => u \in Promoters
    /\ \A w \in Workers :
         /\ job[w].review = "flagged" => User(w) \in Promoters
         /\ job[w].step \in {"search", "post"} =>
              Post(w) \in Checkable /\ "search" \notin Exempt[User(w)]
         /\ \A m \in job[w].todo : Reason([check |-> job[w].check, measure |-> m])

\* Between the search and the row everything is sent or still to be sent.
PostOK ==
    \A w \in Workers : job[w].step = "post" =>
      \A m \in SearchMeasures(Post(w), Settings(w)) :
        m \in job[w].todo \/ [check |-> job[w].check, measure |-> m] \in asked

\* What a check has asked for, and what it has still to ask for, is called for by
\* the settings it began with.
UnderOK ==
    /\ \A o \in asked : under[o.check] \in AllSettings /\ CallsFor(under[o.check], o)
    /\ \A w \in Workers :
         /\ Working(w) => Settings(w) \in AllSettings
         /\ \A m \in job[w].todo :
              CallsFor(Settings(w), [check |-> job[w].check, measure |-> m])

IInv ==
    /\ TypeOK
    /\ JobsOK
    /\ TodoOK
    /\ AskedOK
    /\ TasksOK
    /\ GroundsOK
    /\ PostOK
    /\ OnceEach
    /\ RecordedIsOrdered
    /\ Justified
    /\ UnderOK
-----------------------------------------------------------------------------
(* Lemmas about the operators                                              *)

LEMMA AnyCheckIsCheck == AnyCheck \in Checks /\ Idle \in Jobs
<1>1. \E c \in Checks : TRUE
  <2>1. PICK p \in Posts : TRUE
    BY SubMonitorAssumption
  <2>2. [post |-> p, n |-> 1] \in Checks
    BY <2>1, SubMonitorAssumption DEF Checks
  <2>3. QED
    BY <2>2
<1>2. AnyCheck \in Checks
  BY <1>1 DEF AnyCheck
<1>3. QED
  BY <1>2 DEF Idle, Jobs, Steps, Views, Reviews

\* The measures of the flags have the kinds and the reasons of a check.
LEMMA MeasureTypes ==
    ASSUME NEW s, NEW p
    PROVE  /\ \A m \in PromoterMeasures(s) :
                m \in Measures /\ m.kind \in CheckKinds /\ m.why = "promoter"
           /\ \A m \in VolumeMeasures(s) :
                m \in Measures /\ m.kind \in CheckKinds /\ m.why = "volume"
           /\ \A m \in SearchMeasures(p, s) :
                m \in Measures /\ m.kind \in CheckKinds /\ m.why = "search"
<1> DEFINE Fine(flags) == \A f \in flags : f[2] \in CheckKinds
<1>1. ASSUME NEW flags, NEW why \in Whys, Fine(flags)
      PROVE  \A m \in FlaggedMeasures(s, flags, why) :
               m \in Measures /\ m.kind \in CheckKinds /\ m.why = why
  BY <1>1 DEF FlaggedMeasures, Measures, Kinds
<1>2. Fine(PromoterFlags) /\ Fine(VolumeFlags) /\ Fine(RepostFlags) /\ Fine(OcFlags)
  BY DEF PromoterFlags, VolumeFlags, RepostFlags, OcFlags, CheckKinds
<1> HIDE DEF Fine
<1>3. "promoter" \in Whys /\ "volume" \in Whys /\ "search" \in Whys
  BY DEF Whys
<1>4. QED
  BY <1>1, <1>2, <1>3 DEF PromoterMeasures, VolumeMeasures, SearchMeasures

\* The tasks a task sends.
LEMMA TaskTypes ==
    ASSUME NEW t \in Tasks
    PROVE  /\ \A k \in Kinds : Then(t, k) \in Tasks
           /\ FollowUps(t) \subseteq Tasks
           /\ Notices(t) \subseteq Tasks
           /\ t.tries < MaxRetries => [t EXCEPT !.tries = t.tries + 1] \in Tasks
<1>1. ASSUME NEW k \in Kinds PROVE Then(t, k) \in Tasks
  <2>1. t.order \in Orders
    BY DEF Tasks
  <2>2. t.order.measure \in Measures
    BY <2>1 DEF Orders
  <2>3. OfKind(t.order, k) \in Orders
    BY <2>1, <2>2 DEF OfKind, Orders, Measures
  <2>4. QED
    BY <2>3, SubMonitorAssumption DEF Then, Tasks
<1>2. FollowUps(t) \subseteq Tasks
  BY <1>1 DEF FollowUps, Kinds, TaskKinds
<1>3. Notices(t) \subseteq Tasks
  BY <1>1 DEF Notices, Kinds, TaskKinds
<1>4. ASSUME t.tries < MaxRetries PROVE [t EXCEPT !.tries = t.tries + 1] \in Tasks
  <2>1. t.tries \in 0..MaxRetries
    BY DEF Tasks
  <2>2. t.tries + 1 \in 0..MaxRetries
    BY <1>4, <2>1, SubMonitorAssumption
  <2>3. QED
    BY <2>2 DEF Tasks
<1>5. QED
  BY <1>1, <1>2, <1>3, <1>4
-----------------------------------------------------------------------------
(* Types                                                                   *)

LEMMA InitType == Init => TypeOK
<1> SUFFICES ASSUME Init PROVE TypeOK
  OBVIOUS
<1>1. job \in [Workers -> Jobs]
  BY AnyCheckIsCheck DEF Init
<1>2. /\ reviews \in [Users -> Reviews]
      /\ check \in [Checks -> CheckStates]
      /\ under \in [Checks -> SUBSET Options]
  BY DEF Init, CheckStates, Reviews
<1>3. faults \in 0..MaxFaults
  BY SubMonitorAssumption DEF Init
<1>4. QED
  BY <1>1, <1>2, <1>3 DEF Init, TypeOK

\* Every step of a worker changes its own job only.
LEMMA EndType ==
    ASSUME TypeOK, NEW w \in Workers, NEW r \in CheckStates, End(w, r)
    PROVE  /\ check' \in [Checks -> CheckStates]
           /\ job' \in [Workers -> Jobs]
  BY AnyCheckIsCheck DEF TypeOK, End, Jobs

LEMMA GoesType ==
    ASSUME TypeOK, NEW w \in Workers, NEW step \in Steps,
           NEW review \in Views, NEW todo \in SUBSET Measures,
           Goes(w, step, review, todo)
    PROVE  /\ job' \in [Workers -> Jobs]
           /\ job'[w] = [step |-> step, check |-> job[w].check, loaded |-> job[w].loaded,
                         review |-> review, todo |-> todo]
           /\ \A v \in Workers : v # w => job'[v] = job[v]
<1>1. [step |-> step, check |-> job[w].check, loaded |-> job[w].loaded,
       review |-> review, todo |-> todo] \in Jobs
  BY DEF TypeOK, Jobs
<1>2. QED
  BY <1>1 DEF Goes, TypeOK

LEMMA TypeStep == TypeOK /\ [Next]_vars => TypeOK'
<1> SUFFICES ASSUME TypeOK, [Next]_vars PROVE TypeOK'
  OBVIOUS
<1> USE SubMonitorAssumption DEF TypeOK, rows, actions
<1>0. {} \in SUBSET Measures /\ "decide" \in Steps /\ "search" \in Steps
  BY DEF Steps
<1>1. ASSUME NEW c \in Checks, Order(c) PROVE TypeOK'
  BY <1>1 DEF Order, CheckStates
<1>2. ASSUME NEW p \in Posts, Save(p) PROVE TypeOK'
  BY <1>2 DEF Save
<1>3. ASSUME ChangeSettings PROVE TypeOK'
  BY <1>3 DEF ChangeSettings
<1>4. ASSUME NEW u \in Users, Age(u) PROVE TypeOK'
  BY <1>4 DEF Age
<1>5. ASSUME NEW w \in Workers, NEW c \in Checks, Take(w, c) PROVE TypeOK'
  <2>1. CASE c.post \in saved
    <3>1. Author[c.post] \in Users
      BY DEF Checks
    <3>2. /\ check' \in [Checks -> CheckStates]
          /\ under' \in [Checks -> SUBSET Options]
      BY <1>5, <2>1 DEF Take, CheckStates
    <3>3. job' \in [Workers -> Jobs]
      BY <1>5, <2>1, <3>1 DEF Take, Jobs, Steps, Views
    <3>4. QED
      BY <1>5, <3>2, <3>3 DEF Take
  <2>2. CASE c.post \notin saved
    BY <1>5, <2>2 DEF Take, CheckStates
  <2>3. QED
    BY <2>1, <2>2
<1>6. ASSUME NEW w \in Workers, Review(w) PROVE TypeOK'
  <2>1. PICK result \in {"clean", "flagged"} :
          /\ reviews' = IF Clash(w) \/ result = job[w].loaded
                        THEN reviews
                        ELSE [reviews EXCEPT ![User(w)] = result]
          /\ Goes(w, "decide", IF Clash(w) THEN "broken" ELSE "fresh", {})
    BY <1>6 DEF Review
  <2>2. reviews' \in [Users -> Reviews] /\ stale' \subseteq Users
    BY <1>6, <2>1 DEF Review, Reviews
  <2>3. job' \in [Workers -> Jobs]
    <3>1. (IF Clash(w) THEN "broken" ELSE "fresh") \in Views
      BY DEF Views
    <3>2. QED
      BY <1>0, <2>1, <3>1, GoesType
  <2>4. QED
    BY <1>6, <2>2, <2>3 DEF Review
<1>7. ASSUME NEW w \in Workers, ReviewFails(w) PROVE TypeOK'
  <2>1. (IF job[w].loaded = "none" THEN "none" ELSE "clean") \in Views
    BY DEF Views, Reviews
  <2>2. job' \in [Workers -> Jobs]
    BY <1>0, <1>7, <2>1, GoesType DEF ReviewFails
  <2>3. QED
    BY <1>7, <2>2 DEF ReviewFails
<1>8. ASSUME NEW w \in Workers, Decide(w) PROVE TypeOK'
  <2>1. CASE job[w].review = "broken"
    BY <1>8, <2>1, EndType DEF Decide, CheckStates
  <2>2. CASE job[w].review # "broken"
    <3>1. PICK todo \in SUBSET Measures :
            Goes(w, "user", job[w].review, todo)
      <4>1. PICK counted \in SUBSET HighVolume :
              Goes(w, "user", job[w].review,
                (IF Flagged(w) /\ "promoter" \notin Exempt[User(w)]
                 THEN PromoterMeasures(Settings(w)) ELSE {})
                \cup (IF User(w) \in counted /\ "volume" \notin Exempt[User(w)]
                      THEN VolumeMeasures(Settings(w)) ELSE {}))
        BY <1>8, <2>2 DEF Decide
      <4>2. /\ PromoterMeasures(Settings(w)) \subseteq Measures
            /\ VolumeMeasures(Settings(w)) \subseteq Measures
        BY MeasureTypes
      <4>3. QED
        BY <4>1, <4>2
    <3>2. job' \in [Workers -> Jobs]
      BY <3>1, GoesType DEF Jobs, Steps
    <3>3. QED
      BY <1>8, <2>2, <3>2 DEF Decide
  <2>3. QED
    BY <2>1, <2>2
<1>9. ASSUME NEW w \in Workers, Send(w) PROVE TypeOK'
  <2>1. PICK m \in job[w].todo :
          /\ queue' = queue \cup {[order |-> [check |-> job[w].check, measure |-> m],
                                   tries |-> 0]}
          /\ asked' = asked \cup {[check |-> job[w].check, measure |-> m]}
          /\ Goes(w, job[w].step, job[w].review, job[w].todo \ {m})
    BY <1>9 DEF Send
  <2>2. [check |-> job[w].check, measure |-> m] \in Orders
    BY DEF Jobs, Orders
  <2>3. queue' \subseteq Tasks /\ asked' \subseteq Orders
    BY <2>1, <2>2 DEF Tasks
  <2>4. job' \in [Workers -> Jobs]
    <3>1. /\ job[w].step \in Steps
          /\ job[w].review \in Views
          /\ job[w].todo \ {m} \in SUBSET Measures
      BY DEF Jobs
    <3>2. QED
      BY <2>1, <3>1, GoesType
  <2>5. QED
    BY <1>9, <2>3, <2>4 DEF Send
<1>10. ASSUME NEW w \in Workers, ShouldCheck(w) PROVE TypeOK'
  <2>1. check' \in [Checks -> CheckStates] /\ job' \in [Workers -> Jobs]
    <3>1. CASE End(w, "skipped")
      BY <3>1, EndType DEF CheckStates
    <3>2. CASE Goes(w, "search", job[w].review, {}) /\ UNCHANGED check
      <4>1. job[w].review \in Views
        BY DEF Jobs
      <4>2. QED
        BY <1>0, <3>2, <4>1, GoesType
    <3>3. QED
      BY <1>10, <3>1, <3>2 DEF ShouldCheck
  <2>2. QED
    BY <1>10, <2>1 DEF ShouldCheck
<1>11. ASSUME NEW w \in Workers, Search(w) PROVE TypeOK'
  <2>1. SearchMeasures(Post(w), Settings(w)) \subseteq Measures
    BY MeasureTypes
  <2>2. job' \in [Workers -> Jobs]
    BY <1>11, <2>1, GoesType DEF Search, Jobs, Steps
  <2>3. QED
    BY <1>11, <2>2 DEF Search
<1>12. ASSUME NEW w \in Workers, Record(w) PROVE TypeOK'
  BY <1>12, EndType DEF Record, CheckStates
<1>13. ASSUME NEW w \in Workers, Abandon(w) PROVE TypeOK'
  BY <1>13, EndType DEF Abandon, Fault, CheckStates
<1>14. ASSUME NEW t \in queue, Execute(t) \/ Fail(t) PROVE TypeOK'
  <2>1. t \in Tasks /\ t.order \in Orders
    BY DEF Tasks
  <2>2. ASSUME NEW S \in SUBSET Tasks, Replace(t, S)
        PROVE  queue' \subseteq Tasks /\ asked' \subseteq Orders
    BY <2>2 DEF Replace, Tasks
  <2>3. CASE Perform(t)
    <3>1. queue' \subseteq Tasks /\ asked' \subseteq Orders
      BY <2>1, <2>2, <2>3, TaskTypes DEF Perform
    <3>2. done' \subseteq Orders /\ faults' \in 0..MaxFaults
      BY <2>1, <2>3 DEF Perform, Fault
    <3>3. QED
      BY <2>3, <3>1, <3>2 DEF Perform
  <2>4. CASE Busy(t)
    <3>1. CASE t.tries < MaxRetries
      BY <2>1, <2>2, <2>4, <3>1, TaskTypes DEF Busy
    <3>2. CASE ~ (t.tries < MaxRetries)
      BY <2>1, <2>2, <2>4, <3>2 DEF Busy
    <3>3. QED
      BY <3>1, <3>2
  <2>5. CASE Deny(t)
    BY <2>1, <2>2, <2>5, TaskTypes DEF Deny
  <2>6. CASE TooLate(t)
    BY <2>1, <2>2, <2>6 DEF TooLate
  <2>7. CASE Fail(t)
    BY <2>1, <2>2, <2>7 DEF Fail, Fault
  <2>8. QED
    BY <1>14, <2>3, <2>4, <2>5, <2>6, <2>7 DEF Execute
<1>15. CASE UNCHANGED vars
  BY <1>15 DEF vars
<1>16. QED
  BY <1>1, <1>2, <1>3, <1>4, <1>5, <1>6, <1>7, <1>8, <1>9, <1>10, <1>11, <1>12,
     <1>13, <1>14, <1>15 DEF Next, Around, Worker
-----------------------------------------------------------------------------
(* Workers and their checks                                                *)

\* A step of a worker leaves the other workers and the outcomes alone.
LEMMA WorkerFrame ==
    ASSUME TypeOK, NEW w \in Workers, Worker(w) \/ Abandon(w)
    PROVE  /\ done' = done /\ lost' = lost
           /\ \A v \in Workers : v # w => job'[v] = job[v]
  BY DEF TypeOK, Worker, Abandon, Take, Review, ReviewFails, Decide, Send, ShouldCheck,
         Search, Record, Goes, End, actions

\* The actions that leave the jobs and the checks alone.
LEMMA TaskFrame ==
    ASSUME NEW t \in queue, Execute(t) \/ Fail(t)
    PROVE  UNCHANGED <<job, check, under, saved, reviews>>
  BY DEF Execute, Perform, Busy, Deny, TooLate, Fail, rows

LEMMA AroundFrame ==
    ASSUME Around
    PROVE  UNCHANGED <<job, under, reviews, queue, asked, done, lost>>
  BY DEF Around, Order, Save, ChangeSettings, Age, rows, actions

\* A check of a working worker stays running until its worker ends it, and the
\* settings it works with stay.
LEMMA JobsStep == TypeOK /\ JobsOK /\ [Next]_vars => JobsOK'
<1> SUFFICES ASSUME TypeOK, JobsOK, [Next]_vars PROVE JobsOK'
  OBVIOUS
<1> USE DEF JobsOK, Working
<1>1. ASSUME NEW w \in Workers, Worker(w) \/ Abandon(w) PROVE JobsOK'
  <2>0. \A v \in Workers : v # w => job'[v] = job[v]
    BY <1>1, WorkerFrame
  <2>1. ASSUME NEW c \in Checks, Take(w, c) PROVE JobsOK'
    <3>1. CASE c.post \in saved
      <4>1. /\ check[c] = "waiting" /\ check' = [check EXCEPT ![c] = "running"]
            /\ job'[w].check = c /\ job'[w].step # "idle"
        BY <2>1, <3>1 DEF TypeOK, Take
      <4>2. \A v \in Workers : Working(v) => job[v].check \in Checks /\ job[v].check # c
        BY <4>1 DEF TypeOK, Jobs
      <4>3. /\ check'[c] = "running"
            /\ \A d \in Checks : d # c => check'[d] = check[d]
        BY <4>1 DEF TypeOK
      <4>4. QED
        BY <2>0, <4>1, <4>2, <4>3
    <3>2. CASE c.post \notin saved
      BY <2>1, <3>2 DEF TypeOK, Take, Jobs
    <3>3. QED
      BY <3>1, <3>2
  <2>2. ASSUME NEW r, End(w, r), Working(w) PROVE JobsOK'
    <3>1. /\ job'[w].step = "idle"
          /\ \A c \in Checks : c # job[w].check => check'[c] = check[c]
      BY <2>2 DEF End, Idle, TypeOK
    <3>2. QED
      BY <2>0, <2>2, <3>1 DEF TypeOK, Jobs
  <2>3. ASSUME NEW step, NEW review, NEW todo, Goes(w, step, review, todo),
               step # "idle", Working(w), UNCHANGED check
        PROVE  JobsOK'
    <3>1. job'[w].check = job[w].check
      BY <2>3 DEF Goes, TypeOK
    <3>2. QED
      BY <2>0, <2>3, <3>1
  <2>4. CASE Review(w) \/ ReviewFails(w) \/ Search(w)
    BY <2>3, <2>4 DEF Review, ReviewFails, Search, At
  <2>5. CASE Decide(w)
    BY <2>2, <2>3, <2>5 DEF Decide, At
  <2>6. CASE Send(w)
    BY <2>3, <2>6 DEF Send, At
  <2>7. CASE ShouldCheck(w)
    BY <2>2, <2>3, <2>7 DEF ShouldCheck, At
  <2>8. CASE Record(w) \/ Abandon(w)
    BY <2>2, <2>8 DEF Record, Abandon, At
  <2>9. QED
    BY <1>1, <2>1, <2>4, <2>5, <2>6, <2>7, <2>8 DEF Worker
<1>2. ASSUME NEW t \in queue, Execute(t) \/ Fail(t) PROVE JobsOK'
  BY <1>2, TaskFrame
<1>3. CASE Around
  <2>1. ASSUME NEW c \in Checks, Order(c) PROVE JobsOK'
    BY <2>1 DEF Order, TypeOK
  <2>2. CASE UNCHANGED check
    BY <1>3, <2>2, AroundFrame
  <2>3. QED
    BY <1>3, <2>1, <2>2 DEF Around, Save, ChangeSettings, Age
<1>4. CASE UNCHANGED vars
  BY <1>4 DEF vars
<1>5. QED
  BY <1>1, <1>2, <1>3, <1>4 DEF Next

\* Only a check that is waiting gets its settings.
LEMMA UnderFrame ==
    ASSUME TypeOK, [Next]_vars, NEW c \in Checks, check[c] # "waiting"
    PROVE  under'[c] = under[c]
<1>1. ASSUME NEW w \in Workers, Worker(w) \/ Abandon(w) PROVE under'[c] = under[c]
  BY <1>1 DEF Worker, Abandon, Take, Review, ReviewFails, Decide, Send, ShouldCheck,
              Search, Record, TypeOK
<1>2. QED
  BY <1>1, TaskFrame, AroundFrame DEF Next, vars

LEMMA TodoStep == TypeOK /\ TodoOK /\ [Next]_vars => TodoOK'
<1> SUFFICES ASSUME TypeOK, TodoOK, [Next]_vars PROVE TodoOK'
  OBVIOUS
<1> USE DEF TodoOK
<1>1. ASSUME NEW w \in Workers, Worker(w) \/ Abandon(w) PROVE TodoOK'
  <2>0. \A v \in Workers : v # w => job'[v] = job[v]
    BY <1>1, WorkerFrame
  <2>1. ASSUME NEW c \in Checks, Take(w, c) PROVE TodoOK'
    <3>1. job' = job \/ (job'[w].todo = {} /\ job'[w].step \notin {"user", "post"})
      BY <2>1 DEF TypeOK, Take
    <3>2. QED
      BY <2>0, <3>1
  <2>2. ASSUME NEW r, End(w, r) PROVE TodoOK'
    <3>1. job'[w].todo = {}
      BY <2>2 DEF End, Idle, TypeOK
    <3>2. QED
      BY <2>0, <3>1
  <2>3. ASSUME NEW step, NEW review, NEW todo, Goes(w, step, review, todo),
               step \notin {"user", "post"} => todo = {},
               \A m \in todo : /\ m.kind \in CheckKinds
                               /\ step = "user" => m.why \in {"promoter", "volume"}
                               /\ step = "post" => m.why = "search"
        PROVE  TodoOK'
    <3>1. job'[w].step = step /\ job'[w].todo = todo
      BY <2>3 DEF Goes, TypeOK
    <3>2. QED
      BY <2>0, <2>3, <3>1
  <2>4. CASE Review(w) \/ ReviewFails(w)
    BY <2>3, <2>4 DEF Review, ReviewFails
  <2>5. CASE Decide(w)
    <3>1. CASE job[w].review = "broken"
      BY <2>2, <2>5, <3>1 DEF Decide
    <3>2. CASE job[w].review # "broken"
      <4>1. PICK counted \in SUBSET HighVolume :
              Goes(w, "user", job[w].review,
                (IF Flagged(w) /\ "promoter" \notin Exempt[User(w)]
                 THEN PromoterMeasures(Settings(w)) ELSE {})
                \cup (IF User(w) \in counted /\ "volume" \notin Exempt[User(w)]
                      THEN VolumeMeasures(Settings(w)) ELSE {}))
        BY <2>5, <3>2 DEF Decide
      <4>2. \A m \in PromoterMeasures(Settings(w)) \cup VolumeMeasures(Settings(w)) :
              m.kind \in CheckKinds /\ m.why \in {"promoter", "volume"}
        BY MeasureTypes
      <4>3. QED
        BY <2>3, <4>1, <4>2
    <3>3. QED
      BY <3>1, <3>2
  <2>6. CASE Send(w)
    BY <2>3, <2>6 DEF Send, At
  <2>7. CASE ShouldCheck(w)
    BY <2>2, <2>3, <2>7 DEF ShouldCheck
  <2>8. CASE Search(w)
    <3>1. \A m \in SearchMeasures(Post(w), Settings(w)) :
            m.kind \in CheckKinds /\ m.why = "search"
      BY MeasureTypes
    <3>2. QED
      BY <2>3, <2>8, <3>1 DEF Search
  <2>9. CASE Record(w) \/ Abandon(w)
    BY <2>2, <2>9 DEF Record, Abandon
  <2>10. QED
    BY <1>1, <2>1, <2>4, <2>5, <2>6, <2>7, <2>8, <2>9 DEF Worker
<1>2. ASSUME NEW t \in queue, Execute(t) \/ Fail(t) PROVE TodoOK'
  BY <1>2, TaskFrame
<1>3. QED
  BY <1>1, <1>2, AroundFrame DEF Next, vars
-----------------------------------------------------------------------------
(* What is asked                                                           *)

\* The tasks a task sends are new: of another kind, for the same check and the
\* same reason, and never sent before.
LEMMA NewTasks ==
    ASSUME TypeOK, OnceEach, TasksOK, Justified, NEW t \in queue,
           NEW x \in FollowUps(t) \cup Notices(t)
    PROVE  /\ x \in Tasks
           /\ x.order.check = t.order.check
           /\ x.order.measure.why = t.order.measure.why
           /\ x.order.measure.kind \in TaskKinds
           /\ t.order.measure.kind \in CheckKinds
           /\ x.order \notin asked
           /\ x.tries = 0
           /\ OfKind(x.order, t.order.measure.kind) = t.order
<1>1. t \in Tasks /\ t.order \in Orders
  BY DEF TypeOK, Tasks
<1>2. t.order = OfKind(t.order, t.order.measure.kind)
  BY <1>1 DEF OfKind, Orders, Measures
<1>3. t.order \notin done \cup lost
  BY DEF OnceEach
<1>4. PICK k \in TaskKinds :
        /\ x = Then(t, k)
        /\ \/ k \in {"sticky", "lock_comment"} /\ t.order.measure.kind = "comment"
           \/ k = "cannot_remove" /\ t.order.measure.kind = "remove"
           \/ k = "cannot_ban" /\ t.order.measure.kind = "ban"
           \/ k = "cannot_oc" /\ t.order.measure.kind = "oc"
  BY DEF FollowUps, Notices, TaskKinds, Kind
<1>5. /\ x.order = OfKind(t.order, k)
      /\ OfKind(x.order, t.order.measure.kind) = t.order
  BY <1>2, <1>4 DEF Then, OfKind
<1>6. x.order.measure.kind = k
  BY <1>5 DEF OfKind
<1>7. x.order \notin asked
  BY <1>3, <1>4, <1>5, <1>6 DEF Justified
<1>8. x \in Tasks
  BY <1>1, TaskTypes
<1>9. x.order.check = t.order.check /\ x.order.measure.why = t.order.measure.why
  BY <1>5 DEF OfKind
<1>10. t.order.measure.kind \in CheckKinds
  BY <1>4 DEF CheckKinds
<1>11. x.tries = 0
  BY <1>4 DEF Then
<1>12. QED
  BY <1>5, <1>6, <1>7, <1>8, <1>9, <1>10, <1>11

\* What a task does: it is replaced by a retry of itself, or by new tasks.
LEMMA TaskStep ==
    ASSUME TypeOK, OnceEach, TasksOK, Justified, NEW t \in queue,
           Execute(t) \/ Fail(t)
    PROVE  \E S \in SUBSET Tasks :
             /\ Replace(t, S)
             /\ \/ /\ \A x \in S : x.order = t.order
                   /\ \A x, y \in S : x = y
                   /\ done' = done /\ lost' = lost
                \/ /\ S \subseteq FollowUps(t) \cup Notices(t)
                   /\ done \subseteq done' /\ lost \subseteq lost'
                   /\ done' \cup lost' = done \cup lost \cup {t.order}
                   /\ \A x \in S : x.order.measure.kind \in {"sticky", "lock_comment"}
                        => t.order.measure.kind = "comment" /\ t.order \in done'
                   /\ \A x \in S : x.order.measure.kind = "cannot_remove"
                        => t.order.measure.kind = "remove" /\ t.order \in lost'
                   /\ \A x \in S : x.order.measure.kind = "cannot_ban"
                        => t.order.measure.kind = "ban" /\ t.order \in lost'
                   /\ \A x \in S : x.order.measure.kind = "cannot_oc"
                        => t.order.measure.kind = "oc" /\ t.order \in lost'
<1>1. t \in Tasks
  BY DEF TypeOK
<1>2. FollowUps(t) \subseteq Tasks /\ Notices(t) \subseteq Tasks /\ {} \subseteq Tasks
  BY <1>1, TaskTypes
<1>3. \A x \in FollowUps(t) :
        x.order.measure.kind \in {"sticky", "lock_comment"} /\ t.order.measure.kind = "comment"
  BY DEF FollowUps, Then, OfKind, Kind
<1>4. \A x \in Notices(t) :
        \/ x.order.measure.kind = "cannot_remove" /\ t.order.measure.kind = "remove"
        \/ x.order.measure.kind = "cannot_ban" /\ t.order.measure.kind = "ban"
        \/ x.order.measure.kind = "cannot_oc" /\ t.order.measure.kind = "oc"
  BY DEF Notices, Then, OfKind, Kind
<1>5. CASE Perform(t)
  <2>1. done' = done \cup {t.order} /\ lost' = lost
    BY <1>5 DEF Perform
  <2>2. CASE Replace(t, FollowUps(t))
    BY <1>2, <1>3, <2>1, <2>2
  <2>3. CASE Replace(t, {})
    BY <1>2, <2>1, <2>3
  <2>4. QED
    BY <1>5, <2>2, <2>3 DEF Perform
<1>6. CASE Busy(t)
  <2>1. CASE t.tries < MaxRetries
    <3>1. [t EXCEPT !.tries = t.tries + 1] \in Tasks
      BY <1>1, <2>1, TaskTypes
    <3>2. [t EXCEPT !.tries = t.tries + 1].order = t.order
      BY <1>1 DEF Tasks
    <3>3. /\ Replace(t, {[t EXCEPT !.tries = t.tries + 1]})
          /\ done' = done /\ lost' = lost
      BY <1>6, <2>1 DEF Busy
    <3>4. /\ {[t EXCEPT !.tries = t.tries + 1]} \in SUBSET Tasks
          /\ \A x \in {[t EXCEPT !.tries = t.tries + 1]} : x.order = t.order
          /\ \A x, y \in {[t EXCEPT !.tries = t.tries + 1]} : x = y
      BY <3>1, <3>2
    <3>5. QED
      BY <3>3, <3>4
  <2>2. CASE ~ (t.tries < MaxRetries)
    BY <1>2, <1>6, <2>2 DEF Busy
  <2>3. QED
    BY <2>1, <2>2
<1>7. CASE Deny(t)
  <2>1. Replace(t, Notices(t)) /\ lost' = lost \cup {t.order} /\ done' = done
    BY <1>7 DEF Deny
  <2>2. QED
    BY <1>2, <1>4, <2>1
<1>8. CASE TooLate(t) \/ Fail(t)
  <2>1. Replace(t, {}) /\ lost' = lost \cup {t.order} /\ done' = done
    BY <1>8 DEF TooLate, Fail
  <2>2. QED
    BY <1>2, <2>1
<1>9. QED
  BY <1>5, <1>6, <1>7, <1>8 DEF Execute

LEMMA AskedStep ==
    TypeOK /\ JobsOK /\ TodoOK /\ AskedOK /\ TasksOK /\ OnceEach /\ Justified /\ [Next]_vars
      => AskedOK'
<1> SUFFICES ASSUME TypeOK, JobsOK, TodoOK, AskedOK, TasksOK, OnceEach, Justified,
                    [Next]_vars
             PROVE  AskedOK'
  OBVIOUS
<1> USE DEF AskedOK, Working
<1>1. ASSUME NEW w \in Workers, Worker(w) \/ Abandon(w) PROVE AskedOK'
  <2>0. \A v \in Workers : v # w => job'[v] = job[v]
    BY <1>1, WorkerFrame
  <2>1. ASSUME NEW c \in Checks, Take(w, c) PROVE AskedOK'
    <3>1. \A o \in asked : o.check # c
      BY <2>1 DEF Take
    <3>2. /\ asked' = asked
          /\ \A d \in Checks : d # c => check'[d] = check[d]
          /\ job' = job \/ job'[w].check = c
      BY <2>1 DEF Take, TypeOK, actions
    <3>3. QED
      BY <2>0, <3>1, <3>2 DEF TypeOK, Orders
  <2>2. ASSUME NEW r \in Ended, End(w, r), Working(w), asked' = asked PROVE AskedOK'
    <3>1. /\ job'[w].step = "idle"
          /\ \A c \in Checks : check'[c] = IF c = job[w].check THEN r ELSE check[c]
      BY <2>2 DEF End, Idle, TypeOK
    <3>2. QED
      BY <2>0, <2>2, <3>1 DEF TypeOK, Orders, Ended
  <2>3. ASSUME NEW step, NEW review, NEW todo, Goes(w, step, review, todo),
               UNCHANGED <<check, asked>>,
               Working(w),
               step \in {"review", "decide"} => job[w].step \in {"review", "decide"},
               step \in {"user", "search"} => job[w].step \in {"review", "decide", "user", "search"}
        PROVE  AskedOK'
    <3>1. job'[w].step = step /\ job'[w].check = job[w].check
      BY <2>3 DEF Goes, TypeOK
    <3>2. QED
      BY <2>0, <2>3, <3>1
  <2>4. CASE Review(w) \/ ReviewFails(w)
    BY <2>3, <2>4 DEF Review, ReviewFails, At, actions
  <2>5. CASE Decide(w)
    BY <2>2, <2>3, <2>5 DEF Decide, At, actions, Ended
  <2>6. CASE Send(w)
    <3>1. PICK m \in job[w].todo :
            /\ asked' = asked \cup {[check |-> job[w].check, measure |-> m]}
            /\ Goes(w, job[w].step, job[w].review, job[w].todo \ {m})
      BY <2>6 DEF Send
    <3>2. /\ job'[w].step = job[w].step /\ job'[w].check = job[w].check
          /\ job[w].step \in {"user", "post"} /\ check' = check
      BY <2>6, <3>1 DEF Send, Goes, At, TypeOK
    <3>3. job[w].step = "user" => m.why # "search"
      BY DEF TodoOK
    <3>4. check[job[w].check] = "running"
      BY <3>2 DEF JobsOK
    <3>5. \A v \in Workers : v # w /\ Working(v) => job[v].check # job[w].check
      BY <3>2 DEF JobsOK
    <3>6. QED
      BY <2>0, <3>1, <3>2, <3>3, <3>4, <3>5
  <2>7. CASE ShouldCheck(w)
    BY <2>2, <2>3, <2>7 DEF ShouldCheck, At, actions, Ended
  <2>8. CASE Search(w)
    BY <2>3, <2>8 DEF Search, At, actions
  <2>9. CASE Record(w) \/ Abandon(w)
    BY <2>2, <2>9 DEF Record, Abandon, At, actions, Ended
  <2>10. QED
    BY <1>1, <2>1, <2>4, <2>5, <2>6, <2>7, <2>8, <2>9 DEF Worker
<1>2. ASSUME NEW t \in queue, Execute(t) \/ Fail(t) PROVE AskedOK'
  <2>1. UNCHANGED <<job, check>>
    BY <1>2, TaskFrame
  <2>2. \A o \in asked' : \E p \in asked :
          o.check = p.check /\ o.measure.why = p.measure.why
    <3>1. PICK S \in SUBSET Tasks :
            /\ Replace(t, S)
            /\ (\A x \in S : x.order = t.order) \/ S \subseteq FollowUps(t) \cup Notices(t)
      BY <1>2, TaskStep
    <3>2. t.order \in asked
      BY DEF TasksOK
    <3>3. \A x \in S : x.order.check = t.order.check
                       /\ x.order.measure.why = t.order.measure.why
      BY <3>1, NewTasks
    <3>4. QED
      BY <3>1, <3>2, <3>3 DEF Replace
  <2>3. QED
    BY <2>1, <2>2
<1>3. CASE Around
  <2>1. ASSUME NEW c \in Checks, Order(c) PROVE AskedOK'
    <3>1. \A d \in Checks : d # c => check'[d] = check[d]
      BY <2>1 DEF Order, TypeOK
    <3>2. \A o \in asked : o.check # c
      BY <2>1 DEF Order
    <3>3. UNCHANGED <<job, asked>>
      BY <2>1 DEF Order, actions
    <3>4. QED
      BY <3>1, <3>2, <3>3 DEF TypeOK, Orders
  <2>2. CASE UNCHANGED check
    BY <1>3, <2>2, AroundFrame
  <2>3. QED
    BY <1>3, <2>1, <2>2 DEF Around, Save, ChangeSettings, Age
<1>4. CASE UNCHANGED vars
  BY <1>4 DEF vars
<1>5. QED
  BY <1>1, <1>2, <1>3, <1>4 DEF Next
\* A worker that sends a measure.
LEMMA SendFacts ==
    ASSUME TypeOK, TodoOK, NEW w \in Workers, Send(w)
    PROVE  \E m \in job[w].todo :
             /\ queue' = queue \cup {[order |-> [check |-> job[w].check, measure |-> m],
                                      tries |-> 0]}
             /\ asked' = asked \cup {[check |-> job[w].check, measure |-> m]}
             /\ [check |-> job[w].check, measure |-> m] \in Orders
             /\ m.kind \in CheckKinds
             /\ job'[w].todo = job[w].todo \ {m}
             /\ job'[w].check = job[w].check
             /\ job'[w].step = job[w].step
<1>1. PICK m \in job[w].todo :
        /\ queue' = queue \cup {[order |-> [check |-> job[w].check, measure |-> m],
                                 tries |-> 0]}
        /\ asked' = asked \cup {[check |-> job[w].check, measure |-> m]}
        /\ Goes(w, job[w].step, job[w].review, job[w].todo \ {m})
  BY DEF Send
<1>2. job[w] \in Jobs
  BY DEF TypeOK
<1>3. [check |-> job[w].check, measure |-> m] \in Orders
  BY <1>2 DEF Jobs, Orders
<1>4. job'[w] = [step |-> job[w].step, check |-> job[w].check, loaded |-> job[w].loaded,
                 review |-> job[w].review, todo |-> job[w].todo \ {m}]
  BY <1>1 DEF Goes, TypeOK
<1>5. m.kind \in CheckKinds
  BY DEF TodoOK
<1>6. QED
  BY <1>1, <1>3, <1>4, <1>5

\* The other steps of a worker send nothing.
LEMMA QuietFrame ==
    ASSUME NEW w \in Workers, Worker(w) \/ Abandon(w), ~ Send(w)
    PROVE  queue' = queue /\ asked' = asked
  BY DEF Worker, Abandon, Take, Review, ReviewFails, Decide, ShouldCheck, Search, Record,
         actions

\* What a worker has to send after a step that sends nothing.
LEMMA NewTodo ==
    ASSUME TypeOK, NEW w \in Workers, Worker(w) \/ Abandon(w), ~ Send(w)
    PROVE  \/ job'[w].todo = {}
           \/ job' = job
           \/ /\ At(w, "decide")
              /\ job'[w].check = job[w].check
              /\ job'[w].step = "user"
              /\ \A m \in job'[w].todo :
                   \/ /\ m \in PromoterMeasures(Settings(w))
                      /\ Flagged(w)
                      /\ "promoter" \notin Exempt[User(w)]
                   \/ /\ m \in VolumeMeasures(Settings(w))
                      /\ User(w) \in HighVolume
                      /\ "volume" \notin Exempt[User(w)]
           \/ /\ Search(w)
              /\ At(w, "search")
              /\ job'[w].check = job[w].check
              /\ job'[w].step = "post"
              /\ job'[w].todo = SearchMeasures(Post(w), Settings(w))
<1>1. ASSUME NEW r, End(w, r) PROVE job'[w].todo = {}
  BY <1>1 DEF End, Idle, TypeOK
<1>2. ASSUME NEW step, NEW review, NEW todo, Goes(w, step, review, todo)
      PROVE  job'[w].todo = todo /\ job'[w].check = job[w].check /\ job'[w].step = step
  BY <1>2 DEF Goes, TypeOK
<1>3. ASSUME NEW c \in Checks, Take(w, c) PROVE job'[w].todo = {} \/ job' = job
  BY <1>3 DEF Take, TypeOK
<1>4. CASE Review(w) \/ ReviewFails(w)
  BY <1>2, <1>4 DEF Review, ReviewFails
<1>5. CASE Decide(w)
  <2>1. CASE job[w].review = "broken"
    BY <1>1, <1>5, <2>1 DEF Decide
  <2>2. CASE job[w].review # "broken"
    <3>1. PICK counted \in SUBSET HighVolume :
            Goes(w, "user", job[w].review,
              (IF Flagged(w) /\ "promoter" \notin Exempt[User(w)]
               THEN PromoterMeasures(Settings(w)) ELSE {})
              \cup (IF User(w) \in counted /\ "volume" \notin Exempt[User(w)]
                    THEN VolumeMeasures(Settings(w)) ELSE {}))
      BY <1>5, <2>2 DEF Decide
    <3>2. /\ job'[w].todo =
               (IF Flagged(w) /\ "promoter" \notin Exempt[User(w)]
                THEN PromoterMeasures(Settings(w)) ELSE {})
               \cup (IF User(w) \in counted /\ "volume" \notin Exempt[User(w)]
                     THEN VolumeMeasures(Settings(w)) ELSE {})
          /\ job'[w].check = job[w].check
          /\ job'[w].step = "user"
      BY <1>2, <3>1
    <3>3. QED
      BY <1>5, <3>1, <3>2 DEF Decide
  <2>3. QED
    BY <2>1, <2>2
<1>6. CASE ShouldCheck(w)
  BY <1>1, <1>2, <1>6 DEF ShouldCheck
<1>7. CASE Search(w)
  BY <1>2, <1>7 DEF Search
<1>8. CASE Record(w) \/ Abandon(w)
  BY <1>1, <1>8 DEF Record, Abandon
<1>9. QED
  BY <1>3, <1>4, <1>5, <1>6, <1>7, <1>8 DEF Worker

\* Nothing is forgotten.
LEMMA HistoryGrows ==
    ASSUME TypeOK, TodoOK, OnceEach, TasksOK, Justified, [Next]_vars
    PROVE  asked \subseteq asked' /\ done \subseteq done' /\ lost \subseteq lost'
<1>1. ASSUME NEW w \in Workers, Worker(w) \/ Abandon(w)
      PROVE  asked \subseteq asked' /\ done \subseteq done' /\ lost \subseteq lost'
  BY <1>1, WorkerFrame, QuietFrame, SendFacts
<1>2. ASSUME NEW t \in queue, Execute(t) \/ Fail(t)
      PROVE  asked \subseteq asked' /\ done \subseteq done' /\ lost \subseteq lost'
  BY <1>2, TaskStep DEF Replace
<1>3. QED
  BY <1>1, <1>2, AroundFrame DEF Next, vars

LEMMA OnceStep ==
    TypeOK /\ JobsOK /\ TodoOK /\ AskedOK /\ TasksOK /\ OnceEach /\ Justified /\ [Next]_vars
      => TasksOK' /\ OnceEach'
<1> SUFFICES ASSUME TypeOK, JobsOK, TodoOK, AskedOK, TasksOK, OnceEach, Justified,
                    [Next]_vars
             PROVE  TasksOK' /\ OnceEach'
  OBVIOUS
<1>1. ASSUME NEW w \in Workers, Worker(w) \/ Abandon(w), ~ Send(w)
      PROVE  TasksOK' /\ OnceEach'
  <2>1. UNCHANGED <<queue, asked, done, lost>>
    BY <1>1, WorkerFrame, QuietFrame
  <2>2. \A v \in Workers : v # w => job'[v] = job[v]
    BY <1>1, WorkerFrame
  <2>3. \A m \in job'[w].todo : [check |-> job'[w].check, measure |-> m] \notin asked
    <3>1. CASE job'[w].todo = {} \/ job' = job
      BY <3>1 DEF OnceEach
    <3>2. CASE At(w, "decide") /\ job'[w].check = job[w].check
      BY <3>2 DEF AskedOK, At, Working
    <3>3. CASE /\ At(w, "search") /\ job'[w].check = job[w].check
               /\ job'[w].todo = SearchMeasures(Post(w), Settings(w))
      <4>1. \A m \in job'[w].todo : m.why = "search"
        BY <3>3, MeasureTypes
      <4>2. QED
        BY <3>3, <4>1 DEF AskedOK, At, Working
    <3>4. QED
      BY <1>1, <3>1, <3>2, <3>3, NewTodo
  <2>4. QED
    BY <2>1, <2>2, <2>3 DEF TasksOK, OnceEach
<1>2. ASSUME NEW w \in Workers, Send(w) PROVE TasksOK' /\ OnceEach'
  <2> DEFINE order(m) == [check |-> job[w].check, measure |-> m]
  <2>1. PICK m \in job[w].todo :
          /\ queue' = queue \cup {[order |-> order(m), tries |-> 0]}
          /\ asked' = asked \cup {order(m)}
          /\ job'[w].todo = job[w].todo \ {m}
          /\ job'[w].check = job[w].check
    BY <1>2, SendFacts
  <2>2. /\ done' = done /\ lost' = lost
        /\ \A v \in Workers : v # w => job'[v] = job[v]
    BY <1>2, WorkerFrame DEF Worker
  <2>3. order(m) \notin asked
    BY DEF OnceEach
  <2>4. TasksOK'
    BY <2>1, <2>2, <2>3 DEF TasksOK
  <2>5. \A t \in queue' : t.order \notin done' \cup lost'
    BY <2>1, <2>2, <2>3 DEF TasksOK, OnceEach
  <2>6. ASSUME NEW v \in Workers, NEW x \in job'[v].todo
        PROVE  [check |-> job'[v].check, measure |-> x] \notin asked'
    <3>1. CASE v = w
      <4>1. order(x) # order(m)
        BY <2>1, <2>6, <3>1
      <4>2. QED
        BY <2>1, <2>6, <3>1, <4>1 DEF OnceEach
    <3>2. CASE v # w
      <4>1. job'[v] = job[v]
        BY <2>2, <3>2
      <4>2. Working(v) /\ Working(w)
        BY <1>2, <2>6, <4>1 DEF Working, TodoOK, Send, At
      <4>3. job[v].check # job[w].check
        BY <3>2, <4>2 DEF JobsOK
      <4>4. QED
        BY <2>1, <2>6, <4>1, <4>3 DEF OnceEach
    <3>3. QED
      BY <3>1, <3>2
  <2>7. QED
    BY <2>4, <2>5, <2>6 DEF OnceEach
<1>3. ASSUME NEW t \in queue, Execute(t) \/ Fail(t) PROVE TasksOK' /\ OnceEach'
  <2>1. job' = job
    BY <1>3, TaskFrame
  <2>2. t.order \in asked
    BY DEF TasksOK
  <2>3. CASE \E S \in SUBSET Tasks :
               /\ Replace(t, S)
               /\ \A x \in S : x.order = t.order
               /\ \A x, y \in S : x = y
               /\ done' = done /\ lost' = lost
    <3>1. PICK S \in SUBSET Tasks :
            /\ queue' = (queue \ {t}) \cup S
            /\ asked' = asked \cup {x.order : x \in S}
            /\ \A x \in S : x.order = t.order
            /\ \A x, y \in S : x = y
            /\ done' = done /\ lost' = lost
      BY <2>3 DEF Replace
    <3>2. asked' = asked
      BY <2>2, <3>1
    <3>3. TasksOK'
      BY <2>2, <3>1, <3>2 DEF TasksOK
    <3>4. OnceEach'
      BY <2>1, <3>1, <3>2 DEF OnceEach
    <3>5. QED
      BY <3>3, <3>4
  <2>4. CASE \E S \in SUBSET Tasks :
               /\ Replace(t, S)
               /\ S \subseteq FollowUps(t) \cup Notices(t)
               /\ done \subseteq done' /\ lost \subseteq lost'
               /\ done' \cup lost' = done \cup lost \cup {t.order}
    <3>1. PICK S \in SUBSET Tasks :
            /\ queue' = (queue \ {t}) \cup S
            /\ asked' = asked \cup {x.order : x \in S}
            /\ S \subseteq FollowUps(t) \cup Notices(t)
            /\ done' \cup lost' = done \cup lost \cup {t.order}
      BY <2>4 DEF Replace
    <3>2. \A x \in S : /\ x.order \notin asked
                       /\ x = [order |-> x.order, tries |-> 0]
                       /\ x.order.measure.kind \in TaskKinds
      BY <3>1, NewTasks DEF Tasks
    <3>3. TasksOK'
      <4>1. \A x, y \in queue' : x.order = y.order => x = y
        BY <3>1, <3>2 DEF TasksOK
      <4>2. \A x \in queue' : x.order \in asked'
        BY <3>1 DEF TasksOK
      <4>3. done' \subseteq asked' /\ lost' \subseteq asked'
        BY <2>2, <3>1 DEF TasksOK
      <4>4. QED
        BY <4>1, <4>2, <4>3 DEF TasksOK
    <3>4. OnceEach'
      <4>1. \A x \in queue' : x.order \notin done' \cup lost'
        <5>1. \A x \in S : x.order \notin done' \cup lost'
          BY <2>2, <3>1, <3>2 DEF TasksOK
        <5>2. \A x \in queue \ {t} : x.order \notin done' \cup lost'
          BY <3>1 DEF TasksOK, OnceEach
        <5>3. QED
          BY <3>1, <5>1, <5>2
      <4>2. ASSUME NEW v \in Workers, NEW m \in job[v].todo
            PROVE  [check |-> job[v].check, measure |-> m] \notin asked'
        <5>1. m.kind \notin TaskKinds
          BY DEF TodoOK, CheckKinds, TaskKinds
        <5>2. [check |-> job[v].check, measure |-> m] \notin asked
          BY DEF OnceEach
        <5>3. QED
          BY <3>1, <3>2, <5>1, <5>2
      <4>3. QED
        BY <2>1, <4>1, <4>2 DEF OnceEach
    <3>5. QED
      BY <3>3, <3>4
  <2>5. QED
    BY <1>3, <2>3, <2>4, TaskStep
<1>4. ASSUME UNCHANGED <<job, queue, asked, done, lost>> PROVE TasksOK' /\ OnceEach'
  BY <1>4 DEF TasksOK, OnceEach
<1>5. QED
  BY <1>1, <1>2, <1>3, <1>4, AroundFrame DEF Next, vars
-----------------------------------------------------------------------------
(* The reasons                                                             *)

\* Without matches the search yields no measure against the post, with matches
\* none that calls it original.
LEMMA SearchReasons ==
    ASSUME NEW p \in Posts, NEW s, NEW m \in SearchMeasures(p, s)
    PROVE  /\ m.kind \in Against => p \in Reposts
           /\ m.kind = "oc" => p \notin Reposts
<1>1. \A x \in FlaggedMeasures(s, OcFlags, "search") : x.kind \notin Against
  BY DEF FlaggedMeasures, OcFlags, Against
<1>2. \A x \in FlaggedMeasures(s, RepostFlags, "search") : x.kind # "oc"
  BY DEF FlaggedMeasures, RepostFlags
<1>3. QED
  BY <1>1, <1>2 DEF SearchMeasures

LEMMA GroundsStep ==
    TypeOK /\ TodoOK /\ GroundsOK /\ [Next]_vars => GroundsOK'
<1> SUFFICES ASSUME TypeOK, TodoOK, GroundsOK, [Next]_vars PROVE GroundsOK'
  OBVIOUS
<1> DEFINE Sound(w) ==
      /\ job[w].review = "flagged" => User(w) \in Promoters
      /\ job[w].step \in {"search", "post"} =>
           Post(w) \in Checkable /\ "search" \notin Exempt[User(w)]
<1>1. ASSUME NEW w \in Workers, Worker(w) \/ Abandon(w) PROVE GroundsOK'
  <2>0. \A v \in Workers : v # w => job'[v] = job[v]
    BY <1>1, WorkerFrame
  <2>1. \A u \in Users : reviews'[u] = "flagged" => u \in Promoters
    <3>1. CASE Review(w)
      BY <3>1 DEF Review, GroundsOK, TypeOK
    <3>2. CASE ~ Review(w)
      <4>1. reviews' = reviews
        BY <1>1, <3>2 DEF Worker, Abandon, Take, ReviewFails, Decide, Send, ShouldCheck,
                          Search, Record, rows
      <4>2. QED
        BY <4>1 DEF GroundsOK
    <3>3. QED
      BY <3>1, <3>2
  <2>2. Sound(w)'
    <3>1. ASSUME NEW r, End(w, r) PROVE Sound(w)'
      <4>1. job'[w] = Idle
        BY <3>1 DEF End, TypeOK
      <4>2. QED
        BY <4>1 DEF Idle
    <3>2. ASSUME NEW step, NEW review, NEW todo, Goes(w, step, review, todo),
                 review = "flagged" => User(w) \in Promoters,
                 step \in {"search", "post"} =>
                   Post(w) \in Checkable /\ "search" \notin Exempt[User(w)]
          PROVE  Sound(w)'
      <4>1. /\ job'[w].step = step /\ job'[w].review = review
            /\ job'[w].check = job[w].check
        BY <3>2 DEF Goes, TypeOK
      <4>2. QED
        BY <3>2, <4>1 DEF User, Post
    <3>3. Sound(w)
      BY DEF GroundsOK
    <3>4. ASSUME NEW c \in Checks, Take(w, c) PROVE Sound(w)'
      <4>1. CASE c.post \in saved
        <5>1. /\ job'[w].check = c
              /\ job'[w].step \in {"review", "decide"}
              /\ job'[w].review = reviews[Author[c.post]]
          BY <3>4, <4>1 DEF Take, TypeOK
        <5>2. Author[c.post] \in Users
          BY SubMonitorAssumption DEF Checks
        <5>3. QED
          BY <5>1, <5>2 DEF GroundsOK, User, Post
      <4>2. CASE c.post \notin saved
        BY <3>3, <3>4, <4>2 DEF Take, User, Post
      <4>3. QED
        BY <4>1, <4>2
    <3>5. CASE Review(w)
      BY <3>2, <3>5 DEF Review
    <3>6. CASE ReviewFails(w)
      BY <3>2, <3>6 DEF ReviewFails
    <3>7. CASE Decide(w)
      BY <3>1, <3>2, <3>3, <3>7 DEF Decide
    <3>8. CASE Send(w)
      BY <3>2, <3>3, <3>8 DEF Send
    <3>9. CASE ShouldCheck(w)
      BY <3>1, <3>2, <3>3, <3>9 DEF ShouldCheck
    <3>10. CASE Search(w)
      BY <3>2, <3>3, <3>10 DEF Search, At
    <3>11. CASE Record(w) \/ Abandon(w)
      BY <3>1, <3>11 DEF Record, Abandon
    <3>12. QED
      BY <1>1, <3>4, <3>5, <3>6, <3>7, <3>8, <3>9, <3>10, <3>11 DEF Worker
  <2>3. \A m \in job'[w].todo : Reason([check |-> job'[w].check, measure |-> m])
    <3>1. CASE Send(w)
      <4>1. job'[w].todo \subseteq job[w].todo /\ job'[w].check = job[w].check
        BY <3>1, SendFacts
      <4>2. QED
        BY <4>1 DEF GroundsOK
    <3>2. CASE job'[w].todo = {} \/ job' = job
      BY <3>2 DEF GroundsOK
    <3>3. ASSUME NEW m \in job'[w].todo, m \in PromoterMeasures(Settings(w)),
                 Flagged(w), "promoter" \notin Exempt[User(w)],
                 job'[w].check = job[w].check
          PROVE  Reason([check |-> job'[w].check, measure |-> m])
      <4>1. m.why = "promoter"
        BY <3>3, MeasureTypes
      <4>2. User(w) \in Promoters
        <5>1. User(w) \in Users
          BY SubMonitorAssumption DEF TypeOK, Jobs, Checks, User, Post
        <5>2. QED
          BY <3>3, <5>1 DEF GroundsOK, Flagged
      <4>3. QED
        BY <3>3, <4>1, <4>2 DEF Reason, User, Post
    <3>4. ASSUME NEW m \in job'[w].todo, m \in VolumeMeasures(Settings(w)),
                 User(w) \in HighVolume, "volume" \notin Exempt[User(w)],
                 job'[w].check = job[w].check
          PROVE  Reason([check |-> job'[w].check, measure |-> m])
      <4>1. m.why = "volume"
        BY <3>4, MeasureTypes
      <4>2. QED
        BY <3>4, <4>1 DEF Reason, User, Post
    <3>5. ASSUME NEW m \in job'[w].todo, At(w, "search"),
                 m \in SearchMeasures(Post(w), Settings(w)),
                 job'[w].check = job[w].check
          PROVE  Reason([check |-> job'[w].check, measure |-> m])
      <4>1. m.why = "search"
        BY <3>5, MeasureTypes
      <4>2. Post(w) \in Posts
        BY DEF TypeOK, Jobs, Checks, Post
      <4>3. /\ m.kind \in Against => Post(w) \in Reposts
            /\ m.kind = "oc" => Post(w) \notin Reposts
        BY <3>5, <4>2, SearchReasons
      <4>4. Post(w) \in Checkable /\ "search" \notin Exempt[User(w)]
        BY <3>5 DEF GroundsOK, At
      <4>5. QED
        BY <3>5, <4>1, <4>3, <4>4 DEF Reason, User, Post
    <3>6. QED
      BY <1>1, <3>1, <3>2, <3>3, <3>4, <3>5, NewTodo
  <2>4. QED
    BY <2>0, <2>1, <2>2, <2>3 DEF GroundsOK, User, Post
<1>2. ASSUME UNCHANGED <<job, reviews>> PROVE GroundsOK'
  BY <1>2 DEF GroundsOK, User, Post
<1>3. QED
  BY <1>1, <1>2, TaskFrame, AroundFrame DEF Next, vars

LEMMA JustifiedStep ==
    TypeOK /\ TodoOK /\ TasksOK /\ OnceEach /\ GroundsOK /\ Justified /\ [Next]_vars
      => Justified'
<1> SUFFICES ASSUME TypeOK, TodoOK, TasksOK, OnceEach, GroundsOK, Justified, [Next]_vars
             PROVE  Justified'
  OBVIOUS
<1> DEFINE After(o) ==
      /\ o.measure.kind \in {"sticky", "lock_comment"} => OfKind(o, "comment") \in done'
      /\ o.measure.kind = "cannot_remove" => OfKind(o, "remove") \in lost'
      /\ o.measure.kind = "cannot_ban" => OfKind(o, "ban") \in lost'
      /\ o.measure.kind = "cannot_oc" => OfKind(o, "oc") \in lost'
<1>1. done \subseteq done' /\ lost \subseteq lost'
  BY HistoryGrows
<1>2. \A o \in asked : Reason(o) /\ After(o)
  BY <1>1 DEF Justified
<1>3. ASSUME \A o \in asked' : o \in asked \/ (Reason(o) /\ After(o))
      PROVE  Justified'
  BY <1>2, <1>3 DEF Justified
<1> HIDE DEF After
<1>4. ASSUME NEW w \in Workers, Worker(w) \/ Abandon(w) PROVE Justified'
  <2>1. CASE Send(w)
    <3>1. PICK m \in job[w].todo :
            /\ asked' = asked \cup {[check |-> job[w].check, measure |-> m]}
            /\ m.kind \in CheckKinds
      BY <2>1, SendFacts
    <3>2. Reason([check |-> job[w].check, measure |-> m])
      BY DEF GroundsOK
    <3>3. After([check |-> job[w].check, measure |-> m])
      BY <3>1 DEF After, CheckKinds
    <3>4. QED
      BY <1>3, <3>1, <3>2, <3>3
  <2>2. CASE ~ Send(w)
    BY <1>3, <1>4, <2>2, QuietFrame
  <2>3. QED
    BY <2>1, <2>2
<1>5. ASSUME NEW t \in queue, Execute(t) \/ Fail(t) PROVE Justified'
  <2>1. t.order \in asked
    BY DEF TasksOK
  <2>2. PICK S \in SUBSET Tasks :
          /\ asked' = asked \cup {x.order : x \in S}
          /\ \/ \A x \in S : x.order = t.order
             \/ /\ S \subseteq FollowUps(t) \cup Notices(t)
                /\ \A x \in S : x.order.measure.kind \in {"sticky", "lock_comment"}
                     => t.order.measure.kind = "comment" /\ t.order \in done'
                /\ \A x \in S : x.order.measure.kind = "cannot_remove"
                     => t.order.measure.kind = "remove" /\ t.order \in lost'
                /\ \A x \in S : x.order.measure.kind = "cannot_ban"
                     => t.order.measure.kind = "ban" /\ t.order \in lost'
                /\ \A x \in S : x.order.measure.kind = "cannot_oc"
                     => t.order.measure.kind = "oc" /\ t.order \in lost'
    BY <1>5, TaskStep DEF Replace
  <2>3. CASE \A x \in S : x.order = t.order
    BY <1>3, <2>1, <2>2, <2>3
  <2>4. CASE ~ \A x \in S : x.order = t.order
    <3>1. ASSUME NEW x \in S PROVE Reason(x.order) /\ After(x.order)
      <4>1. /\ x.order.check = t.order.check
            /\ x.order.measure.why = t.order.measure.why
            /\ x.order.measure.kind \in TaskKinds
            /\ OfKind(x.order, t.order.measure.kind) = t.order
        BY <2>2, <2>4, NewTasks
      <4>2. After(x.order)
        BY <2>2, <2>4, <4>1 DEF After
      <4>3. Reason(t.order)
        BY <2>1 DEF Justified
      <4>4. /\ x.order.measure.kind # "oc"
            /\ x.order.measure.kind \in Against => t.order.measure.kind \in Against
        BY <2>2, <2>4, <4>1 DEF TaskKinds, Against
      <4>5. Reason(x.order)
        BY <4>1, <4>3, <4>4 DEF Reason
      <4>6. QED
        BY <4>2, <4>5
    <3>2. QED
      BY <1>3, <2>2, <3>1
  <2>5. QED
    BY <2>3, <2>4
<1>6. QED
  BY <1>3, <1>4, <1>5, AroundFrame DEF Next, vars
-----------------------------------------------------------------------------
(* The settings                                                            *)

LEMMA UnderStep ==
    TypeOK /\ JobsOK /\ TodoOK /\ AskedOK /\ TasksOK /\ OnceEach /\ Justified /\ UnderOK
    /\ [Next]_vars => UnderOK'
<1> SUFFICES ASSUME TypeOK, JobsOK, TodoOK, AskedOK, TasksOK, OnceEach, Justified, UnderOK,
                    [Next]_vars
             PROVE  UnderOK'
  OBVIOUS
<1> DEFINE Held(w) ==
      /\ Working(w) => Settings(w) \in AllSettings
      /\ \A m \in job[w].todo :
           CallsFor(Settings(w), [check |-> job[w].check, measure |-> m])
           Called == \A o \in asked :
             under[o.check] \in AllSettings /\ CallsFor(under[o.check], o)
<1>1. ASSUME NEW o \in asked
      PROVE  under'[o.check] = under[o.check] /\ under[o.check] \in AllSettings
             /\ CallsFor(under[o.check], o)
  <2>1. o.check \in Checks /\ check[o.check] # "waiting"
    BY DEF TypeOK, Orders, AskedOK
  <2>2. QED
    BY <2>1, UnderFrame DEF UnderOK
<1>2. ASSUME NEW w \in Workers, Working(w)
      PROVE  under'[job[w].check] = under[job[w].check]
  <2>1. job[w].check \in Checks /\ check[job[w].check] = "running"
    BY <1>2 DEF TypeOK, Jobs, JobsOK
  <2>2. QED
    BY <2>1, UnderFrame
<1>3. ASSUME NEW w \in Workers, job'[w] = job[w] PROVE Held(w)'
  <2>1. CASE Working(w)
    BY <1>2, <1>3, <2>1 DEF UnderOK, Working, Settings
  <2>2. CASE ~ Working(w)
    BY <1>3, <2>2 DEF TodoOK, Working
  <2>3. QED
    BY <2>1, <2>2
<1>4. ASSUME NEW w \in Workers, Worker(w) \/ Abandon(w) PROVE Held(w)'
  <2>1. ASSUME NEW c \in Checks, Take(w, c), job' # job PROVE Held(w)'
    <3>1. job'[w].check = c /\ job'[w].todo = {} /\ under'[c] = settings
      BY <2>1 DEF Take, TypeOK
    <3>2. QED
      BY <3>1 DEF TypeOK, Settings
  <2>2. ASSUME job'[w].step = "idle", job'[w].todo = {} PROVE Held(w)'
    BY <2>2 DEF Working
  <2>3. ASSUME Working(w), job'[w].check = job[w].check,
               \A m \in job'[w].todo :
                 CallsFor(Settings(w), [check |-> job[w].check, measure |-> m])
        PROVE  Held(w)'
    BY <1>2, <2>3 DEF UnderOK, Settings
  <2>4. ASSUME NEW r, End(w, r) PROVE job'[w].step = "idle" /\ job'[w].todo = {}
    BY <2>4 DEF End, Idle, TypeOK
  <2>5. ASSUME NEW step, NEW review, NEW todo, Goes(w, step, review, todo)
        PROVE  job'[w].check = job[w].check /\ job'[w].todo = todo
    BY <2>5 DEF Goes, TypeOK
  <2>6. ASSUME NEW m, m \in PromoterMeasures(Settings(w)) \/ m \in VolumeMeasures(Settings(w))
                        \/ m \in SearchMeasures(Post(w), Settings(w))
        PROVE  CallsFor(Settings(w), [check |-> job[w].check, measure |-> m])
    <3>1. m.kind \in CheckKinds
      BY <2>6, MeasureTypes
    <3>2. QED
      BY <2>6, <3>1 DEF CallsFor, Post
  <2>7. CASE Review(w) \/ ReviewFails(w)
    BY <2>3, <2>5, <2>7 DEF Review, ReviewFails, At, Working
  <2>8. CASE Decide(w)
    <3>1. Working(w)
      BY <2>8 DEF Decide, At, Working
    <3>2. CASE job[w].review = "broken"
      BY <2>2, <2>4, <2>8, <3>2 DEF Decide
    <3>3. CASE job[w].review # "broken"
      <4>1. \E counted \in SUBSET HighVolume :
              Goes(w, "user", job[w].review,
                (IF Flagged(w) /\ "promoter" \notin Exempt[User(w)]
                 THEN PromoterMeasures(Settings(w)) ELSE {})
                \cup (IF User(w) \in counted /\ "volume" \notin Exempt[User(w)]
                      THEN VolumeMeasures(Settings(w)) ELSE {}))
        BY <2>8, <3>3 DEF Decide
      <4>2. job'[w].check = job[w].check
        BY <2>5, <4>1
      <4>3. \A m \in job'[w].todo : m \in PromoterMeasures(Settings(w))
                                     \/ m \in VolumeMeasures(Settings(w))
        BY <2>5, <4>1
      <4>4. QED
        BY <2>3, <2>6, <3>1, <4>2, <4>3
    <3>4. QED
      BY <3>2, <3>3
  <2>9. CASE Send(w)
    <3>1. job'[w].todo \subseteq job[w].todo /\ job'[w].check = job[w].check
      BY <2>9, SendFacts
    <3>2. QED
      BY <2>3, <2>9, <3>1 DEF Send, At, Working, UnderOK
  <2>10. CASE ShouldCheck(w)
    BY <2>2, <2>3, <2>4, <2>5, <2>10 DEF ShouldCheck, At, Working
  <2>11. CASE Search(w)
    BY <2>3, <2>5, <2>6, <2>11 DEF Search, At, Working
  <2>12. CASE Record(w) \/ Abandon(w)
    BY <2>2, <2>4, <2>12 DEF Record, Abandon
  <2>13. CASE job' = job
    BY <1>3, <2>13
  <2>14. QED
    BY <1>4, <2>1, <2>7, <2>8, <2>9, <2>10, <2>11, <2>12, <2>13 DEF Worker
<1>5. \A w \in Workers : Held(w)'
  BY <1>3, <1>4, WorkerFrame, TaskFrame, AroundFrame DEF Next, vars
<1>6. Called'
  <2>1. CASE asked' = asked
    BY <1>1, <2>1
  <2>2. ASSUME NEW w \in Workers, Send(w) PROVE Called'
    <3>1. PICK m \in job[w].todo :
            asked' = asked \cup {[check |-> job[w].check, measure |-> m]}
      BY <2>2, SendFacts
    <3>2. Working(w)
      BY <2>2 DEF Send, At, Working
    <3>3. /\ under'[job[w].check] = Settings(w) /\ Settings(w) \in AllSettings
          /\ CallsFor(Settings(w), [check |-> job[w].check, measure |-> m])
      BY <1>2, <3>2 DEF UnderOK, Settings
    <3>4. QED
      BY <1>1, <3>1, <3>3
  <2>3. ASSUME NEW t \in queue, Execute(t) \/ Fail(t) PROVE Called'
    <3>1. t.order \in asked
      BY DEF TasksOK
    <3>2. PICK S \in SUBSET Tasks :
            /\ asked' = asked \cup {x.order : x \in S}
            /\ (\A x \in S : x.order = t.order) \/ S \subseteq FollowUps(t) \cup Notices(t)
      BY <2>3, TaskStep DEF Replace
    <3>3. ASSUME NEW x \in FollowUps(t) \cup Notices(t)
          PROVE  x.order.check = t.order.check /\ CallsFor(under[t.order.check], x.order)
      <4>1. /\ x.order.check = t.order.check
            /\ x.order.measure.kind \in TaskKinds
        BY NewTasks
      <4>2. x.order.measure.kind \notin CheckKinds
        BY <4>1 DEF TaskKinds, CheckKinds
      <4>3. /\ x.order.measure.kind = "sticky" => "sticky_comment" \in under[t.order.check]
            /\ x.order.measure.kind = "lock_comment"
                 => "lock_response_comment" \in under[t.order.check]
        BY DEF FollowUps, Notices, Then, OfKind
      <4>4. QED
        BY <4>1, <4>2, <4>3 DEF CallsFor
    <3>4. QED
      BY <1>1, <3>1, <3>2, <3>3
  <2>4. QED
    BY <2>1, <2>2, <2>3, QuietFrame, AroundFrame DEF Next, vars
<1>7. QED
  BY <1>5, <1>6 DEF UnderOK
-----------------------------------------------------------------------------
(* The row of the check                                                    *)

LEMMA PostStep ==
    TypeOK /\ JobsOK /\ TodoOK /\ TasksOK /\ OnceEach /\ Justified /\ PostOK /\ [Next]_vars
      => PostOK'
<1> SUFFICES ASSUME TypeOK, JobsOK, TodoOK, TasksOK, OnceEach, Justified, PostOK,
                    [Next]_vars, NEW v \in Workers, job'[v].step = "post",
                    NEW m \in SearchMeasures(Post(v)', Settings(v)')
             PROVE  m \in job'[v].todo \/ [check |-> job'[v].check, measure |-> m] \in asked'
  BY DEF PostOK
<1>0. asked \subseteq asked'
  BY HistoryGrows
<1>1. ASSUME job[v].step # "idle", job'[v].check = job[v].check
      PROVE  m \in SearchMeasures(Post(v), Settings(v))
  <2>1. job[v].check \in Checks /\ check[job[v].check] # "waiting"
    BY <1>1 DEF TypeOK, Jobs, JobsOK, Working
  <2>2. under'[job[v].check] = under[job[v].check]
    BY <2>1, UnderFrame
  <2>3. Post(v)' = Post(v) /\ Settings(v)' = Settings(v)
    BY <1>1, <2>2 DEF Post, Settings
  <2>4. QED
    BY <2>3
<1>2. CASE job'[v] = job[v]
  BY <1>0, <1>1, <1>2 DEF PostOK
<1>3. CASE job'[v] # job[v]
  <2>1. Worker(v) \/ Abandon(v)
    BY <1>3, WorkerFrame, TaskFrame, AroundFrame DEF Next, vars
  <2>2. CASE Send(v)
    <3>1. PICK x \in job[v].todo :
            /\ asked' = asked \cup {[check |-> job[v].check, measure |-> x]}
            /\ job'[v].todo = job[v].todo \ {x}
            /\ job'[v].check = job[v].check
            /\ job'[v].step = job[v].step
      BY <2>2, SendFacts
    <3>2. m \in SearchMeasures(Post(v), Settings(v))
      BY <1>1, <3>1
    <3>3. QED
      BY <3>1, <3>2 DEF PostOK
  <2>3. CASE ~ Send(v)
    <3>1. Search(v)
      BY <1>3, <2>1, <2>3 DEF Worker, Abandon, Take, Review, ReviewFails, Decide,
         ShouldCheck, Record, End, Goes, Idle, TypeOK
    <3>2. /\ job'[v].todo = SearchMeasures(Post(v), Settings(v))
          /\ job'[v].check = job[v].check /\ job[v].step # "idle"
      BY <3>1 DEF Search, Goes, At, TypeOK
    <3>3. QED
      BY <1>1, <3>2
  <2>4. QED
    BY <2>2, <2>3
<1>4. QED
  BY <1>2, <1>3

LEMMA RecordedStep ==
    TypeOK /\ JobsOK /\ TodoOK /\ TasksOK /\ OnceEach /\ Justified /\ PostOK
      /\ RecordedIsOrdered /\ [Next]_vars => RecordedIsOrdered'
<1> SUFFICES ASSUME TypeOK, JobsOK, TodoOK, TasksOK, OnceEach, Justified, PostOK,
                    RecordedIsOrdered, [Next]_vars,
                    NEW c \in Checks, check'[c] = "recorded"
             PROVE  OrdersFor(c, SearchMeasures(c.post, under'[c])) \subseteq asked'
  BY DEF RecordedIsOrdered
<1>0. asked \subseteq asked'
  BY HistoryGrows
<1>1. CASE check[c] = "recorded"
  <2>1. under'[c] = under[c]
    BY <1>1, UnderFrame
  <2>2. QED
    BY <1>0, <1>1, <2>1 DEF RecordedIsOrdered
<1>2. CASE check[c] # "recorded"
  <2>1. PICK w \in Workers : Record(w) /\ job[w].check = c
    <3>1. PICK w \in Workers : Worker(w) \/ Abandon(w)
      BY <1>2, TaskFrame DEF Next, vars, Around, Order, Save, ChangeSettings, Age, TypeOK
    <3>2. Record(w) /\ job[w].check = c
      BY <1>2, <3>1 DEF Worker, Abandon, Take, Review, ReviewFails, Decide, Send,
         ShouldCheck, Search, Record, End, TypeOK
    <3>3. QED
      BY <3>2
  <2>2. job[w].step = "post" /\ job[w].todo = {}
    BY <2>1 DEF Record, At
  <2>3. check[c] # "waiting"
    BY <2>1, <2>2 DEF JobsOK, Working
  <2>4. under'[c] = under[c]
    BY <2>3, UnderFrame
  <2>5. \A m \in SearchMeasures(c.post, under[c]) : [check |-> c, measure |-> m] \in asked
    BY <2>1, <2>2 DEF PostOK, Post, Settings
  <2>6. QED
    BY <1>0, <2>4, <2>5 DEF OrdersFor
<1>3. QED
  BY <1>1, <1>2
-----------------------------------------------------------------------------
(* Theorems                                                                *)

LEMMA InitInvariant == Init => IInv
<1> SUFFICES ASSUME Init PROVE IInv
  OBVIOUS
<1>1. TypeOK
  BY InitType
<1>2. /\ job = [w \in Workers |-> Idle]
      /\ check = [c \in Checks |-> "none"]
      /\ reviews = [u \in Users |-> "none"]
      /\ queue = {} /\ asked = {} /\ done = {} /\ lost = {}
  BY DEF Init
<1>3. JobsOK /\ TodoOK /\ PostOK
  BY <1>2 DEF JobsOK, TodoOK, PostOK, Working, Idle
<1>4. AskedOK /\ TasksOK /\ OnceEach /\ Justified /\ RecordedIsOrdered
  BY <1>2 DEF AskedOK, TasksOK, OnceEach, Justified, RecordedIsOrdered, Idle
<1>5. GroundsOK /\ UnderOK
  BY <1>2 DEF GroundsOK, UnderOK, Working, Idle
<1>6. QED
  BY <1>1, <1>3, <1>4, <1>5 DEF IInv

LEMMA StepInvariant == IInv /\ [Next]_vars => IInv'
  BY TypeStep, JobsStep, TodoStep, AskedStep, OnceStep, GroundsStep, JustifiedStep,
     UnderStep, PostStep, RecordedStep DEF IInv

\* The inductive invariant: checks belong to one worker, a worker asks in the
\* order of its steps, and every task, done or lost measure was asked for.
THEOREM SubMonitorInvariant == Spec => []IInv
<1>1. IInv /\ UNCHANGED vars => IInv'
  BY StepInvariant
<1>2. QED
  BY InitInvariant, StepInvariant, <1>1, PTL DEF Spec

\* Reviews, checks, jobs, tasks and the history of the measures keep their
\* types, whatever fails; a task is retried MaxRetries times at most.
THEOREM SubMonitorTypeOK == Spec => []TypeOK
  BY SubMonitorInvariant, PTL DEF IInv

\* When the row of a check is written, every measure of the search has been
\* sent (check_submission, create_checked_post).
THEOREM SubMonitorRecordedIsOrdered == Spec => []RecordedIsOrdered
  BY SubMonitorInvariant, PTL DEF IInv

\* No measure without its reason, for any settings, whitelist and failures.
THEOREM SubMonitorJustified == Spec => []Justified
  BY SubMonitorInvariant, PTL DEF IInv

\* What comes of one check is what one version of the settings asks for, however
\* often the moderators change them: the one the check began with.
THEOREM SubMonitorOneVersion == Spec => []OneVersion
<1>1. IInv => OneVersion
  <2> SUFFICES ASSUME IInv, NEW c \in Checks
               PROVE  \E s \in AllSettings :
                        \A o \in asked : o.check = c => CallsFor(s, o)
    BY DEF OneVersion
  <2>1. CASE \E o \in asked : o.check = c
    BY <2>1 DEF IInv, UnderOK
  <2>2. CASE \A o \in asked : o.check # c
    BY <2>2 DEF IInv, TypeOK
  <2>3. QED
    BY <2>1, <2>2
<1>2. QED
  BY <1>1, SubMonitorInvariant, PTL
-----------------------------------------------------------------------------
(* The checks keep the ledger                                              *)

\* The orders of the tasks a task sends: measures for the same check that may
\* follow its own.
LEMMA Followers ==
    ASSUME TypeOK, OnceEach, TasksOK, Justified, NEW t \in queue,
           NEW after \in {AfterDone, AfterLost},
           NEW S, S = {} \/ (after = AfterDone /\ S = FollowUps(t))
                        \/ (after = AfterLost /\ S = Notices(t)),
           Replace(t, S)
    PROVE  \E ms \in SUBSET after[t.order.measure] :
              LedgerOf!Asks(t.order.check, ms)
<1> DEFINE ms == {x.order.measure : x \in S}
<1>1. t.order \in Orders /\ t.order.measure \in Measures
  BY DEF TypeOK, Tasks, Orders
<1>2. ASSUME NEW x \in S
      PROVE  /\ x.order \in Orders /\ x.order \notin asked
             /\ x.order.check = t.order.check
             /\ x.order.measure \in after[t.order.measure]
  <2>1. /\ x \in Tasks /\ x.order \notin asked
        /\ x.order.check = t.order.check
        /\ x.order.measure.why = t.order.measure.why
    BY <1>2, NewTasks
  <2>2. x.order \in Orders /\ x.order.measure \in Measures
    BY <2>1 DEF Tasks, Orders
  <2>3. CASE after = AfterDone /\ S = FollowUps(t)
    <3>1. t.order.measure.kind = "comment" /\ x.order.measure.kind \in {"sticky", "lock_comment"}
      BY <2>3 DEF FollowUps, Kind, Then, OfKind
    <3>2. QED
      BY <1>1, <2>1, <2>2, <2>3, <3>1 DEF AfterDone, Following
  <2>4. CASE after = AfterLost /\ S = Notices(t)
    <3>1. <<t.order.measure.kind, x.order.measure.kind>> \in
            {<<"remove", "cannot_remove">>, <<"ban", "cannot_ban">>, <<"oc", "cannot_oc">>}
      BY <2>4 DEF Notices, Kind, Then, OfKind
    <3>2. QED
      BY <1>1, <2>1, <2>2, <2>4, <3>1 DEF AfterLost, Following
  <2>5. QED
    BY <1>2, <2>1, <2>2, <2>3, <2>4
<1>3. \A x \in S : x.order = [check |-> t.order.check, measure |-> x.order.measure]
  BY <1>2 DEF Orders
<1>4. {x.order : x \in S} = LedgerOf!Of(t.order.check, ms)
  <2>1. ASSUME NEW o \in LedgerOf!Of(t.order.check, ms) PROVE o \in {x.order : x \in S}
    <3>1. PICK x \in S : o = [check |-> t.order.check, measure |-> x.order.measure]
      BY DEF LedgerOf!Of
    <3>2. QED
      BY <1>3, <3>1
  <2>2. ASSUME NEW x \in S PROVE x.order \in LedgerOf!Of(t.order.check, ms)
    BY <1>3, <2>2 DEF LedgerOf!Of
  <2>3. QED
    BY <2>1, <2>2
<1>5. ms \in SUBSET after[t.order.measure]
  BY <1>2
<1>6. asked' = asked \cup LedgerOf!Of(t.order.check, ms)
  BY <1>4 DEF Replace
<1>7. \A o \in LedgerOf!Of(t.order.check, ms) : o \notin asked
  BY <1>2, <1>4
<1> HIDE DEF ms
<1>8. QED
  BY <1>5, <1>6, <1>7 DEF LedgerOf!Asks

LEMMA LedgerStep ==
    IInv /\ [Next]_vars => [LedgerOf!Next]_<<check, asked, done, lost>>
<1> SUFFICES ASSUME IInv, [Next]_vars, ~ UNCHANGED <<check, asked, done, lost>>
             PROVE  LedgerOf!Next
  OBVIOUS
<1> USE DEF IInv
<1>1. ASSUME NEW w \in Workers, Worker(w) \/ Abandon(w) PROVE LedgerOf!Next
  <2>1. done' = done /\ lost' = lost
    BY <1>1, WorkerFrame
  <2>2. job[w].check \in Checks /\ job[w].todo \subseteq Measures
    BY DEF TypeOK, Jobs
  <2>3. ASSUME NEW c \in Checks, Take(w, c) PROVE LedgerOf!Begin(c)
    BY <2>3 DEF Take, LedgerOf!Begin, LedgerOf!Moves, LedgerOf!Ledger, actions
  <2>4. ASSUME NEW r \in Ended, End(w, r), Working(w), asked' = asked
        PROVE  LedgerOf!End(job[w].check)
    <3>1. check[job[w].check] = "running"
      BY <2>4 DEF JobsOK
    <3>2. QED
      BY <2>1, <2>4, <3>1 DEF End, Ended, LedgerOf!End, LedgerOf!Moves, LedgerOf!Ledger
  <2>5. CASE Send(w)
    <3>1. PICK m \in job[w].todo :
            asked' = asked \cup {[check |-> job[w].check, measure |-> m]}
      BY <2>5, SendFacts
    <3>2. [check |-> job[w].check, measure |-> m] \notin asked
      BY DEF OnceEach
    <3>3. check[job[w].check] = "running" /\ check' = check
      BY <2>5 DEF Send, At, JobsOK, Working
    <3>4. LedgerOf!Of(job[w].check, {m}) = {[check |-> job[w].check, measure |-> m]}
      BY DEF LedgerOf!Of
    <3>5. LedgerOf!Asks(job[w].check, {m})
      BY <3>1, <3>2, <3>4 DEF LedgerOf!Asks
    <3>6. LedgerOf!Ask(job[w].check)
      BY <2>1, <2>2, <3>1, <3>2, <3>3, <3>5 DEF LedgerOf!Ask
    <3>7. QED
      BY <2>2, <3>6 DEF LedgerOf!Next
  <2>6. CASE Review(w) \/ ReviewFails(w) \/ Search(w)
    BY <2>6 DEF Review, ReviewFails, Search, actions
  <2>7. CASE Decide(w)
    BY <2>2, <2>4, <2>7 DEF Decide, At, Working, actions, Ended, LedgerOf!Next
  <2>8. CASE ShouldCheck(w)
    BY <2>2, <2>4, <2>8 DEF ShouldCheck, At, Working, actions, Ended, LedgerOf!Next
  <2>9. CASE Record(w) \/ Abandon(w)
    BY <2>2, <2>4, <2>9 DEF Record, Abandon, At, Working, actions, Ended, LedgerOf!Next
  <2>10. QED
    BY <1>1, <2>3, <2>5, <2>6, <2>7, <2>8, <2>9 DEF Worker, LedgerOf!Next
<1>2. ASSUME NEW t \in queue, Execute(t) \/ Fail(t) PROVE LedgerOf!Next
  <2> DEFINE o == t.order
  <2>1. check' = check
    BY <1>2, TaskFrame
  <2>2. o \in LedgerOf!Open
    BY DEF TasksOK, OnceEach, LedgerOf!Open
  <2>3. CASE Perform(t)
    <3>1. PICK S \in {FollowUps(t), {}} : Replace(t, S)
      BY <2>3 DEF Perform
    <3>2. \E ms \in SUBSET AfterDone[o.measure] : LedgerOf!Asks(o.check, ms)
      BY <3>1, Followers
    <3>3. LedgerOf!Carry(o)
      BY <2>1, <2>2, <2>3, <3>2 DEF Perform, LedgerOf!Carry
    <3>4. QED
      BY <2>2, <3>3 DEF LedgerOf!Next
  <2>4. ASSUME NEW S \in {Notices(t), {}}, Replace(t, S), lost' = lost \cup {o}, done' = done
        PROVE  LedgerOf!Next
    <3>1. \E ms \in SUBSET AfterLost[o.measure] : LedgerOf!Asks(o.check, ms)
      BY <2>4, Followers
    <3>2. LedgerOf!GiveUp(o)
      BY <2>1, <2>2, <2>4, <3>1 DEF LedgerOf!GiveUp
    <3>3. QED
      BY <2>2, <3>2 DEF LedgerOf!Next
  <2>5. CASE Deny(t)
    BY <2>4, <2>5 DEF Deny
  <2>6. CASE TooLate(t) \/ Fail(t)
    BY <2>4, <2>6 DEF TooLate, Fail
  <2>7. CASE Busy(t)
    <3>1. CASE t.tries < MaxRetries
      <4>1. [t EXCEPT !.tries = t.tries + 1].order = t.order /\ t.order \in asked
        BY DEF TypeOK, Tasks, TasksOK
      <4>2. Replace(t, {[t EXCEPT !.tries = t.tries + 1]}) /\ UNCHANGED <<done, lost>>
        BY <2>7, <3>1 DEF Busy
      <4>3. asked' = asked
        BY <4>1, <4>2 DEF Replace
      <4>4. QED
        BY <2>1, <4>2, <4>3
    <3>2. CASE ~ (t.tries < MaxRetries)
      BY <2>4, <2>7, <3>2 DEF Busy
    <3>3. QED
      BY <3>1, <3>2
  <2>8. QED
    BY <1>2, <2>3, <2>5, <2>6, <2>7 DEF Execute
<1>3. CASE Around
  <2>1. ASSUME NEW c \in Checks, Order(c) PROVE LedgerOf!Order(c)
    BY <2>1 DEF Order, LedgerOf!Order, LedgerOf!Moves, LedgerOf!Ledger, actions
  <2>2. UNCHANGED <<asked, done, lost>>
    BY <1>3, AroundFrame
  <2>3. CASE UNCHANGED check
    BY <2>2, <2>3
  <2>4. QED
    BY <1>3, <2>1, <2>3 DEF Around, Save, ChangeSettings, Age, LedgerOf!Next
<1>4. CASE UNCHANGED vars
  BY <1>4 DEF vars
<1>5. QED
  BY <1>1, <1>2, <1>3, <1>4 DEF Next

\* The checks and their tasks are an implementation of the ledger: whatever is
\* lost, retried or run twice, no check runs again, none asks for anything after its
\* end, and nothing that was done or given up is taken up again.
THEOREM SubMonitorKeepsLedger == Spec => LedgerSpec
<1>1. Init => LedgerOf!Init
  BY DEF Init, LedgerOf!Init
<1>2. IInv /\ [Next]_vars => [LedgerOf!Next]_<<check, asked, done, lost>>
  BY LedgerStep
<1>3. QED
  BY <1>1, <1>2, SubMonitorInvariant, PTL DEF Spec, LedgerSpec, LedgerOf!Spec
=============================================================================
