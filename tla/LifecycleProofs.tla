-------------------------- MODULE LifecycleProofs --------------------------
(***************************************************************************)
(* What holds of a sub's row for every number of workers, events and        *)
(* failures: the types, that a sub is welcomed only after its invitation     *)
(* was accepted, and that a refresh removes it only after four checks in a   *)
(* row and a warning.                                                       *)
(***************************************************************************)
EXTENDS SubLifecycle, FiniteSetTheorems, TLAPS

RefreshSteps == {"check", "warn", "remove", "details"}

\* What a poll is about to announce is accepted.
WelcomeOK ==
    /\ welcomed \subseteq accepted
    /\ \A w \in Workers : job[w].step = "notify" => job[w].invitation \in accepted

\* The row has no more failures than there were misses, and was warned of the
\* second, as long as only one refresh at a time works on it.
CountOK ==
    ~ overlap =>
      /\ \A v, w \in Refreshing : v = w
      /\ \A w \in Refreshing : Same(w) => job[w].copy.fails = row.fails
      /\ \A w \in Refreshing : row # NoRow /\ ~ Same(w) => row.fails = 0
      /\ row # NoRow => row.fails <= misses
      /\ row # NoRow /\ row.fails >= 2 =>
           warned \/ used["fault"] > 0 \/ \E w \in Workers : job[w].step = "warn"
      /\ \A w \in Workers : job[w].step = "remove" /\ Same(w) => row.fails >= 4

IInv == TypeOK /\ WelcomeOK /\ CountOK

-----------------------------------------------------------------------------
\* Types of rows and jobs.

LEMMA NoRowFacts ==
    /\ NoRow \notin Rows /\ NoRow.id = 0 /\ 0 \notin Ids
    /\ \A r \in Rows : r.id \in Ids /\ r # NoRow /\ r.fails \in Nat
    /\ Idle \in Jobs /\ Idle.step = "idle"
  BY DEF NoRow, Rows, Ids, Idle, Jobs

\* Some id is held by no worker.
LEMMA FreeId ==
    ASSUME TypeOK
    PROVE  \E i \in Ids : \A w \in Workers : job[w].copy.id # i
<1> SUFFICES ASSUME \A i \in Ids : \E w \in Workers : job[w].copy.id = i
             PROVE  FALSE
  OBVIOUS
<1> DEFINE f == [i \in Ids |-> CHOOSE w \in Workers : job[w].copy.id = i]
<1>1. IsFiniteSet(Workers) /\ Cardinality(Workers) \in Nat
  BY LifecycleAssumption, FS_CardinalityType
<1>2. IsFiniteSet(Ids) /\ Cardinality(Ids) = Cardinality(Workers) + 1
  BY <1>1, FS_Interval DEF Ids
<1>3. \A i \in Ids : f[i] \in Workers /\ job[f[i]].copy.id = i
  OBVIOUS
<1>4. f \in [Ids -> Workers]
  BY <1>3
<1>5. Cardinality(Workers) < Cardinality(Ids)
  BY <1>1, <1>2
<1> HIDE DEF f
<1>6. \E i, j \in Ids : i # j /\ f[i] = f[j]
  BY <1>1, <1>2, <1>4, <1>5, FS_PigeonHole
<1> QED
  BY <1>3, <1>6

LEMMA NewRowType ==
    ASSUME NEW i \in Ids
    PROVE  /\ NewRow(i) \in Rows
           /\ NewRow(i).id = i /\ NewRow(i).fails = 0
  BY DEF NewRow, Rows

LEMMA CreateFacts ==
    ASSUME TypeOK, Create
    PROVE  /\ row' \in Rows /\ row'.fails = 0
           /\ \A w \in Workers : job[w].copy.id # row'.id
           /\ misses' = 0 /\ warned' = FALSE /\ touched' = FALSE
<1> DEFINE i == CHOOSE i \in Ids : \A w \in Workers : job[w].copy.id # i
<1>1. i \in Ids /\ \A w \in Workers : job[w].copy.id # i
  BY FreeId
<1>2. row' = NewRow(i)
  BY DEF Create
<1> QED
  BY <1>1, <1>2, NewRowType DEF Create

\* A commit of changed columns leaves the row its id, and its counter unless
\* that is among them.
LEMMA ChangedFacts ==
    ASSUME TypeOK, NEW w \in Workers, NEW n \in Rows, Same(w), n.id = job[w].copy.id
    PROVE  /\ Changed(w, n) \in Rows
           /\ Changed(w, n).id = row.id
           /\ Changed(w, n).fails = IF n.fails # job[w].copy.fails THEN n.fails ELSE row.fails
<1>1. row \in Rows
  BY DEF TypeOK, Same
<1>2. DOMAIN row = {"id", "active", "is_mod", "fails", "sent", "perms"}
  BY <1>1 DEF Rows
<1>3. Changed(w, n) = [id     |-> IF n.id # job[w].copy.id THEN n.id ELSE row.id,
                       active |-> IF n.active # job[w].copy.active THEN n.active ELSE row.active,
                       is_mod |-> IF n.is_mod # job[w].copy.is_mod THEN n.is_mod ELSE row.is_mod,
                       fails  |-> IF n.fails # job[w].copy.fails THEN n.fails ELSE row.fails,
                       sent   |-> IF n.sent # job[w].copy.sent THEN n.sent ELSE row.sent,
                       perms  |-> IF n.perms # job[w].copy.perms THEN n.perms ELSE row.perms]
  BY <1>2 DEF Changed
<1> QED
  BY <1>1, <1>3 DEF Rows

LEMMA JobType ==
    ASSUME TypeOK, NEW a \in Actors
    PROVE  /\ job[a] \in Jobs /\ job[a].copy \in Rows \cup {NoRow}
           /\ job[a].invitation \in Nat
  BY DEF TypeOK, Jobs

\* The row a worker still works on.
LEMMA SameFacts ==
    ASSUME TypeOK, NEW w \in Workers, Same(w)
    PROVE  /\ row \in Rows /\ job[w].copy \in Rows
           /\ row.id = job[w].copy.id /\ row.fails \in Nat /\ job[w].copy.fails \in Nat
<1>1. row \in Rows /\ row.id = job[w].copy.id
  BY DEF TypeOK, Same
<1>2. job[w].copy \in Rows \cup {NoRow}
  BY JobType DEF Actors
<1> QED
  BY <1>1, <1>2, NoRowFacts

LEMMA EventFacts ==
    ASSUME NEW e \in Events, Happens(e), used \in [Events -> Nat]
    PROVE  /\ used' \in [Events -> Nat]
           /\ used'["fault"] >= used["fault"]
           /\ e = "fault" => used'["fault"] > 0
<1>1. used' = [used EXCEPT ![e] = @ + 1] /\ used[e] \in Nat
  BY DEF Happens
<1>2. "fault" \in Events /\ used["fault"] \in Nat
  BY DEF Events
<1> QED
  BY <1>1, <1>2

-----------------------------------------------------------------------------
\* The types.

LEMMA TypeReddit ==
    ASSUME TypeOK, NEW e \in Events, Happens(e),
           home' \in Homes, mod' \in BOOLEAN, invites' \in Nat,
           invited' \in BOOLEAN, letter' \in BOOLEAN,
           UNCHANGED <<granted, row, refreshes, job, History>>
    PROVE  TypeOK'
<1>1. used' \in [Events -> Nat]
  BY EventFacts DEF TypeOK
<1> QED
  BY <1>1 DEF TypeOK, History

\* A step of one actor.
LEMMA TypeJob ==
    ASSUME TypeOK, NEW a \in Actors, NEW j \in Jobs, job' = [job EXCEPT ![a] = j],
           mod' \in BOOLEAN, granted' \subseteq Perms, invited' \in BOOLEAN,
           row' \in Rows \cup {NoRow}, refreshes' \in Nat,
           welcomed' \subseteq Nat, accepted' \subseteq Nat, misses' \in Nat,
           warned' \in BOOLEAN, overlap' \in BOOLEAN, touched' \in BOOLEAN,
           used' \in [Events -> Nat], UNCHANGED <<home, invites, letter>>
    PROVE  TypeOK'
  BY DEF TypeOK

-----------------------------------------------------------------------------
\* The counter, as long as the row keeps it.

LEMMA CountKeeps ==
    ASSUME CountOK, overlap' = overlap, misses' = misses,
           row'.id = row.id, row'.fails = row.fails, row' = NoRow <=> row = NoRow,
           \A w \in Workers : \/ job'[w] = job[w]
                              \/ /\ job'[w].step \in RefreshSteps => job[w].step \in RefreshSteps
                                 /\ job'[w].copy = job[w].copy \/ job'[w].step \notin RefreshSteps
                                 /\ job'[w].step # "remove"
                                 /\ job[w].step = "warn" => warned' \/ used'["fault"] > 0,
           warned => warned', used["fault"] > 0 => used'["fault"] > 0
    PROVE  CountOK'
<1>1. Refreshing' \subseteq Refreshing
  BY DEF Refreshing, RefreshSteps
<1>2. \A w \in Refreshing' : Same(w)' <=> Same(w)
  BY DEF Refreshing, RefreshSteps, Same
<1>3. \A w \in Refreshing' : job'[w].copy = job[w].copy
  BY DEF Refreshing, RefreshSteps
<1>4. \A w \in Workers : job'[w].step = "remove" =>
        job[w].step = "remove" /\ w \in Refreshing'
  BY DEF Refreshing
<1>5. (\E w \in Workers : job[w].step = "warn") =>
        warned' \/ used'["fault"] > 0 \/ \E w \in Workers : job'[w].step = "warn"
  OBVIOUS
<1> SUFFICES ASSUME ~ overlap
             PROVE  CountOK'
  BY DEF CountOK
<1>6. \A v, w \in Refreshing' : v = w
  BY <1>1 DEF CountOK
<1>7. \A w \in Refreshing' : Same(w)' => job'[w].copy.fails = row'.fails
  BY <1>1, <1>2, <1>3 DEF CountOK
<1>8. \A w \in Refreshing' : row' # NoRow /\ ~ Same(w)' => row'.fails = 0
  BY <1>1, <1>2 DEF CountOK
<1>9. row' # NoRow => row'.fails <= misses'
  BY DEF CountOK
<1>10. row' # NoRow /\ row'.fails >= 2 =>
         warned' \/ used'["fault"] > 0 \/ \E w \in Workers : job'[w].step = "warn"
  BY <1>5 DEF CountOK
<1>11. \A w \in Workers : job'[w].step = "remove" /\ Same(w)' => row'.fails >= 4
  BY <1>2, <1>4 DEF CountOK
<1> QED
  BY <1>6, <1>7, <1>8, <1>9, <1>10, <1>11 DEF CountOK

LEMMA CountGone ==
    ASSUME CountOK, overlap' = overlap, row' = NoRow,
           \A w \in Workers : job'[w].step \in RefreshSteps => job[w].step \in RefreshSteps
    PROVE  CountOK'
<1>1. Refreshing' \subseteq Refreshing
  BY DEF Refreshing, RefreshSteps
<1>2. \A w \in Workers : ~ Same(w)'
  BY DEF Same
<1>3. Refreshing' \subseteq Workers
  BY DEF Refreshing
<1> QED
  BY <1>1, <1>2, <1>3 DEF CountOK

\* A row that is made knows of no failure, and no refresh knows of it.
LEMMA CountCreated ==
    ASSUME CountOK, overlap' = overlap, row' \in Rows, row'.fails = 0, misses' \in Nat,
           \A w \in Workers : /\ job'[w].copy.id # row'.id
                              /\ job'[w].step \in RefreshSteps => job[w].step \in RefreshSteps
    PROVE  CountOK'
<1>1. Refreshing' \subseteq Refreshing /\ Refreshing' \subseteq Workers
  BY DEF Refreshing, RefreshSteps
<1>2. \A w \in Workers : ~ Same(w)'
  BY DEF Same
<1>3. row'.fails <= misses' /\ ~ row'.fails >= 2
  OBVIOUS
<1> QED
  BY <1>1, <1>2, <1>3 DEF CountOK

-----------------------------------------------------------------------------
\* What happens on Reddit.

LEMMA StepReddit ==
    ASSUME IInv, NEW e \in Events, Happens(e),
           home' \in Homes, mod' \in BOOLEAN, invites' \in Nat,
           invited' \in BOOLEAN, letter' \in BOOLEAN,
           UNCHANGED <<granted, row, refreshes, job, History>>
    PROVE  IInv'
<1>1. TypeOK'
  BY TypeReddit DEF IInv
<1>2. WelcomeOK'
  BY DEF IInv, WelcomeOK, History
<1>3. used["fault"] > 0 => used'["fault"] > 0
  BY EventFacts DEF IInv, TypeOK, Events
<1>4. CountOK'
  BY <1>3, CountKeeps DEF IInv, History
<1> QED
  BY <1>1, <1>2, <1>4 DEF IInv

LEMMA StepOfReddit ==
    ASSUME IInv, Invite \/ Withdraw \/ Demod \/ Lost \/ Forget
    PROVE  IInv' /\ UNCHANGED row
<1>1. CASE Invite
  <2>1. "invite" \in Events /\ home' \in Homes /\ invites' \in Nat
    BY <1>1 DEF Invite, Events, IInv, TypeOK
  <2> QED
    BY <1>1, <2>1, StepReddit DEF Invite, IInv, TypeOK
<1>2. CASE Withdraw
  BY <1>2, StepReddit DEF Withdraw, Events, IInv, TypeOK
<1>3. CASE Demod
  BY <1>3, StepReddit DEF Demod, Events, IInv, TypeOK
<1>4. CASE Lost
  <2>1. "lost" \in Events /\ home' \in Homes
    BY <1>4 DEF Lost, Events, Homes
  <2> QED
    BY <1>4, <2>1, StepReddit DEF Lost, IInv, TypeOK
<1>5. CASE Forget
  BY <1>5, StepReddit DEF Forget, Events, IInv, TypeOK
<1> QED
  BY <1>1, <1>2, <1>3, <1>4, <1>5

-----------------------------------------------------------------------------
\* Activation.

LEMMA OtherJobs ==
    ASSUME TypeOK, NEW a \in Actors, NEW j, job' = [job EXCEPT ![a] = j]
    PROVE  /\ job'[a] = j
           /\ \A b \in Actors : b # a => job'[b] = job[b]
           /\ \A w \in Workers : w # a => job'[w] = job[w]
  BY DEF TypeOK, Actors

LEMMA StepPoll ==
    ASSUME IInv, NEW w \in Workers, Poll(w)
    PROVE  IInv'
<1> DEFINE j == [job[w] EXCEPT !.step = "accept"]
<1>1. TypeOK /\ WelcomeOK /\ CountOK /\ w \in Actors
  BY DEF IInv, Actors
<1>2. j \in Jobs /\ j.step = "accept" /\ j.copy = job[w].copy /\ job' = [job EXCEPT ![w] = j]
  <2>1. job[w] \in Jobs /\ job \in [Actors -> Jobs]
    BY <1>1 DEF TypeOK
  <2> QED
    BY <2>1 DEF Poll, Goto, Jobs
<1> HIDE DEF j
<1>3. /\ row' \in Rows /\ row'.fails = 0
      /\ \A v \in Workers : job[v].copy.id # row'.id
      /\ misses' = 0 /\ warned' = FALSE /\ touched' = FALSE
  BY <1>1, CreateFacts DEF Poll
<1>4. job'[w] = j /\ \A v \in Workers : v # w => job'[v] = job[v]
  BY <1>1, <1>2, OtherJobs
<1>5. TypeOK'
  BY <1>1, <1>2, <1>3, TypeJob DEF Poll, Reddit, TypeOK
<1>6. WelcomeOK'
  BY <1>1, <1>2, <1>4 DEF Poll, WelcomeOK
<1>7. \A v \in Workers : /\ job'[v].copy.id # row'.id
                         /\ job'[v].step \in RefreshSteps => job[v].step \in RefreshSteps
  BY <1>2, <1>3, <1>4 DEF RefreshSteps
<1>8. CountOK'
  BY <1>1, <1>3, <1>7, CountCreated DEF Poll
<1> QED
  BY <1>5, <1>6, <1>8 DEF IInv

\* A step that leaves the refreshes alone, or ends one.
LEMMA StepAway ==
    ASSUME IInv, NEW a \in Actors, NEW j \in Jobs, job' = [job EXCEPT ![a] = j],
           j.step \notin RefreshSteps,
           j.step = "notify" /\ a \in Workers => j.invitation \in accepted',
           welcomed' \subseteq accepted', accepted \subseteq accepted', accepted' \subseteq Nat,
           mod' \in BOOLEAN, granted' \subseteq Perms, invited' \in BOOLEAN,
           row' \in Rows \cup {NoRow}, row'.id = row.id, row'.fails = row.fails,
           row' = NoRow <=> row = NoRow,
           used' \in [Events -> Nat], used["fault"] > 0 => used'["fault"] > 0,
           warned' \in BOOLEAN, warned => warned',
           job[a].step = "warn" => warned' \/ used'["fault"] > 0,
           UNCHANGED <<home, invites, letter, refreshes, misses, overlap, touched>>
    PROVE  IInv'
<1>1. TypeOK /\ WelcomeOK /\ CountOK
  BY DEF IInv
<1>2. TypeOK'
  BY <1>1, TypeJob DEF TypeOK
<1>3. job'[a] = j /\ \A w \in Workers : w # a => job'[w] = job[w]
  BY <1>1, OtherJobs
<1>4. WelcomeOK'
  BY <1>1, <1>3 DEF WelcomeOK
<1>5. CountOK'
  <2>1. \A w \in Workers : \/ job'[w] = job[w]
                           \/ /\ job'[w].step \in RefreshSteps => job[w].step \in RefreshSteps
                              /\ job'[w].copy = job[w].copy \/ job'[w].step \notin RefreshSteps
                              /\ job'[w].step # "remove"
                              /\ job[w].step = "warn" => warned' \/ used'["fault"] > 0
    BY <1>3 DEF RefreshSteps
  <2> QED
    BY <1>1, <2>1, CountKeeps
<1> QED
  BY <1>2, <1>4, <1>5 DEF IInv

LEMMA StepAccept ==
    ASSUME IInv, NEW w \in Workers, Accept(w)
    PROVE  IInv' /\ UNCHANGED row
<1>1. TypeOK /\ WelcomeOK /\ CountOK /\ w \in Actors
  BY DEF IInv, Actors
<1>2. UNCHANGED <<row, home, invites, letter, refreshes, misses, overlap, touched, used, warned, welcomed>>
  BY DEF Accept
<1>3. job[w].step = "accept" /\ invites \in Nat
  BY <1>1 DEF Accept, TypeOK
<1>4. CASE invited /\ home = "open"
  <2> DEFINE j == [job[w] EXCEPT !.step = "notify", !.invitation = invites]
  <2>1. j \in Jobs /\ job' = [job EXCEPT ![w] = j]
    <3>1. job' = [job EXCEPT ![w].step = "notify", ![w].invitation = invites]
      BY <1>4 DEF Accept
    <3>2. job[w] \in Jobs /\ job \in [Actors -> Jobs]
      BY <1>1 DEF TypeOK
    <3>3. j \in Jobs
      BY <1>3, <3>2 DEF Jobs
    <3> QED
      BY <1>1, <3>1, <3>2, <3>3
  <2>2. j.step = "notify" /\ j.invitation = invites
    BY <1>1, JobType DEF Jobs
  <2> HIDE DEF j
  <2>3. accepted' = accepted \cup {invites} /\ mod' \in BOOLEAN /\ invited' \in BOOLEAN
        /\ granted' \subseteq Perms
    BY <1>4 DEF Accept, TakeOffice
  <2> QED
    BY <1>1, <1>2, <1>3, <2>1, <2>2, <2>3, StepAway DEF RefreshSteps, TypeOK, WelcomeOK
<1>5. CASE ~ (invited /\ home = "open")
  <2>1. job' = [job EXCEPT ![w] = Idle] /\ UNCHANGED <<mod, invited, granted, accepted>>
    BY <1>5 DEF Accept, Finish
  <2> QED
    BY <1>1, <1>2, <1>3, <2>1, NoRowFacts, StepAway DEF RefreshSteps, TypeOK, WelcomeOK
<1> QED
  BY <1>4, <1>5

LEMMA StepNotify ==
    ASSUME IInv, NEW w \in Workers, Notify(w)
    PROVE  IInv' /\ UNCHANGED row
<1>1. TypeOK /\ WelcomeOK /\ CountOK /\ w \in Actors
  BY DEF IInv, Actors
<1>2. UNCHANGED <<row, home, mod, granted, invites, invited, letter, refreshes, misses, overlap,
                  touched, used, warned, accepted>>
  BY DEF Notify, Reddit
<1>3. job[w].step = "notify" /\ welcomed' = welcomed \cup {job[w].invitation}
  BY DEF Notify
<1>4. welcomed' \subseteq accepted'
  BY <1>1, <1>2, <1>3 DEF WelcomeOK
<1> welcomed' \subseteq accepted' /\ accepted \subseteq accepted' /\ accepted' \subseteq Nat
  BY <1>1, <1>2, <1>4 DEF TypeOK
<1>5. CASE row = NoRow
  <2>1. job' = [job EXCEPT ![w] = Idle]
    BY <1>5 DEF Notify
  <2> QED
    BY <1>1, <1>2, <1>3, <2>1, NoRowFacts, StepAway DEF RefreshSteps, TypeOK
<1>6. CASE row # NoRow
  <2> DEFINE j == [job[w] EXCEPT !.step = "mark", !.copy = row]
  <2>1. j \in Jobs /\ job' = [job EXCEPT ![w] = j]
    <3>1. job' = [job EXCEPT ![w].step = "mark", ![w].copy = row]
      BY <1>6 DEF Notify
    <3>2. job[w] \in Jobs /\ job \in [Actors -> Jobs] /\ row \in Rows \cup {NoRow}
      BY <1>1 DEF TypeOK
    <3>3. j \in Jobs
      BY <3>2 DEF Jobs
    <3> QED
      BY <1>1, <3>1, <3>2, <3>3
  <2>2. j.step = "mark"
    BY <1>1, JobType DEF Jobs
  <2> HIDE DEF j
  <2> QED
    BY <1>1, <1>2, <1>3, <1>4, <2>1, <2>2, StepAway DEF RefreshSteps, TypeOK
<1> QED
  BY <1>5, <1>6

LEMMA StepMarkSent ==
    ASSUME IInv, NEW w \in Workers, MarkSent(w)
    PROVE  IInv' /\ (row' = NoRow <=> row = NoRow)
<1>1. TypeOK /\ WelcomeOK /\ CountOK /\ w \in Actors
  BY DEF IInv, Actors
<1>2. UNCHANGED <<home, mod, granted, invites, invited, letter, refreshes, misses, overlap,
                  touched, used, warned, accepted, welcomed>>
  BY DEF MarkSent, Reddit, History
<1>3. job[w].step = "mark" /\ job' = [job EXCEPT ![w] = Idle]
  BY DEF MarkSent, Finish
<1>4. /\ row' \in Rows \cup {NoRow} /\ row'.id = row.id /\ row'.fails = row.fails
      /\ row' = NoRow <=> row = NoRow
  <2>1. CASE Same(w)
    <3>1. row \in Rows /\ row' = [row EXCEPT !.sent = TRUE]
      BY <1>1, <2>1, SameFacts DEF MarkSent
    <3>2. row' \in Rows /\ row'.id = row.id /\ row'.fails = row.fails
      BY <3>1 DEF Rows
    <3> QED
      BY <3>1, <3>2, NoRowFacts
  <2>2. CASE ~ Same(w)
    BY <1>1, <2>2 DEF MarkSent, TypeOK
  <2> QED
    BY <2>1, <2>2
<1> QED
  BY <1>1, <1>2, <1>3, <1>4, NoRowFacts, StepAway DEF RefreshSteps, TypeOK, WelcomeOK

-----------------------------------------------------------------------------
\* The site, the queue, and what fails.

LEMMA StepSiteAccept ==
    ASSUME IInv, SiteAccept
    PROVE  IInv' /\ UNCHANGED row
<1>1. TypeOK /\ WelcomeOK /\ Site \in Actors /\ Site \notin Workers
  BY LifecycleAssumption DEF IInv, Actors
<1> DEFINE j == [job[Site] EXCEPT !.step = "register"]
<1>2. j \in Jobs /\ job' = [job EXCEPT ![Site] = j] /\ j.step = "register"
      /\ job[Site].step = "idle"
  <2>1. job[Site] \in Jobs /\ job \in [Actors -> Jobs]
    BY <1>1 DEF TypeOK
  <2> QED
    BY <1>1, <2>1 DEF SiteAccept, Goto, Jobs, Idle
<1> HIDE DEF j
<1>3. UNCHANGED <<home, invites, letter, row, refreshes, welcomed, accepted,
                  misses, warned, overlap, touched>>
  BY DEF SiteAccept, History
<1>4. used' \in [Events -> Nat] /\ (used["fault"] > 0 => used'["fault"] > 0)
  BY <1>1, EventFacts DEF SiteAccept, Events, TypeOK
<1>5. mod' \in BOOLEAN /\ granted' \subseteq Perms /\ invited' \in BOOLEAN
  BY DEF SiteAccept, TakeOffice
<1> QED
  BY <1>1, <1>2, <1>3, <1>4, <1>5, StepAway DEF RefreshSteps, TypeOK, WelcomeOK

LEMMA StepSiteCreate ==
    ASSUME IInv, SiteCreate
    PROVE  IInv' /\ (row # NoRow => row' = row)
<1>1. TypeOK /\ WelcomeOK /\ CountOK /\ Site \in Actors /\ Site \notin Workers
  BY LifecycleAssumption DEF IInv, Actors
<1>2. UNCHANGED <<home, mod, granted, invites, invited, letter, refreshes, overlap,
                  used, accepted, welcomed>>
  BY DEF SiteCreate, Reddit
<1>3. job[Site].step = "register" /\ job' = [job EXCEPT ![Site] = Idle]
  BY DEF SiteCreate, Finish
<1>4. CASE row # NoRow
  <2>1. UNCHANGED <<row, misses, warned, touched>>
    BY <1>4 DEF SiteCreate
  <2> QED
    BY <1>1, <1>2, <1>3, <2>1, NoRowFacts, StepAway DEF RefreshSteps, TypeOK, WelcomeOK
<1>5. CASE row = NoRow
  <2>1. /\ row' \in Rows /\ row'.fails = 0
        /\ \A v \in Workers : job[v].copy.id # row'.id
        /\ misses' = 0 /\ warned' = FALSE /\ touched' = FALSE
    BY <1>1, <1>5, CreateFacts DEF SiteCreate
  <2>2. \A w \in Workers : job'[w] = job[w]
    BY <1>1, <1>3, OtherJobs
  <2>3. TypeOK'
    BY <1>1, <1>2, <1>3, <2>1, NoRowFacts, TypeJob DEF TypeOK
  <2>4. WelcomeOK'
    BY <1>1, <1>2, <2>2 DEF WelcomeOK
  <2>5. CountOK'
    BY <1>1, <1>2, <2>1, <2>2, CountCreated
  <2> QED
    BY <1>5, <2>3, <2>4, <2>5 DEF IInv
<1> QED
  BY <1>4, <1>5

\* The site writes a column that no invariant is about.
LEMMA StepEdit ==
    ASSUME IInv, SiteRefresh \/ SiteSave
    PROVE  IInv' /\ row' # NoRow
<1>1. TypeOK /\ WelcomeOK /\ CountOK
  BY DEF IInv
<1>2. UNCHANGED <<home, mod, granted, invites, invited, letter, refreshes, job,
                  welcomed, accepted, misses, warned, overlap>>
  BY DEF SiteRefresh, SiteSave, Reddit, History
<1>3. row \in Rows
  BY <1>1 DEF SiteRefresh, SiteSave, TypeOK
<1>4. row' \in Rows /\ row'.id = row.id /\ row'.fails = row.fails
  <2>1. CASE SiteRefresh
    BY <1>3, <2>1 DEF SiteRefresh, Rows
  <2>2. CASE SiteSave
    BY <1>3, <2>2 DEF SiteSave, Rows
  <2> QED
    BY <2>1, <2>2
<1>5. touched' \in BOOLEAN
  BY <1>1 DEF SiteRefresh, SiteSave, History, TypeOK
<1>6. used' \in [Events -> Nat] /\ (used["fault"] > 0 => used'["fault"] > 0)
  BY <1>1, EventFacts DEF SiteRefresh, SiteSave, Events, TypeOK
<1>7. TypeOK'
  BY <1>1, <1>2, <1>4, <1>5, <1>6 DEF TypeOK
<1>8. WelcomeOK'
  BY <1>1, <1>2 DEF WelcomeOK
<1>9. row # NoRow /\ row' # NoRow
  BY <1>3, <1>4, NoRowFacts
<1>10. CountOK'
  BY <1>1, <1>2, <1>4, <1>6, <1>9, CountKeeps
<1> QED
  BY <1>7, <1>8, <1>9, <1>10 DEF IInv

LEMMA StepSiteDelete ==
    ASSUME IInv, SiteDelete
    PROVE  IInv' /\ UNCHANGED job
<1>1. TypeOK /\ WelcomeOK /\ CountOK
  BY DEF IInv
<1>2. UNCHANGED <<home, mod, granted, invites, invited, letter, refreshes, job,
                  welcomed, accepted, misses, warned, overlap, touched>> /\ row' = NoRow
  BY DEF SiteDelete, Reddit, History
<1>3. used' \in [Events -> Nat]
  BY <1>1, EventFacts DEF SiteDelete, Events, TypeOK
<1>4. TypeOK'
  BY <1>1, <1>2, <1>3 DEF TypeOK
<1>5. WelcomeOK'
  BY <1>1, <1>2 DEF WelcomeOK
<1>6. CountOK'
  BY <1>1, <1>2, CountGone
<1> QED
  BY <1>2, <1>4, <1>5, <1>6 DEF IInv

LEMMA StepQueueRefresh ==
    ASSUME IInv, QueueRefresh
    PROVE  IInv' /\ UNCHANGED row
<1>1. TypeOK /\ WelcomeOK /\ CountOK
  BY DEF IInv
<1>2. UNCHANGED <<home, mod, granted, invites, invited, letter, row, job, welcomed, accepted,
                  misses, warned, overlap, touched>> /\ refreshes' \in Nat
  BY <1>1 DEF QueueRefresh, Reddit, History, TypeOK
<1>3. used' \in [Events -> Nat] /\ (used["fault"] > 0 => used'["fault"] > 0)
  <2>1. CASE UNCHANGED used
    BY <1>1, <2>1 DEF TypeOK
  <2>2. CASE Happens("backlog")
    BY <1>1, <2>2, EventFacts DEF Events, TypeOK
  <2> QED
    BY <2>1, <2>2 DEF QueueRefresh
<1>4. TypeOK'
  BY <1>1, <1>2, <1>3 DEF TypeOK
<1>5. WelcomeOK'
  BY <1>1, <1>2 DEF WelcomeOK
<1>6. CountOK'
  BY <1>1, <1>2, <1>3, CountKeeps
<1> QED
  BY <1>2, <1>4, <1>5, <1>6 DEF IInv

LEMMA StepAbort ==
    ASSUME IInv, NEW a \in Actors, Abort(a)
    PROVE  IInv' /\ UNCHANGED row
<1>1. TypeOK /\ WelcomeOK
  BY DEF IInv
<1>2. UNCHANGED <<home, mod, granted, invites, invited, letter, row, refreshes, welcomed,
                  accepted, misses, warned, overlap, touched>>
      /\ job' = [job EXCEPT ![a] = Idle]
  BY DEF Abort, Finish, Reddit, History
<1>3. used' \in [Events -> Nat] /\ used'["fault"] > 0
  BY <1>1, EventFacts DEF Abort, Events, TypeOK
<1> QED
  BY <1>1, <1>2, <1>3, NoRowFacts, StepAway DEF RefreshSteps, TypeOK, WelcomeOK

-----------------------------------------------------------------------------
\* A refresh.

LEMMA StepTakeRefresh ==
    ASSUME IInv, NEW w \in Workers, TakeRefresh(w)
    PROVE  IInv' /\ UNCHANGED row
<1>1. TypeOK /\ WelcomeOK /\ CountOK /\ w \in Actors
  BY DEF IInv, Actors
<1>2. UNCHANGED <<home, mod, granted, invites, invited, letter, row, welcomed, accepted,
                  misses, warned, touched, used>>
      /\ refreshes' \in Nat /\ overlap' = (overlap \/ Refreshing # {})
      /\ job[w] = Idle
  BY <1>1 DEF TakeRefresh, Reddit, TypeOK
<1>3. overlap' \in BOOLEAN
  BY <1>2
<1>4. CASE row = NoRow
  <2>1. job' = job
    BY <1>4 DEF TakeRefresh
  <2>2. TypeOK' /\ WelcomeOK'
    BY <1>1, <1>2, <1>3, <2>1 DEF TypeOK, WelcomeOK
  <2>3. ASSUME overlap'
        PROVE  CountOK'
    BY <2>3 DEF CountOK
  <2>4. CASE ~ overlap'
    <3>1. overlap' = overlap
      BY <1>1, <1>2, <2>4 DEF TypeOK
    <3>2. CountOK'
      BY <1>1, <1>2, <2>1, <3>1, CountKeeps
    <3> QED
      BY <1>2, <2>2, <3>2 DEF IInv
  <2> QED
    BY <1>2, <2>2, <2>3, <2>4 DEF IInv
<1>5. CASE row # NoRow
  <2> DEFINE j == [job[w] EXCEPT !.step = "check", !.copy = row]
  <2>1. j \in Jobs /\ job' = [job EXCEPT ![w] = j] /\ j.step = "check" /\ j.copy = row
    <3>1. job' = [job EXCEPT ![w].step = "check", ![w].copy = row]
      BY <1>5 DEF TakeRefresh
    <3>2. job[w] \in Jobs /\ job \in [Actors -> Jobs] /\ row \in Rows \cup {NoRow}
      BY <1>1 DEF TypeOK
    <3>3. j \in Jobs /\ j.step = "check" /\ j.copy = row
      BY <3>2 DEF Jobs
    <3> QED
      BY <1>1, <3>1, <3>2, <3>3
  <2> HIDE DEF j
  <2>2. job'[w] = j /\ \A v \in Workers : v # w => job'[v] = job[v]
    BY <1>1, <2>1, OtherJobs
  <2>3. TypeOK'
    BY <1>1, <1>2, <1>3, <2>1, TypeJob DEF TypeOK
  <2>4. WelcomeOK'
    BY <1>1, <1>2, <2>1, <2>2 DEF WelcomeOK
  <2>5. ASSUME ~ overlap'
        PROVE  CountOK'
    <3>1. ~ overlap /\ Refreshing = {}
      BY <1>2, <2>5
    <3>2. \A v \in Workers : v # w => job[v].step \notin RefreshSteps
      BY <3>1 DEF Refreshing, RefreshSteps
    <3>3. Refreshing' = {w} /\ Same(w)' /\ job'[w].copy.fails = row'.fails
      BY <1>2, <1>5, <2>1, <2>2, <3>2 DEF Refreshing, RefreshSteps, Same
    <3>4. row' # NoRow => row'.fails <= misses'
      BY <1>1, <1>2, <3>1 DEF CountOK
    <3>5. row' # NoRow /\ row'.fails >= 2 => warned' \/ used'["fault"] > 0
      BY <1>1, <1>2, <3>1, <3>2, NoRowFacts DEF CountOK, RefreshSteps
    <3>6. \A v \in Workers : job'[v].step # "remove"
      BY <2>1, <2>2, <3>2 DEF RefreshSteps
    <3> QED
      BY <3>3, <3>4, <3>5, <3>6 DEF CountOK
  <2>6. ASSUME overlap'
        PROVE  CountOK'
    BY <2>6 DEF CountOK
  <2> QED
    BY <1>2, <2>3, <2>4, <2>5, <2>6 DEF IInv
<1> QED
  BY <1>4, <1>5

\* What a check commits: the new count is the row's, and if it is two or more
\* the sub was told, or is told next.
LEMMA StepCheck ==
    ASSUME IInv, NEW w \in Workers, job[w].step = "check",
           NEW n, NEW next \in {"warn", "remove", "details"}, Commit(w, n, next),
           Same(w) => n \in Rows /\ n.id = job[w].copy.id,
           misses' \in Nat, warned' \in BOOLEAN,
           ~ overlap /\ Same(w) =>
             /\ n.fails <= misses'
             /\ n.fails >= 2 => warned' \/ used["fault"] > 0 \/ next = "warn"
             /\ next = "remove" => n.fails >= 4,
           UNCHANGED <<Reddit, refreshes, welcomed, accepted, overlap, touched, used>>
    PROVE  IInv' /\ (row # NoRow => row' # NoRow)
<1>1. TypeOK /\ WelcomeOK /\ CountOK /\ w \in Actors
  BY DEF IInv, Actors
<1>2. UNCHANGED <<home, mod, granted, invites, invited, letter, refreshes, welcomed, accepted,
                  overlap, touched, used>>
  BY DEF Reddit
<1>3. ~ overlap => Refreshing = {w}
  BY <1>1 DEF CountOK, Refreshing
<1>4. CASE Same(w)
  <2> DEFINE j == [job[w] EXCEPT !.step = next, !.copy = n]
  <2>1. n \in Rows /\ n.id = job[w].copy.id /\ n.fails \in Nat /\ n # NoRow
    BY <1>4, NoRowFacts
  <2>2. row' = Changed(w, n) /\ job' = [job EXCEPT ![w].step = next, ![w].copy = n]
    BY <1>4 DEF Commit
  <2>3. j \in Jobs /\ job' = [job EXCEPT ![w] = j] /\ j.step = next /\ j.copy = n
    <3>1. job[w] \in Jobs /\ job \in [Actors -> Jobs]
      BY <1>1 DEF TypeOK
    <3>2. j \in Jobs /\ j.step = next /\ j.copy = n
      BY <2>1, <3>1 DEF Jobs
    <3> QED
      BY <1>1, <2>2, <3>1, <3>2
  <2> HIDE DEF j
  <2>4. job'[w] = j /\ \A v \in Workers : v # w => job'[v] = job[v]
    BY <1>1, <2>3, OtherJobs
  <2>5. /\ row' \in Rows /\ row'.id = n.id /\ row' # NoRow
        /\ row'.fails = IF n.fails # job[w].copy.fails THEN n.fails ELSE row.fails
    BY <1>1, <1>4, <2>1, <2>2, ChangedFacts, SameFacts, NoRowFacts
  <2>6. TypeOK'
    BY <1>1, <1>2, <2>3, <2>5, TypeJob DEF TypeOK
  <2>7. WelcomeOK'
    BY <1>1, <1>2, <2>3, <2>4 DEF WelcomeOK
  <2>8. ASSUME ~ overlap
        PROVE  CountOK'
    <3>1. job[w].copy.fails = row.fails /\ w \in Refreshing
      BY <1>1, <1>3, <1>4, <2>8 DEF CountOK
    <3>2. row'.fails = n.fails
      BY <2>5, <3>1
    <3>3. \A v \in Workers : v # w => job'[v].step \notin RefreshSteps
      BY <1>3, <2>4, <2>8 DEF Refreshing, RefreshSteps
    <3>4. Refreshing' = {w} /\ Same(w)' /\ job'[w].copy.fails = row'.fails
      BY <2>3, <2>4, <2>5, <3>2, <3>3 DEF Refreshing, RefreshSteps, Same
    <3>5. row'.fails <= misses'
      BY <1>4, <2>8, <3>2
    <3>6. row'.fails >= 2 =>
            warned' \/ used'["fault"] > 0 \/ \E v \in Workers : job'[v].step = "warn"
      BY <1>2, <1>4, <2>3, <2>4, <2>8, <3>2
    <3>7. \A v \in Workers : job'[v].step = "remove" => row'.fails >= 4
      BY <1>4, <2>3, <2>4, <2>8, <3>2, <3>3 DEF RefreshSteps
    <3> QED
      BY <3>4, <3>5, <3>6, <3>7 DEF CountOK
  <2>9. ASSUME overlap
        PROVE  CountOK'
    BY <1>2, <2>9 DEF CountOK
  <2> QED
    BY <2>5, <2>6, <2>7, <2>8, <2>9 DEF IInv
<1>5. CASE ~ Same(w)
  <2>1. job' = [job EXCEPT ![w] = Idle] /\ row' = row
    BY <1>5 DEF Commit, Finish
  <2>2. job'[w] = Idle /\ \A v \in Workers : v # w => job'[v] = job[v]
    BY <1>1, <2>1, OtherJobs
  <2>3. TypeOK'
    BY <1>1, <1>2, <2>1, NoRowFacts, TypeJob DEF TypeOK
  <2>4. WelcomeOK'
    BY <1>1, <1>2, <2>2, NoRowFacts DEF WelcomeOK
  <2>5. ASSUME ~ overlap
        PROVE  CountOK'
    <3>1. row # NoRow => row.fails = 0
      BY <1>1, <1>3, <1>5, <2>5 DEF CountOK
    <3>2. \A v \in Workers : job'[v].step \notin RefreshSteps
      BY <1>3, <2>2, <2>5, NoRowFacts DEF Refreshing, RefreshSteps
    <3>3. Refreshing' = {} /\ \A v \in Workers : job'[v].step # "remove"
      BY <3>2 DEF Refreshing, RefreshSteps
    <3> QED
      BY <2>1, <3>1, <3>3 DEF CountOK
  <2>6. ASSUME overlap
        PROVE  CountOK'
    BY <1>2, <2>6 DEF CountOK
  <2> QED
    BY <2>1, <2>3, <2>4, <2>5, <2>6 DEF IInv
<1> QED
  BY <1>4, <1>5

LEMMA StepIsMod ==
    ASSUME IInv, NEW w \in Workers, IsMod(w)
    PROVE  IInv' /\ (row # NoRow => row' # NoRow)
<1> DEFINE n == [job[w].copy EXCEPT !.is_mod = TRUE, !.fails = 0]
<1>1. Same(w) => n \in Rows /\ n.id = job[w].copy.id /\ n.fails = 0
  <2> SUFFICES ASSUME Same(w)
               PROVE  n \in Rows /\ n.id = job[w].copy.id /\ n.fails = 0
    OBVIOUS
  <2>1. job[w].copy \in Rows
    BY SameFacts DEF IInv
  <2> QED
    BY <2>1 DEF Rows
<1>2. /\ job[w].step = "check" /\ Commit(w, n, "details")
      /\ misses' = 0 /\ warned' = FALSE
      /\ UNCHANGED <<Reddit, refreshes, welcomed, accepted, overlap, touched, used>>
  BY DEF IsMod
<1> HIDE DEF n
<1>3. Same(w) => /\ n.fails <= misses' /\ ~ n.fails >= 2
                 /\ "details" = "remove" => n.fails >= 4
  BY <1>1, <1>2
<1>4. misses' \in Nat /\ warned' \in BOOLEAN
  BY <1>2
<1> QED
  BY <1>1, <1>2, <1>3, <1>4, StepCheck

LEMMA StepIsNotMod ==
    ASSUME IInv, NEW w \in Workers, IsNotMod(w)
    PROVE  IInv' /\ (row # NoRow => row' # NoRow)
<1> DEFINE fails == job[w].copy.fails + 1
           n == [job[w].copy EXCEPT !.is_mod = FALSE, !.active = FALSE, !.fails = fails]
           next == AfterMiss(fails)
<1>1. /\ job[w].step = "check" /\ Commit(w, n, next)
      /\ misses' = misses + 1
      /\ UNCHANGED <<Reddit, refreshes, welcomed, accepted, overlap, touched, used>>
      /\ warned' = warned
  BY DEF IsNotMod
<1>2. Same(w) => n \in Rows /\ n.id = job[w].copy.id /\ n.fails = fails
  <2> SUFFICES ASSUME Same(w)
               PROVE  n \in Rows /\ n.id = job[w].copy.id /\ n.fails = fails
    OBVIOUS
  <2>1. job[w].copy \in Rows
    BY SameFacts DEF IInv
  <2>2. fails \in Nat
    BY <2>1, NoRowFacts
  <2> HIDE DEF fails
  <2> QED
    BY <2>1, <2>2 DEF Rows
<1>3. next \in {"warn", "remove", "details"}
  BY DEF AfterMiss
<1>4. ASSUME ~ overlap, Same(w)
      PROVE  /\ fails <= misses'
             /\ fails >= 2 => warned' \/ used["fault"] > 0 \/ next = "warn"
             /\ next = "remove" => fails >= 4
  <2>1. w \in Refreshing
    BY <1>1 DEF Refreshing
  <2>2. job[w].copy.fails = row.fails /\ row.fails \in Nat /\ row.fails <= misses
        /\ row # NoRow /\ misses \in Nat
    BY <1>4, <2>1, SameFacts DEF IInv, CountOK, Same, TypeOK
  <2>3. \A v \in Workers : job[v].step # "warn"
    BY <1>1, <1>4, <2>1 DEF IInv, CountOK, Refreshing
  <2>4. row.fails >= 2 => warned \/ used["fault"] > 0
    BY <1>4, <2>2, <2>3 DEF IInv, CountOK
  <2>5. fails = row.fails + 1
    BY <2>2
  <2>6. next = "remove" => fails >= 4
    BY DEF AfterMiss
  <2>7. fails = 2 => next = "warn"
    BY DEF AfterMiss
  <2> HIDE DEF fails, next
  <2> QED
    BY <1>1, <2>2, <2>4, <2>5, <2>6, <2>7
<1>5. misses' \in Nat /\ warned' \in BOOLEAN
  BY <1>1 DEF IInv, TypeOK
<1> HIDE DEF n, next, fails
<1> QED
  BY <1>1, <1>2, <1>3, <1>4, <1>5, StepCheck

\* A refresh that ends, and may take the row with it.
LEMMA StepEnd ==
    ASSUME IInv, NEW w \in Workers, job' = [job EXCEPT ![w] = Idle],
           row' = NoRow \/ (row' \in Rows /\ row # NoRow /\ row'.id = row.id
                                          /\ row'.fails = row.fails),
           warned' \in BOOLEAN, warned => warned', job[w].step = "warn" => warned',
           UNCHANGED <<Reddit, refreshes, welcomed, accepted, misses, overlap, touched, used>>
    PROVE  IInv'
<1>1. TypeOK /\ WelcomeOK /\ CountOK /\ w \in Actors
  BY DEF IInv, Actors
<1>2. UNCHANGED <<home, mod, granted, invites, invited, letter, refreshes, welcomed, accepted,
                  misses, overlap, touched, used>>
  BY DEF Reddit
<1>3. CASE row' = NoRow
  <2>1. job'[w] = Idle /\ \A v \in Workers : v # w => job'[v] = job[v]
    BY <1>1, OtherJobs
  <2>2. TypeOK'
    BY <1>1, <1>2, <1>3, NoRowFacts, TypeJob DEF TypeOK
  <2>3. WelcomeOK'
    BY <1>1, <1>2, <2>1, NoRowFacts DEF WelcomeOK
  <2>4. \A v \in Workers : job'[v].step \in RefreshSteps => job[v].step \in RefreshSteps
    BY <2>1, NoRowFacts DEF RefreshSteps
  <2>5. CountOK'
    BY <1>1, <1>2, <1>3, <2>4, CountGone
  <2> QED
    BY <2>2, <2>3, <2>5 DEF IInv
<1>4. CASE row' # NoRow
  BY <1>1, <1>2, <1>4, NoRowFacts, StepAway DEF RefreshSteps, TypeOK, WelcomeOK
<1> QED
  BY <1>3, <1>4

LEMMA StepWarn ==
    ASSUME IInv, NEW w \in Workers, Warn(w)
    PROVE  IInv' /\ UNCHANGED row
<1>1. UNCHANGED <<Reddit, row, refreshes, welcomed, accepted, misses, overlap, touched, used>>
      /\ warned' = TRUE /\ job' = [job EXCEPT ![w] = Idle]
  BY DEF Warn, Finish
<1>2. row \in Rows \cup {NoRow}
  BY DEF IInv, TypeOK
<1>3. row' = NoRow \/ (row' \in Rows /\ row # NoRow /\ row'.id = row.id /\ row'.fails = row.fails)
  BY <1>1, <1>2, NoRowFacts
<1> QED
  BY <1>1, <1>3, StepEnd

LEMMA StepRemoveFailing ==
    ASSUME IInv, NEW w \in Workers, RemoveFailing(w)
    PROVE  IInv'
<1>1. UNCHANGED <<Reddit, refreshes, welcomed, accepted, misses, warned, overlap, touched, used>>
      /\ job' = [job EXCEPT ![w] = Idle] /\ row' \in {row, NoRow}
      /\ job[w].step = "remove"
  BY DEF RemoveFailing, Finish, History
<1>2. row \in Rows \cup {NoRow} /\ warned \in BOOLEAN
  BY DEF IInv, TypeOK
<1>3. row' = NoRow \/ (row' \in Rows /\ row # NoRow /\ row'.id = row.id /\ row'.fails = row.fails)
  BY <1>1, <1>2, NoRowFacts
<1> QED
  BY <1>1, <1>2, <1>3, StepEnd

LEMMA StepDetails ==
    ASSUME IInv, NEW w \in Workers, Details(w)
    PROVE  IInv' /\ (home # "banned" /\ row # NoRow => row' # NoRow)
<1> DEFINE perms == IF job[w].copy.is_mod /\ mod THEN granted ELSE {}
           n == [job[w].copy EXCEPT !.perms = perms]
<1>1. UNCHANGED <<Reddit, refreshes, welcomed, accepted, misses, warned, overlap, touched, used>>
      /\ job' = [job EXCEPT ![w] = Idle] /\ job[w].step = "details"
      /\ row' = IF ~ Same(w) \/ home = "redirected" THEN row
                ELSE IF home = "banned" THEN NoRow ELSE Changed(w, n)
  BY DEF Details, Finish, History
<1>2. TypeOK /\ row \in Rows \cup {NoRow} /\ warned \in BOOLEAN /\ perms \in SUBSET Perms
  BY DEF IInv, TypeOK
<1> HIDE DEF perms
<1>3. Same(w) => /\ row # NoRow
                 /\ Changed(w, n) \in Rows /\ Changed(w, n).id = row.id
                 /\ Changed(w, n).fails = row.fails
  <2> SUFFICES ASSUME Same(w)
               PROVE  /\ row # NoRow
                      /\ Changed(w, n) \in Rows /\ Changed(w, n).id = row.id
                      /\ Changed(w, n).fails = row.fails
    OBVIOUS
  <2>1. job[w].copy \in Rows /\ row # NoRow
    BY <1>2, SameFacts DEF Same
  <2>2. n \in Rows /\ n.id = job[w].copy.id /\ n.fails = job[w].copy.fails
    BY <1>2, <2>1 DEF Rows
  <2> HIDE DEF n
  <2> QED
    BY <1>2, <2>1, <2>2, ChangedFacts
<1> HIDE DEF n
<1>4. row' = NoRow \/ (row' \in Rows /\ row # NoRow /\ row'.id = row.id /\ row'.fails = row.fails)
  BY <1>1, <1>2, <1>3
<1>5. home # "banned" /\ row # NoRow => row' # NoRow
  BY <1>1, <1>3, NoRowFacts
<1>6. IInv'
  BY <1>1, <1>2, <1>4, StepEnd
<1> QED
  BY <1>5, <1>6

-----------------------------------------------------------------------------
\* The theorems.

LEMMA InitIInv ==
    ASSUME Init
    PROVE  IInv
<1>1. \A a \in Actors : job[a] = Idle
  BY DEF Init
<1>2. \A w \in Workers : job[w] = Idle
  BY <1>1 DEF Actors
<1>3. TypeOK
  BY NoRowFacts DEF Init, TypeOK, Homes
<1>4. WelcomeOK
  BY <1>2, NoRowFacts DEF Init, WelcomeOK
<1>5. Refreshing = {} /\ \A w \in Workers : job[w].step # "remove"
  BY <1>2, NoRowFacts DEF Refreshing
<1>6. CountOK
  BY <1>5 DEF Init, CountOK
<1> QED
  BY <1>3, <1>4, <1>6 DEF IInv

LEMMA StutterIInv ==
    ASSUME IInv, UNCHANGED vars
    PROVE  IInv'
<1>1. UNCHANGED <<home, mod, granted, invites, invited, letter, row, refreshes, job, welcomed,
                  accepted, misses, warned, overlap, touched, used>>
  BY DEF vars
<1>2. TypeOK' /\ WelcomeOK'
  BY <1>1 DEF IInv, TypeOK, WelcomeOK
<1>3. CountOK'
  BY <1>1, CountKeeps DEF IInv
<1> QED
  BY <1>2, <1>3 DEF IInv

LEMMA NextIInv ==
    ASSUME IInv, [Next]_vars
    PROVE  IInv'
<1>1. CASE Invite \/ Withdraw \/ Demod \/ Lost \/ Forget
  BY <1>1, StepOfReddit
<1>2. CASE SiteAccept \/ SiteCreate \/ SiteRefresh \/ SiteSave \/ SiteDelete
  BY <1>2, StepSiteAccept, StepSiteCreate, StepEdit, StepSiteDelete
<1>3. CASE QueueRefresh
  BY <1>3, StepQueueRefresh
<1>4. ASSUME NEW w \in Workers, Poll(w) \/ Activate(w) \/ Refresh(w)
      PROVE  IInv'
  <2>1. CASE Poll(w)
    BY <2>1, StepPoll
  <2>2. CASE Activate(w)
    BY <2>2, StepAccept, StepNotify, StepMarkSent DEF Activate
  <2>3. CASE Refresh(w)
    BY <2>3, StepTakeRefresh, StepIsMod, StepIsNotMod, StepWarn, StepRemoveFailing,
       StepDetails DEF Refresh
  <2> QED
    BY <1>4, <2>1, <2>2, <2>3
<1>5. ASSUME NEW a \in Actors, Abort(a)
      PROVE  IInv'
  BY <1>5, StepAbort
<1>6. CASE UNCHANGED vars
  BY <1>6, StutterIInv
<1> QED
  BY <1>1, <1>2, <1>3, <1>4, <1>5, <1>6 DEF Next

\* The types, the true welcome and the true count hold in every state, however
\* many workers, polls, refreshes and failures there are.
THEOREM LifecycleInvariant == Spec => []IInv
<1>1. Init => IInv
  BY InitIInv
<1>2. IInv /\ [Next]_vars => IInv'
  BY NextIInv
<1> QED
  BY <1>1, <1>2, PTL DEF Spec

\* Every variable of the life of a sub keeps its type.
THEOREM LifecycleTypeOK == Spec => []TypeOK
<1>1. IInv => TypeOK
  BY DEF IInv
<1> QED
  BY <1>1, LifecycleInvariant, PTL

\* The sub is welcomed only for an invitation that a poll has accepted
\* (_notify_added after accept_invite).
THEOREM LifecycleWelcomeIsTrue == Spec => []WelcomeIsTrue
<1>1. IInv => WelcomeIsTrue
  BY DEF IInv, WelcomeOK, WelcomeIsTrue
<1> QED
  BY <1>1, LifecycleInvariant, PTL

\* A step that takes the row of a sub that is not banned, and ends the job of a
\* worker, is the removal of a refresh.
LEMMA OnlyTheRefreshRemoves ==
    ASSUME IInv, [Next]_vars, NEW w \in Workers, job[w] # Idle, job'[w] = Idle,
           row # NoRow, row' = NoRow, home # "banned"
    PROVE  \E v \in Workers : job[v].step = "remove" /\ Same(v)
<1>1. CASE Invite \/ Withdraw \/ Demod \/ Lost \/ Forget
  BY <1>1, StepOfReddit
<1>2. CASE SiteAccept \/ SiteCreate \/ SiteRefresh \/ SiteSave \/ SiteDelete
  BY <1>2, StepSiteAccept, StepSiteCreate, StepEdit, StepSiteDelete
<1>3. CASE QueueRefresh
  BY <1>3, StepQueueRefresh
<1>4. ASSUME NEW v \in Workers, Poll(v) \/ Activate(v) \/ Refresh(v)
      PROVE  job[v].step = "remove" /\ Same(v)
  <2>1. CASE Poll(v)
    BY <2>1 DEF Poll
  <2>2. CASE Activate(v)
    BY <2>2, StepAccept, StepNotify, StepMarkSent DEF Activate
  <2>3. CASE RemoveFailing(v)
    BY <2>3 DEF RemoveFailing
  <2>4. CASE TakeRefresh(v) \/ IsMod(v) \/ IsNotMod(v) \/ Warn(v) \/ Details(v)
    BY <2>4, StepTakeRefresh, StepIsMod, StepIsNotMod, StepWarn, StepDetails
  <2> QED
    BY <1>4, <2>1, <2>2, <2>3, <2>4 DEF Refresh
<1>5. ASSUME NEW a \in Actors, Abort(a)
      PROVE  FALSE
  BY <1>5, StepAbort
<1>6. CASE UNCHANGED vars
  BY <1>6 DEF vars
<1> QED
  BY <1>1, <1>2, <1>3, <1>4, <1>5, <1>6 DEF Next

LEMMA RemovalIsDue ==
    ASSUME IInv, ~ overlap, NEW v \in Workers, job[v].step = "remove", Same(v)
    PROVE  misses >= 4 /\ (warned \/ used["fault"] > 0)
<1>1. v \in Refreshing /\ row # NoRow /\ row.fails \in Nat /\ misses \in Nat
  BY SameFacts DEF IInv, Refreshing, Same, TypeOK
<1>2. row.fails >= 4 /\ row.fails <= misses
  BY <1>1 DEF IInv, CountOK
<1>3. \A w \in Workers : job[w].step # "warn"
  BY <1>1 DEF IInv, CountOK, Refreshing
<1>4. warned \/ used["fault"] > 0
  BY <1>1, <1>2, <1>3 DEF IInv, CountOK
<1> QED
  BY <1>1, <1>2, <1>4

\* A refresh takes the row of a sub that is not banned only after four checks
\* in a row that did not find the bot, and a warning unless a worker died, as
\* long as no two refreshes overlapped (update_monitored_sub_data).
THEOREM LifecycleRemovedAfterWarning == Spec => RemovedAfterWarning
<1> DEFINE Removal ==
      \A w \in Workers :
         /\ job[w] # Idle /\ job'[w] = Idle /\ row # NoRow /\ row' = NoRow
         /\ home # "banned" /\ ~ overlap
         => misses >= 4 /\ (warned \/ used["fault"] > 0)
<1>1. IInv /\ [Next]_vars => [Removal]_vars
  BY OnlyTheRefreshRemoves, RemovalIsDue
<1>2. RemovedAfterWarning <=> [][Removal]_vars
  BY DEF RemovedAfterWarning
<1> HIDE DEF Removal
<1> QED
  BY <1>1, <1>2, LifecycleInvariant, PTL DEF Spec
=============================================================================
