---------------------------- MODULE ConfigProofs ----------------------------
(***************************************************************************)
(* What holds of the two copies of a sub's settings for every set of       *)
(* options, every number of workers, edits and failures: the types, that   *)
(* moderators are told the truth, and that a page they were told of is in  *)
(* force.                                                                  *)
(***************************************************************************)
EXTENDS ConfigUpdater, TLAPS

\* The steps of a task that has fetched a revision, and those of one that has
\* loaded it, has rejected it, or has yet to write the row.
HasRevision == {"compare", "store", "load", "validate", "tell", "mark", "reject", "explain",
                "mark_rejected", "missing", "sync", "validate_created",
                "tell_created", "validate_written"}
Loaded      == {"validate", "tell", "mark"}
Rejected    == {"reject", "explain", "mark_rejected"}
Loading     == {"store", "load"} \cup Loaded
Creating    == {"create", "store_created", "sync", "validate_created", "tell_created"}

\* A task that runs has a row, and a revision that is one of the page's.
JobsOK ==
    \A w \in Workers :
      job[w].step # "idle" =>
        /\ job[w].copy \in Rows
        /\ job[w].step \in HasRevision => job[w].rev \in 1..Len(pages)
        /\ job[w].step \in {"store_created", "store_written"} => pages # <<>>
        /\ job[w].step \in {"load"} \cup Loaded => Doc(w) # Broken
        /\ job[w].step \in Loaded => job[w].rev \in loaded
        /\ job[w].step \in Rejected => Doc(w) = Broken
        /\ job[w].step \in {"fetch", "compare"} \cup Rejected \cup Loading \cup Creating => job[w].check

\* What was told, stored and marked is about revisions of the page.
RevisionsOK ==
    /\ told \subseteq (1..Len(pages)) \X News
    /\ notified \subseteq stored
    /\ stored \subseteq 1..Len(pages)
    /\ row = Gone => stored = {}
    /\ ToldTheTruth

\* Without overlap one check runs, and what is marked is older than what it loads.
ForceOK ==
    ~ overlap =>
      /\ \A v, w \in Running : v = w
      /\ \A w \in Running :
           /\ job[w].step = "compare" => \A n \in notified : n <= job[w].rev
           /\ job[w].step \in Loading => \A n \in notified : n < job[w].rev
           /\ job[w].step \in Creating => notified = {}
           /\ job[w].step \in Loaded => row = Gone \/ InForce(job[w].rev)
      /\ Current \in notified /\ pages[Current] # Broken => InForce(Current)

IInv == TypeOK /\ JobsOK /\ RevisionsOK /\ ForceOK

LEMMA DocsType ==
    ASSUME NEW doc \in Docs, doc # Broken
    PROVE  doc \in [DOMAIN doc -> BOOLEAN] /\ DOMAIN doc \subseteq Options
<1>1. PICK S \in SUBSET Options : doc \in [S -> BOOLEAN]
  BY DEF Docs
<1> QED
  BY <1>1

\* Writing a document into a row gives a row that agrees with it.
LEMMA MergeFacts ==
    ASSUME NEW r \in Rows, NEW doc \in Docs, doc # Broken
    PROVE  Merge(r, doc) \in Rows /\ Agrees(Merge(r, doc), doc)
<1>1. doc \in [DOMAIN doc -> BOOLEAN] /\ DOMAIN doc \subseteq Options
  BY DocsType
<1>2. DOMAIN r = Columns /\ \A c \in Columns : r[c] \in BOOLEAN
  BY DEF Rows
<1>3. \A c \in Columns : (IF c \in DOMAIN doc THEN doc[c] ELSE r[c]) \in BOOLEAN
  BY <1>1, <1>2
<1>4. Merge(r, doc) \in Rows
  BY <1>2, <1>3 DEF Merge, Rows
<1>5. \A o \in DOMAIN doc : Merge(r, doc)[o] = doc[o]
  BY <1>1, <1>2 DEF Merge, Columns
<1> QED
  BY <1>4, <1>5 DEF Agrees

LEMMA FlipType ==
    ASSUME NEW r \in Rows, NEW c \in Columns
    PROVE  [r EXCEPT ![c] = ~@] \in Rows
  BY DEF Rows

LEMMA RowFacts ==
    ASSUME NEW r \in Rows
    PROVE  r # Gone /\ DOMAIN r = Columns
<1>1. "active" \in Columns
  BY ConfigAssumption DEF Columns
<1> QED
  BY <1>1 DEF Rows, Gone

LEMMA DefaultIsDoc == Default \in Docs /\ Default # Broken
  BY ConfigAssumption DEF Docs

\* The page a task works on.
LEMMA DocIsDoc ==
    ASSUME TypeOK, JobsOK, NEW w \in Workers, job[w].step \in HasRevision
    PROVE  /\ Doc(w) \in Docs
           /\ job[w].rev \in 1..Len(pages)
           /\ job[w].copy \in Rows
<1>1. job[w].step # "idle"
  BY DEF HasRevision
<1>2. job[w].rev \in 1..Len(pages) /\ job[w].copy \in Rows
  BY <1>1 DEF JobsOK
<1> QED
  BY <1>2 DEF TypeOK, Doc

\* A page that is written leaves the revisions before it.
LEMMA AppendFacts ==
    ASSUME pages \in Seq(Docs), NEW doc \in Docs, pages' = Append(pages, doc)
    PROVE  /\ pages' \in Seq(Docs) /\ pages' # <<>>
           /\ Len(pages') = Len(pages) + 1 /\ Len(pages) \in Nat
           /\ \A i \in 1..Len(pages) : pages'[i] = pages[i]
  OBVIOUS

LEMMA EventType ==
    ASSUME NEW e \in Events, Happens(e), used \in [Events -> Nat]
    PROVE  used' \in [Events -> Nat]
  BY DEF Happens

\* What a step does to the task of its worker.
LEMMA GotoType ==
    ASSUME NEW w \in Workers, NEW s \in Steps, Goto(w, s), job \in [Workers -> Jobs]
    PROVE  /\ job' \in [Workers -> Jobs]
           /\ job' = [job EXCEPT ![w] = [job[w] EXCEPT !.step = s]]
<1>1. job' = [job EXCEPT ![w] = [job[w] EXCEPT !.step = s]]
  BY DEF Goto
<1>2. [job[w] EXCEPT !.step = s] \in Jobs
  BY DEF Jobs
<1> QED
  BY <1>1, <1>2

LEMMA FinishType ==
    ASSUME NEW w \in Workers, Finish(w), job \in [Workers -> Jobs]
    PROVE  job' \in [Workers -> Jobs] /\ job' = [job EXCEPT ![w] = Idle]
<1>1. Idle \in Jobs
  BY DEF Idle, Jobs, Steps
<1> QED
  BY <1>1 DEF Finish

LEMMA InitOK == Init => IInv
<1> SUFFICES ASSUME Init PROVE IInv
  OBVIOUS
<1> USE ConfigAssumption DEF Init
<1>1. row \in Rows
  BY DEF Rows, Columns
<1>2. /\ pages \in Seq(Docs)
      /\ stored = {} \/ (stored = {1} /\ Len(pages) = 1)
  <2>1. CASE pages = <<>> /\ stored = {}
    BY <2>1
  <2>2. CASE pages = <<Default>> /\ stored = {1}
    <3>1. Default \in Docs
      BY DEF Docs
    <3> QED
      BY <2>2, <3>1
  <2> QED
    BY <2>1, <2>2
<1>3. \A w \in Workers : job[w] = Idle
  OBVIOUS
<1>4. TypeOK
  <2>1. job \in [Workers -> Jobs]
    BY DEF Jobs, Idle, Steps
  <2>2. used \in [Events -> Nat]
    OBVIOUS
  <2>3. writes \in Seq(Rows)
    OBVIOUS
  <2>4. stored \subseteq Nat
    BY <1>2
  <2> QED
    BY <1>1, <1>2, <2>1, <2>2, <2>3, <2>4 DEF TypeOK
<1>5. JobsOK
  BY <1>3 DEF JobsOK, Idle
<1>6. Running = {}
  BY <1>3 DEF Running, Idle
<1>7. row # Gone
  BY DEF Gone, Columns
<1>8. stored \subseteq 1..Len(pages)
  <2>1. CASE stored = {}
    BY <2>1
  <2>2. CASE stored = {1} /\ Len(pages) = 1
    BY <2>2
  <2> QED
    BY <1>2, <2>1, <2>2
<1>9. RevisionsOK
  BY <1>7, <1>8 DEF RevisionsOK, ToldTheTruth
<1>10. ForceOK
  BY <1>6 DEF ForceOK
<1> QED
  BY <1>4, <1>5, <1>9, <1>10 DEF IInv

LEMMA ModEditOK ==
    ASSUME IInv, ModEdit
    PROVE  IInv'
<1> USE ConfigAssumption DEF IInv
<1>1. TypeOK'
  <2>1. used' \in [Events -> Nat]
    BY EventType DEF TypeOK, ModEdit, Events
  <2> QED
    BY <2>1 DEF TypeOK, ModEdit, Database, Broker, History
<1>2. JobsOK'
  <2>1. PICK doc \in Docs : pages' = Append(pages, doc)
    BY DEF ModEdit
  <2> QED
    BY <2>1, AppendFacts DEF TypeOK, Database, History, ModEdit, JobsOK, HasRevision, Loaded, Rejected, Loading, Creating, Doc, Current
<1>3. RevisionsOK'
  BY DEF TypeOK, Database, History, ModEdit, RevisionsOK, ToldTheTruth, JobsOK, HasRevision, Loaded, Rejected, Doc
<1>4. ForceOK'
  BY DEF TypeOK, Database, History, ModEdit, RevisionsOK, JobsOK, HasRevision, Loaded, Rejected, Loading, Creating, ForceOK, Running, InForce, Agrees, Doc, Current
<1> QED
  BY <1>1, <1>2, <1>3, <1>4

LEMMA SiteReadOK ==
    ASSUME IInv, SiteRead
    PROVE  IInv'
<1> USE ConfigAssumption DEF IInv
<1>1. TypeOK'
  <2>1. used' \in [Events -> Nat]
    BY EventType DEF TypeOK, SiteRead, Events
  <2>2. edits' \subseteq Edits
    <3>1. PICK o \in Options :
            edits' = edits \cup {[no |-> used'["save"], option |-> o,
                                  copy |-> [row EXCEPT ![o] = ~@], step |-> "commit"]}
      BY DEF SiteRead
    <3>2. [row EXCEPT ![o] = ~@] \in Rows
      BY FlipType DEF TypeOK, SiteRead, Columns
    <3>3. used'["save"] \in Nat
      BY <2>1 DEF Events
    <3>4. [no |-> used'["save"], option |-> o, copy |-> [row EXCEPT ![o] = ~@],
           step |-> "commit"] \in Edits
      BY <3>2, <3>3 DEF Edits
    <3> QED
      BY <3>1, <3>4 DEF TypeOK
  <2> QED
    BY <2>1, <2>2 DEF TypeOK, SiteRead, Database, Broker, History
<1>2. JobsOK'
  BY DEF SiteRead, Database, History, JobsOK, Doc
<1>3. RevisionsOK'
  BY DEF SiteRead, Database, History, RevisionsOK, ToldTheTruth
<1>4. ForceOK'
  BY DEF SiteRead, Database, History, ForceOK, Running, InForce, Agrees, Doc, Current
<1> QED
  BY <1>1, <1>2, <1>3, <1>4

LEMMA SiteCommitOK ==
    ASSUME IInv, NEW e \in edits, SiteCommit(e)
    PROVE  IInv'
<1> USE ConfigAssumption DEF IInv
<1>1. e \in Edits
  BY DEF TypeOK
<1>2. [e EXCEPT !.step = "send"] \in Edits
  BY <1>1 DEF Edits
<1>3. CASE row = Gone
  <2>1. /\ edits' \subseteq edits
        /\ UNCHANGED <<pages, told, row, stored, valid, notified, checks, writes, job,
                       loaded, last, touched, overlap, skipped, used>>
    BY <1>3 DEF SiteCommit
  <2>2. TypeOK'
    BY <2>1 DEF TypeOK
  <2>3. JobsOK' /\ RevisionsOK'
    BY <2>1 DEF JobsOK, Doc, RevisionsOK, ToldTheTruth
  <2>4. ForceOK'
    BY <2>1 DEF ForceOK, Running, InForce, Agrees, Doc, Current
  <2> QED
    BY <2>2, <2>3, <2>4
<1>4. CASE row # Gone
  <2>1. /\ row \in Rows
        /\ row' = [row EXCEPT ![e.option] = e.copy[e.option]]
        /\ touched' = TRUE
        /\ edits' = (edits \ {e}) \cup {[e EXCEPT !.step = "send"]}
        /\ UNCHANGED <<pages, told, stored, valid, notified, checks, writes, job,
                       loaded, last, overlap, skipped, used>>
    BY <1>4 DEF SiteCommit, TypeOK
  <2>2. row' \in Rows
    BY <1>1, <2>1 DEF Edits, Rows, Columns
  <2>3. TypeOK'
    BY <1>2, <2>1, <2>2 DEF TypeOK
  <2>4. JobsOK'
    BY <2>1 DEF JobsOK, Doc
  <2>5. RevisionsOK'
    BY <2>1, <2>2, RowFacts DEF RevisionsOK, ToldTheTruth
  <2>6. /\ last' = last /\ touched' = TRUE
        /\ UNCHANGED <<pages, notified, job, overlap>>
    BY <2>1
  <2>7. ForceOK'
    <3> SUFFICES ASSUME ~ overlap PROVE ForceOK'
      BY <2>6 DEF ForceOK
    <3>1. Running' = Running /\ Current' = Current
      BY <2>6 DEF Running, Current
    <3>2. \A n : last = n => InForce(n)'
      BY <2>6 DEF InForce
    <3>3. Current \in notified /\ pages[Current] # Broken => last = Current
      BY DEF ForceOK, InForce
    <3>4. \A w \in Running : job[w].step \in Loaded => last = job[w].rev
      BY <1>4 DEF ForceOK, InForce
    <3>5. Current' \in notified' /\ pages'[Current'] # Broken => InForce(Current)'
      BY <2>6, <3>1, <3>2, <3>3
    <3>6. \A w \in Running' : job'[w].step \in Loaded => InForce(job[w].rev)'
      BY <2>6, <3>1, <3>2, <3>4
    <3> QED
      BY <2>6, <3>1, <3>5, <3>6 DEF ForceOK
  <2> QED
    BY <2>3, <2>4, <2>5, <2>7
<1> QED
  BY <1>3, <1>4

\* The request sends its copy, or is over.
LEMMA SiteEndsOK ==
    ASSUME IInv, NEW e \in edits, SiteSend(e) \/ SiteFails(e)
    PROVE  IInv'
<1> USE ConfigAssumption DEF IInv
<1>1. e.copy \in Rows
  BY DEF TypeOK, Edits
<1>2. /\ edits' \subseteq edits
      /\ writes' \in {writes, Append(writes, e.copy)}
      /\ UNCHANGED <<pages, told, row, stored, valid, notified, checks, job,
                     loaded, last, touched, overlap, skipped, used>>
  BY DEF SiteSend, SiteFails, Database, History
<1>3. TypeOK'
  <2>1. writes \in Seq(Rows) /\ edits' \subseteq Edits
    BY <1>2 DEF TypeOK
  <2>2. Append(writes, e.copy) \in Seq(Rows)
    BY <1>1, <2>1
  <2> QED
    BY <1>2, <2>1, <2>2 DEF TypeOK
<1>4. JobsOK' /\ RevisionsOK'
  BY <1>2 DEF JobsOK, Doc, RevisionsOK, ToldTheTruth
<1>5. ForceOK'
  BY <1>2 DEF ForceOK, Running, InForce, Agrees, Doc, Current
<1> QED
  BY <1>3, <1>4, <1>5

LEMMA RefreshOK ==
    ASSUME IInv, Refresh
    PROVE  IInv'
<1> USE ConfigAssumption DEF IInv
<1>1. TypeOK'
  <2>1. used' \in [Events -> Nat]
    BY EventType DEF TypeOK, Refresh, Events
  <2>2. row' \in Rows \cup {Gone}
    BY FlipType DEF TypeOK, Refresh, Columns, Rows
  <2> QED
    BY <2>1, <2>2 DEF TypeOK, Refresh, Database, Broker, History
<1>2. JobsOK'
  BY DEF TypeOK, History, Refresh, JobsOK, HasRevision, Loaded, Rejected, Loading, Creating, Doc
<1>3. RevisionsOK'
  <2>1. row' \in Rows
    BY FlipType DEF TypeOK, Refresh, Columns, Rows
  <2> QED
    BY <2>1, RowFacts DEF Refresh, RevisionsOK, ToldTheTruth, History
<1>4. ForceOK'
  <2>1. PICK f \in Flags : row' = [row EXCEPT ![f] = ~@]
    BY DEF Refresh
  <2>2. \A o \in Options : row'[o] = row[o]
    BY <2>1 DEF TypeOK, Refresh, Rows, Columns
  <2>3. \A r \in 1..Len(pages) : pages[r] # Broken => DOMAIN pages[r] \subseteq Options
    BY DocsType DEF TypeOK
  <2>4. \A r \in 1..Len(pages) : pages[r] # Broken /\ InForce(r) => InForce(r)'
    BY <2>2, <2>3 DEF Refresh, History, InForce, Agrees
  <2>5. Current \in notified => Current \in 1..Len(pages)
    BY DEF RevisionsOK
  <2>6. \A w \in Running : job[w].step \in Loaded => Doc(w) # Broken /\ job[w].rev \in 1..Len(pages)
    BY DEF Running, JobsOK, Loaded, HasRevision
  <2> QED
    BY <2>4, <2>5, <2>6, RowFacts DEF Refresh, History, ForceOK, Running, Current, Doc
<1> QED
  BY <1>1, <1>2, <1>3, <1>4

LEMMA RemoveOK ==
    ASSUME IInv, Remove
    PROVE  IInv'
<1> USE ConfigAssumption DEF IInv
<1>1. TypeOK'
  <2>1. used' \in [Events -> Nat]
    BY EventType DEF TypeOK, Remove, Events
  <2> QED
    BY <2>1 DEF TypeOK, Remove, Database, Broker, History
<1>2. JobsOK'
  BY DEF TypeOK, History, Remove, JobsOK, HasRevision, Loaded, Rejected, Loading, Creating, Doc
<1>3. RevisionsOK'
  BY DEF TypeOK, History, Remove, RevisionsOK, ToldTheTruth, JobsOK, HasRevision, Loaded, Rejected, Doc
<1>4. ForceOK'
  BY DEF TypeOK, History, Remove, RevisionsOK, JobsOK, HasRevision, Loaded, Rejected, Loading, Creating, ForceOK, Running, InForce, Agrees, Doc, Current
<1> QED
  BY <1>1, <1>2, <1>3, <1>4

LEMMA QueueCheckOK ==
    ASSUME IInv, QueueCheck
    PROVE  IInv'
<1> USE ConfigAssumption DEF IInv
<1>1. TypeOK'
  BY SMTT(30) DEF TypeOK, Happens, Goto, Finish, Idle, Jobs, Steps, Database, Broker, History, QueueCheck
<1>2. JobsOK'
  BY DEF TypeOK, Database, History, QueueCheck, JobsOK, HasRevision, Loaded, Rejected, Loading, Creating, Doc
<1>3. RevisionsOK'
  BY DEF TypeOK, Database, History, QueueCheck, RevisionsOK, ToldTheTruth, JobsOK, HasRevision, Loaded, Rejected, Doc
<1>4. ForceOK'
  BY DEF TypeOK, Database, History, QueueCheck, RevisionsOK, JobsOK, HasRevision, Loaded, Rejected, Loading, Creating, ForceOK, Running, InForce, Agrees, Doc, Current
<1> QED
  BY <1>1, <1>2, <1>3, <1>4

LEMMA TakeCheckOK ==
    ASSUME IInv, NEW w \in Workers, TakeCheck(w)
    PROVE  IInv'
<1> USE ConfigAssumption DEF IInv
<1>1. TypeOK'
  <2>1. job' \in [Workers -> Jobs]
    BY DEF TypeOK, TakeCheck, Jobs, Steps, Idle, Current
  <2> QED
    BY <2>1 DEF TypeOK, TakeCheck, Database, Broker, History
<1>2. JobsOK'
  BY DEF TypeOK, Idle, Database, TakeCheck, JobsOK, HasRevision, Loaded, Rejected, Loading, Creating, Doc
<1>3. RevisionsOK'
  BY DEF TypeOK, Idle, Database, TakeCheck, RevisionsOK, ToldTheTruth, JobsOK, HasRevision, Loaded, Rejected, Doc
<1>4. ForceOK'
  BY DEF TypeOK, Idle, Database, TakeCheck, RevisionsOK, JobsOK, HasRevision, Loaded, Rejected, Loading, Creating, ForceOK, Running, InForce, Agrees, Doc, Current
<1> QED
  BY <1>1, <1>2, <1>3, <1>4

LEMMA FetchOK ==
    ASSUME IInv, NEW w \in Workers, Fetch(w)
    PROVE  IInv'
<1> USE ConfigAssumption DEF IInv
<1>1. TypeOK'
  <2>1. job' \in [Workers -> Jobs]
    <3> DEFINE next == IF Current = 0 THEN "create" ELSE "compare"
    <3>1. [job[w] EXCEPT !.rev = Current, !.step = next] \in Jobs
      <4>1. Current \in Nat /\ next \in Steps /\ job[w] \in Jobs
        BY DEF TypeOK, Current, Steps
      <4> HIDE DEF next
      <4> QED
        BY <4>1 DEF Jobs
    <3>2. job' = [job EXCEPT ![w] = [job[w] EXCEPT !.rev = Current, !.step = next]]
      BY DEF Fetch
    <3> QED
      BY <3>1, <3>2 DEF TypeOK
  <2> QED
    BY <2>1 DEF TypeOK, Fetch, Database, Broker, History
<1>2. JobsOK'
  BY DEF TypeOK, Happens, Goto, Finish, Idle, Jobs, Steps, Database, Broker, History, Fetch, JobsOK, HasRevision, Loaded, Rejected, Loading, Creating, Doc, Current
<1>3. RevisionsOK'
  BY DEF TypeOK, Database, History, Fetch, RevisionsOK, ToldTheTruth, JobsOK, HasRevision, Loaded, Rejected, Doc, Current
<1>4. ForceOK'
  BY DEF TypeOK, Database, History, Fetch, RevisionsOK, JobsOK, HasRevision, Loaded, Rejected, Loading, Creating, ForceOK, Running, InForce, Agrees, Doc, Current
<1> QED
  BY <1>1, <1>2, <1>3, <1>4

LEMMA CompareOK ==
    ASSUME IInv, NEW w \in Workers, Compare(w)
    PROVE  IInv'
<1> USE ConfigAssumption DEF IInv
<1> DEFINE next == IF job[w].rev \in stored THEN "missing" ELSE "store"
<1>1. job[w].step = "compare" /\ Goto(w, next) /\ next \in Steps
  BY DEF Compare, IsConfigUpdated, Steps
<1>2. /\ job' \in [Workers -> Jobs]
      /\ job'[w].step = next /\ job'[w].copy = job[w].copy
      /\ job'[w].rev = job[w].rev /\ job'[w].check = job[w].check
      /\ \A v \in Workers \ {w} : job'[v] = job[v]
  BY <1>1, GotoType DEF TypeOK, Jobs
<1>3. /\ UNCHANGED <<pages, told, row, stored, valid, notified, checks, writes, edits,
                     loaded, last, touched, overlap, skipped, used>>
  BY DEF Compare, Database, Broker, History
<1>4. TypeOK'
  BY <1>2, <1>3 DEF TypeOK
<1>5. JobsOK'
  BY <1>1, <1>2, <1>3 DEF JobsOK, Doc, HasRevision, Loaded, Rejected, Loading, Creating
<1>6. RevisionsOK'
  BY <1>3 DEF RevisionsOK, ToldTheTruth
<1>7. ForceOK'
  <2> SUFFICES ASSUME ~ overlap PROVE ForceOK'
    BY <1>3 DEF ForceOK
  <2>1. /\ job[w].check /\ w \in Running /\ job[w].rev \in 1..Len(pages)
    BY <1>1 DEF JobsOK, HasRevision, Running
  <2>2. \A v \in Running' : v = w
    BY <1>2, <2>1 DEF ForceOK, Running
  <2>3. next \in Loading => \A n \in notified : n < job[w].rev
    <3>1. \A n \in notified : n <= job[w].rev /\ n \in stored /\ n \in Nat
      BY <1>1, <2>1 DEF ForceOK, RevisionsOK
    <3>2. job[w].rev \in Nat
      BY <2>1
    <3> QED
      BY <3>1, <3>2 DEF Loading, Loaded
  <2>4. next \notin Creating \cup Loaded \cup {"compare"}
    BY DEF Creating, Loaded
  <2>5. Current \in notified /\ pages[Current] # Broken => InForce(Current)'
    BY <1>3 DEF ForceOK, Current, InForce, Agrees
  <2> HIDE DEF next
  <2>6. \A v \in Running' :
          /\ job'[v].step = next /\ job'[v].rev = job[w].rev /\ notified' = notified
    BY <1>2, <1>3, <2>2
  <2> QED
    BY <1>3, <2>2, <2>3, <2>4, <2>5, <2>6 DEF ForceOK, Current
<1> QED
  BY <1>4, <1>5, <1>6, <1>7

LEMMA StoreNewOK ==
    ASSUME IInv, NEW w \in Workers, StoreNew(w)
    PROVE  IInv'
<1> USE ConfigAssumption DEF IInv
<1>1. TypeOK'
  <2>1. job' \in [Workers -> Jobs]
    BY GotoType DEF TypeOK, StoreNew, Steps
  <2>2. stored' \subseteq Nat
    BY DEF TypeOK, StoreNew, StoreRevision, Jobs
  <2> QED
    BY <2>1, <2>2 DEF TypeOK, StoreNew, StoreRevision, Database, Broker, History
<1>2. JobsOK'
  BY DEF TypeOK, Goto, History, StoreNew, StoreRevision, JobsOK, HasRevision, Loaded, Rejected, Loading, Creating, Doc
<1>3. RevisionsOK'
  BY DEF TypeOK, Goto, History, StoreNew, StoreRevision, RevisionsOK, ToldTheTruth, JobsOK, HasRevision, Loaded, Rejected, Doc
<1>4. ForceOK'
  BY DEF TypeOK, Goto, History, StoreNew, StoreRevision, RevisionsOK, JobsOK, HasRevision, Loaded, Rejected, Loading, Creating, ForceOK, Running, InForce, Agrees, Doc, Current
<1> QED
  BY <1>1, <1>2, <1>3, <1>4

LEMMA LoadOK ==
    ASSUME IInv, NEW w \in Workers, Load(w)
    PROVE  IInv'
<1> DEFINE new == Merge(job[w].copy, Doc(w))
           next == [job[w] EXCEPT !.copy = new, !.step = "validate"]
<1> USE ConfigAssumption DEF IInv
<1>1. /\ job[w].step = "load"
      /\ row' = new
      /\ job' = [job EXCEPT ![w] = next]
  BY DEF Load
<1>2. /\ Doc(w) \in Docs /\ Doc(w) # Broken
      /\ job[w].rev \in 1..Len(pages) /\ job[w].copy \in Rows
  BY <1>1, DocIsDoc DEF HasRevision, JobsOK
<1>3. new \in Rows /\ Agrees(new, Doc(w))
  BY <1>2, MergeFacts
<1>4. job[w] \in Jobs
  BY DEF TypeOK
<1>5. /\ next \in Jobs
      /\ next.step = "validate" /\ next.copy = new
      /\ next.rev = job[w].rev /\ next.check = job[w].check
  BY <1>3, <1>4 DEF Jobs, Steps
<1>6. /\ job' \in [Workers -> Jobs]
      /\ job'[w] = next
      /\ \A v \in Workers \ {w} : job'[v] = job[v]
  BY <1>1, <1>5 DEF TypeOK
<1>7. TypeOK'
  BY <1>1, <1>3, <1>4, <1>6 DEF TypeOK, Jobs, Load, Broker
<1>8. JobsOK'
  <2>1. /\ pages' = pages /\ loaded' = loaded \cup {job[w].rev}
        /\ pages[job[w].rev] # Broken /\ job[w].check
    BY <1>1, <1>2 DEF Load, Doc, JobsOK, Loading
  <2> HIDE DEF new, next
  <2> QED
    BY <1>2, <1>3, <1>5, <1>6, <2>1, ZenonT(30) DEF JobsOK, HasRevision, Loaded, Rejected, Loading, Creating, Doc
<1>9. RevisionsOK'
  BY <1>1, <1>3, RowFacts DEF RevisionsOK, ToldTheTruth, Load
<1>10. ForceOK'
  <2> SUFFICES ASSUME ~ overlap PROVE ForceOK'
    BY DEF Load, ForceOK
  <2>1. w \in Running /\ Running' = Running
    BY <1>1, <1>2, <1>5, <1>6 DEF Running, JobsOK, Loading
  <2>2. \A v \in Running : v = w
    BY <2>1 DEF ForceOK
  <2>3. \A n \in notified : n < job[w].rev
    BY <1>1, <2>1 DEF ForceOK, Loading
  <2>4. Current \notin notified
    BY <1>2, <2>3 DEF Current, TypeOK
  <2>5. InForce(job[w].rev)'
    BY <1>1, <1>3, <1>6 DEF Load, InForce, Agrees, Doc
  <2> QED
    BY <1>5, <1>6, <2>1, <2>2, <2>3, <2>4, <2>5 DEF Load, ForceOK, Loading, Loaded, Creating, Current
<1> QED
  BY <1>7, <1>8, <1>9, <1>10

LEMMA MissingOK ==
    ASSUME IInv, NEW w \in Workers, Missing(w)
    PROVE  IInv'
<1> USE ConfigAssumption DEF IInv
<1>1. TypeOK'
  <2>1. job' \in [Workers -> Jobs]
    BY GotoType, FinishType DEF TypeOK, Missing, Steps
  <2> QED
    BY <2>1 DEF TypeOK, Missing, Database, Broker, History
<1>2. RevisionsOK'
  BY DEF Missing, Database, History, RevisionsOK, ToldTheTruth
<1>3. CASE Finish(w)
  <2>1. job' = [job EXCEPT ![w] = Idle]
    BY <1>3, FinishType DEF TypeOK
  <2>2. JobsOK'
    BY <2>1 DEF Idle, TypeOK, Missing, Database, History, JobsOK, Doc
  <2>3. ForceOK'
    BY <2>1 DEF TypeOK, Idle, Missing, Database, History, ForceOK, Running, InForce, Agrees, Doc, Current, Loaded, Loading, Creating
  <2> QED
    BY <1>1, <1>2, <2>2, <2>3
<1>4. CASE Goto(w, "rewrite")
  <2>1. job' = [job EXCEPT ![w] = [job[w] EXCEPT !.step = "rewrite"]]
    BY <1>4, GotoType DEF TypeOK, Steps
  <2>2. /\ job'[w].step = "rewrite" /\ job'[w].copy = job[w].copy
        /\ job'[w].rev = job[w].rev /\ job'[w].check = job[w].check
        /\ \A v \in Workers \ {w} : job'[v] = job[v]
    BY <2>1 DEF TypeOK, Jobs
  <2>3. JobsOK'
    BY <2>2 DEF Missing, Database, History, JobsOK, Doc, HasRevision, Loaded, Rejected, Loading, Creating
  <2>4. ForceOK'
    BY <2>2 DEF Missing, Database, History, ForceOK, Running, InForce, Agrees, Doc, Current, Loaded, Loading, Creating
  <2> QED
    BY <1>1, <1>2, <2>3, <2>4
<1> QED
  BY <1>3, <1>4 DEF Missing

LEMMA CreatePageOK ==
    ASSUME IInv, NEW w \in Workers, CreatePage(w)
    PROVE  IInv'
<1> USE ConfigAssumption DEF IInv
<1>1. TypeOK'
  <2>1. job' \in [Workers -> Jobs]
    BY GotoType DEF TypeOK, CreatePage, Steps
  <2> QED
    BY <2>1, DefaultIsDoc DEF TypeOK, CreatePage, Database, Broker, History
<1>2. JobsOK'
  BY DEF TypeOK, Goto, Database, History, CreatePage, JobsOK, HasRevision, Loaded, Rejected, Loading, Creating, Doc
<1>3. RevisionsOK'
  BY DEF TypeOK, Goto, Database, History, CreatePage, RevisionsOK, ToldTheTruth, JobsOK, HasRevision, Loaded, Rejected, Doc
<1>4. ForceOK'
  BY DEF TypeOK, Goto, Database, History, CreatePage, RevisionsOK, JobsOK, HasRevision, Loaded, Rejected, Loading, Creating, ForceOK, Running, InForce, Agrees, Doc, Current
<1> QED
  BY <1>1, <1>2, <1>3, <1>4

LEMMA StoreCreatedOK ==
    ASSUME IInv, NEW w \in Workers, StoreCreated(w)
    PROVE  IInv'
<1> DEFINE next == [job[w] EXCEPT !.rev = Current, !.step = "sync"]
<1> USE ConfigAssumption DEF IInv
<1>1. job' = [job EXCEPT ![w] = next]
  BY DEF StoreCreated
<1>2. Current \in 1..Len(pages) /\ Current \in Nat /\ job[w] \in Jobs
  BY DEF StoreCreated, TypeOK, JobsOK, Current
<1>3. /\ next \in Jobs
      /\ next.step = "sync" /\ next.copy = job[w].copy
      /\ next.rev = Current /\ next.check = job[w].check
  BY <1>2 DEF Jobs, Steps
<1>4. /\ job' \in [Workers -> Jobs]
      /\ job'[w] = next
      /\ \A v \in Workers \ {w} : job'[v] = job[v]
  BY <1>1, <1>3 DEF TypeOK
<1>5. stored' \in SUBSET (1..Len(pages)) /\ stored \subseteq stored'
  BY <1>2 DEF StoreCreated, StoreRevision, RevisionsOK
<1>6. TypeOK'
  BY <1>2, <1>4, <1>5 DEF TypeOK, StoreCreated, StoreRevision, Broker, History
<1>7. JobsOK'
  BY <1>2, <1>3, <1>4 DEF StoreCreated, StoreRevision, JobsOK, Doc, History, HasRevision, Loaded, Rejected, Loading, Creating
<1>8. RevisionsOK'
  BY <1>5 DEF StoreCreated, StoreRevision, History, RevisionsOK, ToldTheTruth
<1>9. ForceOK'
  BY <1>2, <1>3, <1>4 DEF StoreCreated, StoreRevision, History, JobsOK, RevisionsOK, ForceOK, Running, InForce, Agrees, Doc, Current, Loaded, Loading, Creating
<1> QED
  BY <1>6, <1>7, <1>8, <1>9

LEMMA SyncOK ==
    ASSUME IInv, NEW w \in Workers, Sync(w)
    PROVE  IInv'
<1> DEFINE new == Merge(job[w].copy, Doc(w))
<1> USE ConfigAssumption DEF IInv
<1>1. /\ Doc(w) \in Docs
      /\ job[w].rev \in 1..Len(pages) /\ job[w].copy \in Rows
      /\ job[w] \in Jobs
  BY DocIsDoc DEF Sync, HasRevision, TypeOK
<1>2. CASE /\ Finish(w)
           /\ skipped' = skipped \cup {job[w].rev}
           /\ UNCHANGED <<row, loaded, last, touched>>
  <2>1. job' \in [Workers -> Jobs] /\ job' = [job EXCEPT ![w] = Idle]
    BY <1>2, FinishType DEF TypeOK
  <2>2. TypeOK'
    BY <1>1, <1>2, <2>1 DEF TypeOK, Sync, Broker
  <2>3. JobsOK'
    BY <1>2, <2>1 DEF Idle, TypeOK, Sync, JobsOK, Doc
  <2>4. RevisionsOK'
    BY <1>2 DEF Sync, RevisionsOK, ToldTheTruth
  <2>5. ForceOK'
    BY <1>2, <2>1 DEF TypeOK, Idle, Sync, ForceOK, Running, InForce, Agrees, Doc, Current, Loaded, Loading, Creating
  <2> QED
    BY <2>2, <2>3, <2>4, <2>5
<1>3. CASE /\ Goto(w, "validate_created")
           /\ UNCHANGED <<row, loaded, last, touched, skipped>>
  <2>1. /\ job' \in [Workers -> Jobs]
        /\ job' = [job EXCEPT ![w] = [job[w] EXCEPT !.step = "validate_created"]]
    BY <1>3, GotoType DEF TypeOK, Steps
  <2>2. TypeOK'
    BY <1>3, <2>1 DEF TypeOK, Sync, Broker
  <2>3. JobsOK'
    BY <1>1, <1>3, <2>1 DEF TypeOK, Jobs, Sync, JobsOK, Doc, HasRevision, Loaded, Rejected, Loading, Creating
  <2>4. RevisionsOK'
    BY <1>3 DEF Sync, RevisionsOK, ToldTheTruth
  <2>5. ForceOK'
    BY <1>1, <1>3, <2>1, SMTT(30) DEF TypeOK, Jobs, Sync, ForceOK, Running, InForce, Agrees, Doc, Current, Loaded, Loading, Creating
  <2> QED
    BY <2>2, <2>3, <2>4, <2>5
<1>4. CASE /\ Doc(w) # Broken
           /\ row' = new
           /\ job' = [job EXCEPT ![w].copy = new, ![w].step = "validate_created"]
           /\ loaded' = loaded \cup {job[w].rev} /\ last' = job[w].rev
           /\ touched' = FALSE
           /\ UNCHANGED skipped
  <2> DEFINE next == [job[w] EXCEPT !.copy = new, !.step = "validate_created"]
  <2>1. new \in Rows /\ Agrees(new, Doc(w))
    BY <1>1, <1>4, MergeFacts
  <2>2. /\ next \in Jobs
        /\ next.step = "validate_created" /\ next.copy = new
        /\ next.rev = job[w].rev /\ next.check = job[w].check
    BY <1>1, <2>1 DEF Jobs, Steps
  <2>3. job' = [job EXCEPT ![w] = next]
    BY <1>4
  <2>4. /\ job' \in [Workers -> Jobs]
        /\ job'[w] = next
        /\ \A v \in Workers \ {w} : job'[v] = job[v]
    BY <2>2, <2>3 DEF TypeOK
  <2>5. TypeOK'
    BY <1>1, <1>4, <2>1, <2>4 DEF TypeOK, Jobs, Sync, Broker
  <2>6. JobsOK'
    <3>1. pages' = pages /\ loaded \subseteq loaded' /\ job[w].step = "sync"
      BY <1>4 DEF Sync
    <3>2. job[w].check
      BY <3>1 DEF JobsOK, Creating
    <3>3. ASSUME NEW v \in Workers, v # w, job[v].step # "idle"
          PROVE  /\ job'[v] = job[v] /\ Doc(v)' = Doc(v)
                 /\ job[v].rev \in loaded => job[v].rev \in loaded'
      BY <2>4, <3>1, <3>3 DEF Doc
    <3>4. /\ "validate_created" \in HasRevision
          /\ "validate_created" \notin {"store_created", "store_written", "load"} \cup Loaded \cup Rejected
      BY DEF HasRevision, Loaded, Rejected
    <3>5. next.copy \in Rows /\ next.rev \in 1..Len(pages) /\ next.check
      BY <1>1, <2>1, <2>2, <3>2
    <3> HIDE DEF next
    <3>6. ASSUME NEW v \in Workers, job'[v].step # "idle"
          PROVE  /\ job'[v].copy \in Rows
                 /\ job'[v].step \in HasRevision => job'[v].rev \in 1..Len(pages)
                 /\ job'[v].step \in {"store_created", "store_written"} => pages # <<>>
                 /\ job'[v].step \in {"load"} \cup Loaded => Doc(v)' # Broken
                 /\ job'[v].step \in Loaded => job'[v].rev \in loaded'
                 /\ job'[v].step \in Rejected => Doc(v)' = Broken
                 /\ job'[v].step \in {"fetch", "compare"} \cup Rejected \cup Loading \cup Creating
                      => job'[v].check
      <4>1. CASE v = w
        BY <2>2, <2>4, <3>4, <3>5, <4>1
      <4>2. CASE v # w
        BY <3>3, <3>6, <2>4, <4>2 DEF JobsOK
      <4> QED
        BY <4>1, <4>2
    <3> QED
      BY <3>1, <3>6 DEF JobsOK
  <2>7. RevisionsOK'
    BY <1>4, <2>1, RowFacts DEF Sync, RevisionsOK, ToldTheTruth
  <2>8. ForceOK'
    <3> SUFFICES ASSUME ~ overlap PROVE ForceOK'
      BY DEF Sync, ForceOK
    <3>1. job[w].step = "sync" /\ job[w].check
      BY DEF Sync, JobsOK, Creating
    <3>2. w \in Running /\ Running' = Running
      <4>1. \A v \in Workers : v \in Running' <=> v \in Running
        BY <2>2, <2>4, <3>1 DEF Running
      <4> QED
        BY <3>1, <4>1 DEF Running
    <3>3. \A v \in Running : v = w
      BY <3>2 DEF ForceOK
    <3>4. notified = {}
      BY <3>1, <3>2 DEF ForceOK, Creating
    <3> QED
      BY <2>2, <2>4, <3>2, <3>3, <3>4 DEF Sync, ForceOK, Loading, Loaded, Creating, Current
  <2> QED
    BY <2>5, <2>6, <2>7, <2>8
<1> QED
  BY <1>2, <1>3, <1>4 DEF Sync

LEMMA SyncFailsOK ==
    ASSUME IInv, NEW w \in Workers, SyncFails(w)
    PROVE  IInv'
<1> USE ConfigAssumption DEF IInv
<1>1. TypeOK'
  <2>1. used' \in [Events -> Nat]
    BY EventType DEF TypeOK, SyncFails, Events
  <2>2. job' \in [Workers -> Jobs]
    BY GotoType DEF TypeOK, SyncFails, Steps
  <2> QED
    BY <2>1, <2>2 DEF TypeOK, SyncFails, Database, Broker, History
<1>2. JobsOK'
  BY DEF TypeOK, Goto, Database, History, SyncFails, JobsOK, HasRevision, Loaded, Rejected, Loading, Creating, Doc
<1>3. RevisionsOK'
  BY DEF TypeOK, Goto, Database, History, SyncFails, RevisionsOK, ToldTheTruth, JobsOK, HasRevision, Loaded, Rejected, Doc
<1>4. ForceOK'
  BY DEF TypeOK, Goto, Database, History, SyncFails, RevisionsOK, JobsOK, HasRevision, Loaded, Rejected, Loading, Creating, ForceOK, Running, InForce, Agrees, Doc, Current
<1> QED
  BY <1>1, <1>2, <1>3, <1>4

LEMMA TakeWriteOK ==
    ASSUME IInv, NEW w \in Workers, TakeWrite(w)
    PROVE  IInv'
<1> USE ConfigAssumption DEF IInv
<1>1. TypeOK'
  <2>1. job' \in [Workers -> Jobs]
    <3>1. Head(writes) \in Rows
      BY DEF TypeOK, TakeWrite
    <3>2. [Idle EXCEPT !.step = "rewrite", !.copy = Head(writes)] \in Jobs
      BY <3>1 DEF Idle, Jobs, Steps
    <3> QED
      BY <3>2 DEF TypeOK, TakeWrite
  <2> QED
    BY <2>1 DEF TypeOK, TakeWrite, Database, Broker, History
<1>2. JobsOK'
  BY DEF TypeOK, Idle, Database, History, TakeWrite, JobsOK, HasRevision, Loaded, Rejected, Loading, Creating, Doc
<1>3. RevisionsOK'
  BY DEF TypeOK, Idle, Database, History, TakeWrite, RevisionsOK, ToldTheTruth, JobsOK, HasRevision, Loaded, Rejected, Doc
<1>4. ForceOK'
  BY DEF TypeOK, Idle, Database, History, TakeWrite, RevisionsOK, JobsOK, HasRevision, Loaded, Rejected, Loading, Creating, ForceOK, Running, InForce, Agrees, Doc, Current
<1> QED
  BY <1>1, <1>2, <1>3, <1>4

LEMMA RewriteOK ==
    ASSUME IInv, NEW w \in Workers, Rewrite(w)
    PROVE  IInv'
<1> DEFINE next == [job[w] EXCEPT !.step = "store_written", !.wrote = Current + 1]
           doc  == [o \in Options |-> job[w].copy[o]]
<1> USE ConfigAssumption DEF IInv
<1>1. job[w].step = "rewrite" /\ job[w] \in Jobs /\ job[w].copy \in Rows
  BY DEF Rewrite, TypeOK, JobsOK
<1>2. doc \in Docs /\ pages' = Append(pages, doc)
  BY <1>1 DEF Rewrite, Rows, Columns, Docs
<1>3. /\ pages' \in Seq(Docs) /\ pages' # <<>>
      /\ Len(pages') = Len(pages) + 1 /\ Len(pages) \in Nat
      /\ \A i \in 1..Len(pages) : pages'[i] = pages[i]
  BY <1>2, AppendFacts DEF TypeOK
<1>4. Current + 1 \in Nat
  BY <1>3 DEF Current
<1>5. /\ next \in Jobs
      /\ next.step = "store_written" /\ next.copy = job[w].copy
      /\ next.rev = job[w].rev /\ next.check = job[w].check
  BY <1>1, <1>4 DEF Jobs, Steps
<1>6. /\ job' \in [Workers -> Jobs]
      /\ job'[w] = next
      /\ \A v \in Workers \ {w} : job'[v] = job[v]
  BY <1>5 DEF Rewrite, TypeOK
<1>7. TypeOK'
  BY <1>3, <1>6 DEF TypeOK, Rewrite, Database, Broker, History
<1>8. JobsOK'
  BY <1>1, <1>3, <1>5, <1>6 DEF Rewrite, Database, History, JobsOK, Doc, HasRevision, Loaded, Rejected, Loading, Creating
<1>9. RevisionsOK'
  BY <1>3 DEF Rewrite, Database, History, RevisionsOK, ToldTheTruth
<1>10. ForceOK'
  <2>1. Current' \notin notified'
    BY <1>3 DEF Rewrite, Database, RevisionsOK, Current
  <2>2. Running' = Running
    <3>1. \A v \in Workers : v \in Running' <=> v \in Running
      BY <1>1, <1>5, <1>6 DEF Running
    <3> QED
      BY <3>1 DEF Running
  <2>3. \A v \in Workers :
          job'[v].step \in {"compare"} \cup Loading \cup Creating \cup Loaded => job'[v] = job[v]
    BY <1>5, <1>6 DEF Loading, Creating, Loaded
  <2>4. \A r \in 1..Len(pages) : InForce(r) => InForce(r)'
    BY <1>3 DEF Rewrite, History, Database, InForce, Agrees
  <2>5. \A v \in Workers : job[v].step \in Loaded => job[v].rev \in 1..Len(pages)
    BY DEF JobsOK, Loaded, HasRevision
  <2> QED
    BY <2>1, <2>2, <2>3, <2>4, <2>5 DEF Rewrite, Database, History, ForceOK, Running
<1> QED
  BY <1>7, <1>8, <1>9, <1>10

LEMMA RewriteRefusedOK ==
    ASSUME IInv, NEW w \in Workers, RewriteRefused(w)
    PROVE  IInv'
<1> USE ConfigAssumption DEF IInv
<1>1. TypeOK'
  <2>1. used' \in [Events -> Nat]
    BY EventType DEF TypeOK, RewriteRefused, Events
  <2>2. job' \in [Workers -> Jobs]
    BY GotoType DEF TypeOK, RewriteRefused, Steps
  <2> QED
    BY <2>1, <2>2 DEF TypeOK, RewriteRefused, Database, Broker, History
<1>2. JobsOK'
  BY DEF TypeOK, Goto, Database, History, RewriteRefused, JobsOK, HasRevision, Loaded, Rejected, Loading, Creating, Doc, Current
<1>3. RevisionsOK'
  BY DEF TypeOK, Goto, Database, History, RewriteRefused, RevisionsOK, ToldTheTruth, JobsOK, HasRevision, Loaded, Rejected, Doc, Current
<1>4. ForceOK'
  BY DEF TypeOK, Goto, Database, History, RewriteRefused, RevisionsOK, JobsOK, HasRevision, Loaded, Rejected, Loading, Creating, ForceOK, Running, InForce, Agrees, Doc, Current
<1> QED
  BY <1>1, <1>2, <1>3, <1>4

LEMMA StoreWrittenOK ==
    ASSUME IInv, NEW w \in Workers, StoreWritten(w)
    PROVE  IInv'
<1> DEFINE next == [job[w] EXCEPT !.rev = Current, !.step = "validate_written"]
<1> USE ConfigAssumption DEF IInv
<1>1. job' = [job EXCEPT ![w] = next]
  BY DEF StoreWritten
<1>2. Current \in 1..Len(pages) /\ Current \in Nat /\ job[w] \in Jobs
  BY DEF StoreWritten, TypeOK, JobsOK, Current
<1>3. /\ next \in Jobs
      /\ next.step = "validate_written" /\ next.copy = job[w].copy
      /\ next.rev = Current /\ next.check = job[w].check
  BY <1>2 DEF Jobs, Steps
<1>4. /\ job' \in [Workers -> Jobs]
      /\ job'[w] = next
      /\ \A v \in Workers \ {w} : job'[v] = job[v]
  BY <1>1, <1>3 DEF TypeOK
<1>5. stored' \in SUBSET (1..Len(pages)) /\ stored \subseteq stored'
  BY <1>2 DEF StoreWritten, StoreRevision, RevisionsOK
<1>6. TypeOK'
  BY <1>2, <1>4, <1>5 DEF TypeOK, StoreWritten, StoreRevision, Broker, History
<1>7. JobsOK'
  BY <1>2, <1>3, <1>4 DEF StoreWritten, StoreRevision, JobsOK, Doc, HasRevision, Loaded, Rejected, Loading, Creating
<1>8. RevisionsOK'
  BY <1>5 DEF StoreWritten, StoreRevision, RevisionsOK, ToldTheTruth
<1>9. ForceOK'
  BY <1>2, <1>3, <1>4 DEF StoreWritten, StoreRevision, JobsOK, RevisionsOK, ForceOK, Running, InForce, Agrees, Doc, Current, Loaded, Loading, Creating
<1> QED
  BY <1>6, <1>7, <1>8, <1>9

LEMMA AbortOK ==
    ASSUME IInv, NEW w \in Workers, Abort(w)
    PROVE  IInv'
<1> USE ConfigAssumption DEF IInv
<1>1. TypeOK'
  <2>1. used' \in [Events -> Nat]
    BY EventType DEF TypeOK, Abort, Events
  <2>2. job' \in [Workers -> Jobs]
    BY FinishType DEF TypeOK, Abort, Steps
  <2> QED
    BY <2>1, <2>2 DEF TypeOK, Abort, Database, Broker, History
<1>2. JobsOK'
  BY DEF TypeOK, Finish, Idle, Database, History, Abort, JobsOK, HasRevision, Loaded, Rejected, Loading, Creating, Doc
<1>3. RevisionsOK'
  BY DEF TypeOK, Finish, Idle, Database, History, Abort, RevisionsOK, ToldTheTruth, JobsOK, HasRevision, Loaded, Rejected, Doc
<1>4. ForceOK'
  BY DEF TypeOK, Finish, Idle, Database, History, Abort, RevisionsOK, JobsOK, HasRevision, Loaded, Rejected, Loading, Creating, ForceOK, Running, InForce, Agrees, Doc, Current
<1> QED
  BY <1>1, <1>2, <1>3, <1>4

LEMMA SubIsGoneOK ==
    ASSUME IInv, NEW w \in Workers, SubIsGone(w)
    PROVE  IInv'
<1> USE ConfigAssumption DEF IInv
<1>1. TypeOK'
  <2>1. used' \in [Events -> Nat]
    BY EventType DEF TypeOK, SubIsGone, Events
  <2>2. job' \in [Workers -> Jobs]
    BY FinishType DEF TypeOK, SubIsGone, Steps
  <2>3. row' \in Rows \cup {Gone}
    BY FlipType DEF TypeOK, SubIsGone, Columns, Rows
  <2> QED
    BY <2>1, <2>2, <2>3 DEF TypeOK, SubIsGone, Database, Broker, History
<1>2. JobsOK'
  BY DEF TypeOK, Finish, Idle, SubIsGone, JobsOK, HasRevision, Loaded, Rejected, Loading, Creating, Doc
<1>3. RevisionsOK'
  <2>1. row # Gone => row' # Gone
    BY FlipType, RowFacts DEF TypeOK, SubIsGone, Rows
  <2> QED
    BY <2>1 DEF SubIsGone, RevisionsOK, ToldTheTruth
<1>4. ForceOK'
  BY DEF TypeOK, Finish, Idle, SubIsGone, RevisionsOK, JobsOK, HasRevision, Loaded, Rejected, Loading, Creating, ForceOK, Running, InForce, Agrees, Doc, Current
<1> QED
  BY <1>1, <1>2, <1>3, <1>4

\* A step that only moves a task on, or ends it, where the next step asks for
\* nothing that this one did not.
Easier(from, to) ==
    /\ from # "idle"
    /\ to \notin {"fetch", "compare"}
    /\ to \in HasRevision => from \in HasRevision
    /\ to \in {"store_created", "store_written"} => from \in {"store_created", "store_written"}
    /\ to \in {"load"} \cup Loaded => from \in Loaded
    /\ to \in Rejected => from \in Rejected
    /\ to \in Loading => from \in Loading
    /\ to \in Creating => from \in Creating

LEMMA MoveOK ==
    ASSUME IInv, NEW w \in Workers, NEW to \in Steps \ {"idle"},
           Goto(w, to), Easier(job[w].step, to),
           UNCHANGED <<pages, row, notified, loaded, last, touched, overlap>>
    PROVE  JobsOK' /\ ForceOK' /\ job' \in [Workers -> Jobs]
<1> USE ConfigAssumption DEF IInv
<1>1. /\ job' \in [Workers -> Jobs]
      /\ job' = [job EXCEPT ![w] = [job[w] EXCEPT !.step = to]]
  BY GotoType DEF TypeOK
<1>2. /\ job'[w].step = to /\ job'[w].copy = job[w].copy
      /\ job'[w].rev = job[w].rev /\ job'[w].check = job[w].check
      /\ \A v \in Workers \ {w} : job'[v] = job[v]
  BY <1>1 DEF TypeOK, Jobs
<1>3. JobsOK'
  BY <1>2 DEF JobsOK, Doc, Easier, Rejected, Loading, Creating
<1>4. Running' = Running
  <2>1. \A v \in Workers : v \in Running' <=> v \in Running
    BY <1>2 DEF Running, Easier
  <2> QED
    BY <2>1 DEF Running
<1>5. ForceOK'
  <2>1. \A r : InForce(r)' <=> InForce(r)
    BY DEF InForce, Agrees
  <2>2. \A v \in Workers :
          /\ job'[v].rev = job[v].rev
          /\ job'[v].step = "compare" => job[v].step = "compare"
          /\ job'[v].step \in Loading => job[v].step \in Loading
          /\ job'[v].step \in Creating => job[v].step \in Creating
          /\ job'[v].step \in Loaded => job[v].step \in Loaded
    BY <1>2 DEF Easier
  <2> QED
    BY <1>4, <2>1, <2>2 DEF ForceOK, Running, Current, InForce, Agrees
<1> QED
  BY <1>1, <1>3, <1>5

LEMMA EndOK ==
    ASSUME IInv, NEW w \in Workers, Finish(w),
           UNCHANGED <<pages, row, notified, loaded, last, touched, overlap>>
    PROVE  JobsOK' /\ ForceOK' /\ job' \in [Workers -> Jobs]
<1> USE ConfigAssumption DEF IInv
<1>1. job' \in [Workers -> Jobs] /\ job' = [job EXCEPT ![w] = Idle]
  BY FinishType DEF TypeOK
<1>2. JobsOK'
  BY <1>1 DEF TypeOK, Idle, JobsOK, Doc
<1>3. ForceOK'
  BY <1>1 DEF TypeOK, Idle, ForceOK, Running, InForce, Agrees, Doc, Current, Loaded, Loading, Creating
<1> QED
  BY <1>1, <1>2, <1>3

LEMMA SetValidityOK ==
    ASSUME IInv, NEW w \in Workers, NEW from \in Steps, NEW is \in BOOLEAN, NEW to \in Steps,
           SetValidity(w, from, is, to), to # "idle" => Easier(from, to)
    PROVE  IInv'
<1> USE DEF IInv
<1>1. UNCHANGED <<pages, row, notified, loaded, last, touched, overlap>>
  BY DEF SetValidity, History
<1>2. (Finish(w) \/ (to # "idle" /\ Goto(w, to))) /\ job[w].step = from
  BY DEF SetValidity
<1>3. JobsOK' /\ ForceOK' /\ job' \in [Workers -> Jobs]
  BY <1>1, <1>2, MoveOK, EndOK
<1>4. valid' \subseteq Nat
  <2>1. job[w].rev \in Nat /\ valid \subseteq Nat
    BY DEF TypeOK, Jobs
  <2> QED
    BY <2>1 DEF SetValidity
<1>5. TypeOK'
  BY <1>3, <1>4 DEF SetValidity, TypeOK, Broker, History
<1>6. RevisionsOK'
  BY DEF SetValidity, History, RevisionsOK, ToldTheTruth
<1> QED
  BY <1>3, <1>5, <1>6

\* What is told is true at this step.
LEMMA TellOK ==
    ASSUME IInv, NEW w \in Workers, NEW from \in HasRevision, NEW news \in News, NEW to \in Steps,
           Tell(w, from, news, to), to # "idle" => Easier(from, to),
           news = "loaded" => from \in Loaded,
           news = "failed" => from \in Rejected
    PROVE  IInv'
<1> USE DEF IInv
<1>1. UNCHANGED <<pages, row, notified, loaded, last, touched, overlap>>
  BY DEF Tell, Database, History
<1>2. Finish(w) \/ (to # "idle" /\ Goto(w, to))
  BY DEF Tell
<1>3. job[w].step = from
  BY DEF Tell
<1>4. JobsOK' /\ ForceOK' /\ job' \in [Workers -> Jobs]
  BY <1>1, <1>2, <1>3, MoveOK, EndOK
<1>5. job[w].rev \in 1..Len(pages) /\ job[w].rev \in Nat
  BY <1>3, DocIsDoc DEF TypeOK, Jobs
<1>6. TypeOK'
  BY <1>4, <1>5 DEF Tell, TypeOK, Database, Broker, History
<1>7. RevisionsOK'
  <2>1. news = "loaded" => job[w].rev \in loaded
    BY <1>3 DEF JobsOK, Loaded
  <2>2. news = "failed" => pages[job[w].rev] = Broken
    BY <1>3 DEF JobsOK, Rejected, Doc
  <2> QED
    BY <1>5, <2>1, <2>2 DEF Tell, Database, History, RevisionsOK, ToldTheTruth
<1> QED
  BY <1>4, <1>6, <1>7

\* A revision that is marked as notified is not JSON, or it is in force.
LEMMA MarkNotifiedOK ==
    ASSUME IInv, NEW w \in Workers,
           MarkNotified(w, "mark", "missing") \/ MarkNotified(w, "mark_rejected", "idle")
    PROVE  IInv'
<1> USE ConfigAssumption DEF IInv
<1>1. /\ job[w].step \in {"mark", "mark_rejected"} /\ job[w] \in Jobs
      /\ UNCHANGED <<pages, told, row, stored, valid, Broker, History, used>>
      /\ Finish(w) \/ Goto(w, "missing")
      /\ notified' = notified \/ (job[w].rev \in stored /\ notified' = notified \cup {job[w].rev})
  BY DEF MarkNotified, TypeOK
<1>2. /\ job[w].rev \in 1..Len(pages) /\ job[w].copy \in Rows
      /\ job[w].check /\ w \in Running
  BY <1>1, DocIsDoc DEF HasRevision, JobsOK, Loaded, Rejected, Loading, Running
<1>3. /\ job' \in [Workers -> Jobs]
      /\ \A v \in Workers \ {w} : job'[v] = job[v]
      /\ \/ job'[w] = Idle
         \/ /\ job'[w].step = "missing" /\ job'[w].copy = job[w].copy
            /\ job'[w].rev = job[w].rev
  <2>1. CASE Finish(w)
    BY <2>1, FinishType DEF TypeOK
  <2>2. CASE Goto(w, "missing")
    BY <1>1, <2>2, GotoType DEF TypeOK, Steps, Jobs
  <2> QED
    BY <1>1, <2>1, <2>2
<1>4. TypeOK'
  BY <1>1, <1>3 DEF TypeOK, Jobs, Broker, History
<1>5. JobsOK'
  BY <1>1, <1>2, <1>3 DEF History, Idle, JobsOK, Doc, HasRevision, Loaded, Rejected, Loading, Creating
<1>6. RevisionsOK'
  BY <1>1 DEF History, RevisionsOK, ToldTheTruth
<1>7. ForceOK'
  <2> SUFFICES ASSUME ~ overlap PROVE ForceOK'
    BY <1>1 DEF History, ForceOK
  <2>1. \A v \in Running' : v = w
    BY <1>2, <1>3 DEF ForceOK, Running
  <2>2. Current \in notified' /\ pages[Current] # Broken => InForce(Current)
    <3>1. CASE notified' = notified
      BY <3>1 DEF ForceOK
    <3>2. CASE job[w].rev \in stored /\ Current = job[w].rev
      <4>1. row # Gone
        BY <3>2 DEF RevisionsOK
      <4>2. job[w].step = "mark" => InForce(job[w].rev)
        BY <1>2, <4>1 DEF ForceOK, Loaded
      <4>3. job[w].step = "mark_rejected" => pages[Current] = Broken
        BY <3>2 DEF JobsOK, Rejected, Doc
      <4> QED
        BY <1>1, <3>2, <4>2, <4>3
    <3>3. CASE Current # job[w].rev
      BY <1>1, <3>3 DEF ForceOK
    <3> QED
      BY <1>1, <3>1, <3>2, <3>3
  <2>3. Current' = Current /\ pages' = pages /\ \A r : InForce(r)' <=> InForce(r)
    BY <1>1 DEF Current, History, InForce, Agrees
  <2>4. job'[w].step \notin {"compare"} \cup Loading \cup Creating \cup Loaded
    BY <1>3 DEF Idle, Loading, Creating, Loaded
  <2>5. InForce(Current)' <=> InForce(Current)
    BY <1>1 DEF Current, History, InForce, Agrees
  <2> QED
    BY <2>1, <2>2, <2>3, <2>4, <2>5 DEF ForceOK
<1> QED
  BY <1>4, <1>5, <1>6, <1>7

\* The inductive invariant.
THEOREM ConfigInvariant == Spec => []IInv
<1> USE ConfigAssumption
<1>1. Init => IInv
  BY InitOK
<1>2. IInv /\ [Next]_vars => IInv'
  <2> SUFFICES ASSUME IInv, [Next]_vars PROVE IInv'
    OBVIOUS
  <2>1. CASE ModEdit \/ SiteSave \/ Refresh \/ Remove \/ QueueCheck
    BY <2>1, ModEditOK, SiteReadOK, SiteCommitOK, SiteEndsOK, RefreshOK, RemoveOK, QueueCheckOK DEF SiteSave
  <2>2. ASSUME NEW w \in Workers, LoadRevision(w)
        PROVE  IInv'
    <3>1. CASE StoreNew(w) \/ Load(w)
      BY <3>1, StoreNewOK, LoadOK
    <3>2. CASE SetValidity(w, "validate", TRUE, "tell")
      <4>1. Easier("validate", "tell")
        BY DEF Easier, HasRevision, Loaded, Rejected, Loading, Creating
      <4> QED
        BY <3>2, <4>1, SetValidityOK DEF Steps
    <3>3. CASE Tell(w, "tell", "loaded", "mark")
      <4>1. Easier("tell", "mark")
        BY DEF Easier, HasRevision, Loaded, Rejected, Loading, Creating
      <4> QED
        BY <3>3, <4>1, TellOK DEF Steps, News, Loaded, HasRevision
    <3>4. CASE MarkNotified(w, "mark", "missing")
      BY <3>4, MarkNotifiedOK
    <3> QED
      BY <2>2, <3>1, <3>2, <3>3, <3>4 DEF LoadRevision
  <2>3. ASSUME NEW w \in Workers, RejectRevision(w)
        PROVE  IInv'
    <3>1. CASE SetValidity(w, "reject", FALSE, "explain")
      <4>1. Easier("reject", "explain")
        BY DEF Easier, HasRevision, Loaded, Rejected, Loading, Creating
      <4> QED
        BY <3>1, <4>1, SetValidityOK DEF Steps
    <3>2. CASE Tell(w, "explain", "failed", "mark_rejected")
      <4>1. Easier("explain", "mark_rejected")
        BY DEF Easier, HasRevision, Loaded, Rejected, Loading, Creating
      <4> QED
        BY <3>2, <4>1, TellOK DEF Steps, News, Rejected, HasRevision
    <3>3. CASE MarkNotified(w, "mark_rejected", "idle")
      BY <3>3, MarkNotifiedOK
    <3> QED
      BY <2>3, <3>1, <3>2, <3>3 DEF RejectRevision
  <2>4. ASSUME NEW w \in Workers, CreateInitial(w)
        PROVE  IInv'
    <3>1. CASE CreatePage(w) \/ StoreCreated(w) \/ Sync(w)
      BY <3>1, CreatePageOK, StoreCreatedOK, SyncOK
    <3>2. CASE SetValidity(w, "validate_created", TRUE, "tell_created")
      <4>1. Easier("validate_created", "tell_created")
        BY DEF Easier, HasRevision, Loaded, Rejected, Loading, Creating
      <4> QED
        BY <3>2, <4>1, SetValidityOK DEF Steps
    <3>3. CASE Tell(w, "tell_created", "created", "idle")
      BY <3>3, TellOK DEF Steps, News, HasRevision
    <3> QED
      BY <2>4, <3>1, <3>2, <3>3 DEF CreateInitial
  <2>5. ASSUME NEW w \in Workers, WritePage(w)
        PROVE  IInv'
    <3>1. CASE Rewrite(w) \/ StoreWritten(w)
      BY <3>1, RewriteOK, StoreWrittenOK
    <3>2. CASE SetValidity(w, "validate_written", TRUE, "idle")
      BY <3>2, SetValidityOK DEF Steps
    <3> QED
      BY <2>5, <3>1, <3>2 DEF WritePage
  <2>6. ASSUME NEW w \in Workers, TakeCheck(w) \/ Fetch(w) \/ Compare(w) \/ Missing(w) \/ TakeWrite(w)
        PROVE  IInv'
    BY <2>6, TakeCheckOK, FetchOK, CompareOK, MissingOK, TakeWriteOK
  <2>7. ASSUME NEW w \in Workers, SyncFails(w) \/ RewriteRefused(w) \/ Abort(w) \/ SubIsGone(w)
        PROVE  IInv'
    BY <2>7, SyncFailsOK, RewriteRefusedOK, AbortOK, SubIsGoneOK
  <2>8. CASE UNCHANGED vars
    BY <2>8 DEF vars, IInv, TypeOK, JobsOK, RevisionsOK, ToldTheTruth, ForceOK, Running, InForce, Agrees, Doc, Current
  <2> QED
    BY <2>1, <2>2, <2>3, <2>4, <2>5, <2>6, <2>7, <2>8 DEF Next, Work
<1> QED
  BY <1>1, <1>2, PTL DEF Spec

\* Types of the two copies, the tasks and the broker.
THEOREM ConfigTypeOK == Spec => []TypeOK
<1>1. IInv => TypeOK
  BY DEF IInv
<1> QED
  BY <1>1, ConfigInvariant, PTL

\* Moderators are told that a revision was loaded, or failed, only if it did:
\* for any number of workers that load, reject and die side by side.
THEOREM ConfigToldTheTruth == Spec => []ToldTheTruth
<1>1. IInv => ToldTheTruth
  BY DEF IInv, RevisionsOK
<1> QED
  BY <1>1, ConfigInvariant, PTL

\* A revision they were told of is in force, unless two checks overlapped.
THEOREM ConfigNotifiedIsInForce == Spec => []NotifiedIsInForce
<1>1. IInv => NotifiedIsInForce
  BY DEF IInv, ForceOK, NotifiedIsInForce
<1> QED
  BY <1>1, ConfigInvariant, PTL
=============================================================================
