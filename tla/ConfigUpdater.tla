--------------------------- MODULE ConfigUpdater ---------------------------
(***************************************************************************)
(* The settings of one monitored sub, kept twice: as the row of            *)
(* monitored_sub that the checks of posts read, and as a JSON page of the  *)
(* sub's wiki that its moderators edit.                                     *)
(*                                                                         *)
(* Every hour a check of the page is queued (queue_config_updates_task); a *)
(* worker loads a revision it does not know into the row, tells the        *)
(* moderators, and completes a page that lacks options from the row        *)
(* (check_for_config_update).  An edit on the site reads the row, writes    *)
(* what it changes, and orders the page to be written (on_patch).  Both kinds of tasks  *)
(* are taken by the workers of one container, each with a copy of the row  *)
(* that nothing refreshes, and each leaves the broker when it is taken.    *)
(***************************************************************************)
EXTENDS Naturals, Sequences, Functions

CONSTANTS
    Options,    \* sub_monitor_exposed_config_options; "active" is one of them
    Flags,      \* the other columns, "is_mod" and "wiki_permission" are two
    Broken,     \* a page that is not JSON
    ModDocs,    \* what the moderators write
    Default,    \* DEFAULT_CONFIG_VALUES
    Workers,    \* of the queues subreddit_config_updates, update_wiki_...
    Max,        \* [Events -> Nat], bound on each kind of event
    MaxTotal    \* bound on all of them but the edits of the page

Columns == Options \cup Flags
Rows    == [Columns -> BOOLEAN]
Gone    == [c \in {} |-> TRUE]       \* no row of that name

\* A document gives some of the options a value.
Docs == (UNION {[S -> BOOLEAN] : S \in SUBSET Options}) \cup {Broken}
Complete(doc) == doc # Broken /\ DOMAIN doc = Options
Empty(doc)    == doc # Broken /\ DOMAIN doc = {}

\* An edit of the page by the moderators, one on the site, a change of the
\* flags, the removal of the sub, a check that is queued before the last one
\* has ended, a death or a failed call.
Events == {"edit", "save", "refresh", "remove", "backlog", "fault"}

ASSUME ConfigAssumption ==
    /\ "active" \in Options
    /\ {"is_mod", "wiki_permission"} \subseteq Flags
    /\ Options \cap Flags = {}
    /\ Broken \notin UNION {[S -> BOOLEAN] : S \in SUBSET Options}
    /\ ModDocs \subseteq Docs
    /\ Default \in [Options -> BOOLEAN] /\ Default["active"]
    /\ Max \in [Events -> Nat]
    /\ MaxTotal \in Nat

VARIABLES
    \* Reddit
    pages,      \* the revisions of the page, a sequence of documents
    told,       \* <<revision, what the moderators were told of it>>
    \* database
    row,        \* of monitored_sub
    stored,     \* revisions in monitored_sub_config_revision
    valid,      \* those with is_valid
    notified,   \* those with notified
    \* broker and workers
    checks,     \* queued checks of the page
    writes,     \* queued orders to write the page, each with its row
    job,        \* [Workers -> Jobs]
    edits,      \* requests of the site that are under way
    \* history and bounds
    loaded,     \* revisions that were written to the row
    last,       \* the one that was written last
    touched,    \* somebody else has changed an option since
    overlap,    \* two checks ran at once
    skipped,    \* revisions stored by a task that did not load them
    used        \* how often each bounded event has happened

vars == <<pages, told, row, stored, valid, notified, checks, writes, job, edits,
          loaded, last, touched, overlap, skipped, used>>

Steps == {"idle", "fetch", "compare", "store", "load", "validate", "tell", "mark",
          "reject", "explain", "mark_rejected", "missing",
          "create", "store_created", "sync", "validate_created", "tell_created",
          "rewrite", "store_written", "validate_written"}

\* The task of a worker, its copy of the row and the revision it has fetched.
Jobs   == [step: Steps, check: BOOLEAN, copy: Rows \cup {Gone}, rev: Nat, wrote: Nat]
Idle   == [step |-> "idle", check |-> FALSE, copy |-> Gone, rev |-> 0, wrote |-> 0]
News   == {"loaded", "failed", "created"}

\* A request has read the row and changed one option of what it has read.
Edits  == [no: Nat, option: Options, copy: Rows, step: {"commit", "send"}]

Current  == Len(pages)
Running  == {w \in Workers : job[w].step # "idle" /\ job[w].check}
Doc(w)   == pages[job[w].rev]
Merge(r, doc) == [c \in DOMAIN r |-> IF c \in DOMAIN doc THEN doc[c] ELSE r[c]]
Agrees(r, doc) == \A o \in DOMAIN doc : r[o] = doc[o]

Total == FoldFunctionOnSet(+, 0, used, Events \ {"edit"})
Happens(e) ==
    /\ used[e] < Max[e]
    /\ e = "edit" \/ Total < MaxTotal
    /\ used' = [used EXCEPT ![e] = @ + 1]
Goto(w, s) == job' = [job EXCEPT ![w].step = s]
Finish(w)  == job' = [job EXCEPT ![w] = Idle]

Database == <<row, stored, valid, notified>>
Broker   == <<checks, writes, edits>>
History  == <<loaded, last, touched, overlap, skipped>>

\* A row as create_monitored_sub_in_db makes it, with or without a page.
Init ==
    /\ row = [c \in Columns |-> IF c \in Options THEN Default[c] ELSE TRUE]
    /\ \/ pages = <<>> /\ stored = {}
       \/ pages = <<Default>> /\ stored = {1}
    /\ valid = stored
    /\ notified = {}
    /\ told = {}
    /\ checks = 0
    /\ writes = <<>>
    /\ job = [w \in Workers |-> Idle]
    /\ edits = {}
    /\ loaded = {}
    /\ last = 0
    /\ touched = FALSE
    /\ overlap = FALSE
    /\ skipped = {}
    /\ used = [e \in Events |-> 0]
-----------------------------------------------------------------------------
\* The moderators, the site and the other jobs of the bot.

ModEdit ==
    /\ Happens("edit")
    /\ \E doc \in ModDocs : pages' = Append(pages, doc)
    /\ UNCHANGED <<told, Database, Broker, job, History>>

\* A request reads the row, and changes an option of its copy.
SiteRead ==
    /\ row # Gone
    /\ Happens("save")
    /\ \E o \in Options :
         edits' = edits \cup {[no |-> used'["save"], option |-> o,
                               copy |-> [row EXCEPT ![o] = ~@], step |-> "commit"]}
    /\ UNCHANGED <<pages, told, Database, checks, writes, job, History>>

\* It writes the columns it has changed, if there still is a row.
SiteCommit(e) ==
    /\ e.step = "commit"
    /\ IF row = Gone
       THEN /\ edits' = edits \ {e}
            /\ UNCHANGED <<row, touched>>
       ELSE /\ edits' = (edits \ {e}) \cup {[e EXCEPT !.step = "send"]}
            /\ row' = [row EXCEPT ![e.option] = e.copy[e.option]]
            /\ touched' = TRUE
    /\ UNCHANGED <<pages, told, stored, valid, notified, checks, writes, job,
                   loaded, last, overlap, skipped, used>>

\* It sends its copy to the queue, which has what it read in all other columns.
SiteSend(e) ==
    /\ e.step = "send"
    /\ edits' = edits \ {e}
    /\ writes' = Append(writes, e.copy)
    /\ UNCHANGED <<pages, told, Database, checks, job, History, used>>

\* It may fail or die before each of the two; nothing repeats it.
SiteFails(e) ==
    /\ edits' = edits \ {e}
    /\ UNCHANGED <<pages, told, Database, checks, writes, job, History, used>>

SiteSave == \/ SiteRead
            \/ \E e \in edits : SiteCommit(e) \/ SiteSend(e) \/ SiteFails(e)

\* The daily refresh finds other permissions than the row has.
Refresh ==
    /\ row # Gone
    /\ Happens("refresh")
    /\ \E f \in Flags : row' = [row EXCEPT ![f] = ~@]
    /\ UNCHANGED <<pages, told, stored, valid, notified, Broker, job, History>>

\* The row is deleted and its revisions with it.
Remove ==
    /\ row # Gone
    /\ Happens("remove")
    /\ row' = Gone
    /\ stored' = {} /\ valid' = {} /\ notified' = {}
    /\ UNCHANGED <<pages, told, Broker, job, History>>

\* Only active subs are queued.
QueueCheck ==
    /\ row # Gone /\ row["active"]
    /\ IF checks = 0 /\ Running = {} THEN UNCHANGED used ELSE Happens("backlog")
    /\ checks' = checks + 1
    /\ UNCHANGED <<pages, told, Database, writes, job, edits, History>>
-----------------------------------------------------------------------------
\* check_for_config_update.

TakeCheck(w) ==
    /\ job[w] = Idle
    /\ checks > 0
    /\ checks' = checks - 1
    /\ job' = IF row # Gone /\ row["is_mod"] /\ row["wiki_permission"]
              THEN [job EXCEPT ![w] = [Idle EXCEPT !.step = "fetch",
                                                   !.check = TRUE, !.copy = row]]
              ELSE job
    /\ overlap' = (overlap \/ Running # {})
    /\ UNCHANGED <<pages, told, Database, writes, edits, loaded, last, touched, skipped, used>>

\* The page is read, with its revision; there may be none.
Fetch(w) ==
    /\ job[w].step = "fetch"
    /\ job' = [job EXCEPT ![w].rev = Current,
                          ![w].step = IF Current = 0 THEN "create" ELSE "compare"]
    /\ UNCHANGED <<pages, told, Database, Broker, History, used>>

\* Mutant: any revision of the sub makes the page a known one.
IsConfigUpdated_AnyRevision(rev) == stored # {}

\* A revision that is known is not loaded again.
IsConfigUpdated(rev) == rev \in stored

Compare(w) ==
    /\ job[w].step = "compare"
    /\ Goto(w, IF IsConfigUpdated(job[w].rev) THEN "missing" ELSE "store")
    /\ UNCHANGED <<pages, told, Database, Broker, History, used>>

\* _create_revision: a key that exists, and a sub that does not, are one and
\* the same IntegrityError, which is logged.
StoreRevision(rev) ==
    /\ stored' = IF row = Gone THEN stored ELSE stored \cup {rev}
    /\ UNCHANGED <<row, valid, notified>>

StoreNew(w) ==
    /\ job[w].step = "store"
    /\ StoreRevision(job[w].rev)
    /\ Goto(w, IF Doc(w) = Broken THEN "reject" ELSE "load")
    /\ UNCHANGED <<pages, told, Broker, History, used>>

\* Mutant: the commit fails, which is passed over as in sync_config_from_wiki.
Load_CommitLost(w) ==
    /\ job[w].step = "load"
    /\ Happens("fault")
    /\ Goto(w, "validate")
    /\ UNCHANGED <<pages, told, Database, Broker, History>>

\* Mutant: the copy is merged before the page is written into it.
Load_Early(w) ==
    /\ job[w].step = "load"
    /\ row' = job[w].copy
    /\ job' = [job EXCEPT ![w].copy = Merge(@, Doc(w)), ![w].step = "validate"]
    /\ loaded' = loaded \cup {job[w].rev} /\ last' = job[w].rev
    /\ touched' = FALSE
    /\ UNCHANGED <<pages, told, stored, valid, notified, Broker,
                   overlap, skipped, used>>

\* uow.monitored_sub.update merges the copy: every column of the row becomes
\* what the copy has, and a row that is gone is inserted again.
Load(w) ==
    /\ job[w].step = "load"
    /\ LET new == Merge(job[w].copy, Doc(w))
       IN  /\ row' = new
           /\ job' = [job EXCEPT ![w].copy = new, ![w].step = "validate"]
    /\ loaded' = loaded \cup {job[w].rev} /\ last' = job[w].rev
    /\ touched' = FALSE
    /\ UNCHANGED <<pages, told, stored, valid, notified, Broker,
                   overlap, skipped, used>>

\* _set_config_validity and _set_config_notified raise for a revision that
\* has no row.
SetValidity(w, from, is, to) ==
    /\ job[w].step = from
    /\ IF job[w].rev \in stored
       THEN /\ valid' = IF is THEN valid \cup {job[w].rev} ELSE valid \ {job[w].rev}
            /\ IF to = "idle" THEN Finish(w) ELSE Goto(w, to)
       ELSE Finish(w) /\ UNCHANGED valid
    /\ UNCHANGED <<pages, told, row, stored, notified, Broker, History, used>>

Tell(w, from, news, to) ==
    /\ job[w].step = from
    /\ told' = told \cup {<<job[w].rev, news>>}
    /\ IF to = "idle" THEN Finish(w) ELSE Goto(w, to)
    /\ UNCHANGED <<pages, Database, Broker, History, used>>

MarkNotified(w, from, to) ==
    /\ job[w].step = from
    /\ IF job[w].rev \in stored
       THEN /\ notified' = notified \cup {job[w].rev}
            /\ IF to = "idle" THEN Finish(w) ELSE Goto(w, to)
       ELSE Finish(w) /\ UNCHANGED notified
    /\ UNCHANGED <<pages, told, row, stored, valid, Broker, History, used>>

\* A page that is not JSON ends the check here.
Missing(w) ==
    /\ job[w].step = "missing"
    /\ IF Doc(w) = Broken \/ Complete(Doc(w)) THEN Finish(w) ELSE Goto(w, "rewrite")
    /\ UNCHANGED <<pages, told, Database, Broker, History, used>>

LoadRevision(w) ==
    \/ StoreNew(w)
    \/ Load(w)
    \/ SetValidity(w, "validate", TRUE, "tell")
    \/ Tell(w, "tell", "loaded", "mark")
    \/ MarkNotified(w, "mark", "missing")

RejectRevision(w) ==
    \/ SetValidity(w, "reject", FALSE, "explain")
    \/ Tell(w, "explain", "failed", "mark_rejected")
    \/ MarkNotified(w, "mark_rejected", "idle")
-----------------------------------------------------------------------------
\* create_initial_wiki_config.

CreatePage(w) ==
    /\ job[w].step = "create"
    /\ pages' = Append(pages, Default)
    /\ Goto(w, "store_created")
    /\ UNCHANGED <<told, Database, Broker, History, used>>

\* The page is fetched with its revision: it may be a newer one by now.
StoreCreated(w) ==
    /\ job[w].step = "store_created"
    /\ job' = [job EXCEPT ![w].rev = Current, ![w].step = "sync"]
    /\ StoreRevision(Current)
    /\ UNCHANGED <<pages, told, Broker, History, used>>

\* sync_config_from_wiki does nothing for an empty page; it raises for one
\* that is not JSON or lacks title_ignore_keywords, which a page that is not
\* complete may or may not do.
Sync(w) ==
    /\ job[w].step = "sync"
    /\ LET doc == Doc(w)
           new == Merge(job[w].copy, doc)
       IN \/ /\ doc = Broken \/ ~ (Complete(doc) \/ Empty(doc))
             /\ Finish(w)
             /\ skipped' = skipped \cup {job[w].rev}
             /\ UNCHANGED <<row, loaded, last, touched>>
          \/ /\ Empty(doc)
             /\ Goto(w, "validate_created")
             /\ UNCHANGED <<row, loaded, last, touched, skipped>>
          \/ /\ doc # Broken /\ ~ Empty(doc)
             /\ row' = new
             /\ job' = [job EXCEPT ![w].copy = new, ![w].step = "validate_created"]
             /\ loaded' = loaded \cup {job[w].rev} /\ last' = job[w].rev
             /\ touched' = FALSE
             /\ UNCHANGED skipped
    /\ UNCHANGED <<pages, told, stored, valid, notified, Broker,
                   overlap, used>>

\* Its commit may fail; that is passed over.
SyncFails(w) ==
    /\ job[w].step = "sync"
    /\ Doc(w) # Broken
    /\ Happens("fault")
    /\ Goto(w, "validate_created")
    /\ UNCHANGED <<pages, told, Database, Broker, History>>

\* _notify_config_created returns nothing, so that notified is never set.
CreateInitial(w) ==
    \/ CreatePage(w)
    \/ StoreCreated(w)
    \/ Sync(w)
    \/ SetValidity(w, "validate_created", TRUE, "tell_created")
    \/ Tell(w, "tell_created", "created", "idle")
-----------------------------------------------------------------------------
\* update_wiki_config_from_database.

TakeWrite(w) ==
    /\ job[w] = Idle
    /\ writes # <<>>
    /\ writes' = Tail(writes)
    /\ job' = [job EXCEPT ![w] = [Idle EXCEPT !.step = "rewrite",
                                              !.copy = Head(writes)]]
    /\ UNCHANGED <<pages, told, Database, checks, edits, History, used>>

\* Mutant: the page gets every column, not the exposed ones.
Rewrite_All(w) ==
    /\ job[w].step = "rewrite"
    /\ pages' = Append(pages, job[w].copy)
    /\ job' = [job EXCEPT ![w].step = "store_written", ![w].wrote = Current + 1]
    /\ UNCHANGED <<told, Database, Broker, History, used>>

Rewrite(w) ==
    /\ job[w].step = "rewrite"
    /\ pages' = Append(pages, [o \in Options |-> job[w].copy[o]])
    /\ job' = [job EXCEPT ![w].step = "store_written", ![w].wrote = Current + 1]
    /\ UNCHANGED <<told, Database, Broker, History, used>>

\* RedditAPIException is logged, and what follows is done all the same (if
\* there is no page, it raises: that is Abort).
RewriteRefused(w) ==
    /\ job[w].step = "rewrite"
    /\ Current > 0
    /\ Happens("fault")
    /\ Goto(w, "store_written")
    /\ UNCHANGED <<pages, told, Database, Broker, History>>

\* The page is fetched again for its revision, whoever wrote that one.
StoreWritten(w) ==
    /\ job[w].step = "store_written"
    /\ job' = [job EXCEPT ![w].rev = Current, ![w].step = "validate_written"]
    /\ StoreRevision(Current)
    /\ skipped' = IF job[w].wrote = Current \/ Current \in stored
                    THEN skipped ELSE skipped \cup {Current}
    /\ UNCHANGED <<pages, told, Broker, loaded, last, touched, overlap, used>>

WritePage(w) ==
    \/ Rewrite(w)
    \/ StoreWritten(w)
    \/ SetValidity(w, "validate_written", TRUE, "idle")

\* A worker that dies, or any other exception of a call: the task is over.
\* Neither is repeated, record_task_status and the tasks swallow exceptions.
Abort(w) ==
    /\ job[w].step # "idle"
    /\ Happens("fault")
    /\ Finish(w)
    /\ UNCHANGED <<pages, told, Database, Broker, History>>

\* Redirect: the sub no longer exists on Reddit.
SubIsGone(w) ==
    /\ job[w].step = "fetch"
    /\ Happens("fault")
    /\ row' = IF row = Gone THEN Gone ELSE [row EXCEPT !["active"] = FALSE]
    /\ touched' = TRUE
    /\ Finish(w)
    /\ UNCHANGED <<pages, told, stored, valid, notified, Broker,
                   loaded, last, overlap, skipped>>

Work(w) ==
    \/ TakeCheck(w) \/ Fetch(w) \/ Compare(w) \/ Missing(w)
    \/ LoadRevision(w) \/ RejectRevision(w) \/ CreateInitial(w)
    \/ TakeWrite(w) \/ WritePage(w)

Next ==
    \/ ModEdit \/ SiteSave \/ Refresh \/ Remove \/ QueueCheck
    \/ \E w \in Workers : \/ Work(w)
                          \/ SyncFails(w) \/ RewriteRefused(w)
                          \/ Abort(w) \/ SubIsGone(w)

\* The beat queues a check every hour, and the workers take what is queued.
Spec     == Init /\ [][Next]_vars
FairSpec == Spec /\ WF_vars(QueueCheck) /\ \A w \in Workers : WF_vars(Work(w))
-----------------------------------------------------------------------------
TypeOK ==
    /\ pages \in Seq(Docs)
    /\ told \subseteq Nat \X News
    /\ row \in Rows \cup {Gone}
    /\ stored \subseteq Nat /\ valid \subseteq Nat /\ notified \subseteq Nat
    /\ checks \in Nat
    /\ writes \in Seq(Rows)
    /\ job \in [Workers -> Jobs]
    /\ edits \subseteq Edits
    /\ loaded \subseteq Nat /\ last \in Nat
    /\ touched \in BOOLEAN /\ overlap \in BOOLEAN
    /\ skipped \subseteq Nat
    /\ used \in [Events -> Nat]

\* What the moderators are told is so: a revision that was "loaded" has been
\* written to the row, one that "failed" is not JSON, whatever dies between
\* the steps of _load_new_config and whoever works on the same page.
ToldTheTruth ==
    \A t \in told : /\ t[2] = "loaded" => t[1] \in loaded
                    /\ t[2] = "failed" => pages[t[1]] = Broken

\* A page whose revision is marked as notified is in force: it is the last one
\* that was loaded, and the row has its values until the site, or the loss of
\* the sub, changes them.  Two checks of one sub that overlap can break this.
InForce(r) == last = r /\ (touched \/ Agrees(row, pages[r]))
NotifiedIsInForce ==
    ~ overlap /\ Current \in notified /\ pages[Current] # Broken => InForce(Current)

\* Nothing that the code does not repair has happened to the current page.
Undisturbed ==
    /\ ~ overlap /\ Current \notin skipped
    /\ used["fault"] = 0 /\ used["save"] = 0 /\ used["remove"] = 0

\* The wiki page of an active sub is in force in the end.
PageComesIntoForce ==
    <>[](Undisturbed /\ row["active"] /\ row["is_mod"] /\ row["wiki_permission"]
            => /\ pages # <<>>
               /\ pages[Current] = Broken \/ Agrees(row, pages[Current]))
=============================================================================
