---------------------------- MODULE SubLifecycle ----------------------------
(***************************************************************************)
(* How one sub becomes monitored and stops being so.                        *)
(*                                                                         *)
(* Every minute a poll looks for invitations among the newest messages     *)
(* (NewActivationMonitor): it makes the row, accepts the invitation, tells *)
(* the sub and makes its wiki page.  A moderator can do the same on the    *)
(* site (on_post).  Every day a refresh of each row asks Reddit whether    *)
(* the bot still moderates the sub (update_monitored_sub_data): it counts  *)
(* the failed checks, warns at the second and removes the row at the       *)
(* fourth.  Polls, refreshes and requests run side by side, and what dies  *)
(* or fails is not repeated (record_task_status swallows every exception). *)
(***************************************************************************)
EXTENDS Naturals, FiniteSets, Functions

CONSTANTS
    Perms,      \* the permissions of a moderator the bot knows of
    Workers,    \* of the queue scheduled_tasks
    Site,       \* the site API
    Exempt,     \* it is the one sub that is never removed
    Max,        \* [Events -> Nat], bound on each kind of event
    MaxTotal,   \* bound on all of them but the invitations and their acceptance
    MaxFails    \* bound on failed_admin_check_count

Events == {"invite", "withdraw", "demod", "lost", "forget",
           "register", "save", "delete", "backlog", "fault"}
Actors == Workers \cup {Site}

ASSUME LifecycleAssumption ==
    /\ Site \notin Workers /\ IsFiniteSet(Workers)
    /\ Exempt \in BOOLEAN
    /\ Max \in [Events -> Nat]
    /\ MaxTotal \in Nat /\ MaxFails \in Nat

\* is_mod, active, failed_admin_check_count, activation_notification_sent and
\* the permissions of the row; its id tells it from the rows it replaces that
\* some session still holds.
Ids   == 1..(Cardinality(Workers) + 1)
Rows  == [id : Ids, active : BOOLEAN, is_mod : BOOLEAN, fails : Nat,
          sent : BOOLEAN, perms : SUBSET Perms]
NoRow == [id |-> 0, active |-> FALSE, is_mod |-> FALSE, fails |-> 0,
          sent |-> FALSE, perms |-> {}]
Homes == {"open", "banned", "redirected"}
Jobs  == [step : {"idle", "accept", "notify", "mark", "register",
                  "check", "warn", "remove", "details"},
          copy : Rows \cup {NoRow},      \* the row as the session has read it
          invitation : Nat]              \* the one the poll has accepted
Idle  == [step |-> "idle", copy |-> NoRow, invitation |-> 0]

VARIABLES
    home,       \* what becomes of the sub on Reddit
    mod,        \* the bot is one of its moderators
    granted,    \* with these permissions
    invites,    \* number of invitations there were
    invited,    \* the last one is open
    letter,     \* its message is among the 1000 newest
    row,        \* of monitored_sub
    refreshes,  \* tasks of the refresh that wait in the queue
    job,        \* [Actors -> Jobs]
    welcomed,   \* invitations the sub was told are accepted
    accepted,   \* invitations a poll has accepted
    misses,     \* checks in a row that did not find the bot
    warned,     \* the sub was told of its removal since the first of them
    overlap,    \* a refresh began while one was under way
    touched,    \* active was set by the site since the row was made
    used        \* number of events of each kind so far
vars == <<home, mod, granted, invites, invited, letter, row,
          refreshes, job, welcomed, accepted, misses, warned, overlap, touched,
          used>>

Reddit  == <<home, mod, granted, invites, invited, letter>>
History == <<welcomed, accepted, misses, warned, overlap, touched>>

Refreshing == {w \in Workers : job[w].step \in {"check", "warn", "remove", "details"}}
Total == FoldFunctionOnSet(+, 0, used, Events \ {"invite", "register"})
Happens(e) ==
    /\ used[e] < Max[e]
    /\ e \in {"invite", "register"} \/ Total < MaxTotal
    /\ used' = [used EXCEPT ![e] = @ + 1]
Goto(a, s) == job' = [job EXCEPT ![a].step = s]
Finish(a)  == job' = [job EXCEPT ![a] = Idle]

\* DEFAULT_CONFIG_VALUES, and the defaults of the other columns.
NewRow(id) == [id |-> id, active |-> TRUE, is_mod |-> TRUE, fails |-> 0,
               sent |-> FALSE, perms |-> Perms]
Create == /\ row' = NewRow(CHOOSE i \in Ids : \A w \in Workers : job[w].copy.id # i)
          /\ misses' = 0 /\ warned' = FALSE /\ touched' = FALSE

\* A commit writes the columns the session has changed to the row it has read;
\* it fails if that one is gone.
Same(a)       == row # NoRow /\ row.id = job[a].copy.id
Changed(a, n) == [c \in DOMAIN row |-> IF n[c] # job[a].copy[c] THEN n[c] ELSE row[c]]

Init ==
    /\ home = "open"
    /\ mod = FALSE /\ granted = {}
    /\ invites = 0 /\ invited = FALSE /\ letter = FALSE
    /\ row = NoRow
    /\ refreshes = 0
    /\ job = [a \in Actors |-> Idle]
    /\ welcomed = {} /\ accepted = {}
    /\ misses = 0 /\ warned = FALSE /\ overlap = FALSE /\ touched = FALSE
    /\ used = [e \in Events |-> 0]
-----------------------------------------------------------------------------
\* Reddit.

Invite ==
    /\ home = "open" /\ ~ mod /\ ~ invited
    /\ Happens("invite")
    /\ invites' = invites + 1
    /\ invited' = TRUE /\ letter' = TRUE
    /\ UNCHANGED <<home, mod, granted, row, refreshes, job, History>>

Withdraw ==
    /\ invited
    /\ Happens("withdraw")
    /\ invited' = FALSE
    /\ UNCHANGED <<home, mod, granted, invites, letter, row,
                   refreshes, job, History>>

Demod ==
    /\ mod
    /\ Happens("demod")
    /\ mod' = FALSE
    /\ UNCHANGED <<home, granted, invites, invited, letter, row,
                   refreshes, job, History>>

\* The sub is banned, or its name leads elsewhere.
Lost ==
    /\ home = "open"
    /\ Happens("lost")
    /\ home' \in {"banned", "redirected"}
    /\ mod' = FALSE /\ invited' = FALSE
    /\ UNCHANGED <<granted, invites, letter, row, refreshes, job, History>>

Forget ==
    /\ letter
    /\ Happens("forget")
    /\ letter' = FALSE
    /\ UNCHANGED <<home, mod, granted, invites, invited, row,
                   refreshes, job, History>>

\* accept_invite; the moderators choose the permissions.
TakeOffice ==
    /\ mod' = TRUE /\ invited' = FALSE
    /\ granted' \in SUBSET Perms
-----------------------------------------------------------------------------
\* activate_sub.

\* A name that has a row raises ValueError here; when two polls make it, the
\* unique key stops the second one.
Poll(w) ==
    /\ job[w] = Idle
    /\ letter /\ row = NoRow
    /\ Create
    /\ Goto(w, "accept")
    /\ UNCHANGED <<Reddit, refreshes, welcomed, accepted, overlap, used>>

\* Mutant: NO_INVITE_FOUND is logged, and the activation goes on.
Accept_GoesOn(w) ==
    /\ job[w].step = "accept"
    /\ job' = [job EXCEPT ![w].step = "notify", ![w].invitation = invites]
    /\ IF invited /\ home = "open"
       THEN TakeOffice /\ accepted' = accepted \cup {invites}
       ELSE UNCHANGED <<mod, invited, granted, accepted>>
    /\ UNCHANGED <<home, invites, letter, row, refreshes,
                   welcomed, misses, warned, overlap, touched, used>>

\* No open invitation: the activation ends and leaves the row.
Accept(w) ==
    /\ job[w].step = "accept"
    /\ IF invited /\ home = "open"
       THEN /\ TakeOffice
            /\ accepted' = accepted \cup {invites}
            /\ job' = [job EXCEPT ![w].step = "notify", ![w].invitation = invites]
       ELSE Finish(w) /\ UNCHANGED <<mod, invited, granted, accepted>>
    /\ UNCHANGED <<home, invites, letter, row, refreshes,
                   welcomed, misses, warned, overlap, touched, used>>

\* _notify_added: the row that is read again may be gone, which raises after
\* the message has been sent.
Notify(w) ==
    /\ job[w].step = "notify"
    /\ welcomed' = welcomed \cup {job[w].invitation}
    /\ job' = IF row = NoRow THEN [job EXCEPT ![w] = Idle]
              ELSE [job EXCEPT ![w].step = "mark", ![w].copy = row]
    /\ UNCHANGED <<Reddit, row, refreshes, accepted, misses, warned,
                   overlap, touched, used>>

\* The wiki page that is made next is the matter of ConfigUpdater.
MarkSent(w) ==
    /\ job[w].step = "mark"
    /\ row' = IF Same(w) THEN [row EXCEPT !.sent = TRUE] ELSE row
    /\ Finish(w)
    /\ UNCHANGED <<Reddit, refreshes, History, used>>

Activate(w) == Accept(w) \/ Notify(w) \/ MarkSent(w)
-----------------------------------------------------------------------------
\* The site API.  Its edits are also in ConfigUpdater.

SiteAccept ==
    /\ job[Site] = Idle
    /\ invited /\ home = "open"
    /\ Happens("register")
    /\ TakeOffice
    /\ Goto(Site, "register")
    /\ UNCHANGED <<home, invites, letter, row, refreshes, History>>

SiteCreate ==
    /\ job[Site].step = "register"
    /\ IF row = NoRow THEN Create ELSE UNCHANGED <<row, misses, warned, touched>>
    /\ Finish(Site)
    /\ UNCHANGED <<Reddit, refreshes, welcomed, accepted, overlap, used>>

\* on_post_refresh calls get_bot_permissions with an argument too many: only
\* what it finds of a sub that the bot does not moderate is committed.
SiteRefresh ==
    /\ row # NoRow /\ ~ mod
    /\ row.is_mod \/ row.perms # {}
    /\ row' = [row EXCEPT !.is_mod = FALSE, !.perms = {}]
    /\ UNCHANGED <<Reddit, refreshes, job, History, used>>

\* on_patch changes active.
SiteSave ==
    /\ row # NoRow
    /\ Happens("save")
    /\ row' = [row EXCEPT !.active = ~@]
    /\ touched' = TRUE
    /\ UNCHANGED <<Reddit, refreshes, job, welcomed, accepted, misses,
                   warned, overlap>>

SiteDelete ==
    /\ row # NoRow
    /\ Happens("delete")
    /\ row' = NoRow
    /\ UNCHANGED <<Reddit, refreshes, job, History>>
-----------------------------------------------------------------------------
\* update_monitored_sub_data.

\* One a day for every row; more only if the queue is behind.
QueueRefresh ==
    /\ row # NoRow /\ row.fails < MaxFails
    /\ IF refreshes = 0 /\ Refreshing = {} THEN UNCHANGED used ELSE Happens("backlog")
    /\ refreshes' = refreshes + 1
    /\ UNCHANGED <<Reddit, row, job, History>>

TakeRefresh(w) ==
    /\ job[w] = Idle
    /\ refreshes > 0
    /\ refreshes' = refreshes - 1
    /\ job' = IF row = NoRow THEN job
              ELSE [job EXCEPT ![w].step = "check", ![w].copy = row]
    /\ overlap' = (overlap \/ Refreshing # {})
    /\ UNCHANGED <<Reddit, row, welcomed, accepted, misses, warned, touched, used>>

\* The row and the copy after the check; a refresh of a row that is gone has
\* nothing left to change.
Commit(w, new, next) ==
    IF Same(w)
    THEN /\ row' = Changed(w, new)
         /\ job' = [job EXCEPT ![w].step = next, ![w].copy = new]
    ELSE Finish(w) /\ UNCHANGED row

\* Mutant: a check that finds the bot takes back one that did not.
IsMod_CountsBack(w) ==
    /\ job[w].step = "check" /\ mod
    /\ Commit(w, [job[w].copy EXCEPT !.is_mod = TRUE, !.fails = @ - 1], "details")
    /\ misses' = 0 /\ warned' = FALSE
    /\ UNCHANGED <<Reddit, refreshes, welcomed, accepted, overlap, touched, used>>

\* Mutant: the counter is not reset.
IsMod_NoReset(w) ==
    /\ job[w].step = "check" /\ mod
    /\ Commit(w, [job[w].copy EXCEPT !.is_mod = TRUE], "details")
    /\ misses' = 0 /\ warned' = FALSE
    /\ UNCHANGED <<Reddit, refreshes, welcomed, accepted, overlap, touched, used>>

IsMod(w) ==
    /\ job[w].step = "check" /\ mod
    /\ Commit(w, [job[w].copy EXCEPT !.is_mod = TRUE, !.fails = 0], "details")
    /\ misses' = 0 /\ warned' = FALSE
    /\ UNCHANGED <<Reddit, refreshes, welcomed, accepted, overlap, touched, used>>

\* Mutant: the warning is one day late.
AfterMiss_Late(fails) ==
    IF fails = 5 THEN "warn"
    ELSE IF fails >= 4 /\ ~ Exempt THEN "remove" ELSE "details"

\* Mutant: the fourth check only warns again.
AfterMiss_Never(fails) ==
    IF fails = 2 \/ fails >= 4 THEN "warn" ELSE "details"

\* What follows a failed check: two of them warn, four remove.
AfterMiss(fails) ==
    IF fails = 2 THEN "warn"
    ELSE IF fails >= 4 /\ ~ Exempt THEN "remove" ELSE "details"

IsNotMod(w) ==
    /\ job[w].step = "check" /\ ~ mod
    /\ LET fails == job[w].copy.fails + 1
       IN  Commit(w, [job[w].copy EXCEPT !.is_mod = FALSE, !.active = FALSE,
                                         !.fails = fails], AfterMiss(fails))
    /\ misses' = misses + 1
    /\ UNCHANGED <<Reddit, refreshes, welcomed, accepted, warned,
                   overlap, touched, used>>

Warn(w) ==
    /\ job[w].step = "warn"
    /\ warned' = TRUE
    /\ Finish(w)
    /\ UNCHANGED <<Reddit, row, refreshes, welcomed, accepted, misses,
                   overlap, touched, used>>

RemoveFailing(w) ==
    /\ job[w].step = "remove"
    /\ row' = IF Same(w) THEN NoRow ELSE row
    /\ Finish(w)
    /\ UNCHANGED <<Reddit, refreshes, History, used>>

\* A banned sub is removed; a redirect raises.  A bot that lost its office
\* since the check has no permissions.
Details(w) ==
    /\ job[w].step = "details"
    /\ LET perms == IF job[w].copy.is_mod /\ mod THEN granted ELSE {}
       IN  row' = IF ~ Same(w) \/ home = "redirected" THEN row
                  ELSE IF home = "banned" THEN NoRow
                  ELSE Changed(w, [job[w].copy EXCEPT !.perms = perms])
    /\ Finish(w)
    /\ UNCHANGED <<Reddit, refreshes, History, used>>

Abort(a) ==
    /\ job[a] # Idle
    /\ Happens("fault")
    /\ Finish(a)
    /\ UNCHANGED <<Reddit, row, refreshes, History>>

Refresh(w) ==
    \/ TakeRefresh(w)
    \/ IsMod(w) \/ IsNotMod(w)
    \/ Warn(w) \/ RemoveFailing(w) \/ Details(w)

Next ==
    \/ Invite \/ Withdraw \/ Demod \/ Lost \/ Forget
    \/ SiteAccept \/ SiteCreate \/ SiteRefresh \/ SiteSave \/ SiteDelete
    \/ QueueRefresh
    \/ \E w \in Workers : Poll(w) \/ Activate(w) \/ Refresh(w)
    \/ \E a \in Actors : Abort(a)

\* The beat queues a poll every minute and the refreshes every day, and the
\* workers take what is queued.
Spec     == Init /\ [][Next]_vars
FairSpec == /\ Spec
            /\ WF_vars(QueueRefresh) /\ WF_vars(SiteCreate)
            /\ \A w \in Workers : /\ WF_vars(Poll(w)) /\ WF_vars(Activate(w))
                                  /\ WF_vars(Refresh(w))
-----------------------------------------------------------------------------
TypeOK ==
    /\ home \in Homes
    /\ mod \in BOOLEAN /\ granted \subseteq Perms
    /\ invites \in Nat /\ invited \in BOOLEAN /\ letter \in BOOLEAN
    /\ row \in Rows \cup {NoRow}
    /\ refreshes \in Nat
    /\ job \in [Actors -> Jobs]
    /\ welcomed \subseteq Nat /\ accepted \subseteq Nat
    /\ misses \in Nat
    /\ warned \in BOOLEAN /\ overlap \in BOOLEAN /\ touched \in BOOLEAN
    /\ used \in [Events -> Nat]

\* The message that the bot is active goes only to a sub whose invitation the
\* poll has accepted, however often it is polled and whatever is accepted on
\* the site or withdrawn meanwhile.
WelcomeIsTrue == welcomed \subseteq accepted

\* A refresh removes a row only after four checks in a row that did not find
\* the bot, and a warning; or when the sub is banned.  Refreshes that overlap
\* can write an old count, and a worker that dies loses the warning.
RemovedAfterWarning ==
    [][\A w \in Workers :
         /\ job[w] # Idle /\ job'[w] = Idle /\ row # NoRow /\ row' = NoRow
         /\ home # "banned" /\ ~ overlap
         => misses >= 4 /\ (warned \/ used["fault"] > 0)]_vars

\* An open invitation is accepted in the end, even if the call to accept it
\* failed and left a row that makes the poll skip it: the refresh counts such
\* a row out, and the next poll begins again.  Not so for the exempt sub, and
\* once the message is too old to be listed.
InvitationIsAnswered ==
    (invited /\ letter /\ ~ Exempt) ~> (~ invited \/ ~ letter)

\* A sub the bot does not moderate any more loses its row, once the message
\* that invited the bot is too old to be listed.
LostSubIsRemoved ==
    <>[](~ mod /\ ~ invited /\ ~ letter /\ ~ Exempt => row = NoRow)

\* "If you decide to use the bot again in the future, simply re-mod it and it
\* will set itself back up": a sub that the bot moderates is active in the end,
\* if its moderators have not switched it off and no call failed.
SetsItselfBackUp ==
    <>[](mod /\ letter /\ ~ touched /\ used["fault"] = 0 => row # NoRow /\ row.active)
=============================================================================
