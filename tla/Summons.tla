------------------------------- MODULE Summons -------------------------------
(***************************************************************************)
(* The summons service: summonssvc/summons_monitor.py polls the mentions   *)
(* in the bot's inbox, SummonsHandler answers each one, ResponseHandler    *)
(* talks to Reddit.  One process does all of it; every summons is a row of *)
(* the table `summons', inserted before the handling and closed (its       *)
(* summons_replied_at set) after the answer went out.  A row that is not   *)
(* closed is handled again at the next poll.                               *)
(*                                                                         *)
(* A step of the process ends at each write it commits and at each call    *)
(* to Reddit, so that a crash (docker restarts the container), a failed    *)
(* call or a failed commit can fall between any two of them.               *)
(***************************************************************************)
EXTENDS Naturals, Sequences, FiniteSets

CONSTANTS
    Comments,       \* comments that mention the bot
    Users,          \* Reddit users
    Posts,          \* submissions
    Subs,           \* subreddits
    NoComment,      \* the process handles no comment
    Author,         \* [Comments -> Users], Summons.requestor
    PostOf,         \* [Comments -> Posts], the submission commented on
    Command,        \* [Comments -> Commands], what parse_root_command returns
    SubOf,          \* [Posts -> Subs]
    PostType,       \* [Posts -> PostTypes]
    DbId,           \* [Posts -> Nat], Post.id, the integer primary key
    LeadingNumber,  \* [Posts -> Nat], MySQL's numeric value of Post.post_id
    Settings,       \* [Subs -> SubSettings], rows of monitored_sub
    Bots,           \* accounts whose mentions are ignored
    Exempt,         \* the user only_allow_one_summons does not apply to
    TooLong,        \* comments that do not fit their column (DataError)
    InitialWatches, \* states a watch may be in when the service starts
    SummonsMaxPerHour,
    InboxLimit,     \* mentions one listing returns
    MaxFaults       \* bound: failed calls, failed commits and crashes

Commands    == {"repost", "watch", "unwatch"}
PostTypes   == {"image", "link", "text", "unsupported", "none"}
SubSettings == [monitored: BOOLEAN, disableAfterAuto: BOOLEAN,
                onlyOne: BOOLEAN, removeAdditional: BOOLEAN]

ASSUME SummonsAssumption ==
    /\ NoComment \notin Comments
    /\ IsFiniteSet(Comments)
    /\ Author \in [Comments -> Users]
    /\ PostOf \in [Comments -> Posts]
    /\ Command \in [Comments -> Commands]
    /\ SubOf \in [Posts -> Subs]
    /\ PostType \in [Posts -> PostTypes]
    /\ DbId \in [Posts -> Nat]
    /\ LeadingNumber \in [Posts -> Nat]
    /\ Settings \in [Subs -> SubSettings]
    /\ Bots \subseteq Users
    /\ TooLong \subseteq Comments
    /\ InitialWatches \subseteq {"none", "enabled", "disabled"}
    /\ SummonsMaxPerHour \in Nat
    /\ InboxLimit \in Nat
    /\ MaxFaults \in Nat

VARIABLES
    \* Reddit
    age,          \* [Comments -> Ages], "hour" while younger than an hour, ...
    authorless,   \* mentions whose comment.author is None (deleted)
    inbox,        \* the mentions, newest first
    replies,      \* [Comments -> Nat], the bot's comments under each mention
    pms,          \* [Comments -> Nat], private messages sent about it
    removed,      \* mentions the bot deleted as a moderator
    \* database
    posts,        \* ingested submissions
    summons,      \* [Comments -> {"absent", "open", "closed"}]
    record,       \* [Comments -> Outcomes], what the closed row refers to
    botComments,  \* rows of bot_comment
    bannedUsers,
    bannedSubs,
    watch,        \* [Users -> [Posts -> WatchStates]], rows of repost_watch
    \* the process
    pc,
    todo,         \* the mentions of the listing still to be looked at
    cur,          \* the comment whose summons is handled
    outcome,      \* the ids and the failure reason of the SummonsResponse
    removing,     \* the mention is deleted after the response is saved
    \* history
    sent,         \* the current handling has put an answer on Reddit
    lost,         \* [Comments -> Nat], answers whose record was lost
    served,       \* summons whose command was executed
    faults

mentions == <<age, authorless, inbox>>
answers  == <<replies, pms>>
rows     == <<summons, record>>
bans     == <<bannedUsers, bannedSubs>>
handling == <<cur, outcome, removing, sent>>
process  == <<pc, todo, cur, outcome, removing, sent>>
vars     == <<age, authorless, inbox, replies, pms, removed, posts, summons,
              record, botComments, bannedUsers, bannedSubs, watch, pc, todo,
              cur, outcome, removing, sent, lost, served, faults>>

Ages        == {"unsent", "hour", "day", "old"}
Outcomes    == {"none", "comment", "pm", "failure"}
WatchStates == {"none", "enabled", "disabled"}
Sources     == {"summons", "submonitor"}
BotComment  == [post: Posts, source: Sources]
Busy        == {"process", "notify", "respond", "pm", "log", "save"}
PcStates    == Busy \cup {"idle", "next", "remove"}

TypeOK ==
    /\ age \in [Comments -> Ages]
    /\ authorless \subseteq Comments
    /\ inbox \in Seq(Comments)
    /\ replies \in [Comments -> Nat]
    /\ pms \in [Comments -> Nat]
    /\ removed \subseteq Comments
    /\ posts \subseteq Posts
    /\ summons \in [Comments -> {"absent", "open", "closed"}]
    /\ record \in [Comments -> Outcomes]
    /\ botComments \subseteq BotComment
    /\ bannedUsers \subseteq Users
    /\ bannedSubs \subseteq Subs
    /\ watch \in [Users -> [Posts -> WatchStates]]
    /\ pc \in PcStates
    /\ todo \subseteq Comments
    /\ cur \in Comments \cup {NoComment}
    /\ outcome \in Outcomes
    /\ removing \in BOOLEAN
    /\ sent \in BOOLEAN
    /\ lost \in [Comments -> Nat]
    /\ served \subseteq Comments
    /\ faults \in 0..MaxFaults

Init ==
    /\ age = [c \in Comments |-> "unsent"]
    /\ authorless = {}
    /\ inbox = <<>>
    /\ replies = [c \in Comments |-> 0]
    /\ pms = [c \in Comments |-> 0]
    /\ removed = {}
    /\ posts = {}
    /\ summons = [c \in Comments |-> "absent"]
    /\ record = [c \in Comments |-> "none"]
    /\ botComments = {}
    /\ bannedUsers = {}
    /\ bannedSubs = {}
    /\ watch \in [Users -> [Posts -> InitialWatches]]
    /\ pc = "idle"
    /\ todo = {}
    /\ cur = NoComment
    /\ outcome = "none"
    /\ removing = FALSE
    /\ sent = FALSE
    /\ lost = [c \in Comments |-> 0]
    /\ served = {}
    /\ faults = 0

-----------------------------------------------------------------------------
(* Reddit and the other services: none of these steps is the process's.    *)

\* A user mentions the bot.
Mention(c) ==
    /\ age[c] = "unsent"
    /\ age' = [age EXCEPT ![c] = "hour"]
    /\ inbox' = <<c>> \o inbox
    /\ UNCHANGED <<authorless, answers, removed, posts, rows, botComments, bans,
                   watch, process, lost, served, faults>>

\* Time passes: the mention is older than an hour, then older than a day.
GrowOld(c) ==
    /\ age[c] \in {"hour", "day"}
    /\ age' = [age EXCEPT ![c] = IF @ = "hour" THEN "day" ELSE "old"]
    /\ UNCHANGED <<authorless, inbox, answers, removed, posts, rows, botComments,
                   bans, watch, process, lost, served, faults>>

\* The comment or its author's account is deleted: comment.author is None.
LoseAuthor(c) ==
    /\ age[c] # "unsent"
    /\ authorless' = authorless \cup {c}
    /\ UNCHANGED <<age, inbox, answers, removed, posts, rows, botComments, bans,
                   watch, process, lost, served, faults>>

\* The ingest workers save a submission.
IngestPost(p) ==
    /\ posts' = posts \cup {p}
    /\ UNCHANGED <<mentions, answers, removed, rows, botComments, bans, watch,
                   process, lost, served, faults>>

\* A submonitor worker leaves its comment on a submission and logs it.
AutoRespond(p) ==
    /\ p \in posts
    /\ Settings[SubOf[p]].monitored
    /\ botComments' = botComments \cup {[post |-> p, source |-> "submonitor"]}
    /\ UNCHANGED <<mentions, answers, removed, posts, rows, bans, watch, process,
                   lost, served, faults>>

\* The daily job finds that a subreddit does not ban the bot any more.
LiftSubBan(s) ==
    /\ s \in bannedSubs
    /\ bannedSubs' = bannedSubs \ {s}
    /\ UNCHANGED <<mentions, answers, removed, posts, rows, botComments,
                   bannedUsers, watch, process, lost, served, faults>>

-----------------------------------------------------------------------------
(* monitor_for_mentions                                                    *)

Listing == {inbox[i] : i \in {j \in DOMAIN inbox : j <= InboxLimit}}

\* One call of reddit.inbox.mentions(); mentions without author are dropped.
Poll ==
    /\ pc = "idle"
    /\ todo' = Listing \ authorless
    /\ pc' = "next"
    /\ UNCHANGED <<mentions, answers, removed, posts, rows, botComments, bans,
                   watch, cur, outcome, removing, sent, lost, served, faults>>

\* The loop takes the mentions in the order of the inbox, newest first.
Place(c) == CHOOSE i \in DOMAIN inbox : inbox[i] = c

NextMention(c) ==
    /\ pc = "next"
    /\ c \in todo
    /\ \A d \in todo : Place(c) <= Place(d)
    /\ todo' = todo \ {c}

Ignored(c) == age[c] = "old" \/ Author[c] \in Bots

\* A new mention whose submission is not ingested, or which the database
\* refuses, leaves no row: the next poll sees it as new again.
Unstorable(c) == PostOf[c] \notin posts \/ c \in TooLong

\* Mutant: every mention with a row is skipped, closed or not.
SkipMention_AnyRow(c) ==
    /\ NextMention(c)
    /\ \/ Ignored(c)
       \/ summons[c] # "absent"
       \/ Unstorable(c)
    /\ UNCHANGED <<mentions, answers, removed, posts, rows, botComments, bans,
                   watch, pc, cur, outcome, removing, sent, lost, served, faults>>

SkipMention(c) ==
    /\ NextMention(c)
    /\ \/ Ignored(c)
       \/ summons[c] = "closed"
       \/ (summons[c] = "absent" /\ Unstorable(c))
    /\ UNCHANGED <<mentions, answers, removed, posts, rows, botComments, bans,
                   watch, pc, cur, outcome, removing, sent, lost, served, faults>>

\* A new mention: its row is committed, then it is handled.
Receive(c) ==
    /\ NextMention(c)
    /\ ~ Ignored(c)
    /\ summons[c] = "absent"
    /\ ~ Unstorable(c)
    /\ summons' = [summons EXCEPT ![c] = "open"]
    /\ cur' = c
    /\ pc' = "process"
    /\ UNCHANGED <<mentions, answers, removed, posts, record, botComments, bans,
                   watch, outcome, removing, sent, lost, served, faults>>

\* Mutant: summons_replied_at is not looked at.
Resume_Closed(c) ==
    /\ NextMention(c)
    /\ ~ Ignored(c)
    /\ summons[c] # "absent"
    /\ cur' = c
    /\ pc' = "process"
    /\ UNCHANGED <<mentions, answers, removed, posts, rows, botComments, bans,
                   watch, outcome, removing, sent, lost, served, faults>>

\* A summons in the database that was never responded to is handled again.
Resume(c) ==
    /\ NextMention(c)
    /\ ~ Ignored(c)
    /\ summons[c] = "open"
    /\ cur' = c
    /\ pc' = "process"
    /\ UNCHANGED <<mentions, answers, removed, posts, rows, botComments, bans,
                   watch, outcome, removing, sent, lost, served, faults>>

PollDone ==
    /\ pc = "next"
    /\ todo = {}
    /\ pc' = "idle"
    /\ UNCHANGED <<mentions, answers, removed, posts, rows, botComments, bans,
                   watch, todo, cur, outcome, removing, sent, lost, served, faults>>

\* The handling of cur ends, with its row as the step leaves it.
EndHandling ==
    /\ pc' = "next"
    /\ cur' = NoComment
    /\ outcome' = "none"
    /\ removing' = FALSE
    /\ sent' = FALSE
    /\ UNCHANGED todo

-----------------------------------------------------------------------------
(* SummonsHandler.process_summons                                          *)

Post == PostOf[cur]
Sub  == SubOf[Post]
User == Author[cur]

\* Mutant: only the summons still waiting for a response are counted.
RowsLastHour_Open(u) == {c \in Comments : Author[c] = u /\ summons[c] = "open" /\ age[c] = "hour"}

RowsLastHour(u) == {c \in Comments : Author[c] = u /\ summons[c] # "absent" /\ age[c] = "hour"}

OverLimit(u) == Cardinality(RowsLastHour(u)) > SummonsMaxPerHour

\* bot_comment.get_by_post_id_and_type(summons.post.id, source): the integer
\* key is compared with the text column reddit_post_id, which MySQL turns into
\* the number the text starts with.
FoundResponse(p, source) ==
    \E b \in botComments : b.source = source /\ LeadingNumber[b.post] = DbId[p]

AlreadyResponded ==
    /\ Settings[Sub].monitored
    /\ \/ Settings[Sub].disableAfterAuto /\ FoundResponse(Post, "submonitor")
       \/ /\ Settings[Sub].onlyOne
          /\ User # Exempt
          /\ FoundResponse(Post, "summons")

Supported == PostType[Post] \notin {"none", "unsupported"}
Admitted  == Supported /\ User \notin bannedUsers /\ ~ OverLimit(User)

\* The post has no type or one the bot does not search.
RejectType ==
    /\ pc = "process"
    /\ ~ Supported
    /\ pc' = "respond"
    /\ UNCHANGED <<mentions, answers, removed, posts, rows, botComments, bans,
                   watch, todo, handling, lost, served, faults>>

\* The requestor is banned: the row is closed without an answer.
RefuseBanned ==
    /\ pc = "process"
    /\ Supported
    /\ User \in bannedUsers
    /\ pc' = "save"
    /\ UNCHANGED <<mentions, answers, removed, posts, rows, botComments, bans,
                   watch, todo, handling, lost, served, faults>>

\* Too many summons in an hour: the ban is committed, then announced.
BanUser ==
    /\ pc = "process"
    /\ Supported
    /\ User \notin bannedUsers
    /\ OverLimit(User)
    /\ bannedUsers' = bannedUsers \cup {User}
    /\ pc' = "notify"
    /\ UNCHANGED <<mentions, answers, removed, posts, rows, botComments,
                   bannedSubs, watch, todo, handling, lost, served, faults>>

\* The sub's settings send the requestor to an earlier response.
PointToResponse ==
    /\ pc = "process"
    /\ Admitted
    /\ AlreadyResponded
    /\ removing' = Settings[Sub].removeAdditional
    /\ pc' = "notify"
    /\ UNCHANGED <<mentions, answers, removed, posts, rows, botComments, bans,
                   watch, todo, cur, outcome, sent, lost, served, faults>>

Execute(command) ==
    /\ pc = "process"
    /\ Admitted
    /\ ~ AlreadyResponded
    /\ Command[cur] = command
    /\ served' = served \cup {cur}
    /\ pc' = "respond"
    /\ UNCHANGED <<mentions, answers, removed, posts, rows, botComments, bans,
                   todo, handling, lost, faults>>

\* A failed commit leaves the watch as it is and the answer says so.
EnableWatch ==
    /\ Execute("watch")
    /\ \/ watch' = [watch EXCEPT ![User][Post] = "enabled"]
       \/ watch[User][Post] = "none" /\ UNCHANGED watch

DisableWatch ==
    /\ Execute("unwatch")
    /\ \/ watch[User][Post] = "enabled" /\ watch' = [watch EXCEPT ![User][Post] = "disabled"]
       \/ UNCHANGED watch

\* The search itself writes only its own log and the reposts it finds.
SearchReposts ==
    /\ Execute("repost")
    /\ UNCHANGED watch

-----------------------------------------------------------------------------
(* _send_response and ResponseHandler                                      *)

SubAllows == pc = "respond" /\ Sub \notin bannedSubs
SendsPm   == pc = "pm" \/ (pc = "respond" /\ Sub \in bannedSubs)

\* Reddit accepts the reply; the row of bot_comment is not written yet.
PostReply ==
    /\ SubAllows
    /\ replies' = [replies EXCEPT ![cur] = @ + 1]
    /\ sent' = TRUE
    /\ pc' = "log"
    /\ UNCHANGED <<mentions, pms, removed, posts, rows, botComments, bans, watch,
                   todo, cur, outcome, removing, lost, served, faults>>

\* Forbidden: the subreddit bans the bot, which is remembered.
ReplyForbidden ==
    /\ SubAllows
    /\ bannedSubs' = bannedSubs \cup {Sub}
    /\ pc' = "pm"
    /\ UNCHANGED <<mentions, answers, removed, posts, rows, botComments,
                   bannedUsers, watch, todo, handling, lost, served, faults>>

\* Mutant: the error type of Reddit instead of a failure reason.
ReplyRefused_RawError ==
    /\ SubAllows
    /\ outcome' = "TOO_OLD"
    /\ pc' = "save"
    /\ UNCHANGED <<mentions, answers, removed, posts, rows, botComments, bans,
                   watch, todo, cur, removing, sent, lost, served, faults>>

\* DELETED_COMMENT, THREAD_LOCKED, TOO_OLD or SOMETHING_IS_BROKEN.
ReplyRefused ==
    /\ SubAllows
    /\ outcome' = "failure"
    /\ pc' = "save"
    /\ UNCHANGED <<mentions, answers, removed, posts, rows, botComments, bans,
                   watch, todo, cur, removing, sent, lost, served, faults>>

\* RATELIMIT, or an error type the code does not name: _reply_to_comment
\* raises, _send_response catches it and saves the response all the same.
ReplyRateLimited ==
    /\ SubAllows
    /\ pc' = "save"
    /\ UNCHANGED <<mentions, answers, removed, posts, rows, botComments, bans,
                   watch, todo, handling, lost, served, faults>>

\* Mutant: the comment is reported as logged although its row was not committed.
LogReply_Unlogged ==
    /\ pc = "log"
    /\ botComments' \in {botComments, botComments \cup {[post |-> Post, source |-> "summons"]}}
    /\ outcome' = "comment"
    /\ pc' = "save"
    /\ UNCHANGED <<mentions, answers, removed, posts, rows, bans, watch, todo,
                   cur, removing, sent, lost, served, faults>>

\* The bot_comment row; when its commit fails the response has no id.
LogReply ==
    /\ pc = "log"
    /\ \/ /\ botComments' = botComments \cup {[post |-> Post, source |-> "summons"]}
          /\ outcome' = "comment"
       \/ UNCHANGED <<botComments, outcome>>
    /\ pc' = "save"
    /\ UNCHANGED <<mentions, answers, removed, posts, rows, bans, watch, todo,
                   cur, removing, sent, lost, served, faults>>

\* A private message instead of a reply.  A RedditAPIException is swallowed
\* and the message saved as if it had been sent; its id is missing only when
\* saving it failed.
SendPm ==
    /\ SendsPm
    /\ \/ /\ pms' = [pms EXCEPT ![cur] = @ + 1]
          /\ sent' = TRUE
       \/ UNCHANGED <<pms, sent>>
    /\ outcome' \in {"pm", "none"}
    /\ pc' = "save"
    /\ UNCHANGED <<mentions, replies, removed, posts, rows, botComments, bans,
                   watch, todo, cur, removing, lost, served, faults>>

\* The ban notice and the pointer to an earlier response: messages whose id
\* is not put in the SummonsResponse.
SendNotice ==
    /\ pc = "notify"
    /\ \/ /\ pms' = [pms EXCEPT ![cur] = @ + 1]
          /\ sent' = TRUE
       \/ UNCHANGED <<pms, sent>>
    /\ pc' = "save"
    /\ UNCHANGED <<mentions, replies, removed, posts, rows, botComments, bans,
                   watch, todo, cur, outcome, removing, lost, served, faults>>

AfterSave ==
    IF removing
    THEN pc' = "remove" /\ UNCHANGED <<todo, cur, outcome, removing, sent>>
    ELSE EndHandling

\* Mutant: summons_replied_at is not set.
SaveResponse_Unmarked ==
    /\ pc = "save"
    /\ record' = [record EXCEPT ![cur] = outcome]
    /\ AfterSave
    /\ UNCHANGED <<mentions, answers, removed, posts, summons, botComments, bans,
                   watch, lost, served, faults>>

SaveResponse ==
    /\ pc = "save"
    /\ summons' = [summons EXCEPT ![cur] = "closed"]
    /\ record' = [record EXCEPT ![cur] = outcome]
    /\ AfterSave
    /\ UNCHANGED <<mentions, answers, removed, posts, botComments, bans, watch,
                   lost, served, faults>>

\* _delete_mention; its errors are swallowed.
DeleteMention ==
    /\ pc = "remove"
    /\ removed' \in {removed, removed \cup {cur}}
    /\ EndHandling
    /\ UNCHANGED <<mentions, answers, posts, rows, botComments, bans, watch,
                   lost, served, faults>>

-----------------------------------------------------------------------------
(* Failures                                                                *)

Fault == faults < MaxFaults /\ faults' = faults + 1

\* The answer of the current handling, if it went out, is forgotten.
Forget == lost' = IF sent THEN [lost EXCEPT ![cur] = @ + 1] ELSE lost

\* InternalError on the commit: logged, the row stays open.
SaveFails ==
    /\ pc = "save"
    /\ Fault
    /\ Forget
    /\ AfterSave
    /\ UNCHANGED <<mentions, answers, removed, posts, rows, botComments, bans,
                   watch, served>>

\* An exception leaves process_summons (429, a network error, no image index,
\* a lost database connection) and handle_summons swallows it.
HandlingRaises ==
    /\ pc \in Busy
    /\ Fault
    /\ Forget
    /\ EndHandling
    /\ UNCHANGED <<mentions, answers, removed, posts, rows, botComments, bans,
                   watch, served>>

\* Reddit took the reply or the message, the call raised all the same.
AnswerUnacknowledged ==
    /\ \/ /\ SubAllows
          /\ replies' = [replies EXCEPT ![cur] = @ + 1]
          /\ UNCHANGED pms
       \/ /\ SendsPm \/ pc = "notify"
          /\ pms' = [pms EXCEPT ![cur] = @ + 1]
          /\ UNCHANGED replies
    /\ Fault
    /\ lost' = [lost EXCEPT ![cur] = @ + 1]
    /\ EndHandling
    /\ UNCHANGED <<mentions, removed, posts, rows, botComments, bans, watch, served>>

\* The container stops and restarts: the memory of the process is gone.
Crash ==
    /\ pc # "idle"
    /\ Fault
    /\ lost' = IF sent /\ pc # "remove" THEN [lost EXCEPT ![cur] = @ + 1] ELSE lost
    /\ pc' = "idle"
    /\ todo' = {}
    /\ cur' = NoComment
    /\ outcome' = "none"
    /\ removing' = FALSE
    /\ sent' = FALSE
    /\ UNCHANGED <<mentions, answers, removed, posts, rows, botComments, bans,
                   watch, served>>

-----------------------------------------------------------------------------
Environment ==
    \/ \E c \in Comments : Mention(c) \/ GrowOld(c) \/ LoseAuthor(c)
    \/ \E p \in Posts : IngestPost(p) \/ AutoRespond(p)
    \/ \E s \in Subs : LiftSubBan(s)

Monitor ==
    \/ Poll \/ PollDone
    \/ \E c \in todo : SkipMention(c) \/ Receive(c) \/ Resume(c)

Handler ==
    \/ RejectType \/ RefuseBanned \/ BanUser \/ PointToResponse
    \/ EnableWatch \/ DisableWatch \/ SearchReposts
    \/ PostReply \/ ReplyForbidden \/ ReplyRefused \/ ReplyRateLimited
    \/ LogReply \/ SendPm \/ SendNotice \/ SaveResponse \/ DeleteMention

Failure == SaveFails \/ HandlingRaises \/ AnswerUnacknowledged \/ Crash

Service == Monitor \/ Handler

Next == Environment \/ Service \/ Failure

Spec == Init /\ [][Next]_vars

\* The container is always running; failures are finite by MaxFaults.
FairSpec == Spec /\ WF_vars(Service)

-----------------------------------------------------------------------------
(* Properties.  The definitions named X_Y are mutants of X: each breaks a  *)
(* property, none is part of Next.                                         *)

\* A mention gets one answer, and one more only for each answer whose record
\* was lost: a crash or a failure between _reply_to_comment (or the message)
\* and the commit of _save_response.
AnsweredOnce == \A c \in Comments : replies[c] + pms[c] <= lost[c] + 1

\* Once summons_replied_at is set nothing about the summons changes any more:
\* no later poll, retry or restart answers the mention again.
ClosedIsFinal ==
    [][\A c \in Comments : summons[c] = "closed" =>
          /\ summons'[c] = "closed"
          /\ record'[c] = record[c]
          /\ replies'[c] = replies[c]
          /\ pms'[c] = pms[c]]_vars

\* Of the summons a user sent within one hour the bot executes the commands
\* of at most summons_max_per_hour, in whatever order, and however often, the
\* mentions are handled.
ServedWithinLimit ==
    \A u \in Users :
        Cardinality({c \in served : Author[c] = u /\ age[c] = "hour"}) <= SummonsMaxPerHour

\* A banned user gets no reply on a post whose type the bot supports: the ban
\* checked when the handling starts still holds when the reply is posted.
BannedGetNoReply ==
    [][\A c \in Comments :
          /\ replies'[c] > replies[c]
          /\ PostType[PostOf[c]] \notin {"none", "unsupported"}
          => Author[c] \notin bannedUsers]_vars

\* summons.reply_comment_id refers to a logged comment that Reddit shows.
CommentRecorded ==
    \A c \in Comments : record[c] = "comment" =>
        /\ replies[c] > 0
        /\ [post |-> PostOf[c], source |-> "summons"] \in botComments

\* A mention that stays among the newest, with its author, on an ingested
\* post, is answered or refused in the end, whatever crashes and fails on the
\* way: monitor_for_mentions handles every row that was never responded to.
Answerable(c) ==
    /\ c \in Listing
    /\ c \notin authorless
    /\ ~ Ignored(c)
    /\ ~ Unstorable(c)

EventuallyClosed ==
    \A c \in Comments : Answerable(c) ~> (summons[c] = "closed" \/ ~ Answerable(c))

\* What _send_response says it does: "Take a response object and send a
\* response to the summons".  A row closed as replied has an answer on Reddit
\* or a reason why not (a failure, a ban).
ClosedMeansAnswered ==
    \A c \in Comments : summons[c] = "closed" =>
        \/ replies[c] + pms[c] > 0
        \/ record[c] = "failure"
        \/ Author[c] \in bannedUsers

\* What wiki/configure-repost-sleuth.md says of only_allow_one_summons: "Only
\* allow the bot to be summoned once per post.  Additional summons will PM the
\* user instead of leaving a comment."
OneReplyPerPost ==
    \A c, d \in Comments :
        /\ c # d
        /\ PostOf[c] = PostOf[d]
        /\ Settings[SubOf[PostOf[c]]].monitored
        /\ Settings[SubOf[PostOf[c]]].onlyOne
        /\ Exempt \notin {Author[c], Author[d]}
        /\ lost = [e \in Comments |-> 0]
        => replies[c] = 0 \/ replies[d] = 0
=============================================================================
