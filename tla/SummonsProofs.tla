---------------------------- MODULE SummonsProofs ----------------------------
(***************************************************************************)
(* What holds of the summons service for every set of comments, users and  *)
(* posts, every setting and any number of failures: its type invariant,    *)
(* one answer per mention, closed summons that stay closed, and records of *)
(* comments that are there.                                                *)
(***************************************************************************)
EXTENDS Summons, FiniteSetTheorems, SequenceTheorems, TLAPS

\* Between two mentions nothing is handled; a mention that is handled has an
\* open row, and no answer is out before a reply or a message was sent.
HandlingOK ==
    /\ pc \in Busy => cur \in Comments /\ summons[cur] = "open"
    /\ pc = "remove" => cur \in Comments
    /\ pc \notin {"log", "save", "remove"} => ~ sent

\* Every answer is accounted for: its record was lost, or it belongs to the
\* handling in progress, or to the closed row.
Ledger ==
    \A c \in Comments :
        /\ summons[c] # "closed" =>
             replies[c] + pms[c] = lost[c] + IF c = cur /\ sent /\ pc # "remove" THEN 1 ELSE 0
        /\ summons[c] = "closed" => replies[c] + pms[c] <= lost[c] + 1

IInv == TypeOK /\ HandlingOK /\ Ledger

LEMMA InitIInv == Init => IInv
<1> SUFFICES ASSUME Init PROVE IInv
  OBVIOUS
<1>1. watch \in [Users -> [Posts -> WatchStates]]
  <2>1. InitialWatches \subseteq WatchStates
    BY SummonsAssumption DEF WatchStates
  <2>2. watch \in [Users -> [Posts -> InitialWatches]]
    BY DEF Init
  <2>3. QED
    BY <2>1, <2>2
<1>2. /\ age \in [Comments -> Ages]
      /\ replies \in [Comments -> Nat] /\ pms \in [Comments -> Nat]
      /\ summons \in [Comments -> {"absent", "open", "closed"}]
      /\ record \in [Comments -> Outcomes]
      /\ lost \in [Comments -> Nat]
  BY DEF Init, Ages, Outcomes
<1>3. faults \in 0..MaxFaults
  BY SummonsAssumption DEF Init
<1>4. /\ authorless \subseteq Comments /\ inbox \in Seq(Comments)
      /\ removed \subseteq Comments /\ posts \subseteq Posts
      /\ botComments \subseteq BotComment
      /\ bannedUsers \subseteq Users /\ bannedSubs \subseteq Subs
      /\ todo \subseteq Comments /\ served \subseteq Comments
  BY DEF Init
<1>5. /\ pc \in PcStates /\ cur \in Comments \cup {NoComment}
      /\ outcome \in Outcomes /\ removing \in BOOLEAN /\ sent \in BOOLEAN
  BY DEF Init, PcStates, Busy, Outcomes
<1>6. TypeOK
  BY <1>1, <1>2, <1>3, <1>4, <1>5 DEF TypeOK
<1>7. HandlingOK /\ Ledger
  BY SummonsAssumption DEF Init, HandlingOK, Ledger, Busy
<1>8. QED
  BY <1>6, <1>7 DEF IInv

LEMMA TypeStep == TypeOK /\ HandlingOK /\ [Next]_vars => TypeOK'
<1> SUFFICES ASSUME TypeOK, HandlingOK, [Next]_vars PROVE TypeOK'
  OBVIOUS
<1> USE SummonsAssumption
    DEF TypeOK, HandlingOK, mentions, answers, rows, bans, handling, process,
        PcStates, Busy, Outcomes, Post, Sub, User
<1>1. ASSUME NEW c \in Comments, Mention(c) PROVE TypeOK'
  <2>1. /\ age' = [age EXCEPT ![c] = "hour"] /\ inbox' = <<c>> \o inbox
        /\ UNCHANGED <<authorless, answers, removed, posts, rows, botComments, bans,
                       watch, process, lost, served, faults>>
    BY <1>1 DEF Mention
  <2>2. inbox' \in Seq(Comments)
    BY <2>1, ConcatProperties
  <2>3. age' \in [Comments -> Ages]
    BY <2>1 DEF Ages
  <2> QED
    BY <2>1, <2>2, <2>3
<1>2. ASSUME NEW c \in Comments, GrowOld(c) PROVE TypeOK'
  BY <1>2 DEF GrowOld, Ages
<1>3. ASSUME NEW c \in Comments, LoseAuthor(c) PROVE TypeOK'
  BY <1>3 DEF LoseAuthor
<1>4. ASSUME NEW p \in Posts, IngestPost(p) PROVE TypeOK'
  BY <1>4 DEF IngestPost
<1>5. ASSUME NEW p \in Posts, AutoRespond(p) PROVE TypeOK'
  BY <1>5 DEF AutoRespond, BotComment, Sources
<1>6. ASSUME NEW s \in Subs, LiftSubBan(s) PROVE TypeOK'
  BY <1>6 DEF LiftSubBan
<1>7. ASSUME Poll PROVE TypeOK'
  BY <1>7 DEF Poll, Listing
<1>8. ASSUME PollDone PROVE TypeOK'
  BY <1>8 DEF PollDone
<1>9. ASSUME NEW c \in todo, SkipMention(c) PROVE TypeOK'
  BY <1>9 DEF SkipMention, NextMention
<1>10. ASSUME NEW c \in todo, Receive(c) PROVE TypeOK'
  BY <1>10 DEF Receive, NextMention
<1>11. ASSUME NEW c \in todo, Resume(c) PROVE TypeOK'
  BY <1>11 DEF Resume, NextMention
<1>12. ASSUME RejectType PROVE TypeOK'
  BY <1>12 DEF RejectType
<1>13. ASSUME RefuseBanned PROVE TypeOK'
  BY <1>13 DEF RefuseBanned
<1>14. ASSUME BanUser PROVE TypeOK'
  BY <1>14 DEF BanUser
<1>15. ASSUME PointToResponse PROVE TypeOK'
  BY <1>15 DEF PointToResponse, SubSettings
<1>16. ASSUME EnableWatch PROVE TypeOK'
  <2>1. cur \in Comments /\ User \in Users /\ Post \in Posts
    BY <1>16 DEF EnableWatch, Execute
  <2>2. watch' \in [Users -> [Posts -> WatchStates]]
    <3>1. CASE UNCHANGED watch
      BY <3>1
    <3>2. CASE watch' = [watch EXCEPT ![User][Post] = "enabled"]
      BY <2>1, <3>2 DEF WatchStates
    <3>3. QED
      BY <1>16, <3>1, <3>2 DEF EnableWatch
  <2>3. QED
    BY <1>16, <2>1, <2>2 DEF EnableWatch, Execute
<1>17. ASSUME DisableWatch PROVE TypeOK'
  <2>1. cur \in Comments /\ User \in Users /\ Post \in Posts
    BY <1>17 DEF DisableWatch, Execute
  <2>2. watch' \in [Users -> [Posts -> WatchStates]]
    <3>1. CASE UNCHANGED watch
      BY <3>1
    <3>2. CASE watch' = [watch EXCEPT ![User][Post] = "disabled"]
      BY <2>1, <3>2 DEF WatchStates
    <3>3. QED
      BY <1>17, <3>1, <3>2 DEF DisableWatch
  <2>3. QED
    BY <1>17, <2>1, <2>2 DEF DisableWatch, Execute
<1>18. ASSUME SearchReposts PROVE TypeOK'
  BY <1>18 DEF SearchReposts, Execute
<1>19. ASSUME PostReply PROVE TypeOK'
  <2>1. replies' \in [Comments -> Nat]
    BY <1>19 DEF PostReply, SubAllows
  <2>2. QED
    BY <1>19, <2>1 DEF PostReply
<1>20. ASSUME ReplyForbidden PROVE TypeOK'
  BY <1>20, SMTT(30) DEF ReplyForbidden, SubAllows
<1>21. ASSUME ReplyRefused PROVE TypeOK'
  BY <1>21 DEF ReplyRefused, SubAllows
<1>22. ASSUME ReplyRateLimited PROVE TypeOK'
  BY <1>22 DEF ReplyRateLimited, SubAllows
<1>23. ASSUME LogReply PROVE TypeOK'
  BY <1>23 DEF LogReply, BotComment, Sources
<1>24. ASSUME SendPm PROVE TypeOK'
  <2>1. pms' \in [Comments -> Nat]
    BY <1>24, SMTT(30) DEF SendPm, SendsPm
  <2>2. sent' \in BOOLEAN
    BY <1>24 DEF SendPm
  <2>3. pc' \in PcStates /\ outcome' \in Outcomes
    BY <1>24 DEF SendPm
  <2>4. UNCHANGED <<mentions, replies, removed, posts, rows, botComments, bans,
                    watch, todo, cur, removing, lost, served, faults>>
    BY <1>24 DEF SendPm
  <2>5. QED
    BY <2>1, <2>2, <2>3, <2>4
<1>25. ASSUME SendNotice PROVE TypeOK'
  <2>1. pms' \in [Comments -> Nat]
    <3>1. CASE pms' = [pms EXCEPT ![cur] = @ + 1]
      BY <1>25, <3>1 DEF SendNotice
    <3>2. QED
      BY <1>25, <3>1 DEF SendNotice
  <2>2. sent' \in BOOLEAN
    BY <1>25 DEF SendNotice
  <2>3. QED
    BY <1>25, <2>1, <2>2 DEF SendNotice
<1>26. ASSUME SaveResponse PROVE TypeOK'
  BY <1>26 DEF SaveResponse, AfterSave, EndHandling
<1>27. ASSUME DeleteMention PROVE TypeOK'
  BY <1>27 DEF DeleteMention, EndHandling
<1>28. ASSUME SaveFails PROVE TypeOK'
  <2>1. lost' \in [Comments -> Nat] /\ faults' \in 0..MaxFaults
    BY <1>28 DEF SaveFails, Fault, Forget
  <2>2. QED
    BY <1>28, <2>1 DEF SaveFails, AfterSave, EndHandling
<1>29. ASSUME HandlingRaises PROVE TypeOK'
  <2>1. lost' \in [Comments -> Nat] /\ faults' \in 0..MaxFaults
    BY <1>29 DEF HandlingRaises, Fault, Forget
  <2>2. QED
    BY <1>29, <2>1 DEF HandlingRaises, EndHandling
<1>30. ASSUME AnswerUnacknowledged PROVE TypeOK'
  <2>1. cur \in Comments
    BY <1>30 DEF AnswerUnacknowledged, SubAllows, SendsPm
  <2>2. lost' \in [Comments -> Nat] /\ faults' \in 0..MaxFaults
    BY <1>30, <2>1 DEF AnswerUnacknowledged, Fault
  <2>3. replies' \in [Comments -> Nat] /\ pms' \in [Comments -> Nat]
    <3>1. CASE replies' = [replies EXCEPT ![cur] = @ + 1] /\ UNCHANGED pms
      BY <2>1, <3>1
    <3>2. CASE pms' = [pms EXCEPT ![cur] = @ + 1] /\ UNCHANGED replies
      BY <2>1, <3>2
    <3>3. QED
      BY <1>30, <3>1, <3>2 DEF AnswerUnacknowledged
  <2>4. QED
    BY <1>30, <2>2, <2>3 DEF AnswerUnacknowledged, EndHandling
<1>31. ASSUME Crash PROVE TypeOK'
  <2>1. lost' \in [Comments -> Nat] /\ faults' \in 0..MaxFaults
    BY <1>31 DEF Crash, Fault
  <2>2. QED
    BY <1>31, <2>1 DEF Crash
<1>32. CASE UNCHANGED vars
  BY <1>32 DEF vars
<1>33. QED
  BY <1>1, <1>2, <1>3, <1>4, <1>5, <1>6, <1>7, <1>8, <1>9, <1>10, <1>11,
     <1>12, <1>13, <1>14, <1>15, <1>16, <1>17, <1>18, <1>19, <1>20, <1>21,
     <1>22, <1>23, <1>24, <1>25, <1>26, <1>27, <1>28, <1>29, <1>30, <1>31,
     <1>32
     DEF Next, Environment, Service, Monitor, Handler, Failure

LEMMA HandlingStep == TypeOK /\ HandlingOK /\ [Next]_vars => HandlingOK'
<1> SUFFICES ASSUME TypeOK, HandlingOK, [Next]_vars PROVE HandlingOK'
  OBVIOUS
<1> USE SummonsAssumption
    DEF TypeOK, HandlingOK, mentions, answers, rows, bans, handling, process, Busy, PcStates
<1>1. ASSUME NEW c \in Comments, Mention(c) PROVE HandlingOK'
  BY <1>1 DEF Mention
<1>2. ASSUME NEW c \in Comments, GrowOld(c) PROVE HandlingOK'
  BY <1>2 DEF GrowOld
<1>3. ASSUME NEW c \in Comments, LoseAuthor(c) PROVE HandlingOK'
  BY <1>3 DEF LoseAuthor
<1>4. ASSUME NEW p \in Posts, IngestPost(p) PROVE HandlingOK'
  BY <1>4 DEF IngestPost
<1>5. ASSUME NEW p \in Posts, AutoRespond(p) PROVE HandlingOK'
  BY <1>5 DEF AutoRespond
<1>6. ASSUME NEW s \in Subs, LiftSubBan(s) PROVE HandlingOK'
  BY <1>6 DEF LiftSubBan
<1>7. ASSUME Poll PROVE HandlingOK'
  BY <1>7 DEF Poll
<1>8. ASSUME PollDone PROVE HandlingOK'
  BY <1>8 DEF PollDone
<1>9. ASSUME NEW c \in todo, SkipMention(c) PROVE HandlingOK'
  BY <1>9 DEF SkipMention, NextMention
<1>10. ASSUME NEW c \in todo, Receive(c) PROVE HandlingOK'
  BY <1>10 DEF Receive, NextMention
<1>11. ASSUME NEW c \in todo, Resume(c) PROVE HandlingOK'
  BY <1>11 DEF Resume, NextMention
<1>12. ASSUME RejectType PROVE HandlingOK'
  BY <1>12 DEF RejectType
<1>13. ASSUME RefuseBanned PROVE HandlingOK'
  BY <1>13 DEF RefuseBanned
<1>14. ASSUME BanUser PROVE HandlingOK'
  BY <1>14 DEF BanUser
<1>15. ASSUME PointToResponse PROVE HandlingOK'
  BY <1>15 DEF PointToResponse
<1>16. ASSUME EnableWatch PROVE HandlingOK'
  BY <1>16 DEF EnableWatch, Execute
<1>17. ASSUME DisableWatch PROVE HandlingOK'
  BY <1>17 DEF DisableWatch, Execute
<1>18. ASSUME SearchReposts PROVE HandlingOK'
  BY <1>18 DEF SearchReposts, Execute
<1>19. ASSUME PostReply PROVE HandlingOK'
  BY <1>19 DEF PostReply, SubAllows
<1>20. ASSUME ReplyForbidden PROVE HandlingOK'
  BY <1>20 DEF ReplyForbidden, SubAllows
<1>21. ASSUME ReplyRefused PROVE HandlingOK'
  BY <1>21 DEF ReplyRefused, SubAllows
<1>22. ASSUME ReplyRateLimited PROVE HandlingOK'
  BY <1>22 DEF ReplyRateLimited, SubAllows
<1>23. ASSUME LogReply PROVE HandlingOK'
  BY <1>23 DEF LogReply
<1>24. ASSUME SendPm PROVE HandlingOK'
  BY <1>24 DEF SendPm, SendsPm
<1>25. ASSUME SendNotice PROVE HandlingOK'
  BY <1>25 DEF SendNotice
<1>26. ASSUME SaveResponse PROVE HandlingOK'
  BY <1>26 DEF SaveResponse, AfterSave, EndHandling
<1>27. ASSUME DeleteMention PROVE HandlingOK'
  BY <1>27 DEF DeleteMention, EndHandling
<1>28. ASSUME SaveFails PROVE HandlingOK'
  BY <1>28 DEF SaveFails, Fault, Forget, AfterSave, EndHandling
<1>29. ASSUME HandlingRaises PROVE HandlingOK'
  BY <1>29 DEF HandlingRaises, Fault, Forget, EndHandling
<1>30. ASSUME AnswerUnacknowledged PROVE HandlingOK'
  BY <1>30 DEF AnswerUnacknowledged, SubAllows, SendsPm, Fault, EndHandling
<1>31. ASSUME Crash PROVE HandlingOK'
  BY <1>31 DEF Crash, Fault
<1>32. CASE UNCHANGED vars
  BY <1>32 DEF vars
<1>33. QED
  BY <1>1, <1>2, <1>3, <1>4, <1>5, <1>6, <1>7, <1>8, <1>9, <1>10, <1>11,
     <1>12, <1>13, <1>14, <1>15, <1>16, <1>17, <1>18, <1>19, <1>20, <1>21,
     <1>22, <1>23, <1>24, <1>25, <1>26, <1>27, <1>28, <1>29, <1>30, <1>31,
     <1>32
     DEF Next, Environment, Service, Monitor, Handler, Failure

LEMMA LedgerStep == TypeOK /\ HandlingOK /\ Ledger /\ [Next]_vars => Ledger'
<1> SUFFICES ASSUME TypeOK, HandlingOK, Ledger, [Next]_vars PROVE Ledger'
  OBVIOUS
<1> USE SummonsAssumption
    DEF TypeOK, HandlingOK, Ledger, mentions, answers, rows, bans, handling, process, Busy, PcStates
<1>1. ASSUME NEW c \in Comments, Mention(c) PROVE Ledger'
  BY <1>1 DEF Mention
<1>2. ASSUME NEW c \in Comments, GrowOld(c) PROVE Ledger'
  BY <1>2 DEF GrowOld
<1>3. ASSUME NEW c \in Comments, LoseAuthor(c) PROVE Ledger'
  BY <1>3 DEF LoseAuthor
<1>4. ASSUME NEW p \in Posts, IngestPost(p) PROVE Ledger'
  BY <1>4 DEF IngestPost
<1>5. ASSUME NEW p \in Posts, AutoRespond(p) PROVE Ledger'
  BY <1>5 DEF AutoRespond
<1>6. ASSUME NEW s \in Subs, LiftSubBan(s) PROVE Ledger'
  BY <1>6 DEF LiftSubBan
<1>7. ASSUME Poll PROVE Ledger'
  BY <1>7 DEF Poll
<1>8. ASSUME PollDone PROVE Ledger'
  BY <1>8 DEF PollDone
<1>9. ASSUME NEW c \in todo, SkipMention(c) PROVE Ledger'
  BY <1>9 DEF SkipMention, NextMention
<1>10. ASSUME NEW c \in todo, Receive(c) PROVE Ledger'
  BY <1>10 DEF Receive, NextMention
<1>11. ASSUME NEW c \in todo, Resume(c) PROVE Ledger'
  BY <1>11 DEF Resume, NextMention
<1>12. ASSUME RejectType PROVE Ledger'
  BY <1>12 DEF RejectType
<1>13. ASSUME RefuseBanned PROVE Ledger'
  BY <1>13 DEF RefuseBanned
<1>14. ASSUME BanUser PROVE Ledger'
  BY <1>14 DEF BanUser
<1>15. ASSUME PointToResponse PROVE Ledger'
  BY <1>15 DEF PointToResponse
<1>16. ASSUME EnableWatch PROVE Ledger'
  BY <1>16 DEF EnableWatch, Execute
<1>17. ASSUME DisableWatch PROVE Ledger'
  BY <1>17 DEF DisableWatch, Execute
<1>18. ASSUME SearchReposts PROVE Ledger'
  BY <1>18 DEF SearchReposts, Execute
<1>19. ASSUME PostReply PROVE Ledger'
  BY <1>19, SMTT(30) DEF PostReply, SubAllows
<1>20. ASSUME ReplyForbidden PROVE Ledger'
  BY <1>20 DEF ReplyForbidden, SubAllows
<1>21. ASSUME ReplyRefused PROVE Ledger'
  BY <1>21 DEF ReplyRefused, SubAllows
<1>22. ASSUME ReplyRateLimited PROVE Ledger'
  BY <1>22 DEF ReplyRateLimited, SubAllows
<1>23. ASSUME LogReply PROVE Ledger'
  BY <1>23, SMTT(30) DEF LogReply
<1>24. ASSUME SendPm PROVE Ledger'
  BY <1>24, SMTT(30) DEF SendPm, SendsPm
<1>25. ASSUME SendNotice PROVE Ledger'
  BY <1>25, SMTT(30) DEF SendNotice
<1>26. ASSUME SaveResponse PROVE Ledger'
  BY <1>26 DEF SaveResponse, AfterSave, EndHandling
<1>27. ASSUME DeleteMention PROVE Ledger'
  BY <1>27 DEF DeleteMention, EndHandling
<1>28. ASSUME SaveFails PROVE Ledger'
  BY <1>28 DEF SaveFails, Fault, Forget, AfterSave, EndHandling
<1>29. ASSUME HandlingRaises PROVE Ledger'
  BY <1>29 DEF HandlingRaises, Fault, Forget, EndHandling
<1>30. ASSUME AnswerUnacknowledged PROVE Ledger'
  <2>1. cur \in Comments /\ summons[cur] = "open" /\ ~ sent
    BY <1>30 DEF AnswerUnacknowledged, SubAllows, SendsPm
  <2>2. /\ lost' = [lost EXCEPT ![cur] = @ + 1]
        /\ \/ replies' = [replies EXCEPT ![cur] = @ + 1] /\ pms' = pms
           \/ pms' = [pms EXCEPT ![cur] = @ + 1] /\ replies' = replies
        /\ summons' = summons /\ sent' = FALSE
    BY <1>30 DEF AnswerUnacknowledged, EndHandling
  <2>3. ASSUME NEW c \in Comments
        PROVE  /\ replies[c] \in Nat /\ pms[c] \in Nat /\ lost[c] \in Nat
               /\ lost'[c] = IF c = cur THEN lost[c] + 1 ELSE lost[c]
               /\ replies'[c] + pms'[c] =
                    IF c = cur THEN replies[c] + pms[c] + 1 ELSE replies[c] + pms[c]
    <3>1. replies[c] \in Nat /\ pms[c] \in Nat /\ lost[c] \in Nat
      OBVIOUS
    <3>2. lost'[c] = IF c = cur THEN lost[c] + 1 ELSE lost[c]
      BY <2>1, <2>2
    <3>3. CASE replies' = [replies EXCEPT ![cur] = @ + 1] /\ pms' = pms
      <4>1. replies'[c] = IF c = cur THEN replies[c] + 1 ELSE replies[c]
        BY <2>1, <3>3
      <4>2. QED
        BY <3>1, <3>2, <3>3, <4>1
    <3>4. CASE pms' = [pms EXCEPT ![cur] = @ + 1] /\ replies' = replies
      <4>1. pms'[c] = IF c = cur THEN pms[c] + 1 ELSE pms[c]
        BY <2>1, <3>4
      <4>2. QED
        BY <3>1, <3>2, <3>4, <4>1
    <3>5. QED
      BY <2>2, <3>3, <3>4
  <2>4. QED
    BY <2>1, <2>2, <2>3, SMTT(30)
<1>31. ASSUME Crash PROVE Ledger'
  BY <1>31, SMTT(30) DEF Crash, Fault
<1>32. CASE UNCHANGED vars
  BY <1>32 DEF vars
<1>33. QED
  BY <1>1, <1>2, <1>3, <1>4, <1>5, <1>6, <1>7, <1>8, <1>9, <1>10, <1>11,
     <1>12, <1>13, <1>14, <1>15, <1>16, <1>17, <1>18, <1>19, <1>20, <1>21,
     <1>22, <1>23, <1>24, <1>25, <1>26, <1>27, <1>28, <1>29, <1>30, <1>31,
     <1>32
     DEF Next, Environment, Service, Monitor, Handler, Failure

THEOREM SummonsInvariant == Spec => []IInv
<1>1. IInv /\ [Next]_vars => IInv'
  BY TypeStep, HandlingStep, LedgerStep DEF IInv
<1>2. QED
  BY InitIInv, <1>1, PTL DEF Spec

\* The types of the service's state.
THEOREM SummonsTypeOK == Spec => []TypeOK
<1>1. IInv => TypeOK
  BY DEF IInv
<1>2. QED
  BY SummonsInvariant, <1>1, PTL

\* A mention is answered once, plus once for each answer whose record a
\* failure lost.
THEOREM SummonsAnsweredOnce == Spec => []AnsweredOnce
<1>1. ASSUME IInv, NEW c \in Comments
      PROVE  replies[c] + pms[c] <= lost[c] + 1
  <2>1. replies[c] \in Nat /\ pms[c] \in Nat /\ lost[c] \in Nat
    BY <1>1 DEF IInv, TypeOK
  <2>2. CASE summons[c] = "closed"
    BY <1>1, <2>2 DEF IInv, Ledger
  <2>3. CASE summons[c] # "closed"
    BY <1>1, <2>1, <2>3 DEF IInv, Ledger
  <2>4. QED
    BY <2>2, <2>3
<1>2. IInv => AnsweredOnce
  BY <1>1 DEF AnsweredOnce
<1>3. QED
  BY SummonsInvariant, <1>2, PTL

\* A closed summons is final: nothing answers it again or rewrites its row.
THEOREM SummonsClosedIsFinal == Spec => ClosedIsFinal
<1> DEFINE Final == \A c \in Comments : summons[c] = "closed" =>
                      /\ summons'[c] = "closed"
                      /\ record'[c] = record[c]
                      /\ replies'[c] = replies[c]
                      /\ pms'[c] = pms[c]
<1>1. IInv /\ [Next]_vars => Final
  <2> SUFFICES ASSUME IInv, [Next]_vars, NEW c \in Comments, summons[c] = "closed"
               PROVE  /\ summons'[c] = "closed" /\ record'[c] = record[c]
                      /\ replies'[c] = replies[c] /\ pms'[c] = pms[c]
    OBVIOUS
  <2> USE DEF IInv, TypeOK, HandlingOK, Busy, answers, rows
  <2>1. CASE UNCHANGED <<answers, rows>>
    BY <2>1
  <2>2. CASE PostReply \/ SendPm \/ SendNotice \/ AnswerUnacknowledged
    <3>1. cur # c
      BY <2>2 DEF PostReply, SendPm, SendNotice, AnswerUnacknowledged, SubAllows, SendsPm
    <3>2. UNCHANGED rows
      BY <2>2 DEF PostReply, SendPm, SendNotice, AnswerUnacknowledged
    <3>3. \/ UNCHANGED replies
          \/ replies' = [replies EXCEPT ![cur] = @ + 1]
      BY <2>2 DEF PostReply, SendPm, SendNotice, AnswerUnacknowledged
    <3>4. \/ UNCHANGED pms
          \/ pms' = [pms EXCEPT ![cur] = @ + 1]
      BY <2>2 DEF PostReply, SendPm, SendNotice, AnswerUnacknowledged
    <3>5. QED
      BY <3>1, <3>2, <3>3, <3>4
  <2>3. CASE SaveResponse
    BY <2>3 DEF SaveResponse
  <2>4. ASSUME NEW d \in todo, Receive(d)
        PROVE  UNCHANGED <<answers, record>> /\ summons'[c] = summons[c]
    BY <2>4 DEF Receive, NextMention
  <2>5. \/ UNCHANGED <<answers, rows>>
        \/ PostReply \/ SendPm \/ SendNotice \/ AnswerUnacknowledged
        \/ SaveResponse
        \/ \E d \in todo : Receive(d)
    BY DEF Next, Environment, Service, Monitor, Handler, Failure, vars,
           Mention, GrowOld, LoseAuthor, IngestPost, AutoRespond, LiftSubBan,
           Poll, PollDone, SkipMention, Resume, RejectType, RefuseBanned, BanUser,
           PointToResponse, EnableWatch, DisableWatch, SearchReposts, Execute,
           ReplyForbidden, ReplyRefused, ReplyRateLimited, LogReply, DeleteMention,
           SaveFails, HandlingRaises, Crash
  <2>6. QED
    BY <2>1, <2>2, <2>3, <2>4, <2>5
<1>2. QED
  BY SummonsInvariant, <1>1, PTL DEF Spec, ClosedIsFinal

-----------------------------------------------------------------------------
(* Limits and bans.                                                        *)

\* A row belongs to a mention that was sent, and only summons with a row have
\* been served.
Rooted ==
    /\ \A i \in DOMAIN inbox : age[inbox[i]] # "unsent"
    /\ \A c \in todo : age[c] # "unsent"
    /\ \A c \in Comments : summons[c] # "absent" => age[c] # "unsent"
    /\ \A c \in served : summons[c] # "absent"

\* What is being answered on a post of a type the bot searches was admitted.
AdmittedOK == pc = "respond" /\ Supported => User \notin bannedUsers

\* A list with one more element in front holds it and the list's elements.
LEMMA InFront ==
    ASSUME NEW S, NEW e \in S, NEW q \in Seq(S), NEW i \in DOMAIN (<<e>> \o q)
    PROVE  \/ (<<e>> \o q)[i] = e
           \/ i - 1 \in DOMAIN q /\ (<<e>> \o q)[i] = q[i - 1]
<1>1. <<e>> \in Seq(S) /\ Len(<<e>>) = 1 /\ <<e>>[1] = e
  OBVIOUS
<1>2. Len(q) \in Nat /\ DOMAIN q = 1..Len(q)
  OBVIOUS
<1>3. i \in 1..(1 + Len(q))
  BY <1>1
<1>4. CASE i = 1
  BY <1>1, <1>4
<1>5. CASE i # 1
  <2>1. (<<e>> \o q)[i] = q[i - 1]
    BY <1>1, <1>2, <1>3, <1>5
  <2>2. QED
    BY <1>2, <1>3, <1>5, <2>1
<1>6. QED
  BY <1>4, <1>5

LEMMA RootedStep == IInv /\ Rooted /\ [Next]_vars => Rooted'
<1> SUFFICES ASSUME IInv, Rooted, [Next]_vars PROVE Rooted'
  OBVIOUS
<1> USE SummonsAssumption DEF IInv, TypeOK, HandlingOK, Rooted, Busy
<1>1. ASSUME NEW c \in Comments, Mention(c) PROVE Rooted'
  <2>1. /\ age' = [age EXCEPT ![c] = "hour"]
        /\ inbox' = <<c>> \o inbox
        /\ UNCHANGED <<summons, todo, served>>
    BY <1>1 DEF Mention, rows, process
  <2>2. ASSUME NEW d \in Comments, age[d] # "unsent" PROVE age'[d] # "unsent"
    BY <2>1, <2>2
  <2>3. age'[c] # "unsent"
    BY <2>1
  <2>4. ASSUME NEW i \in DOMAIN inbox' PROVE age'[inbox'[i]] # "unsent"
    <3>1. \/ inbox'[i] = c
          \/ i - 1 \in DOMAIN inbox /\ inbox'[i] = inbox[i - 1]
      BY <2>1, InFront
    <3>2. ASSUME NEW j \in DOMAIN inbox PROVE inbox[j] \in Comments
      OBVIOUS
    <3>3. QED
      BY <2>2, <2>3, <3>1, <3>2
  <2>5. QED
    BY <2>1, <2>2, <2>4
<1>2. ASSUME NEW c \in Comments, GrowOld(c) PROVE Rooted'
  <2>1. ASSUME NEW d \in Comments, age[d] # "unsent" PROVE age'[d] # "unsent"
    BY <1>2, <2>1 DEF GrowOld
  <2>2. ASSUME NEW j \in DOMAIN inbox PROVE inbox[j] \in Comments
    OBVIOUS
  <2>3. UNCHANGED <<inbox, summons, todo, served>>
    BY <1>2 DEF GrowOld, rows, process
  <2>4. QED
    BY <2>1, <2>2, <2>3
<1>3. CASE Poll
  BY <1>3 DEF Poll, Listing, mentions, rows
<1>4. ASSUME NEW c \in todo, SkipMention(c) PROVE Rooted'
  BY <1>4 DEF SkipMention, NextMention, mentions, rows
<1>5. ASSUME NEW c \in todo, Receive(c) PROVE Rooted'
  BY <1>5 DEF Receive, NextMention, mentions
<1>6. ASSUME NEW c \in todo, Resume(c) PROVE Rooted'
  BY <1>6 DEF Resume, NextMention, mentions, rows
<1>7. ASSUME NEW command, Execute(command) PROVE Rooted'
  BY <1>7 DEF Execute, mentions, rows
<1>8. CASE SaveResponse
  BY <1>8 DEF SaveResponse, AfterSave, EndHandling, mentions
<1>9. CASE Crash
  BY <1>9 DEF Crash, mentions, rows
<1>10. CASE UNCHANGED <<age, inbox, summons, todo, served>>
  BY <1>10
<1>11. \/ \E c \in Comments : Mention(c) \/ GrowOld(c)
       \/ Poll \/ SaveResponse \/ Crash
       \/ \E c \in todo : SkipMention(c) \/ Receive(c) \/ Resume(c)
       \/ \E command \in Commands : Execute(command)
       \/ UNCHANGED <<age, inbox, summons, todo, served>>
  BY DEF Next, Environment, Service, Monitor, Handler, Failure, vars, Commands,
         LoseAuthor, IngestPost, AutoRespond, LiftSubBan, PollDone, RejectType,
         RefuseBanned, BanUser, PointToResponse, EnableWatch, DisableWatch,
         SearchReposts, PostReply, ReplyForbidden, ReplyRefused,
         ReplyRateLimited, LogReply, SendPm, SendNotice, DeleteMention, SaveFails,
         HandlingRaises, AnswerUnacknowledged, AfterSave, EndHandling,
         mentions, rows, process, handling
<1>12. QED
  BY <1>1, <1>2, <1>3, <1>4, <1>5, <1>6, <1>7, <1>8, <1>9, <1>10, <1>11

\* The commands executed for a user in one hour stay within the limit: every
\* served summons has a row, and the rows of the hour are what is_banned counts.
LEMMA LimitStep ==
    IInv /\ Rooted /\ ServedWithinLimit /\ [Next]_vars => ServedWithinLimit'
<1> DEFINE Served(u) == {c \in served : Author[c] = u /\ age[c] = "hour"}
<1> SUFFICES ASSUME IInv, Rooted, ServedWithinLimit, [Next]_vars, NEW u \in Users
             PROVE  Cardinality(Served(u)') <= SummonsMaxPerHour
  BY DEF ServedWithinLimit
<1> USE SummonsAssumption DEF IInv, TypeOK, HandlingOK, Busy
<1>1. Cardinality(Served(u)) <= SummonsMaxPerHour
  BY DEF ServedWithinLimit
<1>2. IsFiniteSet(Served(u))
  <2>1. Served(u) \subseteq Comments
    OBVIOUS
  <2>2. QED
    BY <2>1, FS_Subset
<1>3. ASSUME Served(u)' \subseteq Served(u) PROVE Cardinality(Served(u)') <= SummonsMaxPerHour
  <2>1. /\ Cardinality(Served(u)') <= Cardinality(Served(u))
        /\ Cardinality(Served(u)) \in Nat /\ Cardinality(Served(u)') \in Nat
    BY <1>2, <1>3, FS_Subset, FS_CardinalityType
  <2>2. QED
    BY <1>1, <2>1
<1>4. CASE UNCHANGED <<age, served>>
  BY <1>3, <1>4
<1>5. ASSUME NEW c \in Comments, Mention(c) PROVE Served(u)' \subseteq Served(u)
  BY <1>5 DEF Mention, Rooted
<1>6. ASSUME NEW c \in Comments, GrowOld(c) PROVE Served(u)' \subseteq Served(u)
  BY <1>6 DEF GrowOld
<1>7. ASSUME NEW command, Execute(command)
      PROVE  Cardinality(Served(u)') <= SummonsMaxPerHour
  <2>1. /\ cur \in Comments /\ summons[cur] = "open" /\ Admitted
        /\ served' = served \cup {cur} /\ age' = age
    BY <1>7 DEF Execute, mentions
  <2>2. CASE Author[cur] # u
    BY <1>3, <2>1, <2>2
  <2>3. CASE Author[cur] = u
    <3>1. Served(u)' \subseteq RowsLastHour(u)
      BY <2>1 DEF Rooted, RowsLastHour
    <3>2. RowsLastHour(u) \subseteq Comments
      BY DEF RowsLastHour
    <3>3. /\ IsFiniteSet(RowsLastHour(u))
          /\ Cardinality(RowsLastHour(u)) \in Nat
      BY <3>2, FS_Subset, FS_CardinalityType
    <3>4. /\ Cardinality(Served(u)') <= Cardinality(RowsLastHour(u))
          /\ Cardinality(Served(u)') \in Nat
      BY <3>1, <3>3, FS_Subset, FS_CardinalityType
    <3>5. ~ (Cardinality(RowsLastHour(u)) > SummonsMaxPerHour)
      BY <2>1, <2>3 DEF Admitted, OverLimit, User
    <3>6. QED
      BY <3>3, <3>4, <3>5
  <2>4. QED
    BY <2>2, <2>3
<1>8. \/ \E c \in Comments : Mention(c) \/ GrowOld(c)
      \/ \E command \in Commands : Execute(command)
      \/ UNCHANGED <<age, served>>
  BY DEF Next, Environment, Service, Monitor, Handler, Failure, vars, Commands,
         LoseAuthor, IngestPost, AutoRespond, LiftSubBan, Poll, PollDone,
         SkipMention, Receive, Resume, RejectType, RefuseBanned, BanUser,
         PointToResponse, EnableWatch, DisableWatch, SearchReposts, PostReply,
         ReplyForbidden, ReplyRefused, ReplyRateLimited, LogReply, SendPm,
         SendNotice, SaveResponse, DeleteMention, SaveFails, HandlingRaises,
         AnswerUnacknowledged, Crash, mentions
<1>9. QED
  BY <1>3, <1>4, <1>5, <1>6, <1>7, <1>8

LEMMA AdmittedStep == IInv /\ AdmittedOK /\ [Next]_vars => AdmittedOK'
<1> SUFFICES ASSUME IInv, AdmittedOK, [Next]_vars PROVE AdmittedOK'
  OBVIOUS
<1> USE DEF AdmittedOK, Supported, Post, User
<1>1. CASE UNCHANGED <<pc, cur, bannedUsers>>
  BY <1>1
<1>2. ASSUME pc' # "respond" PROVE AdmittedOK'
  BY <1>2
<1>3. CASE RejectType
  BY <1>3 DEF RejectType, handling
<1>4. ASSUME NEW command, Execute(command) PROVE AdmittedOK'
  BY <1>4 DEF Execute, Admitted, bans, handling
<1>5. \/ UNCHANGED <<pc, cur, bannedUsers>>
      \/ pc' # "respond"
      \/ RejectType
      \/ \E command \in Commands : Execute(command)
  BY DEF Next, Environment, Service, Monitor, Handler, Failure, vars, Commands,
         Mention, GrowOld, LoseAuthor, IngestPost, AutoRespond, LiftSubBan, Poll,
         PollDone, SkipMention, Receive, Resume, RefuseBanned, BanUser,
         PointToResponse, EnableWatch, DisableWatch, SearchReposts, PostReply,
         ReplyForbidden, ReplyRefused, ReplyRateLimited, LogReply, SendPm,
         SendNotice, SaveResponse, DeleteMention, SaveFails, HandlingRaises,
         AnswerUnacknowledged, Crash, AfterSave, EndHandling, process, bans
<1>6. QED
  BY <1>1, <1>2, <1>3, <1>4, <1>5

THEOREM SummonsAdmission == Spec => [](IInv /\ Rooted /\ ServedWithinLimit /\ AdmittedOK)
<1>1. Init => Rooted /\ AdmittedOK
  BY DEF Init, Rooted, AdmittedOK
<1>2. Init => ServedWithinLimit
  <2>1. ASSUME Init, NEW u \in Users
        PROVE  {c \in served : Author[c] = u /\ age[c] = "hour"} = {}
    BY <2>1 DEF Init
  <2>2. Cardinality({}) = 0 /\ SummonsMaxPerHour \in Nat
    BY FS_EmptySet, SummonsAssumption
  <2>3. QED
    BY <2>1, <2>2 DEF ServedWithinLimit
<1>3. IInv /\ [Next]_vars => IInv'
  BY TypeStep, HandlingStep, LedgerStep DEF IInv
<1>4. QED
  BY InitIInv, <1>1, <1>2, <1>3, RootedStep, LimitStep, AdmittedStep, PTL DEF Spec

\* Of the summons of one user and one hour at most summons_max_per_hour have
\* their command executed.
THEOREM SummonsServedWithinLimit == Spec => []ServedWithinLimit
  BY SummonsAdmission, PTL

\* No reply goes to a banned user, whatever happened since the ban was checked.
THEOREM SummonsBannedGetNoReply == Spec => BannedGetNoReply
<1> DEFINE NoReply == \A c \in Comments :
                        /\ replies'[c] > replies[c]
                        /\ PostType[PostOf[c]] \notin {"none", "unsupported"}
                        => Author[c] \notin bannedUsers
<1>1. IInv /\ AdmittedOK /\ [Next]_vars => NoReply
  <2> SUFFICES ASSUME IInv, AdmittedOK, [Next]_vars, NEW c \in Comments,
                      replies'[c] > replies[c],
                      PostType[PostOf[c]] \notin {"none", "unsupported"}
               PROVE  Author[c] \notin bannedUsers
    OBVIOUS
  <2>1. replies[c] \in Nat
    BY DEF IInv, TypeOK
  <2>2. \/ UNCHANGED replies
        \/ pc = "respond" /\ replies' = [replies EXCEPT ![cur] = @ + 1]
    BY DEF Next, Environment, Service, Monitor, Handler, Failure, vars, answers,
           Mention, GrowOld, LoseAuthor, IngestPost, AutoRespond, LiftSubBan,
           Poll, PollDone, SkipMention, Receive, Resume, RejectType, RefuseBanned,
           BanUser, PointToResponse, EnableWatch, DisableWatch, SearchReposts,
           Execute, PostReply, SubAllows, ReplyForbidden, ReplyRefused,
           ReplyRateLimited, LogReply, SendPm, SendNotice, SaveResponse,
           DeleteMention, SaveFails, HandlingRaises, AnswerUnacknowledged, Crash
  <2>3. pc = "respond" /\ c = cur
    BY <2>1, <2>2 DEF IInv, TypeOK
  <2>4. QED
    BY <2>3 DEF AdmittedOK, Supported, Post, User
<1>2. QED
  BY SummonsAdmission, <1>1, PTL DEF Spec, BannedGetNoReply

-----------------------------------------------------------------------------
(* What a closed row refers to.                                            *)

\* A handling that is to record a comment has left it and logged it.
Logged(c) == replies[c] > 0 /\ [post |-> PostOf[c], source |-> "summons"] \in botComments

RecordOK ==
    /\ pc = "log" => replies[cur] > 0
    /\ outcome = "comment" => pc \in {"save", "remove"} /\ Logged(cur)
    /\ \A c \in Comments : record[c] = "comment" => Logged(c)

LEMMA RecordStep == IInv /\ RecordOK /\ [Next]_vars => RecordOK'
<1> SUFFICES ASSUME IInv, RecordOK, [Next]_vars PROVE RecordOK'
  OBVIOUS
<1>1. ASSUME NEW c \in Comments
      PROVE  /\ replies[c] \in Nat /\ replies'[c] \in Nat /\ replies'[c] >= replies[c]
             /\ botComments \subseteq botComments'
  <2>1. replies \in [Comments -> Nat]
    BY DEF IInv, TypeOK
  <2>2. UNCHANGED replies \/ replies' = [replies EXCEPT ![cur] = @ + 1]
    BY DEF Next, Environment, Service, Monitor, Handler, Failure, vars, answers,
           Mention, GrowOld, LoseAuthor, IngestPost, AutoRespond, LiftSubBan,
           Poll, PollDone, SkipMention, Receive, Resume, RejectType, RefuseBanned,
           BanUser, PointToResponse, EnableWatch, DisableWatch, SearchReposts,
           Execute, PostReply, SubAllows, ReplyForbidden, ReplyRefused,
           ReplyRateLimited, LogReply, SendPm, SendNotice, SaveResponse,
           DeleteMention, SaveFails, HandlingRaises, AnswerUnacknowledged, Crash
  <2>3. replies'[c] \in Nat /\ replies'[c] >= replies[c]
    BY <2>1, <2>2
  <2>4. botComments \subseteq botComments'
    BY DEF Next, Environment, Service, Monitor, Handler, Failure, vars,
           Mention, GrowOld, LoseAuthor, IngestPost, AutoRespond, LiftSubBan,
           Poll, PollDone, SkipMention, Receive, Resume, RejectType, RefuseBanned,
           BanUser, PointToResponse, EnableWatch, DisableWatch, SearchReposts,
           Execute, PostReply, SubAllows, ReplyForbidden, ReplyRefused,
           ReplyRateLimited, LogReply, SendPm, SendNotice, SaveResponse,
           DeleteMention, SaveFails, HandlingRaises, AnswerUnacknowledged, Crash
  <2>5. QED
    BY <2>1, <2>3, <2>4
<1>2. ASSUME NEW c \in Comments, Logged(c) PROVE Logged(c)'
  BY <1>1, <1>2 DEF Logged
<1>3. (pc \in Busy \/ pc = "remove") => cur \in Comments
  BY DEF IInv, HandlingOK
<1>4. CASE UNCHANGED <<pc, cur, outcome, record>>
  BY <1>1, <1>2, <1>3, <1>4 DEF RecordOK, Busy
<1>5. CASE pc' \notin {"log", "save", "remove"} /\ outcome' # "comment" /\ UNCHANGED record
  BY <1>2, <1>5 DEF RecordOK
<1>6. CASE pc' = "save" /\ outcome' # "comment" /\ UNCHANGED record
  BY <1>2, <1>6 DEF RecordOK
<1>7. CASE PostReply
  <2>1. cur \in Comments /\ pc' = "log" /\ cur' = cur /\ outcome' = outcome /\ pc = "respond"
        /\ UNCHANGED record /\ replies' = [replies EXCEPT ![cur] = @ + 1]
    BY <1>3, <1>7 DEF PostReply, SubAllows, rows, Busy
  <2>2. replies'[cur] > 0
    BY <1>1, <2>1 DEF IInv, TypeOK
  <2>3. QED
    BY <1>2, <2>1, <2>2 DEF RecordOK
<1>8. CASE LogReply
  <2>1. cur \in Comments /\ pc = "log" /\ pc' = "save" /\ cur' = cur
        /\ UNCHANGED <<record, replies>>
    BY <1>3, <1>8 DEF LogReply, rows, answers, Busy
  <2>2. CASE UNCHANGED <<botComments, outcome>>
    BY <1>2, <2>1, <2>2 DEF RecordOK
  <2>3. CASE botComments' = botComments \cup {[post |-> Post, source |-> "summons"]}
    <3>1. Logged(cur)'
      BY <2>1, <2>3 DEF RecordOK, Logged, Post
    <3>2. QED
      BY <1>2, <2>1, <3>1 DEF RecordOK
  <2>4. QED
    BY <1>8, <2>2, <2>3 DEF LogReply
<1>9. CASE SaveResponse
  <2>1. cur \in Comments /\ record' = [record EXCEPT ![cur] = outcome]
        /\ UNCHANGED <<replies, botComments>>
    BY <1>3, <1>9 DEF SaveResponse, answers, Busy
  <2>2. \A c \in Comments : record'[c] = "comment" => Logged(c)'
    <3>1. ASSUME NEW c \in Comments, record'[c] = "comment" PROVE Logged(c)
      BY <2>1, <3>1 DEF RecordOK, IInv, TypeOK
    <3>2. QED
      BY <1>2, <3>1
  <2>3. \/ pc' = "remove" /\ UNCHANGED <<cur, outcome>>
        \/ pc' = "next" /\ outcome' = "none"
    BY <1>9 DEF SaveResponse, AfterSave, EndHandling
  <2>4. QED
    BY <1>2, <2>1, <2>2, <2>3 DEF RecordOK
<1>10. CASE SaveFails
  <2>1. pc = "save" /\ UNCHANGED <<record, replies, botComments>>
    BY <1>10 DEF SaveFails, answers, rows
  <2>2. \/ pc' = "remove" /\ UNCHANGED <<cur, outcome>>
        \/ pc' = "next" /\ outcome' = "none"
    BY <1>10 DEF SaveFails, AfterSave, EndHandling
  <2>3. QED
    BY <1>2, <1>3, <2>1, <2>2 DEF RecordOK, Busy
<1>11. \/ UNCHANGED <<pc, cur, outcome, record>>
       \/ pc' \notin {"log", "save", "remove"} /\ outcome' # "comment" /\ UNCHANGED record
       \/ pc' = "save" /\ outcome' # "comment" /\ UNCHANGED record
       \/ PostReply \/ LogReply \/ SaveResponse \/ SaveFails
  BY DEF RecordOK, Next, Environment, Service, Monitor, Handler, Failure, vars, rows,
         process, handling, Mention, GrowOld, LoseAuthor, IngestPost, AutoRespond,
         LiftSubBan, Poll, PollDone, NextMention, SkipMention, Receive, Resume, RejectType,
         RefuseBanned, BanUser, PointToResponse, EnableWatch, DisableWatch,
         SearchReposts, Execute, SubAllows, SendsPm, ReplyForbidden, ReplyRefused,
         ReplyRateLimited, SendPm, SendNotice, DeleteMention, HandlingRaises,
         AnswerUnacknowledged, EndHandling, Crash
<1>12. QED
  BY <1>4, <1>5, <1>6, <1>7, <1>8, <1>9, <1>10, <1>11

\* A row that refers to a comment of the bot refers to one that Reddit has shown
\* and that bot_comment knows of (_save_response after LogReply).
THEOREM SummonsCommentRecorded == Spec => []CommentRecorded
<1>1. Init => RecordOK
  BY DEF Init, RecordOK
<1>2. RecordOK => CommentRecorded
  BY DEF RecordOK, Logged, CommentRecorded
<1>3. IInv /\ [Next]_vars => IInv'
  BY TypeStep, HandlingStep, LedgerStep DEF IInv
<1>4. QED
  BY InitIInv, <1>1, <1>2, <1>3, RecordStep, PTL DEF Spec
=============================================================================
