----------------------------- MODULE Statistics -----------------------------
(***************************************************************************)
(* The top lists of the site: stat_top_repost and stat_top_reposters.  A    *)
(* task works through its lists; each is deleted and committed, then        *)
(* counted and inserted again, by up to 15 workers with no lock between      *)
(* them.  The users that are removed as high volume reposters are those      *)
(* whose counts these rows add up to.                                        *)
(***************************************************************************)
EXTENDS Naturals, Sequences

CONSTANTS
    PostTypes,      \* the post types, in order
    DayRanges,      \* the ranges, in order; 0 is all time
    Keys,           \* the authors or posts that are over the threshold
    StatWorkers,
    MaxTasks,       \* bound on the tasks beat starts
    MaxStatFaults   \* bound on the tasks that fail

ASSUME StatisticsAssumption ==
    /\ PostTypes \in Seq(Nat) /\ DayRanges \in Seq(Nat)
    /\ MaxTasks \in Nat /\ MaxStatFaults \in Nat

ByTypeAndRange(table, ranges) ==
    [i \in 1..(Len(PostTypes) * Len(ranges)) |->
        <<table, PostTypes[((i - 1) \div Len(ranges)) + 1], ranges[((i - 1) % Len(ranges)) + 1]>>]

Tasks == {"reposts", "reposters", "daily"}
Lists(task) ==
    CASE task = "reposts"   -> ByTypeAndRange("reposts", DayRanges)
      [] task = "reposters" -> ByTypeAndRange("reposters", DayRanges)
      [] task = "daily"     -> ByTypeAndRange("reposters", <<1>>)

Units == UNION {{Lists(task)[i] : i \in DOMAIN Lists(task)} : task \in Tasks}
Free  == [left |-> <<>>, todo |-> {}, half |-> FALSE]

VARIABLES
    rows,       \* [Units -> [Keys -> Nat]], the rows of a list
    at,         \* [StatWorkers -> the lists left, the first one half done or not]
    clash,      \* lists deleted while another worker was half-way through them
    lost,       \* lists whose worker failed half-way since they were deleted last
    started, statFaults
statVars == <<rows, at, clash, lost, started, statFaults>>

Busy(w)    == at[w].left # <<>>
Unit(w)    == Head(at[w].left)
On(w, u)   == Busy(w) /\ at[w].half /\ Unit(w) = u

StatInit ==
    /\ rows = [u \in Units |-> [k \in Keys |-> 0]]
    /\ at = [w \in StatWorkers |-> Free]
    /\ clash = {} /\ lost = Units
    /\ started = 0 /\ statFaults = 0

\* Beat starts a task whether or not the last one has ended.
StartTask(w, task) ==
    /\ ~ Busy(w) /\ started < MaxTasks
    /\ started' = started + 1
    /\ at' = [at EXCEPT ![w] = [Free EXCEPT !.left = Lists(task)]]
    /\ UNCHANGED <<rows, clash, lost, statFaults>>

\* Mutant: the rows of all time are compared with = NULL, which deletes none.
DeleteRows_AllTime(u) ==
    IF u[3] = 0 THEN rows ELSE [rows EXCEPT ![u] = [k \in Keys |-> 0]]

DeleteRows(u) == [rows EXCEPT ![u] = [k \in Keys |-> 0]]

DeleteList(w) ==
    /\ Busy(w) /\ ~ at[w].half
    /\ LET u == Unit(w)
       IN  /\ rows' = DeleteRows(u)
           /\ clash' = IF \E v \in StatWorkers \ {w} : On(v, u) THEN clash \cup {u} ELSE clash \ {u}
           /\ lost' = lost \ {u}
    /\ at' = [at EXCEPT ![w].half = TRUE, ![w].todo = Keys]
    /\ UNCHANGED <<started, statFaults>>

\* Counts of posts are committed one by one, those of authors together.
InsertCounts(w) ==
    /\ Busy(w) /\ at[w].half /\ at[w].todo # {}
    /\ \E new \in SUBSET at[w].todo :
         /\ IF Unit(w)[1] = "reposts" THEN \E k \in at[w].todo : new = {k} ELSE new = at[w].todo
         /\ rows' = [rows EXCEPT ![Unit(w)] = [k \in Keys |-> @[k] + (IF k \in new THEN 1 ELSE 0)]]
         /\ at' = [at EXCEPT ![w].todo = @ \ new]
    /\ UNCHANGED <<clash, lost, started, statFaults>>

NextList(w) ==
    /\ Busy(w) /\ at[w].half /\ at[w].todo = {}
    /\ at' = [at EXCEPT ![w] = [Free EXCEPT !.left = Tail(at[w].left)]]
    /\ UNCHANGED <<rows, clash, lost, started, statFaults>>

\* The exception ends the task, which is not tried again.
TaskFails(w) ==
    /\ Busy(w) /\ statFaults < MaxStatFaults
    /\ statFaults' = statFaults + 1
    /\ lost' = IF at[w].half THEN lost \cup {Unit(w)} ELSE lost
    /\ at' = [at EXCEPT ![w] = Free]
    /\ UNCHANGED <<rows, clash, started>>

StatNext ==
    \E w \in StatWorkers :
        \/ \E task \in Tasks : StartTask(w, task)
        \/ DeleteList(w) \/ InsertCounts(w) \/ NextList(w) \/ TaskFails(w)

StatSpec == StatInit /\ [][StatNext]_statVars
-----------------------------------------------------------------------------
StatTypeOK ==
    /\ rows \in [Units -> [Keys -> Nat]]
    /\ at \in [StatWorkers -> [left : Seq(Units), todo : SUBSET Keys, half : BOOLEAN]]
    /\ clash \subseteq Units /\ lost \subseteq Units
    /\ started \in Nat /\ statFaults \in Nat

\* A list counts nobody twice, unless two workers once did it at the same time,
\* and leaves nobody out, unless a worker is half-way through it or failed there:
\* the sum the check for high volume reposters reads is wrong only then.
RowsAreCounted ==
    \A u \in Units : \A k \in Keys :
        /\ rows[u][k] > 1 => u \in clash
        /\ rows[u][k] = 0 => u \in lost \/ \E w \in StatWorkers : On(w, u)
=============================================================================
