------------------------------ MODULE Deletions ------------------------------
(***************************************************************************)
(* The deleted post monitor: it asks the utility API which of the posts that  *)
(* were not looked at for a day are still there, orders tasks that note the  *)
(* time for those and delete the others, and waits for the tasks.            *)
(***************************************************************************)
EXTENDS Naturals, FiniteSets, FiniteSetsExt

CONSTANTS
    AllPosts,       \* the posts of the last 90 days
    Limit,          \* QUERY_LIMIT, a million
    BatchSize,      \* 7000
    ChunkSize,      \* 100
    UpdateSize,     \* 2000
    MaxChanges,     \* bound on posts that go, days that pass, changed proxies
    MaxDelFaults    \* bound on calls that fail, and processes that die

ASSUME DeletionsAssumption ==
    /\ IsFiniteSet(AllPosts)
    /\ Limit \in Nat \ {0} /\ BatchSize \in Nat \ {0} /\ ChunkSize \in Nat \ {0}
    /\ UpdateSize \in Nat \ {0}
    /\ MaxChanges \in Nat /\ MaxDelFaults \in Nat

VARIABLES
    gone,       \* posts that are deleted or removed on Reddit
    checked,    \* posts looked at less than a day ago
    rest,       \* posts loaded and not yet in a batch
    asking,     \* posts of the batch in chunks that have no answer yet
    alive,      \* posts of the batch that are still there
    dead,       \* posts of the batch that are not
    monitor,    \* "load", "batch", "ask" or "wait"
    orders,     \* <<"update" or "delete", posts>>, the tasks that wait
    waitsFor,   \* those of them the monitor waits for, "failed" if it has failed
    proxies,    \* there are rows of http_proxy
    pool,       \* the monitor has loaded some
    changes, delFaults
delVars == <<gone, checked, rest, asking, alive, dead, monitor, orders, waitsFor,
             proxies, pool, changes, delFaults>>

Overdue  == AllPosts \ checked
Round    == <<rest, asking, alive, dead, monitor, orders, waitsFor>>
World    == <<gone, checked, proxies>>
Change   == changes < MaxChanges /\ changes' = changes + 1
DelFault == delFaults < MaxDelFaults /\ delFaults' = delFaults + 1

\* Any n of them: the query has no order.
Some(S, n) == kSubset(Min({n, Cardinality(S)}), S)

Chunks(S, n) ==
    IF S = {} THEN {{}}
    ELSE {P \in SUBSET (SUBSET S \ {{}}) :
            /\ UNION P = S
            /\ \A x, y \in P : x # y => x \cap y = {}
            /\ \A x \in P : Cardinality(x) <= n
            /\ Cardinality({x \in P : Cardinality(x) < n}) <= 1}

DelInit ==
    /\ gone = {} /\ checked \in SUBSET AllPosts
    /\ rest = {} /\ asking = {} /\ alive = {} /\ dead = {}
    /\ monitor = "load"
    /\ orders = {} /\ waitsFor = {}
    /\ proxies \in BOOLEAN /\ pool = FALSE
    /\ changes = 0 /\ delFaults = 0
-----------------------------------------------------------------------------
\* The surroundings.

Vanish(p) ==
    /\ p \notin gone /\ Change
    /\ gone' = gone \cup {p}
    /\ UNCHANGED <<checked, proxies, Round, pool, delFaults>>

DayPasses(p) ==
    /\ p \in checked /\ Change
    /\ checked' = checked \ {p}
    /\ UNCHANGED <<gone, proxies, Round, pool, delFaults>>

\* update_proxies: all rows are deleted, and those of the provider inserted.
DropProxies ==
    /\ proxies /\ Change
    /\ proxies' = FALSE
    /\ UNCHANGED <<gone, checked, Round, pool, delFaults>>

StoreProxies ==
    /\ ~ proxies
    /\ proxies' = TRUE
    /\ UNCHANGED <<gone, checked, Round, pool, changes, delFaults>>
-----------------------------------------------------------------------------
\* The monitor.

Restart ==
    /\ rest' = {} /\ asking' = {} /\ alive' = {} /\ dead' = {}
    /\ monitor' = "load" /\ waitsFor' = {} /\ pool' = FALSE

\* Without a post that is overdue, the monitor sleeps.
Load ==
    /\ monitor = "load" /\ Overdue # {}
    /\ rest' \in Some(Overdue, Limit)
    /\ monitor' = "batch" /\ waitsFor' = {}
    /\ UNCHANGED <<World, asking, alive, dead, orders, pool, changes, delFaults>>

\* The pool is filled at first, and again when it is ten minutes old.
TakeBatch ==
    /\ monitor = "batch"
    /\ \E loaded \in (IF pool THEN {TRUE, proxies} ELSE {proxies}) :
         IF loaded
         THEN /\ \E B \in Some(rest, BatchSize) : rest' = rest \ B /\ asking' = B
              /\ monitor' = "ask" /\ pool' = TRUE
              /\ UNCHANGED <<alive, dead, waitsFor>>
         ELSE Restart       \* NoProxyException
    /\ UNCHANGED <<World, orders, changes, delFaults>>

\* Mutant: what is gone is noted as there.
StillThere_Swapped(C) == C \cap gone

StillThere(C) == C \ gone

\* check_reddit_batch: what is gone is to be deleted, and so is what the answer
\* leaves out; without an answer, nothing is done about the chunk.
Fetch ==
    /\ monitor = "ask" /\ asking # {}
    /\ \E C \in Some(asking, ChunkSize) :
         /\ asking' = asking \ C
         /\ \/ /\ alive' = alive \cup StillThere(C)
               /\ dead' = dead \cup (C \ StillThere(C))
               /\ UNCHANGED delFaults
            \/ DelFault /\ UNCHANGED <<alive, dead>>
    /\ UNCHANGED <<World, rest, monitor, orders, waitsFor, pool, changes>>

\* An order with nothing to do is left out.
OrderUpdates ==
    /\ monitor = "ask" /\ asking = {}
    /\ \E P \in Chunks(alive, UpdateSize) :
         LET new == {<<"update", ids>> : ids \in P} \cup ({<<"delete", dead>>} \ {<<"delete", {}>>})
         IN  orders' = orders \cup new /\ waitsFor' = waitsFor \cup new
    /\ alive' = {} /\ dead' = {}
    /\ monitor' = IF rest = {} THEN "wait" ELSE "batch"
    /\ UNCHANGED <<World, rest, asking, pool, changes, delFaults>>

Finish ==
    /\ monitor = "wait" /\ waitsFor = {}
    /\ monitor' = "load"
    /\ UNCHANGED <<World, rest, asking, alive, dead, orders, waitsFor, pool, changes, delFaults>>

\* The exception of a task is raised again, and the container restarts.
Raise ==
    /\ monitor = "wait" /\ \E o \in waitsFor : o[1] = "failed"
    /\ Restart
    /\ UNCHANGED <<World, orders, changes, delFaults>>

\* A task that no worker will end; the monitor waits for one after the other, and
\* may come to this one first.
Stuck == \E o \in waitsFor : o[1] # "failed" /\ o \notin orders
-----------------------------------------------------------------------------
\* The tasks.  There is no limit to the wait for one whose worker dies.

NoteTime(ids) ==
    /\ checked' = checked \cup ids
    /\ waitsFor' = waitsFor \ {<<"update", ids>>}
    /\ UNCHANGED <<rest, asking, alive, dead, monitor, pool, delFaults>>

\* The handler of a failure of update_last_deleted_check fails itself, and so
\* will the monitor that waits for it.
NoteTimeFails(ids) ==
    /\ DelFault
    /\ waitsFor' = IF <<"update", ids>> \in waitsFor
                   THEN (waitsFor \ {<<"update", ids>>}) \cup {<<"failed", ids>>}
                   ELSE waitsFor
    /\ UNCHANGED <<checked, rest, asking, alive, dead, monitor, pool>>

\* The first table named is no longer there: the task removes nothing, and ends.
BulkDelete(ids) ==
    /\ waitsFor' = waitsFor \ {<<"delete", ids>>}
    /\ UNCHANGED <<checked, rest, asking, alive, dead, monitor, pool, delFaults>>

WorkerDies ==
    DelFault /\ UNCHANGED <<checked, rest, asking, alive, dead, monitor, waitsFor, pool>>

TaskWork ==
    \E o \in orders :
        /\ orders' = orders \ {o}
        /\ \/ o[1] = "update" /\ (NoteTime(o[2]) \/ NoteTimeFails(o[2]))
           \/ o[1] = "delete" /\ BulkDelete(o[2])
           \/ WorkerDies
        /\ UNCHANGED <<gone, proxies, changes>>
-----------------------------------------------------------------------------
MonitorDies ==
    /\ monitor # "load" /\ DelFault
    /\ Restart
    /\ UNCHANGED <<World, orders, changes>>

MonitorWork == Load \/ TakeBatch \/ Fetch \/ OrderUpdates \/ Finish \/ (~ Stuck /\ Raise)

DelNext ==
    \/ \E p \in AllPosts : Vanish(p) \/ DayPasses(p)
    \/ DropProxies \/ StoreProxies
    \/ MonitorWork \/ Raise \/ TaskWork \/ MonitorDies

\* The monitor and the workers run; update_proxies ends what it began.
DelFair == WF_delVars(MonitorWork) /\ WF_delVars(TaskWork) /\ WF_delVars(StoreProxies)
-----------------------------------------------------------------------------
DelTypeOK ==
    /\ gone \subseteq AllPosts /\ checked \subseteq AllPosts
    /\ rest \subseteq AllPosts /\ asking \subseteq AllPosts /\ alive \subseteq AllPosts
    /\ dead \subseteq AllPosts /\ (alive \cup asking) \cap (rest \cup dead) = {}
    /\ monitor \in {"load", "batch", "ask", "wait"}
    /\ monitor \in {"load", "wait"} => rest \cup asking \cup alive \cup dead = {}
    /\ orders \subseteq {"update", "delete"} \X SUBSET AllPosts
    /\ waitsFor \subseteq {"update", "delete", "failed"} \X SUBSET AllPosts
    /\ proxies \in BOOLEAN /\ pool \in BOOLEAN
    /\ changes \in Nat /\ delFaults \in Nat

\* No post that is there stays overdue, whatever goes meanwhile, whichever chunk
\* has no answer, wherever the monitor dies or an order fails, and however the
\* posts fall into batches and chunks: unless a worker has died with a task the
\* monitor waits for, or as many posts are gone as one query returns; as they
\* stay in the database, they would be all it returns.
RecheckedInTime ==
    <>[](~ Stuck /\ Cardinality(gone) < Limit => Overdue \subseteq gone)
=============================================================================
