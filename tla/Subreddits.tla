----------------------------- MODULE Subreddits -----------------------------
(***************************************************************************)
(* The rows of subreddit: the ingest orders save_subreddit for the sub of     *)
(* every post it saves, which inserts a row and orders update_subreddit_data; *)
(* that asks the utility API for subscribers and nsfw.                        *)
(* queue_subreddit_data_updates is not scheduled, and would order             *)
(* save_subreddit for rows that exist, which does nothing.                    *)
(***************************************************************************)
EXTENDS Naturals, FiniteSets

CONSTANTS
    Subs, SubWorkers,
    MaxTries,       \* retries of the update, 3: retry_kwards is not an option
    MaxSaves,       \* bound on the posts ingested
    MaxBads,        \* bound on the API's bad answers
    MaxSubFaults    \* bound on other failures, and on workers that die

ASSUME SubredditsAssumption ==
    /\ MaxTries \in Nat /\ MaxSaves \in Nat /\ MaxBads \in Nat /\ MaxSubFaults \in Nat

VARIABLES
    saves,      \* [Subs -> number of tasks of save_subreddit that wait]
    updates,    \* [Subs -> [0..MaxTries -> tasks of update_subreddit_data, by try]]
    does,       \* [SubWorkers -> what a worker does in save_subreddit]
    subRows,    \* subs with a row
    subData,    \* those whose subscribers and nsfw are known
    ingested, bads, subFaults
subVars == <<saves, updates, does, subRows, subData, ingested, bads, subFaults>>

Off      == [step |-> "off", sub |-> "none"]
SubFault == subFaults < MaxSubFaults /\ subFaults' = subFaults + 1

SubInit ==
    /\ saves = [s \in Subs |-> 0]
    /\ updates = [s \in Subs |-> [n \in 0..MaxTries |-> 0]]
    /\ does = [w \in SubWorkers |-> Off]
    /\ subRows = {} /\ subData = {}
    /\ ingested = 0 /\ bads = 0 /\ subFaults = 0

\* The end of save_new_post.
IngestOrders(s) ==
    /\ ingested < MaxSaves
    /\ ingested' = ingested + 1
    /\ saves' = [saves EXCEPT ![s] = @ + 1]
    /\ UNCHANGED <<updates, does, subRows, subData, bads, subFaults>>

\* save_subreddit
LookUpSub(w) ==
    /\ does[w] = Off
    /\ \E s \in Subs :
         /\ saves[s] > 0
         /\ saves' = [saves EXCEPT ![s] = @ - 1]
         /\ does' = IF s \in subRows THEN does
                    ELSE [does EXCEPT ![w] = [step |-> "insert", sub |-> s]]
    /\ UNCHANGED <<updates, subRows, subData, ingested, bads, subFaults>>

\* The name is unique: the second of two inserts fails, and orders no update.
InsertSub(w) ==
    /\ does[w].step = "insert"
    /\ LET s == does[w].sub
       IN  \/ /\ s \in subRows
              /\ does' = [does EXCEPT ![w] = Off]
              /\ UNCHANGED <<subRows, subFaults>>
           \/ /\ s \notin subRows
              /\ subRows' = subRows \cup {s}
              /\ does' = [does EXCEPT ![w].step = "order"]
              /\ UNCHANGED subFaults
           \/ /\ SubFault
              /\ does' = [does EXCEPT ![w] = Off]
              /\ UNCHANGED subRows
    /\ UNCHANGED <<saves, updates, subData, ingested, bads>>

\* An update that cannot be ordered is not ordered again: the row is there.
OrderUpdate(w) ==
    /\ does[w].step = "order"
    /\ does' = [does EXCEPT ![w] = Off]
    /\ \/ /\ updates' = [updates EXCEPT ![does[w].sub][0] = @ + 1]
          /\ UNCHANGED subFaults
       \/ SubFault /\ UNCHANGED updates
    /\ UNCHANGED <<saves, subRows, subData, ingested, bads>>

\* Mutant: the exception is swallowed like the others.
TryAgain_Not(s, n) == [updates EXCEPT ![s][n] = @ - 1]

\* autoretry_for
TryAgain(s, n) ==
    IF n = MaxTries THEN [updates EXCEPT ![s][n] = @ - 1]
    ELSE [updates EXCEPT ![s][n] = @ - 1, ![s][n + 1] = @ + 1]

\* update_subreddit_data, with its answer
UpdateSub(s, n) ==
    /\ updates[s][n] > 0
    /\ \/ /\ updates' = [updates EXCEPT ![s][n] = @ - 1]
          /\ subData' = subData \cup {s}
          /\ UNCHANGED <<bads, subFaults>>
       \/ /\ bads < MaxBads /\ bads' = bads + 1
          /\ updates' = TryAgain(s, n)
          /\ UNCHANGED <<subData, subFaults>>
       \/ /\ SubFault
          /\ updates' = [updates EXCEPT ![s][n] = @ - 1]
          /\ UNCHANGED <<subData, bads>>
    /\ UNCHANGED <<saves, does, subRows, ingested>>

\* A worker dies in save_subreddit.
SubWorkerDies(w) ==
    /\ does[w] # Off /\ SubFault
    /\ does' = [does EXCEPT ![w] = Off]
    /\ UNCHANGED <<saves, updates, subRows, subData, ingested, bads>>

SubWork ==
    \/ \E w \in SubWorkers : LookUpSub(w) \/ InsertSub(w) \/ OrderUpdate(w)
    \/ \E s \in Subs, n \in 0..MaxTries : UpdateSub(s, n)

SubNext ==
    \/ \E s \in Subs : IngestOrders(s)
    \/ \E w \in SubWorkers : SubWorkerDies(w)
    \/ SubWork

\* The workers take what is queued.
SubFair == WF_subVars(SubWork)
-----------------------------------------------------------------------------
SubTypeOK ==
    /\ saves \in [Subs -> Nat] /\ updates \in [Subs -> [0..MaxTries -> Nat]]
    /\ \A w \in SubWorkers : does[w] = Off \/ does[w] \in [step : {"insert", "order"}, sub : Subs]
    /\ subData \subseteq subRows /\ subRows \subseteq Subs
    /\ ingested \in Nat /\ bads \in Nat /\ subFaults \in Nat

\* A sub that has a row has its data in the end, whichever of two workers inserts
\* it, unless the API fails more often than the update is tried, or a failure in
\* between leaves the row without an order: nothing looks for such rows.
SubredditGetsData ==
    <>[](subFaults = 0 /\ bads <= MaxTries => subRows \subseteq subData)
=============================================================================
