------------------------------ MODULE PostStore ------------------------------
(***************************************************************************)
(* What the ingest of posts promises the rest of the system: a post is in  *)
(* the database once and for ever, and its search for reposts is ordered   *)
(* at most once, after it is there.                                        *)
(***************************************************************************)
EXTENDS Naturals

CONSTANT Ids  \* the ids of posts

VARIABLES
    saved,    \* the posts in the database
    searches  \* [Ids -> Nat], orders to search for reposts of a post

Init == saved \subseteq Ids /\ searches = [i \in Ids |-> 0]

Save(i) ==
    /\ i \notin saved
    /\ saved' = saved \cup {i}
    /\ UNCHANGED searches

OrderSearch(i) ==
    /\ i \in saved
    /\ searches[i] = 0
    /\ searches' = [searches EXCEPT ![i] = 1]
    /\ UNCHANGED saved

Next == \E i \in Ids : Save(i) \/ OrderSearch(i)

Spec == Init /\ [][Next]_<<saved, searches>>
=============================================================================
