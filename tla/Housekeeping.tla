---------------------------- MODULE Housekeeping ----------------------------
(***************************************************************************)
(* The background jobs that keep the database in order: Statistics,          *)
(* MemeVotes, Subreddits and Deletions.  They run next to each other but       *)
(* share no variable, so that every interleaving of two of them is a pair of   *)
(* behaviours of one each: a behaviour here is one of a part, with the others   *)
(* at rest.                                                                  *)
(***************************************************************************)
EXTENDS Statistics, MemeVotes, Subreddits, Deletions

VARIABLE part
vars == <<part, statVars, voteVars, subVars, delVars>>

Init ==
    /\ part \in {"statistics", "votes", "subreddits", "deletions"}
    /\ StatInit /\ VoteInit /\ SubInit /\ DelInit
    /\ part # "deletions" => Overdue = {} /\ proxies

UpdateStatistics ==
    /\ part = "statistics" /\ StatNext
    /\ UNCHANGED <<part, voteVars, subVars, delVars>>

VoteOnMemes ==
    /\ part = "votes" /\ VoteNext
    /\ UNCHANGED <<part, statVars, subVars, delVars>>

SaveSubreddits ==
    /\ part = "subreddits" /\ SubNext
    /\ UNCHANGED <<part, statVars, voteVars, delVars>>

CheckForDeletions ==
    /\ part = "deletions" /\ DelNext
    /\ UNCHANGED <<part, statVars, voteVars, subVars>>

Next == UpdateStatistics \/ VoteOnMemes \/ SaveSubreddits \/ CheckForDeletions

Spec == Init /\ [][Next]_vars /\ SubFair /\ DelFair
-----------------------------------------------------------------------------
TypeOK ==
    /\ part \in {"statistics", "votes", "subreddits", "deletions"}
    /\ StatTypeOK /\ VoteTypeOK /\ SubTypeOK /\ DelTypeOK
=============================================================================
