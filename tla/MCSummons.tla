------------------------------ MODULE MCSummons ------------------------------
(***************************************************************************)
(* Small instances of Summons.  p1 is in a sub that points later summons   *)
(* to an earlier response; the text id of p2 starts with the number that   *)
(* is p1's primary key.  p3 has a type the bot does not search.            *)
(***************************************************************************)
EXTENDS Summons, TLC

CONSTANTS c1, c2, u1, u2, p1, p2, p3, s1, s2

MCSubOf    == [p \in Posts |-> IF p = p1 THEN s1 ELSE s2]
MCPostType == [p \in Posts |-> CASE p = p1 -> "image" [] p = p2 -> "link" [] p = p3 -> "unsupported"]
MCDbId     == [p \in Posts |-> CASE p = p1 -> 7 [] p = p2 -> 8 [] p = p3 -> 9]
MCLeading  == [p \in Posts |-> CASE p = p1 -> 1 [] p = p2 -> 7 [] p = p3 -> 0]
MCSettings ==
    [s \in Subs |-> [monitored |-> s = s1, disableAfterAuto |-> s = s1,
                     onlyOne |-> s = s1, removeAdditional |-> s = s1]]

OneUser  == [c \in Comments |-> u1]
TwoUsers == (c1 :> u1 @@ c2 :> u2)
Reposts  == [c \in Comments |-> "repost"]

\* One user summons the bot on p1 and has it watch p2.
TwoPosts_PostOf  == (c1 :> p1 @@ c2 :> p2)
TwoPosts_Command == (c1 :> "repost" @@ c2 :> "watch")

\* A summons on a post whose type is not searched, and one on p2.
Types_PostOf == (c1 :> p3 @@ c2 :> p2)

\* The requestor of c1 drops a watch.
Unwatches == [c \in Comments |-> "unwatch"]

\* All summons are on the same post.
OnP1 == [c \in Comments |-> p1]
OnP2 == [c \in Comments |-> p2]
=============================================================================
