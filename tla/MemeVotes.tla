------------------------------ MODULE MemeVotes ------------------------------
(***************************************************************************)
(* Votes of the site's users on meme templates: MemeTemplateEndpoint, whose   *)
(* requests read a row in one query and write it in another, and             *)
(* check_meme_template_potential_votes, which ends the votes that are        *)
(* decided.  That task is not scheduled, but there to be run.                *)
(* What cannot happen is left out: send_reports_to_meme_voting and on_post    *)
(* read columns of a post that are no longer there, as does the check before *)
(* it would make a template, so that it only removes what was voted for.     *)
(***************************************************************************)
EXTENDS Integers, Sequences, FiniteSets, FiniteSetsExt, Functions

CONSTANTS
    Users, Requests,    \* requests the site works on at a time
    Ids,            \* ids of meme_template_potential, each used once
    HasTemplate0,   \* ids whose post has a template already
    Needed,         \* 10
    MaxMoves        \* bound on requests and runs of the task

ASSUME MemeVotesAssumption ==
    /\ IsFiniteSet(Users)
    /\ Ids \subseteq Nat \ {0} /\ IsFiniteSet(Ids) /\ HasTemplate0 \subseteq Ids
    /\ Needed \in Nat \ {0} /\ MaxMoves \in Nat

Vote   == -1..1
NoVote == 2
NoPatch == [user |-> CHOOSE u \in Users : TRUE, id |-> 0, total |-> 0, old |-> NoVote, vote |-> 0]

VARIABLES
    unused,     \* ids that no row has had
    total,      \* [ids of the rows -> vote_total]
    votes,      \* [ids of the rows -> [Users -> Seq(Vote)]]
    patch,      \* [Requests -> what the request has read, and its vote]
    check,      \* the rows the task goes through, and what it knows of them
    disturbed,  \* ids with a vote that was changed, or that met another
    moves
voteVars == <<unused, total, votes, patch, check, disturbed, moves>>

Present == DOMAIN total
Count(s) == SumFunction(s)
Cast(id) == SumFunction([u \in Users |-> Count(votes[id][u])])
Resting == [left |-> {}, total |-> <<>>, seen |-> {}]
Move    == moves < MaxMoves /\ moves' = moves + 1

VoteInit ==
    /\ unused = Ids
    /\ total = <<>> /\ votes = <<>>
    /\ patch = [r \in Requests |-> NoPatch]
    /\ check = Resting
    /\ disturbed = {} /\ moves = 0

\* Mutant: the submitter's own vote is not in the total.
SubmitTotal_Zero == 0

SubmitTotal == 1

\* on_post_potential
Submit(u) ==
    /\ unused # {} /\ Move
    /\ LET id == Min(unused)
       IN  /\ unused' = unused \ {id}
           /\ total' = [i \in Present \cup {id} |-> IF i = id THEN SubmitTotal ELSE total[i]]
           /\ votes' = [i \in Present \cup {id} |->
                          IF i = id THEN [v \in Users |-> IF v = u THEN <<1>> ELSE <<>>] ELSE votes[i]]
    /\ UNCHANGED <<patch, check, disturbed>>

\* on_patch_potential reads the row and the votes; the vote the user has cast
\* already is refused.
ReadRow(r) ==
    /\ patch[r] = NoPatch /\ Move
    /\ \E u \in Users, id \in Present, vote \in Vote :
         LET old == IF votes[id][u] = <<>> THEN NoVote ELSE votes[id][u][1]
         IN  /\ old # vote
             /\ patch' = [patch EXCEPT ![r] = [user |-> u, id |-> id, total |-> total[id],
                                               old |-> old, vote |-> vote]]
    /\ UNCHANGED <<unused, total, votes, check, disturbed>>

\* What was read is no longer so, or a vote that counts is taken back.
Disturbs(p) ==
    \/ p.old \in {-1, 1}
    \/ p.vote # 0 /\ p.total # total[p.id]
    \/ p.old # NoVote /\ votes[p.id][p.user][1] # p.old

\* A total that does not change is not written; a row that is gone fails it all.
WriteVote(r) ==
    LET p == patch[r]
    IN  /\ p # NoPatch
        /\ patch' = [patch EXCEPT ![r] = NoPatch]
        /\ IF p.id \notin Present THEN UNCHANGED <<total, votes, disturbed>>
           ELSE /\ total' = IF p.vote = 0 THEN total ELSE [total EXCEPT ![p.id] = p.total + p.vote]
                /\ votes' = [votes EXCEPT ![p.id][p.user] =
                               IF p.old = NoVote THEN Append(@, p.vote) ELSE <<p.vote>> \o Tail(@)]
                /\ disturbed' = IF Disturbs(p) THEN disturbed \cup {p.id} ELSE disturbed
        /\ UNCHANGED <<unused, check, moves>>

\* Mutant: the votes of a row that is removed are left.
Without_NoCascade(id) ==
    /\ total' = [i \in Present \ {id} |-> total[i]]
    /\ UNCHANGED votes

\* The row, and by cascade its votes.
Without(id) ==
    /\ total' = [i \in Present \ {id} |-> total[i]]
    /\ votes' = [i \in Present \ {id} |-> votes[i]]

\* on_delete_potential
DeletePotential(id) ==
    /\ id \in Present /\ Move
    /\ Without(id)
    /\ UNCHANGED <<unused, patch, check, disturbed>>

\* check_meme_template_potential_votes: all rows are loaded once, the newest
\* first, and what is removed is decided by the totals of then.  The first row
\* removed is removed with the votes of then, which fails if there are others.
BeginCheck ==
    /\ check = Resting /\ Present # {} /\ Move
    /\ check' = [left |-> Present, total |-> total,
                 seen |-> {<<i, u, Len(votes[i][u])>> : i \in Present, u \in Users}]
    /\ UNCHANGED <<unused, total, votes, patch, disturbed>>

CheckVotes ==
    /\ check # Resting
    /\ LET id   == Max(check.left)
           rest == check.left \ {id}
           fits == \A u \in Users :
                      id \in Present /\ check.seen # {} => <<id, u, Len(votes[id][u])>> \in check.seen
           decided == check.total[id] >= Needed \/ check.total[id] <= -Needed
           ends == \/ rest = {}
                   \/ decided /\ ~ fits
                   \/ check.total[id] >= Needed /\ id \in HasTemplate0
       IN  /\ IF decided /\ fits /\ id \in Present THEN Without(id) ELSE UNCHANGED <<total, votes>>
           /\ check' = IF ends THEN Resting
                       ELSE [check EXCEPT !.left = rest, !.seen = IF decided THEN {} ELSE @]
    /\ UNCHANGED <<unused, patch, disturbed, moves>>

VoteNext ==
    \/ \E u \in Users : Submit(u)
    \/ \E r \in Requests : ReadRow(r) \/ WriteVote(r)
    \/ \E id \in Ids : DeletePotential(id)
    \/ BeginCheck \/ CheckVotes
-----------------------------------------------------------------------------
VoteTypeOK ==
    /\ unused \subseteq Ids /\ Present \subseteq Ids \ unused
    /\ total \in [Present -> Int] /\ votes \in [Present -> [Users -> Seq(Vote)]]
    /\ patch \in [Requests -> {NoPatch} \cup [user : Users, id : Ids, total : Int,
                                             old : Vote \cup {NoVote}, vote : Vote]]
    /\ check.left \subseteq Ids
    /\ disturbed \subseteq Ids /\ moves \in Nat

\* The total that decides is the sum of the votes, however requests, removals and
\* the check meet, until a user changes a vote, or two write at the same time.
VotesAddUp ==
    \A id \in Present : id \in disturbed \/ total[id] = Cast(id)
=============================================================================
