---------------------------- MODULE MCSubMonitor ----------------------------
(***************************************************************************)
(* Small instances of SubMonitor.                                          *)
(***************************************************************************)
EXTENDS SubMonitor, TLC

CONSTANTS p1, p2, u1, w1, w2

OneAuthor == [p \in Posts |-> u1]

NobodyExempt == [u \in Users |-> {}]

\* A removal of a promoter's post before a comment that races with a lock.
StrictSettings ==
    {{"adult_promoter_remove_post", "comment_on_repost", "sticky_comment", "lock_post"},
     {"high_volume_reposter_notify_mod_mail"}}

\* Measures that are refused, against an author and on a post without matches.
MildSettings ==
    {{"comment_on_oc", "mark_as_oc", "comment_on_repost", "lock_response_comment"},
     {"high_volume_reposter_ban_user"}}

PromoterSettings == {{"adult_promoter_remove_post"}}

\* One worker is as good as the other.
Symmetry == Permutations(Workers)
=============================================================================
