-------------------------- MODULE MCConfigUpdater --------------------------
\* Two options and two flags; the moderators write a whole page, a part of
\* one, or a page that is not JSON.
EXTENDS ConfigUpdater

MCOptions == {"active", "comment_on_oc"}
MCFlags   == {"is_mod", "wiki_permission"}
MCDefault == [o \in MCOptions |-> o = "active"]

MCModDocs ==
    {[o \in MCOptions |-> TRUE], [o \in {"comment_on_oc"} |-> TRUE], Broken}

\* Two edits of the page, and one event of another kind.
MCMax == [e \in Events |-> IF e = "edit" THEN 2 ELSE 1]
=============================================================================
