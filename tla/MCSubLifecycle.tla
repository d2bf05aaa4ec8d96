--------------------------- MODULE MCSubLifecycle ---------------------------
EXTENDS SubLifecycle

\* Two invitations, so that one can be left over from an earlier activation,
\* and one event of every other kind, two of them in a behaviour.
MCMax == [e \in Events |-> IF e = "invite" THEN 2 ELSE 1]
=============================================================================
