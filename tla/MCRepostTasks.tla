--------------------------- MODULE MCRepostTasks ----------------------------
EXTENDS RepostTasks

\* 1 is reposted by 2 and by 3; 3 is an exact copy of both, but only 2 passes
\* the meme filter.  4 is a link to what 5 links to.
MCSame  == [p \in {1, 2, 3, 4, 5} |-> CASE p = 2 -> {1} [] p = 3 -> {1, 2} [] p = 5 -> {4} [] OTHER -> {}]
MCExact == [p \in {1, 2, 3} |-> CASE p = 3 -> {1, 2} [] OTHER -> {}]
MCNear  == [p \in {1, 2, 3} |-> CASE p = 3 -> {2} [] OTHER -> {}]
=============================================================================
