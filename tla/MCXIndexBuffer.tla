--------------------------- MODULE MCXIndexBuffer ---------------------------
EXTENDS XIndexBuffer

\* A leaf that is the root and full, with a removed record; and a root that is
\* full, over full leaves.
MCLoads == {[n |-> 3, gone |-> {6}], [n |-> 12, gone |-> {}]}
=============================================================================
