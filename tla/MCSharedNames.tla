----------------------------- MODULE MCSharedNames -----------------------------
(* Two deletions, or one and an edit, a foreign object or a removal by hand.    *)
EXTENDS SharedNames

Births == [o \in Controllers |-> 2]
=============================================================================
