------------------------- MODULE MCSessionDeliveries -------------------------
(* Instances of SessionDeliveries for TLC.                                  *)
EXTENDS SessionDeliveries, TLC

\* Files of one kind are interchangeable, and so are the loop instances.
Symmetry == Permutations(Files \ Silent) \cup Permutations(Loops)
=============================================================================
