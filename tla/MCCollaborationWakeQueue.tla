----------------------- MODULE MCCollaborationWakeQueue -----------------------
(* An instance of CollaborationWakeQueue for TLC.                           *)
EXTENDS CollaborationWakeQueue, TLC

Symmetry == Permutations(Sessions)
=============================================================================
