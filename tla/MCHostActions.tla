--------------------------- MODULE MCHostActions ----------------------------
(* HostActions on a small instance: symmetric model values for TLC.         *)
EXTENDS HostActions, TLC

Symmetry == Permutations(Actions) \cup Permutations(Clients) \cup Permutations(Sessions)

\* Under symmetry the CHOOSE of Log may order the entries of one transaction
\* differently in equivalent states; no property depends on that order.
=============================================================================
