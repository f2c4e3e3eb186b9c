---------------------------- MODULE MCScrapeRuns ----------------------------
(* Model values for ScrapeRuns. *)
EXTENDS ScrapeRuns, TLC

CONSTANTS w1, w2, a1, q1, m1, p1, p2, s1

Symmetry == Permutations(Sweepers) \cup Permutations(Page)
=============================================================================
