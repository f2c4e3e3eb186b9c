------------------------------- MODULE Priorities -------------------------------
(* What the scorer, the list and the dashboard call a score. *)
EXTENDS Naturals

\* priority_for_score.
Priority(score) ==
  CASE score >= 60 -> "high" [] score \in 55 .. 59 -> "medium"
    [] score \in 30 .. 54 -> "low" [] OTHER -> "not_recommended"
================================================================================
