---------------------------- MODULE MCFetchBudget ----------------------------
(* Model values for FetchBudget. *)
EXTENDS FetchBudget

CONSTANTS f1, f2, f3, d1

\* One slot per key, as minciencias.gov.co and "playwright" have.
OneSlot == [k \in Key |-> 1]

\* Two slots per domain, as the fallback has, and one browser.
TwoSlots == [k \in Key |-> IF k = Browser THEN 1 ELSE 2]

Spaced == [d \in Domain |-> 1]

=============================================================================
