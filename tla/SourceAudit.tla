------------------------------ MODULE SourceAudit ------------------------------
(***************************************************************************)
(* The offline audit of a source: eight checks on the runs and the rows    *)
(* that the runner left in the database, and the verdict made of them;     *)
(* next to it the health that the dashboard and the list of sources show,  *)
(* made of the same runs.  The rows change by the runs and by the passing  *)
(* of deadlines; both only read, at any moment.                            *)
(***************************************************************************)
EXTENDS Naturals, Sequences, FiniteSets

CONSTANTS
  RunsKept,      \* runs the loader reads, and the window of the stability check
  EmptyRunsFail, \* EMPTY_RUNS_FAIL
  PausedFrom,    \* the runner pauses a source at this many empty or failed runs
  AuditRows      \* rows that runs may store

ASSUME AuditAssumption ==
  RunsKept \in Nat \ {0} /\ EmptyRunsFail \in Nat /\ PausedFrom \in Nat
  /\ EmptyRunsFail <= PausedFrom

VARIABLES
  runs,      \* the last runs of the source, newest first
  dry,       \* consecutive_empty_runs
  paused,    \* auto_paused
  enabled,
  stock,     \* the stored rows of the source
  expired,   \* those whose deadline has passed; their stored status stays "open"
  quiet      \* windows of the source's frequency since its last success, or Never

auditVars == <<runs, dry, paused, enabled, stock, expired, quiet>>
Never == 3

-----------------------------------------------------------------------------
(* The rows of source_runs as _finalize_run and _handle_run_error write them. *)

RunRow(status, found, network, failed, cut) ==
  [status |-> status, found |-> found, network |-> network, failed |-> failed, cut |-> cut]
RunKinds ==
  { RunRow("success", TRUE, FALSE, FALSE, FALSE),
    RunRow("success", TRUE, FALSE, FALSE, TRUE),    \* over the cap of the persist loop
    RunRow("success", TRUE, FALSE, TRUE, FALSE),    \* an item failed
    RunRow("success", FALSE, FALSE, FALSE, FALSE),  \* the page did not change
    RunRow("degraded", FALSE, FALSE, FALSE, FALSE), \* nothing on the page
    RunRow("degraded", FALSE, FALSE, TRUE, FALSE),  \* items_failed is 1 after any error
    RunRow("failed", FALSE, TRUE, TRUE, FALSE),
    RunRow("failed", FALSE, FALSE, TRUE, FALSE) }

\* Cancelled by a shutdown, a time limit or a reset: the counters of the source
\* stay, items_failed stays 0 and the message has a word of the network.
Cancelled == RunRow("failed", FALSE, TRUE, FALSE, FALSE)

-----------------------------------------------------------------------------
\* The loader keeps the last RunsKept of them.
FirstRuns(rs) == SubSeq(rs, 1, IF Len(rs) < RunsKept THEN Len(rs) ELSE RunsKept)

-----------------------------------------------------------------------------
(* The checks. *)

FailedRuns == Cardinality({i \in DOMAIN runs : runs[i].status = "failed"})
EmptyRuns == Cardinality({i \in DOMAIN runs : ~runs[i].found /\ runs[i].status # "failed"})

\* check_conectividad: the history never passes it.
Conectividad ==
  IF /\ runs # <<>>
     /\ (\E i \in DOMAIN runs : runs[i].network) \/ FailedRuns = Len(runs)
    THEN "FAIL" ELSE "UNKNOWN"

\* Mutant: more empty runs than the threshold.
ExtraccionLate ==
  CASE runs = <<>> -> "UNKNOWN"
    [] runs # <<>> /\ (dry > EmptyRunsFail \/ EmptyRuns > EmptyRunsFail) -> "FAIL"
    [] OTHER -> "PASS"

\* check_extraccion.
Extraccion ==
  CASE runs = <<>> -> "UNKNOWN"
    [] runs # <<>> /\ (dry >= EmptyRunsFail \/ EmptyRuns >= EmptyRunsFail) -> "FAIL"
    [] EmptyRuns = 1 /\ Len(runs) = 1 /\ dry < EmptyRunsFail /\ EmptyRunsFail > 1 -> "UNKNOWN"
    [] OTHER -> "PASS"

\* Shares of the stored rows, as n rows of d.
AtLeast(n, percent) == stock # {} /\ 100 * n >= percent * Cardinality(stock)

Pertinencia ==
  CASE stock = {} -> "UNKNOWN"
    [] stock # {} /\ AtLeast(Cardinality({o \in stock : o.news}), 40) -> "FAIL"
    [] OTHER -> "PASS"

Enlaces ==
  CASE stock = {} -> "UNKNOWN"
    [] stock # {} /\ AtLeast(Cardinality({o \in stock : o.url = "none"}), 20) -> "FAIL"
    [] OTHER -> "PASS"

\* check_fechas: an open row past its deadline, or hardly a deadline at all.
Fechas ==
  CASE stock = {} -> "UNKNOWN"
    [] \/ expired \cap stock # {}
       \/ AtLeast(Cardinality({o \in stock : ~o.dated}), 80) -> "FAIL"
    [] OTHER -> "PASS"

\* check_duplicados: by external id, by address, by title, entity and date.
TwinRows(a, b) == a # b /\ (a.title = b.title \/ (a.url = b.url /\ a.url # "none"))
Duplicados ==
  CASE Cardinality(stock) < 2 -> "UNKNOWN"
    [] \E a, b \in stock : TwinRows(a, b) -> "FAIL"
    [] OTHER -> "PASS"

Persistencia ==
  CASE runs = <<>> -> "UNKNOWN"
    [] \E i \in DOMAIN runs : runs[i].cut \/ runs[i].failed -> "FAIL"
    [] OTHER -> "PASS"

Estabilidad ==
  CASE runs = <<>> -> "UNKNOWN"
    [] runs # <<>> /\ (paused \/ 2 * FailedRuns >= Len(runs)) -> "FAIL"
    [] Len(runs) = 1 /\ ~paused /\ FailedRuns = 0 -> "UNKNOWN"
    [] OTHER -> "PASS"

AuditChecks ==
  [conectividad |-> Conectividad, extraccion |-> Extraccion, pertinencia |-> Pertinencia,
   enlaces |-> Enlaces, fechas |-> Fechas, duplicados |-> Duplicados,
   persistencia |-> Persistencia, estabilidad |-> Estabilidad]
CriticalDimensions == {"extraccion", "persistencia", "estabilidad"}

\* _verdict.
Verdict ==
  LET are(status) == {d \in DOMAIN AuditChecks : AuditChecks[d] = status} IN
  CASE ~enabled -> "pendiente"
    [] enabled /\ (paused \/ are("FAIL") \cap CriticalDimensions # {}) -> "fallida"
    [] enabled /\ ~paused /\ are("FAIL") # {} /\ are("FAIL") \cap CriticalDimensions = {} -> "degradada"
    [] enabled /\ ~paused /\ are("FAIL") = {} /\ are("UNKNOWN") \cap CriticalDimensions # {} -> "pendiente"
    [] OTHER -> "operativa"

-----------------------------------------------------------------------------
(* _source_health, and _source_health_status of the dashboard's banner.  A run *)
(* that finds calls finds more of them than the window has runs.               *)

SourceHealth ==
  LET failed == Cardinality({i \in DOMAIN runs : runs[i].status = "failed"})
      succeeded == Cardinality({i \in DOMAIN runs : runs[i].status = "success"})
      barren == \A i \in DOMAIN runs : ~runs[i].found
  IN  CASE runs = <<>> -> "idle"
        [] runs # <<>> /\ runs[1].status # "success" ->
             IF runs[1].status = "failed" THEN "failing" ELSE "degraded"
        [] OTHER ->
             IF (10 * failed >= 6 * Len(runs) /\ barren) \/ quiet = 2 THEN "failing"
             ELSE IF \/ 10 * succeeded < 6 * Len(runs)
                     \/ barren /\ Len(runs) >= 2
                     \/ quiet = 1 THEN "degraded"
             ELSE "healthy"

\* get_source_health_summaries counts enabled sources only.
Banner == IF enabled /\ SourceHealth \in {"degraded", "failing"} THEN SourceHealth ELSE "none"

-----------------------------------------------------------------------------
(* The source. *)

Logged(r) == FirstRuns(<<r>> \o runs)

\* A run ends: counters and pause flag, and the rows it stored.
RunEnds(r) ==
  /\ ~paused
  /\ runs' = Logged(r)
  /\ dry' = IF r.found THEN 0 ELSE dry + 1
  /\ paused' = (dry' >= PausedFrom)
  /\ stock' \in (IF r.found THEN {stock \cup new : new \in SUBSET AuditRows} ELSE {stock})
  /\ quiet' = IF r.status = "success" THEN 0 ELSE quiet
  /\ UNCHANGED <<enabled, expired>>

RunCut ==
  /\ ~paused /\ runs' = Logged(Cancelled)
  /\ UNCHANGED <<dry, paused, enabled, stock, expired, quiet>>

\* The dispatcher re-activates the source after its cooldown.
Reactivate ==
  paused /\ paused' = FALSE /\ dry' = 0 /\ UNCHANGED <<runs, enabled, stock, expired, quiet>>

SwitchSource == enabled' = ~enabled /\ UNCHANGED <<runs, dry, paused, stock, expired, quiet>>

WindowPasses ==
  quiet < 2 /\ quiet' = quiet + 1 /\ UNCHANGED <<runs, dry, paused, enabled, stock, expired>>

DeadlinePasses ==
  \E o \in stock \ expired : o.dated /\ expired' = expired \cup {o}
                             /\ UNCHANGED <<runs, dry, paused, enabled, stock, quiet>>

AuditInit ==
  /\ runs = <<>> /\ dry = 0 /\ paused = FALSE /\ enabled = TRUE /\ stock = {} /\ expired = {}
  /\ quiet = Never

AuditNext ==
  (\E r \in RunKinds : RunEnds(r)) \/ RunCut \/ Reactivate \/ SwitchSource \/ DeadlinePasses
  \/ WindowPasses

AuditSpec == AuditInit /\ [][AuditNext]_auditVars

-----------------------------------------------------------------------------
(* Properties. *)

\* A source is called "operativa" after as many runs of its own as
\* EMPTY_RUNS_FAIL only if one of them found calls: empty runs, errors and
\* cancelled runs in any mixture never add up to a working source (the empty
\* ones fail the extraction, the errors the persistence, the failed ones the
\* stability).  Nor does the dashboard call it failing meanwhile, by its own
\* arithmetic on the same runs, unless it has been silent for two windows, of which
\* the audit knows nothing.
OperativeYields ==
  /\ Verdict = "operativa"
  => /\ Cardinality({i \in DOMAIN runs : runs[i] # Cancelled}) >= EmptyRunsFail
          => \E i \in DOMAIN runs : runs[i].found
     /\ Banner = "failing" => quiet = 2

\* "no fallida por un puntual": one failed run among good ones does not condemn
\* a source.  The code breaks it: _handle_run_error leaves items_failed = 1 and
\* the check of persistence fails on any failed item.
OneFailureForgiven ==
  /\ enabled /\ ~paused /\ Len(runs) > 2
  /\ runs[1].status = "failed"
  /\ \A i \in 2 .. Len(runs) : runs[i] = RunRow("success", TRUE, FALSE, FALSE, FALSE)
  => Verdict # "fallida"

\* "Una dimension sin datos nunca da PASS".  The code breaks it: failed runs are
\* not empty ones, and any two of them pass the extraction.
NoDataNoPass ==
  runs # <<>> /\ (\A i \in DOMAIN runs : ~runs[i].found) => Extraccion # "PASS"
================================================================================
