------------------------------ MODULE AlertQueue ------------------------------
(***************************************************************************)
(* Alerts between the main session of the scheduler, which e-mails the     *)
(* pending ones at the start of every round, and the requests of users and *)
(* tasks, which create, edit, send and delete them.  An e-mail is out at   *)
(* once; what the row says of it is written by a flush and kept by a       *)
(* commit that come later, and the session may die before either.          *)
(***************************************************************************)
EXTENDS Naturals, FiniteSets

CONSTANTS
  Alerts,       \* rows of the table, 1 .. n: the order is that of created_at
  Subject,      \* what each row is about: (type, opportunity, recipient)
  Emails,       \* the rows whose channel is "email"
  Requests,     \* requests and tasks; each one is served once
  Ops,          \* what a request may ask for
  PageSize,     \* rows that one round reads: 50 in the code
  MaxCrashes    \* bound of the model

ASSUME AlertsAssumption == Alerts \subseteq Nat /\ Emails \subseteq Alerts

VARIABLES
  alert,        \* the committed row: its status and whether sent_at is set
  mails,        \* e-mails that went out for it
  loop,         \* the main session: step, rows still to send, marks in memory: the
                \* rows marked sent and those marked failed
  held,         \* rows whose new marks are flushed and not committed
  req,          \* the requests: step, operation, row and the row as it was read
  crashes, excuses  \* rounds lost after e-mailing; e-mails that users asked for

alertVars == <<alert, mails, loop, held, req, crashes, excuses>>

Absent == [status |-> "absent", stamped |-> FALSE]
Fresh == [status |-> "pending", stamped |-> FALSE]
Is(a, status) == alert[a].status = status
Present(a) == ~Is(a, "absent") /\ ~Is(a, "deleted")

-----------------------------------------------------------------------------
(* The round of the scheduler: send_pending_alerts and the commit that ends  *)
(* the first half of the round.                                              *)

Sleeping == [at |-> "asleep", todo |-> {}, sent |-> {}, failed |-> {}]

\* The rows of the first page: the oldest pending ones.
Page ==
  {a \in Alerts : /\ Is(a, "pending")
                  /\ Cardinality({b \in Alerts : b < a /\ Is(b, "pending")}) < PageSize}

Wake ==
  /\ loop.at = "asleep" /\ Page # {}
  /\ loop' = [loop EXCEPT !.at = "sending", !.todo = Page]
  /\ UNCHANGED <<alert, mails, held, req, crashes, excuses>>

SentMark(a) == [loop EXCEPT !.todo = @ \ {a}, !.sent = @ \union {a}]

\* Mutant: a failed e-mail stays pending, to be tried again.
RetriedMark(a) == [loop EXCEPT !.todo = @ \ {a}]

\* The provider refuses, or its answer is lost after it accepted the e-mail.
FailedMark(a) == [loop EXCEPT !.todo = @ \ {a}, !.failed = @ \union {a}]

SendNext ==
  /\ loop.at = "sending"
  /\ \E a \in loop.todo :
       /\ \A b \in loop.todo : a <= b
       /\ \/ /\ loop' = SentMark(a)
             /\ mails' = [mails EXCEPT ![a] = @ + 1]
          \/ /\ loop' = FailedMark(a)
             /\ mails' \in {mails, [mails EXCEPT ![a] = @ + 1]}
  /\ UNCHANGED <<alert, held, req, crashes, excuses>>

Marked == loop.sent \union loop.failed

\* The session is useless after an error of its flush: every later query
\* raises, the round ends and the marks are gone.
LoseRound ==
  /\ loop' = Sleeping /\ held' = {}
  /\ excuses' = [a \in Alerts |-> excuses[a] + IF a \in Marked THEN 1 ELSE 0]

\* A row that was deleted meanwhile fails the flush; with several rows in one
\* statement the driver may not notice.
FlushMarks ==
  /\ loop.at = "sending" /\ loop.todo = {}
  /\ \/ /\ loop' = [loop EXCEPT !.at = "scoring"]
        /\ held' = {a \in Marked : Present(a)}
        /\ Cardinality(Marked) = 1 => held' = Marked
        /\ UNCHANGED excuses
     \/ (\E a \in Marked : ~Present(a)) /\ LoseRound
  /\ UNCHANGED <<alert, mails, req, crashes>>

\* Mutant: only the sent ones are written.
CommitSentOnly ==
  /\ loop.at = "scoring"
  /\ alert' = [a \in Alerts |->
       IF a \in held \intersect loop.sent
       THEN [status |-> "sent", stamped |-> TRUE] ELSE alert[a]]
  /\ loop' = Sleeping /\ held' = {}
  /\ UNCHANGED <<mails, req, crashes, excuses>>

\* The commit before the sources are swept.  The columns that changed are
\* written: a failed alert keeps its sent_at.
CommitMarks ==
  /\ loop.at = "scoring"
  /\ alert' = [a \in Alerts |->
       CASE a \in held \intersect loop.sent
              -> [status |-> "sent", stamped |-> TRUE]
         [] a \in held \intersect loop.failed
              -> [alert[a] EXCEPT !.status = "failed"]
         [] OTHER -> alert[a]]
  /\ loop' = Sleeping /\ held' = {}
  /\ UNCHANGED <<mails, req, crashes, excuses>>

\* The process of the scheduler stops; its successor starts with a fresh round.
CrashLoop ==
  /\ crashes < MaxCrashes /\ loop.at # "asleep"
  /\ crashes' = crashes + 1 /\ LoseRound
  /\ UNCHANGED <<alert, mails, req>>

-----------------------------------------------------------------------------
(* Requests.  Each reads the row, and writes what it changed at its commit.  *)

Answered == [at |-> "served", op |-> "none", row |-> 0, seen |-> Absent]
Waiting == [Answered EXCEPT !.at = "waiting"]

ReqAt(r, step) == req[r].at = step
Target(r) == req[r].row
Answer(r) == req' = [req EXCEPT ![r] = Answered]

\* 404 for a row that is not there; a paused alert, or one of another channel,
\* is not sent.
Receive(r, op, a) ==
  /\ ReqAt(r, "waiting") /\ op \in Ops \cap {"patch", "send", "delete"}
  /\ LET refused == ~Present(a) \/ (op = "send" /\ (Is(a, "paused") \/ a \notin Emails))
     IN  req' = [req EXCEPT ![r] = IF refused THEN Answered
                   ELSE [at |-> "read", op |-> op, row |-> a, seen |-> alert[a]]]
  /\ UNCHANGED <<alert, mails, loop, held, crashes, excuses>>

\* The columns of the row that differ from what was read.
Changed(a, old, new) ==
  [status |-> IF new.status # old.status THEN new.status ELSE alert[a].status,
   stamped |-> IF new.stamped # old.stamped THEN new.stamped ELSE alert[a].stamped]

\* A write waits for the flush of the round; a row that is gone fails it.
WriteRow(r, new) ==
  LET a == Target(r) IN
  /\ a \notin held
  /\ alert' = IF Present(a) THEN [alert EXCEPT ![a] = Changed(a, req[r].seen, new)] ELSE alert
  /\ Answer(r)

\* update_alert: sent_at is set when the alert becomes sent, and cleared when it
\* is anything else.
Patch(r) ==
  /\ ReqAt(r, "read") /\ req[r].op = "patch"
  /\ \E status \in {"pending", "paused", "sent", "failed"} :
       /\ WriteRow(r, [status |-> status, stamped |-> status = "sent"])
       /\ excuses' = [excuses EXCEPT ![Target(r)] = @ + IF status = "pending" THEN 1 ELSE 0]
  /\ UNCHANGED <<mails, loop, held, crashes>>

\* send_alert: the e-mail first, the row at the commit; a failure is committed
\* too.
SendNow(r) ==
  /\ ReqAt(r, "read") /\ req[r].op = "send"
  /\ LET a == Target(r) IN
       \E ok \in BOOLEAN :
         /\ req' = [req EXCEPT ![r].at = IF ok THEN "sent" ELSE "failed"]
         /\ mails' \in {m \in {mails, [mails EXCEPT ![a] = @ + 1]} : ok => m # mails}
         /\ excuses' = [excuses EXCEPT ![a] = @ + 1]
  /\ UNCHANGED <<alert, loop, held, crashes>>

RecordSend(r) ==
  /\ req[r].at \in {"sent", "failed"}
  /\ WriteRow(r, [status |-> req[r].at, stamped |-> req[r].at = "sent"])
  /\ UNCHANGED <<mails, loop, held, crashes, excuses>>

Delete(r) ==
  /\ ReqAt(r, "read") /\ req[r].op = "delete" /\ Target(r) \notin held
  /\ alert' = [alert EXCEPT ![Target(r)].status = "deleted"]
  /\ Answer(r) /\ UNCHANGED <<mails, loop, held, crashes, excuses>>

\* bulk_delete_alerts reads and deletes in one go, once no row is locked.
BulkDelete(r) ==
  /\ ReqAt(r, "waiting") /\ "bulk" \in Ops /\ held = {}
  /\ alert' = [a \in Alerts |-> IF Present(a) THEN [alert[a] EXCEPT !.status = "deleted"]
                                ELSE alert[a]]
  /\ Answer(r) /\ UNCHANGED <<mails, loop, held, crashes, excuses>>

\* create_alert: the next row of the table.
Create(r) ==
  /\ ReqAt(r, "waiting") /\ "create" \in Ops
  /\ \E a \in Alerts :
       /\ Is(a, "absent") /\ \A b \in Alerts : Is(b, "absent") => a <= b
       /\ alert' = [alert EXCEPT ![a] = Fresh]
  /\ Answer(r) /\ UNCHANGED <<mails, loop, held, crashes, excuses>>

\* generate_recommended_alerts and faculty_match_task: one alert per subject,
\* unless the session's own read shows one, whatever its status.
Check(r, a) ==
  /\ ReqAt(r, "waiting") /\ "generate" \in Ops /\ Is(a, "absent")
  /\ LET known == \E b \in Alerts : Present(b) /\ Subject[b] = Subject[a]
     IN  req' = [req EXCEPT ![r] = IF known THEN Answered
                   ELSE [at |-> "checked", op |-> "generate", row |-> a, seen |-> Absent]]
  /\ UNCHANGED <<alert, mails, loop, held, crashes, excuses>>

Generate(r) ==
  /\ ReqAt(r, "checked")
  /\ \E a \in Alerts :
       /\ Is(a, "absent") /\ Subject[a] = Subject[Target(r)]
       /\ alert' = [alert EXCEPT ![a] = Fresh]
  /\ Answer(r) /\ UNCHANGED <<mails, loop, held, crashes, excuses>>

\* lock_timeout: the request fails after a minute behind the round's locks.
RequestTimesOut(r) ==
  /\ req[r].at \in {"read", "sent", "failed"} /\ Target(r) \in held
  /\ Answer(r) /\ UNCHANGED <<alert, mails, loop, held, crashes, excuses>>

-----------------------------------------------------------------------------
\* The first n rows are there.
Table(n) ==
  /\ alert = [a \in Alerts |-> IF a <= n THEN Fresh ELSE Absent]
  /\ mails = [a \in Alerts |-> 0] /\ excuses = [a \in Alerts |-> 0]
  /\ loop = Sleeping /\ held = {} /\ crashes = 0
  /\ req = [r \in Requests |-> Waiting]

NoAlerts == Table(0)
AlertsInit == \E n \in Alerts : Table(n)

Round == Wake \/ SendNext \/ FlushMarks \/ CommitMarks

Request(r) ==
  \/ \E a \in Alerts : Check(r, a) \/ \E op \in Ops : Receive(r, op, a)
  \/ Patch(r) \/ SendNow(r) \/ RecordSend(r) \/ Delete(r) \/ BulkDelete(r)
  \/ Create(r) \/ Generate(r) \/ RequestTimesOut(r)

\* A round with nothing to send.
IdleRound == loop.at = "asleep" /\ Page = {} /\ UNCHANGED alertVars

AlertsNext == Round \/ IdleRound \/ CrashLoop \/ \E r \in Requests : Request(r)

\* The scheduler goes on for ever: it catches what a round raises and sleeps.
AlertsSpec == AlertsInit /\ [][AlertsNext]_alertVars /\ WF_alertVars(Round)

-----------------------------------------------------------------------------
(* Properties. *)

\* A second e-mail of an alert needs a cause: a round that was lost after it
\* had e-mailed, or a user who sent the alert or set it back to pending.  What
\* one session reads while another sends must not add any.
SecondMailHasCause == \A a \in Alerts : mails[a] <= 1 + excuses[a]

\* Every pending alert is dealt with in the end: failing ones do not keep the
\* page occupied, and lost rounds are made up for.
PendingLeaves == \A a \in Alerts : Is(a, "pending") ~> ~Is(a, "pending")

\* "Send all pending alerts that haven't been sent yet": nobody asked for a
\* second e-mail, so there is none.
SentOnce == \A a \in Alerts : mails[a] <= 1

\* A paused alert carries no sent_at (the test of PATCH asserts it).
PausedUnstamped == \A a \in Alerts : Is(a, "paused") => ~alert[a].stamped

\* One alert per subject: the matching task calls itself deduped.
NoTwinAlerts ==
  \A a, b \in Alerts : a # b /\ Present(a) /\ Present(b) => Subject[a] # Subject[b]
=============================================================================
