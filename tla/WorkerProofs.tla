----------------------------- MODULE WorkerProofs -----------------------------
(*****************************************************************************)
(* Proofs about what the worker's loops remember: SweepSchedule, the sweep   *)
(* that the loop of the sources begins, and AlertQueue, the round that       *)
(* e-mails alerts; for any sources, tiers, clocks, alerts and requests.      *)
(*****************************************************************************)
EXTENDS SweepSchedule, AlertQueue, TLAPS

-----------------------------------------------------------------------------
(* SweepSchedule, for any sources, tiers, caps and clocks: the memory of the *)
(* loop keeps the forced pass of the night from being repeated.              *)

\* The passes that were begun since midnight, against the restarts.
AtMost(n, p) == p \in [begun : Nat, reboots : Nat] /\ p.begun <= p.reboots + n

\* One pass more than restarts may have begun, and only when it is remembered.
Remembered == AtMost(1, passes) /\ (night \/ AtMost(0, passes))

-----------------------------------------------------------------------------
(* Arithmetic.                                                               *)

\* A pass more, a restart more, a new day.
LEMMA Counting ==
  ASSUME NEW p
  PROVE  /\ AtMost(0, p) => AtMost(1, p) /\ AtMost(1, [p EXCEPT !.begun = @ + 1])
         /\ AtMost(1, p) => AtMost(0, [p EXCEPT !.reboots = @ + 1])
         /\ AtMost(0, [begun |-> 0, reboots |-> 0])
         /\ AtMost(1, p) => p.begun <= 1 + p.reboots
BY DEF AtMost

-----------------------------------------------------------------------------
\* No pass has begun at the start.
LEMMA RememberedInit == ScheduleInit => Remembered
BY Counting DEF ScheduleInit, Remembered

\* Every step keeps the memory good for one pass.
LEMMA RememberedStep == Remembered /\ [ScheduleNext]_scheduleVars => Remembered'
<1> SUFFICES ASSUME Remembered, [ScheduleNext]_scheduleVars PROVE Remembered'
  OBVIOUS
<1>1. CASE UNCHANGED <<night, passes>>
  BY <1>1 DEF Remembered, AtMost
<1>2. CASE BeginRound
  <2>1. CASE Forced
    <3>1. ~night /\ night'
      BY <1>2, <2>1 DEF BeginRound, Forced
    <3>2. passes' = [passes EXCEPT !.begun = @ + 1]
      BY <1>2, <2>1 DEF BeginRound
    <3> QED
      BY <3>1, <3>2, Counting, Zenon DEF Remembered
  <2>2. CASE ~Forced
    <3>1. night' <=> night
      BY <1>2, <2>2 DEF BeginRound
    <3>2. passes' = passes
      <4>1. passes' = [passes EXCEPT !.begun = @]
        BY <1>2, <2>2 DEF BeginRound
      <4> QED
        BY <4>1 DEF Remembered, AtMost
    <3> QED
      BY <3>1, <3>2, Zenon DEF Remembered, AtMost
  <2> QED
    BY <2>1, <2>2
<1>3. CASE FailRound
  <2>1. night' /\ passes' = passes
    BY <1>3 DEF FailRound
  <2> QED
    BY <2>1, Zenon DEF Remembered
<1>4. CASE Reboot
  <2>1. passes' = [passes EXCEPT !.reboots = @ + 1]
    BY <1>4 DEF Reboot
  <2> QED
    BY <2>1, Counting, Zenon DEF Remembered
<1>5. CASE PassTime
  <2>1. CASE passes' = [begun |-> 0, reboots |-> 0]
    BY <2>1, Counting, Zenon DEF Remembered
  <2>2. CASE UNCHANGED <<night, passes>>
    BY <1>1, <2>2
  <2> QED
    BY <1>5, <2>1, <2>2 DEF PassTime
<1>6. CASE HoldGlobal \/ HoldTier \/ EndJob \/ EndRound
  BY <1>1, <1>6 DEF HoldGlobal, HoldTier, EndJob, EndRound
<1>7. CASE UNCHANGED scheduleVars
  BY <1>1, <1>7 DEF scheduleVars
<1> QED
  BY <1>2, <1>3, <1>4, <1>5, <1>6, <1>7 DEF ScheduleNext, Loop

-----------------------------------------------------------------------------
\* All sources are forced at most once a day, and once more for each restart of
\* that day, rounds that fail before their commit included.
THEOREM ForcedOnceANight == ScheduleSpec => []OnePassANight
<1>1. Remembered => OnePassANight
  BY Counting DEF Remembered, OnePassANight
<1> QED
  BY <1>1, RememberedInit, RememberedStep, PTL DEF ScheduleSpec

-----------------------------------------------------------------------------
(* AlertQueue: for any table of alerts, any requests and any number of lost  *)
(* rounds, an alert is e-mailed more than once only for a cause.  The invariant *)
(* that carries it says which rows may still be e-mailed: those of the page and *)
(* the pending ones without a mark have been e-mailed at most as often as causes *)
(* allow, and between the flush and the commit of a round every marked row is *)
(* locked or deleted, so that the commit leaves none of them pending.        *)

Row ==
  [status : {"absent", "pending", "paused", "sent", "failed", "deleted"},
   stamped : BOOLEAN]

RowsTyped == alert \in [Alerts -> Row]

CountsTyped == mails \in [Alerts -> Nat] /\ excuses \in [Alerts -> Nat]

LoopTyped ==
  loop \in [at : {"asleep", "sending", "scoring"}, todo : SUBSET Alerts,
            sent : SUBSET Alerts, failed : SUBSET Alerts]

\* What the round holds in each of its steps.
RoundHolds ==
  /\ loop.at = "asleep" => loop.todo = {} /\ Marked = {}
  /\ loop.todo \intersect Marked = {}
  /\ \A a \in loop.todo \union Marked : ~Is(a, "absent")
  /\ loop.at = "scoring" =>
       loop.todo = {} /\ \A a \in Marked : a \in held \/ Is(a, "deleted")

\* No e-mail of this row lacks a cause: one more may go out.
MayBeSent(a) == mails[a] <= excuses[a]

Unsent ==
  \A a \in Alerts :
    /\ mails[a] <= 1 + excuses[a]
    /\ a \in loop.todo \/ Is(a, "absent") => MayBeSent(a)
    /\ Is(a, "pending") /\ a \notin Marked => MayBeSent(a)

MailsCaused == RowsTyped /\ CountsTyped /\ LoopTyped /\ RoundHolds /\ Unsent

-----------------------------------------------------------------------------
(* What a request may do to the rows, and to the e-mails and their causes.   *)

\* No row returns from deletion and none is taken out of the table again.
RowsMove ==
  /\ RowsTyped'
  /\ \A a \in Alerts :
       /\ Is(a, "deleted") => Is(a, "deleted")'
       /\ Is(a, "absent")' => Is(a, "absent")

\* The two rows that the module writes are rows.
LEMMA FreshRow == Fresh \in Row /\ Fresh.status = "pending"
  BY DEF Fresh, Row

\* Likewise the place where there is none yet.
LEMMA AbsentRow == Absent \in Row /\ Absent.status = "absent"
  BY DEF Absent, Row

\* The first state: rows are pending or absent and nothing was e-mailed.
LEMMA StartCaused == AlertsInit => MailsCaused
<1> SUFFICES ASSUME NEW n \in Alerts, Table(n) PROVE MailsCaused
  BY DEF AlertsInit
<1>1. RowsTyped
  BY FreshRow, AbsentRow DEF RowsTyped, Table
<1>2. CountsTyped
  BY DEF CountsTyped, Table
<1>3. LoopTyped /\ RoundHolds
  BY DEF LoopTyped, RoundHolds, Table, Sleeping, Marked
<1>4. \A a \in Alerts : mails[a] = 0 /\ excuses[a] = 0
  BY DEF Table
<1>5. Unsent
  BY <1>4 DEF Unsent, MayBeSent
<1>6. QED
  BY <1>1, <1>2, <1>3, <1>5 DEF MailsCaused

-----------------------------------------------------------------------------
(* The round.                                                                *)

\* The page is taken from the pending rows while no row is marked.
LEMMA WakeCaused == MailsCaused /\ Wake => MailsCaused'
<1> SUFFICES ASSUME MailsCaused, Wake PROVE MailsCaused'
  OBVIOUS
<1> USE DEF MailsCaused
<1>1. RowsTyped' /\ CountsTyped'
  BY DEF Wake, RowsTyped, CountsTyped
<1>2. /\ loop.at = "asleep" /\ Marked = {} /\ Page \subseteq Alerts
      /\ loop' = [loop EXCEPT !.at = "sending", !.todo = Page]
      /\ \A a \in Page : Is(a, "pending")
  BY DEF Wake, RoundHolds, Page
<1>3. LoopTyped'
  BY <1>2 DEF LoopTyped
<1>4. loop'.at = "sending" /\ loop'.todo = Page /\ Marked' = {}
  BY <1>2 DEF LoopTyped, Marked
<1>5. RoundHolds'
  BY <1>2, <1>4 DEF RoundHolds, Is, Wake
<1>6. Unsent'
  BY <1>2, <1>4 DEF Unsent, MayBeSent, Is, Wake
<1>7. QED
  BY <1>1, <1>3, <1>5, <1>6

\* An e-mail: its row leaves the page and is marked.
LEMMA SendCaused == MailsCaused /\ SendNext => MailsCaused'
<1> SUFFICES ASSUME MailsCaused, SendNext PROVE MailsCaused'
  OBVIOUS
<1> USE DEF MailsCaused
<1>1. PICK a \in loop.todo :
        /\ loop' = SentMark(a) \/ loop' = FailedMark(a)
        /\ mails' = mails \/ mails' = [mails EXCEPT ![a] = @ + 1]
  BY DEF SendNext
<1>2. a \in Alerts /\ loop.at = "sending" /\ UNCHANGED <<alert, held, excuses>>
  BY DEF SendNext, LoopTyped
<1>3. RowsTyped' /\ CountsTyped'
  BY <1>1, <1>2 DEF RowsTyped, CountsTyped
<1>4. LoopTyped'
  <2>1. CASE loop' = SentMark(a)
    BY <1>2, <2>1 DEF LoopTyped, SentMark
  <2>2. CASE loop' = FailedMark(a)
    BY <1>2, <2>2 DEF LoopTyped, FailedMark
  <2>3. QED
    BY <1>1, <2>1, <2>2
<1>5. /\ loop'.at = "sending" /\ loop'.todo = loop.todo \ {a}
      /\ Marked' = Marked \union {a}
  BY <1>1, <1>2 DEF LoopTyped, SentMark, FailedMark, Marked
<1>6. RoundHolds'
  BY <1>1, <1>2, <1>5 DEF RoundHolds, Is
<1>7. /\ mails[a] <= excuses[a] /\ a \notin loop'.todo /\ a \in Marked'
      /\ ~Is(a, "absent")
  BY <1>1, <1>2, <1>5 DEF Unsent, MayBeSent, RoundHolds
<1>8. /\ mails'[a] <= 1 + excuses'[a]
      /\ \A b \in Alerts \ {a} : mails'[b] = mails[b] /\ excuses'[b] = excuses[b]
  BY <1>1, <1>2, <1>7 DEF CountsTyped
<1>9. Unsent'
  <2> SUFFICES ASSUME NEW b \in Alerts
      PROVE  /\ mails'[b] <= 1 + excuses'[b]
             /\ b \in loop'.todo \/ Is(b, "absent") => mails'[b] <= excuses'[b]
             /\ Is(b, "pending") /\ b \notin Marked' => mails'[b] <= excuses'[b]
    BY <1>2 DEF Unsent, MayBeSent, Is
  <2>1. CASE b = a
    BY <2>1, <1>7, <1>8
  <2>2. CASE b # a
    BY <2>2, <1>5, <1>8 DEF Unsent, MayBeSent
  <2>3. QED
    BY <2>1, <2>2
<1>10. QED
  BY <1>3, <1>4, <1>6, <1>9

\* A lost round is a cause for every row that it had marked.
LEMMA LoseCaused == MailsCaused /\ LoseRound /\ UNCHANGED <<alert, mails>> => MailsCaused'
<1> SUFFICES ASSUME MailsCaused, LoseRound, UNCHANGED <<alert, mails>> PROVE MailsCaused'
  OBVIOUS
<1> USE DEF MailsCaused
<1>1. loop'.at = "asleep" /\ loop'.todo = {} /\ Marked' = {}
  BY DEF LoseRound, Sleeping, Marked
<1>2. \A a \in Alerts : /\ excuses'[a] \in Nat /\ excuses'[a] >= excuses[a]
                        /\ a \in Marked => excuses'[a] = excuses[a] + 1
  BY DEF LoseRound, CountsTyped
<1>3. excuses' \in [Alerts -> Nat]
  BY DEF LoseRound, CountsTyped
<1>4. RowsTyped' /\ CountsTyped' /\ LoopTyped'
  BY <1>3 DEF LoseRound, Sleeping, RowsTyped, CountsTyped, LoopTyped
<1>5. RoundHolds'
  BY <1>1 DEF RoundHolds
<1>6. \A a \in Alerts : mails'[a] = mails[a] /\ mails[a] \in Nat /\ excuses[a] \in Nat
  BY DEF CountsTyped
<1>7. Unsent'
  <2> SUFFICES ASSUME NEW a \in Alerts
      PROVE  /\ mails[a] <= 1 + excuses'[a]
             /\ Is(a, "absent") => mails[a] <= excuses'[a]
             /\ Is(a, "pending") => mails[a] <= excuses'[a]
    BY <1>1 DEF Unsent, MayBeSent, Is
  <2>1. CASE a \in Marked
    BY <2>1, <1>2, <1>6 DEF Unsent
  <2>2. CASE a \notin Marked
    BY <2>2, <1>2, <1>6 DEF Unsent, MayBeSent
  <2>3. QED
    BY <2>1, <2>2
<1>8. QED
  BY <1>4, <1>5, <1>7

\* The flush locks the marked rows that are still there.
LEMMA FlushCaused == MailsCaused /\ FlushMarks => MailsCaused'
<1> SUFFICES ASSUME MailsCaused, FlushMarks PROVE MailsCaused'
  OBVIOUS
<1>1. CASE LoseRound
  BY <1>1, LoseCaused DEF FlushMarks
<1>2. CASE /\ loop' = [loop EXCEPT !.at = "scoring"]
           /\ held' = {a \in Marked : Present(a)}
           /\ UNCHANGED excuses
  <2> USE DEF MailsCaused
  <2>1. LoopTyped'
    BY <1>2 DEF LoopTyped
  <2>2. /\ loop'.at = "scoring" /\ loop'.todo = {} /\ loop.todo = {}
        /\ Marked' = Marked /\ UNCHANGED <<alert, mails>>
    BY <1>2 DEF FlushMarks, LoopTyped, Marked
  <2>3. RowsTyped' /\ CountsTyped'
    BY <1>2, <2>2 DEF RowsTyped, CountsTyped
  <2>4. RoundHolds'
    BY <1>2, <2>2 DEF RoundHolds, Is, Present
  <2>5. Unsent'
    BY <1>2, <2>2 DEF Unsent, MayBeSent, Is
  <2>6. QED
    BY <2>1, <2>3, <2>4, <2>5
<1>3. QED
  BY <1>1, <1>2 DEF FlushMarks

\* After the flush a marked row is locked, and gets its mark, or deleted.
LEMMA CommitCaused == MailsCaused /\ CommitMarks => MailsCaused'
<1> SUFFICES ASSUME MailsCaused, CommitMarks PROVE MailsCaused'
  OBVIOUS
<1> USE DEF MailsCaused
<1>1. \A a \in Alerts :
        /\ alert'[a] \in Row
        /\ a \notin held => alert'[a] = alert[a]
        /\ a \in held /\ a \in Marked => alert'[a].status \in {"sent", "failed"}
        /\ alert'[a].status # alert[a].status => alert'[a].status \in {"sent", "failed"}
  <2> TAKE a \in Alerts
  <2>1. alert[a] \in Row
    BY DEF RowsTyped
  <2>2. CASE a \in held \intersect loop.sent
    BY <2>1, <2>2 DEF CommitMarks, Row
  <2>3. CASE a \notin held \intersect loop.sent /\ a \in held \intersect loop.failed
    BY <2>1, <2>3 DEF CommitMarks, Row
  <2>4. CASE a \notin held \intersect loop.sent /\ a \notin held \intersect loop.failed
    BY <2>1, <2>4 DEF CommitMarks, Marked
  <2>5. QED
    BY <2>2, <2>3, <2>4
<1>2. loop'.at = "asleep" /\ loop'.todo = {} /\ Marked' = {} /\ LoopTyped'
  BY DEF CommitMarks, Sleeping, Marked, LoopTyped
<1>3. RowsTyped'
  BY <1>1 DEF CommitMarks, RowsTyped
<1>4. CountsTyped' /\ UNCHANGED <<mails, excuses>>
  BY DEF CommitMarks, CountsTyped
<1>5. RoundHolds'
  BY <1>2 DEF RoundHolds
<1>6. \A a \in Marked : a \in held \/ Is(a, "deleted")
  BY DEF CommitMarks, RoundHolds
<1>7. \A a \in Alerts : /\ Is(a, "absent")' => Is(a, "absent")
                        /\ Is(a, "pending")' => Is(a, "pending") /\ a \notin Marked
  BY <1>1, <1>6 DEF Is
<1>8. Unsent'
  BY <1>2, <1>4, <1>7 DEF Unsent, MayBeSent
<1>9. QED
  BY <1>2, <1>3, <1>4, <1>5, <1>8

-----------------------------------------------------------------------------
(* The requests.                                                             *)

\* A request that leaves loop alone keeps the invariant if the rows move as
\* they must, every row that becomes pending was absent or is excused, and
\* e-mails come with causes.
LEMMA RequestCaused ==
  ASSUME MailsCaused, RowsMove, CountsTyped', UNCHANGED <<loop, held>>,
         \A a \in Alerts :
           /\ mails'[a] - mails[a] <= excuses'[a] - excuses[a]
           /\ Is(a, "pending")' => \/ Is(a, "pending") \/ Is(a, "absent")
                                   \/ mails'[a] < mails[a] + excuses'[a] - excuses[a]
  PROVE  MailsCaused'
<1> USE DEF MailsCaused
<1>1. LoopTyped' /\ Marked' = Marked
  BY DEF LoopTyped, Marked
<1>2. RoundHolds'
  <2>1. \A a \in Alerts : ~Is(a, "absent") => ~Is(a, "absent")'
    BY DEF RowsMove
  <2>2. \A a \in Alerts : Is(a, "deleted") => Is(a, "deleted")'
    BY DEF RowsMove
  <2>3. loop.todo \subseteq Alerts /\ Marked \subseteq Alerts
    BY DEF LoopTyped, Marked
  <2>4. QED
    BY <1>1, <2>1, <2>2, <2>3 DEF RoundHolds
<1>3. \A a \in Alerts : /\ mails[a] \in Nat /\ excuses[a] \in Nat
                        /\ mails'[a] \in Nat /\ excuses'[a] \in Nat
  BY DEF CountsTyped
<1>4. \A a \in Alerts : Is(a, "absent")' => Is(a, "absent")
  BY DEF RowsMove
<1>5. Unsent'
  <2> SUFFICES ASSUME NEW a \in Alerts
      PROVE  /\ mails'[a] <= 1 + excuses'[a]
             /\ a \in loop.todo \/ Is(a, "absent")' => mails'[a] <= excuses'[a]
             /\ Is(a, "pending")' /\ a \notin Marked => mails'[a] <= excuses'[a]
    BY <1>1 DEF Unsent, MayBeSent
  <2>1. /\ mails[a] <= 1 + excuses[a]
        /\ a \in loop.todo \/ Is(a, "absent") => mails[a] <= excuses[a]
        /\ Is(a, "pending") /\ a \notin Marked => mails[a] <= excuses[a]
    BY DEF Unsent, MayBeSent
  <2>2. mails'[a] <= 1 + excuses'[a]
    BY <1>3, <2>1
  <2>3. a \in loop.todo \/ Is(a, "absent")' => mails'[a] <= excuses'[a]
    BY <1>3, <1>4, <2>1
  <2>4. Is(a, "pending")' /\ a \notin Marked => mails'[a] <= excuses'[a]
    BY <1>3, <2>1
  <2>5. QED
    BY <2>2, <2>3, <2>4
<1>6. QED
  BY <1>1, <1>2, <1>5 DEF RowsMove

\* Requests that change rows only.
LEMMA RowsOnly ==
  ASSUME MailsCaused, RowsMove, UNCHANGED <<mails, loop, held, excuses>>,
         \A a \in Alerts : Is(a, "pending")' => Is(a, "pending") \/ Is(a, "absent")
  PROVE  MailsCaused'
<1>1. CountsTyped' /\ \A a \in Alerts : mails'[a] - mails[a] <= excuses'[a] - excuses[a]
  BY DEF MailsCaused, CountsTyped
<1>2. QED
  BY <1>1, RequestCaused

\* Steps that change no row, no e-mail and no round.
LEMMA ReadOnly ==
  MailsCaused /\ UNCHANGED <<alert, mails, loop, held, excuses>> => MailsCaused'
  BY DEF MailsCaused, RowsTyped, CountsTyped, LoopTyped, RoundHolds, Unsent, MayBeSent,
         Marked, Is

\* A write touches one row, which keeps its status or takes the one written.
LEMMA WriteMoves ==
  ASSUME MailsCaused, NEW r, NEW new \in [status : {"pending", "paused", "sent", "failed"},
                                           stamped : BOOLEAN],
         WriteRow(r, new)
  PROVE  /\ RowsMove
         /\ \A a \in Alerts : Is(a, "pending")' =>
              Is(a, "pending") \/ (a = Target(r) /\ new.status = "pending")
<1> DEFINE t == Target(r)
<1>1. CASE ~Present(t)
  BY <1>1 DEF WriteRow, RowsMove, Is, MailsCaused, RowsTyped
<1>2. CASE Present(t)
  <2> DEFINE row == Changed(t, req[r].seen, new)
  <2>1. alert' = [alert EXCEPT ![t] = row]
    BY <1>2 DEF WriteRow
  <2>2. row.status = new.status \/ row.status = alert[t].status
    BY DEF Changed
  <2>3. t \in Alerts => row \in Row
    BY DEF Changed, MailsCaused, RowsTyped, Row
  <2> HIDE DEF row
  <2>4. \A a \in Alerts : alert'[a] = IF a = t THEN row ELSE alert[a]
    BY <2>1 DEF MailsCaused, RowsTyped
  <2>5. RowsTyped'
    BY <2>1, <2>3 DEF MailsCaused, RowsTyped
  <2>6. QED
    BY <1>2, <2>2, <2>4, <2>5 DEF RowsMove, Is, Present
<1>3. QED
  BY <1>1, <1>2

\* A user who sets an alert back to pending is the cause of the next e-mail.
LEMMA PatchCaused == ASSUME MailsCaused, NEW r \in Requests, Patch(r) PROVE MailsCaused'
<1>1. PICK status \in {"pending", "paused", "sent", "failed"} :
        /\ WriteRow(r, [status |-> status, stamped |-> status = "sent"])
        /\ excuses' = [excuses EXCEPT ![Target(r)] = @ + IF status = "pending" THEN 1 ELSE 0]
  BY DEF Patch
<1> DEFINE new == [status |-> status, stamped |-> status = "sent"]
<1>2. /\ new \in [status : {"pending", "paused", "sent", "failed"}, stamped : BOOLEAN]
      /\ new.status = status
  OBVIOUS
<1>3. UNCHANGED <<mails, loop, held>> /\ WriteRow(r, new)
  BY <1>1 DEF Patch
<1> HIDE DEF new
<1>4. /\ RowsMove
      /\ \A a \in Alerts : Is(a, "pending")' =>
           Is(a, "pending") \/ (a = Target(r) /\ new.status = "pending")
  BY <1>2, <1>3, WriteMoves
<1>5. CountsTyped'
  <2>1. \A a \in Alerts : excuses[a] + (IF status = "pending" THEN 1 ELSE 0) \in Nat
    BY DEF MailsCaused, CountsTyped
  <2>2. QED
    BY <1>1, <1>3, <2>1 DEF MailsCaused, CountsTyped
<1>6. \A a \in Alerts :
        /\ mails'[a] = mails[a] /\ mails[a] \in Nat /\ excuses[a] \in Nat
        /\ excuses'[a] >= excuses[a] /\ excuses'[a] \in Nat
        /\ a = Target(r) /\ status = "pending" => excuses'[a] = excuses[a] + 1
  BY <1>1, <1>3 DEF MailsCaused, CountsTyped
<1>7. \A a \in Alerts :
        /\ mails'[a] - mails[a] <= excuses'[a] - excuses[a]
        /\ a = Target(r) /\ status = "pending"
             => mails'[a] < mails[a] + excuses'[a] - excuses[a]
  BY <1>6
<1>8. QED
  BY <1>2, <1>3, <1>4, <1>5, <1>7, RequestCaused

\* What an e-mail asked for leaves in the row is never pending.
LEMMA RecordCaused == ASSUME MailsCaused, NEW r \in Requests, RecordSend(r) PROVE MailsCaused'
<1> DEFINE new == [status |-> req[r].at, stamped |-> req[r].at = "sent"]
<1>1. new \in [status : {"pending", "paused", "sent", "failed"}, stamped : BOOLEAN]
  BY DEF RecordSend
<1>2. new.status # "pending"
  BY DEF RecordSend
<1>3. WriteRow(r, new) /\ UNCHANGED <<mails, loop, held, excuses>>
  BY DEF RecordSend
<1> HIDE DEF new
<1>4. RowsMove /\ \A a \in Alerts : Is(a, "pending")' => Is(a, "pending")
  BY <1>1, <1>2, <1>3, WriteMoves
<1>5. QED
  BY <1>3, <1>4, RowsOnly

\* An e-mail that a user asks for brings its own cause.
LEMMA SendNowCaused == ASSUME MailsCaused, NEW r \in Requests, SendNow(r) PROVE MailsCaused'
<1> DEFINE t == Target(r)
<1>1. /\ mails' = mails \/ mails' = [mails EXCEPT ![t] = @ + 1]
      /\ excuses' = [excuses EXCEPT ![t] = @ + 1]
      /\ UNCHANGED <<alert, loop, held>>
  BY DEF SendNow
<1>2. CountsTyped'
  <2>1. \A a \in Alerts : mails[a] + 1 \in Nat /\ excuses[a] + 1 \in Nat
    BY DEF MailsCaused, CountsTyped
  <2>2. QED
    BY <1>1, <2>1 DEF MailsCaused, CountsTyped
<1>3. \A a \in Alerts : mails'[a] - mails[a] <= excuses'[a] - excuses[a]
  BY <1>1 DEF MailsCaused, CountsTyped
<1>4. RowsMove /\ \A a \in Alerts : Is(a, "pending")' => Is(a, "pending")
  BY <1>1 DEF MailsCaused, RowsTyped, RowsMove, Is
<1>5. QED
  BY <1>1, <1>2, <1>3, <1>4, RequestCaused

\* Deleted rows are out of every round.
LEMMA DeleteCaused ==
  ASSUME MailsCaused, NEW r \in Requests, Delete(r) \/ BulkDelete(r) PROVE MailsCaused'
<1>0. \A a \in Alerts : [alert[a] EXCEPT !.status = "deleted"] \in Row
  BY DEF MailsCaused, RowsTyped, Row
<1>1. \A a \in Alerts : alert'[a] = alert[a] \/ alert'[a].status = "deleted"
  <2>1. CASE Delete(r)
    BY <2>1 DEF MailsCaused, RowsTyped, Row, Delete
  <2>2. CASE BulkDelete(r)
    BY <2>2 DEF MailsCaused, RowsTyped, Row, BulkDelete
  <2>3. QED
    BY <2>1, <2>2
<1>2. RowsTyped'
  BY <1>0 DEF MailsCaused, RowsTyped, Delete, BulkDelete
<1>3. RowsMove /\ \A a \in Alerts : Is(a, "pending")' => Is(a, "pending")
  BY <1>1, <1>2 DEF RowsMove, Is
<1>4. UNCHANGED <<mails, loop, held, excuses>>
  BY DEF Delete, BulkDelete
<1>5. QED
  BY <1>3, <1>4, RowsOnly

\* New rows come where there was none.
LEMMA CreateCaused ==
  ASSUME MailsCaused, NEW r \in Requests, Create(r) \/ Generate(r) PROVE MailsCaused'
<1>1. PICK a \in Alerts : Is(a, "absent") /\ alert' = [alert EXCEPT ![a] = Fresh]
  BY DEF Create, Generate
<1>3. RowsTyped' /\ \A b \in Alerts : alert'[b] = IF b = a THEN Fresh ELSE alert[b]
  BY <1>1, FreshRow DEF MailsCaused, RowsTyped
<1>4. RowsMove /\ \A b \in Alerts : Is(b, "pending")' => Is(b, "pending") \/ Is(b, "absent")
  BY <1>1, <1>3, FreshRow DEF RowsMove, Is
<1>5. UNCHANGED <<mails, loop, held, excuses>>
  BY DEF Create, Generate
<1>6. QED
  BY <1>4, <1>5, RowsOnly

-----------------------------------------------------------------------------
\* Every step keeps the invariant.
LEMMA StepCaused == MailsCaused /\ [AlertsNext]_alertVars => MailsCaused'
<1> SUFFICES ASSUME MailsCaused, [AlertsNext]_alertVars PROVE MailsCaused'
  OBVIOUS
<1>1. CASE Round
  BY <1>1, WakeCaused, SendCaused, FlushCaused, CommitCaused DEF Round
<1>2. CASE IdleRound \/ UNCHANGED alertVars
  BY <1>2, ReadOnly DEF IdleRound, alertVars
<1>3. CASE CrashLoop
  BY <1>3, LoseCaused DEF CrashLoop
<1>4. ASSUME NEW r \in Requests, Request(r) PROVE MailsCaused'
  <2>1. CASE \E a \in Alerts : Check(r, a) \/ \E op \in Ops : Receive(r, op, a)
    BY <2>1, ReadOnly DEF Check, Receive
  <2>2. CASE RequestTimesOut(r)
    BY <2>2, ReadOnly DEF RequestTimesOut
  <2>3. CASE Patch(r)
    BY <2>3, PatchCaused
  <2>4. CASE SendNow(r)
    BY <2>4, SendNowCaused
  <2>5. CASE RecordSend(r)
    BY <2>5, RecordCaused
  <2>6. CASE Delete(r) \/ BulkDelete(r)
    BY <2>6, DeleteCaused
  <2>7. CASE Create(r) \/ Generate(r)
    BY <2>7, CreateCaused
  <2>8. QED
    BY <1>4, <2>1, <2>2, <2>3, <2>4, <2>5, <2>6, <2>7 DEF Request
<1>5. QED
  BY <1>1, <1>2, <1>3, <1>4 DEF AlertsNext

\* For any number of alerts, requests and lost rounds, an alert is e-mailed
\* again only after a round that e-mailed it was lost, or because a user asked.
THEOREM MailsHaveCause == AlertsSpec => []SecondMailHasCause
<1>1. MailsCaused => SecondMailHasCause
  BY DEF MailsCaused, Unsent, SecondMailHasCause
<1>2. QED
  BY <1>1, StartCaused, StepCaused, PTL DEF AlertsSpec
===============================================================================
