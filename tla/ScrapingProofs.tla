----------------------------- MODULE ScrapingProofs -----------------------------
(*****************************************************************************)
(* Proofs about what happens around one scrape: the passes and the counts of *)
(* ScrapePipeline, the verdict of SourceAudit on the runs it left, the       *)
(* requests of LiveProbe, and the calls that ListingWalk lists.              *)
(*****************************************************************************)
EXTENDS ScrapePipeline, SourceAudit, LiveProbe, ListingWalk,
  SequenceTheorems, FiniteSetTheorems, TLAPS

-----------------------------------------------------------------------------
(* LiveProbe, for any hosts, lists of suffixes and budgets: what is let through *)
(* stays with the owners of the authorised hosts, or in their mixed zones.   *)

\* The rule of RequestsStayOwned, of one host.
Owned(h) ==
  /\ \E a \in AuthorizedHosts, b \in Known :
       /\ OwnerOf[b] = OwnerOf[a]
       /\ b = h \/ (Mixed(Zone(h)) /\ Zone(b) = Zone(h))
  /\ SharedTenant(h) => h \in AuthorizedHosts

\* The hosts let through are known, and kept with their owners, and every host
\* that was asked had been let through.
AllowedOwned ==
  /\ probe = [pending |-> probe.pending, made |-> probe.made, hops |-> probe.hops,
              allowed |-> probe.allowed, asked |-> probe.asked, status |-> probe.status,
              wall |-> probe.wall, step |-> probe.step]
  /\ probe.allowed \subseteq Known
  /\ \A h \in probe.allowed : Owned(h)
  /\ probe.asked \in Seq(probe.allowed)

-----------------------------------------------------------------------------
\* Hosts that agree on some labels agree on fewer.
LEMMA FewerLabels ==
  ASSUME NEW o \in Seq(STRING), NEW t \in Seq(STRING), NEW m \in Nat, NEW n \in Nat, NEW k \in Nat,
         k <= m, k <= n, m <= Len(o), n <= Len(t), SubSeq(o, 1, m) = SubSeq(t, 1, n)
  PROVE  SubSeq(o, 1, k) = SubSeq(t, 1, k)
<1>1. ASSUME NEW i \in 1 .. k PROVE o[i] = t[i]
  <2>1. SubSeq(o, 1, m)[i] = o[i] /\ SubSeq(t, 1, n)[i] = t[i]
    BY <1>1
  <2> QED
    BY <2>1
<1> QED
  BY <1>1

\* Hosts that the rules relate agree on the labels of the shorter registrable domain.
LEMMA RelatedLabels ==
  ASSUME NEW o \in Known, NEW t \in Known, Related(o, t)
  PROVE  /\ Zone(o) = Zone(t)
         /\ Len(o) >= 3 /\ Len(t) >= 3 /\ Zone(o) \in MultiLabelSuffixes
              => SubSeq(o, 1, 3) = SubSeq(t, 1, 3)
<1>1. o \in Seq(STRING) /\ t \in Seq(STRING) /\ Len(o) \in Nat /\ Len(t) \in Nat
      /\ Len(o) >= 2 /\ Len(t) >= 2
  BY OwnersAssumption, LenProperties
<1>2. CASE IsPrefix(o, t)
  <2>1. Len(o) <= Len(t) /\ SubSeq(o, 1, Len(o)) = SubSeq(t, 1, Len(o))
    BY <1>2 DEF IsPrefix
  <2> QED
    BY <1>1, <2>1, FewerLabels DEF Zone
<1>3. CASE IsPrefix(t, o)
  <2>1. Len(t) <= Len(o) /\ SubSeq(t, 1, Len(t)) = SubSeq(o, 1, Len(t))
    BY <1>3 DEF IsPrefix
  <2> QED
    BY <1>1, <2>1, FewerLabels DEF Zone
<1>4. CASE Registrable(o) = Registrable(t)
  <2> DEFINE m == IF Suffix(o) THEN 3 ELSE 2
             n == IF Suffix(t) THEN 3 ELSE 2
  <2>1. SubSeq(o, 1, m) = SubSeq(t, 1, n)
    BY <1>1, <1>4 DEF Registrable
  <2>2. m \in {2, 3} /\ n \in {2, 3} /\ m <= Len(o) /\ n <= Len(t)
    BY <1>1 DEF Suffix
  <2>3. Zone(o) = Zone(t)
    BY <1>1, <2>1, <2>2, FewerLabels DEF Zone
  <2>4. Len(o) >= 3 /\ Len(t) >= 3 /\ Zone(o) \in MultiLabelSuffixes => m = 3 /\ n = 3
    BY <2>3 DEF Suffix, Zone
  <2> QED
    BY <2>1, <2>3, <2>4
<1> QED
  BY <1>2, <1>3, <1>4 DEF Related

\* Outside the mixed zones related hosts have one owner.
LEMMA RelatedOwner ==
  ASSUME NEW o \in Known, NEW t \in Known, Related(o, t), ~Mixed(Zone(o)),
         ~SharedTenant(o), ~SharedTenant(t)
  PROVE  OwnerOf[o] = OwnerOf[t]
<1>1. o \in Seq(STRING) /\ t \in Seq(STRING) /\ Len(o) \in Nat /\ Len(t) \in Nat
      /\ Len(o) >= 2 /\ Len(t) >= 2
  BY OwnersAssumption, LenProperties
<1>2. Zone(o) = Zone(t)
  BY RelatedLabels
<1>3. CASE Zone(o) \notin MultiLabelSuffixes
  <2>1. OneRegistrant(SubSeq(o, 1, 2)) /\ SubSeq(o, 1, 2) = SubSeq(t, 1, 2)
    BY <1>2, <1>3 DEF Mixed, Zone
  <2>2. 2 \in 2 .. Len(o) /\ 2 <= Len(t)
    BY <1>1
  <2> QED
    BY <2>1, <2>2, OwnersAssumption
<1>4. CASE Zone(o) \in MultiLabelSuffixes
  <2>1. Zone(o) \notin Known
    BY <1>4 DEF Mixed
  <2>2. ASSUME NEW h \in {o, t} PROVE Len(h) >= 3
    <3>1. h \in Seq(STRING) /\ Len(h) \in Nat /\ Len(h) >= 2 /\ h \in Known /\ Zone(h) = Zone(o)
      BY <1>1, <1>2
    <3>2. Len(h) = 2 => SubSeq(h, 1, 2) = h
      BY <3>1
    <3>3. Len(h) # 2
      BY <2>1, <3>1, <3>2 DEF Zone
    <3>4. ASSUME NEW n \in Nat, n >= 2, n # 2 PROVE n >= 3
      BY <3>4
    <3> QED
      BY <3>1, <3>3, <3>4
  <2>3. SubSeq(o, 1, 3) = SubSeq(t, 1, 3)
    BY <1>4, <2>2, RelatedLabels
  <2>4. OneRegistrant(SubSeq(o, 1, 3))
    <3>1. SUFFICES ASSUME NEW p \in PublicSuffixes, IsPrefix(SubSeq(o, 1, 3), p) PROVE FALSE
      BY DEF OneRegistrant
    <3>2. Len(SubSeq(o, 1, 3)) = 3 /\ Len(Zone(o)) = 2 /\ SubSeq(o, 1, 3) \in Seq(STRING)
      BY <1>1, <2>2 DEF Zone
    <3>3. 3 <= Len(p) /\ SubSeq(SubSeq(o, 1, 3), 1, 3) = SubSeq(p, 1, 3)
      BY <3>1, <3>2 DEF IsPrefix
    <3>4. p \in Seq(STRING) /\ Len(p) \in Nat
      BY OwnersAssumption, LenProperties
    <3>5. SubSeq(SubSeq(o, 1, 3), 1, 2) = SubSeq(p, 1, 2)
      BY <3>2, <3>3, <3>4, FewerLabels
    <3>6. SubSeq(SubSeq(o, 1, 3), 1, 2) = Zone(o)
      BY <1>1, <2>2 DEF Zone
    <3>7. SubSeq(Zone(o), 1, 2) = Zone(o)
      BY <1>1 DEF Zone
    <3>8. IsPrefix(Zone(o), p) /\ Len(p) > 2
      BY <3>2, <3>3, <3>4, <3>5, <3>6, <3>7 DEF IsPrefix
    <3> QED
      BY <1>4, <3>8 DEF Mixed
  <2>5. 3 \in 2 .. Len(o) /\ 3 <= Len(t)
    BY <1>1, <2>2
  <2> QED
    BY <2>3, <2>4, <2>5, OwnersAssumption
<1> QED
  BY <1>3, <1>4

\* The host that a redirect names has the owner of the host it came from or lies
\* in its mixed zone, and is shared by others only when it has been let through.
LEMMA SameOwnerOwned ==
  ASSUME NEW o \in Known, NEW t \in Known, Owned(o), SameOwner(o, t)
  PROVE  Owned(t)
<1>1. PICK a \in AuthorizedHosts, b \in Known :
        /\ OwnerOf[b] = OwnerOf[a]
        /\ b = o \/ (Mixed(Zone(o)) /\ Zone(b) = Zone(o))
  BY DEF Owned
<1>2. CASE Paired(o, t)
  <2>1. OwnerOf[o] = OwnerOf[t] /\ ~SharedTenant(t) /\ (Mixed(Zone(o)) => Zone(t) = Zone(o))
    BY <1>2, OwnersAssumption
  <2> QED
    BY <1>1, <2>1 DEF Owned
<1>3. CASE ~SharedTenant(o) /\ ~SharedTenant(t) /\ Related(o, t)
  <2>1. Zone(o) = Zone(t)
    BY <1>3, RelatedLabels
  <2>2. ~Mixed(Zone(o)) => OwnerOf[o] = OwnerOf[t]
    BY <1>3, RelatedOwner
  <2> QED
    BY <1>1, <1>3, <2>1, <2>2 DEF Owned
<1> QED
  BY <1>2, <1>3 DEF SameOwner

\* At the start only authorised hosts are let through, and none was asked.
LEMMA AllowedInit == ProbeInit => AllowedOwned
<1>1. AuthorizedHosts \subseteq Known /\ \A h \in AuthorizedHosts : Owned(h)
  BY DEF Known, Owned
<1>2. <<>> \in Seq(AuthorizedHosts)
  BY EmptySeq
<1> QED
  BY <1>1, <1>2 DEF ProbeInit, AllowedOwned

\* A request goes to a host that was let through.
LEMMA AskedAllowed ==
  ASSUME AllowedOwned, MayAsk
  PROVE  Append(probe.asked, Upcoming) \in Seq(probe.allowed)
BY DEF AllowedOwned, MayAsk

\* Every step of the probe keeps the rule.
LEMMA AllowedStep == AllowedOwned /\ [ProbeNext]_probe => AllowedOwned'
<1> SUFFICES ASSUME AllowedOwned, [ProbeNext]_probe PROVE AllowedOwned'
  OBVIOUS
<1>1. CASE UNCHANGED probe
  BY <1>1 DEF AllowedOwned, Owned
<1>2. CASE Refused \/ OutOfTime
  BY <1>2 DEF Refused, OutOfTime, AllowedOwned, Owned
<1>3. CASE Fails \/ BodyTooLarge \/ RedirectRefused
  BY <1>3, AskedAllowed DEF Fails, BodyTooLarge, RedirectRefused, Sent, AllowedOwned, Owned
<1>4. CASE Concludes
  BY <1>4 DEF Concludes, AllowedOwned, Owned
<1>5. ASSUME NEW wall, NEW status, FinalAnswer(wall, status) PROVE AllowedOwned'
  BY <1>5, AskedAllowed DEF FinalAnswer, Sent, AllowedOwned, Owned
<1>6. ASSUME NEW to \in Hosts, NEW wall, Redirected(to, wall) PROVE AllowedOwned'
  <2>1. CASE probe'.allowed = probe.allowed
    BY <1>6, <2>1, AskedAllowed DEF Redirected, Sent, AllowedOwned, Owned
  <2>2. CASE probe'.allowed # probe.allowed
    <3>1. to \in probe.allowed \/ SameOwner(Upcoming, to)
      BY <1>6, <2>2 DEF Redirected, Sent, AllowedOwned
    <3>2. Owned(to)
      BY <1>6, <3>1, SameOwnerOwned DEF Redirected, MayAsk, AllowedOwned, Known
    <3>3. probe'.allowed = probe.allowed \cup {to}
      BY <1>6, <2>2 DEF Redirected, Sent, AllowedOwned
    <3>4. probe'.asked \in Seq(probe'.allowed)
      BY <1>6, <2>2, <3>3, AskedAllowed DEF Redirected, Sent, AllowedOwned
    <3> QED
      BY <1>6, <2>2, <3>2, <3>3, <3>4 DEF Redirected, Sent, AllowedOwned, Owned, Known
  <2> QED
    BY <2>1, <2>2
<1> QED
  BY <1>1, <1>2, <1>3, <1>4, <1>5, <1>6 DEF ProbeNext

\* However a site redirects, the probe asks only hosts of the owners that were
\* authorised, and those that share a zone with them that the tables do not split.
THEOREM ProbeRequestsStayOwned == ProbeSpec => []RequestsStayOwned
<1>1. AllowedOwned => RequestsStayOwned
  <2> SUFFICES ASSUME AllowedOwned, NEW i \in DOMAIN probe.asked
               PROVE  Owned(probe.asked[i])
    BY DEF RequestsStayOwned, Owned
  <2> QED
    BY ElementOfSeq, LenProperties DEF AllowedOwned
<1> QED
  BY <1>1, AllowedInit, AllowedStep, PTL DEF ProbeSpec

-----------------------------------------------------------------------------
(* SourceAudit, for any number of runs kept, thresholds and stored rows: what  *)
(* a source is called agrees with what its runs did.                         *)

USE AuditAssumption

\* The log holds runs as the runner writes them.
RunLog ==
  /\ runs \in Seq(RunKinds \cup {Cancelled})
  /\ paused \in BOOLEAN /\ enabled \in BOOLEAN

\* The runs that the audit keeps are runs of the log.
LEMMA LoggedIsLog ==
  ASSUME NEW R, NEW r \in R, runs \in Seq(R)
  PROVE  Logged(r) \in Seq(R)
<1> DEFINE rs == <<r>> \o runs
<1>1. rs \in Seq(R) /\ Len(rs) \in Nat
  BY ConcatProperties, LenProperties
<1> HIDE DEF rs
<1>2. FirstRuns(rs) \in Seq(R)
  BY <1>1, SubSeqProperties DEF FirstRuns
<1> QED
  BY <1>2 DEF Logged, rs

\* At the start nothing has run.
LEMMA RunLogInit == AuditInit => RunLog
<1>1. <<>> \in Seq(RunKinds \cup {Cancelled})
  OBVIOUS
<1> QED
  BY <1>1, Zenon DEF AuditInit, RunLog

\* Every step keeps the log.
LEMMA RunLogStep == RunLog /\ [AuditNext]_auditVars => RunLog'
<1> SUFFICES ASSUME RunLog, [AuditNext]_auditVars PROVE RunLog'
  OBVIOUS
<1>1. CASE UNCHANGED auditVars
  BY <1>1 DEF auditVars, RunLog
<1>2. ASSUME NEW r \in RunKinds, RunEnds(r) PROVE RunLog'
  BY <1>2, LoggedIsLog DEF RunEnds, RunLog
<1>3. CASE RunCut
  BY <1>3, LoggedIsLog DEF RunCut, RunLog
<1>4. CASE Reactivate \/ SwitchSource \/ WindowPasses \/ DeadlinePasses
  BY <1>4 DEF Reactivate, SwitchSource, WindowPasses, DeadlinePasses, RunLog
<1> QED
  BY <1>1, <1>2, <1>3, <1>4 DEF AuditNext

-----------------------------------------------------------------------------
\* What the verdict "operativa" says of the checks and the switches.
LEMMA OperativeChecks ==
  ASSUME RunLog, Verdict = "operativa"
  PROVE  /\ enabled /\ ~paused
         /\ Conectividad # "FAIL"
         /\ Extraccion \notin {"FAIL", "UNKNOWN"}
         /\ Persistencia \notin {"FAIL", "UNKNOWN"}
<1> DEFINE are(status) == {d \in DOMAIN AuditChecks : AuditChecks[d] = status}
<1>1. /\ enabled /\ ~paused /\ are("FAIL") = {}
      /\ are("UNKNOWN") \cap CriticalDimensions = {}
  BY Zenon DEF Verdict, RunLog
<1>2. \A d \in DOMAIN AuditChecks : AuditChecks[d] # "FAIL"
  BY <1>1
<1>3. \A d \in DOMAIN AuditChecks \cap CriticalDimensions : AuditChecks[d] # "UNKNOWN"
  BY <1>1
<1> HIDE DEF are
<1>4. /\ {"conectividad", "extraccion", "persistencia"} \subseteq DOMAIN AuditChecks
      /\ AuditChecks["conectividad"] = Conectividad
      /\ AuditChecks["extraccion"] = Extraccion
      /\ AuditChecks["persistencia"] = Persistencia
  BY DEF AuditChecks
<1> QED
  BY <1>1, <1>2, <1>3, <1>4 DEF CriticalDimensions

\* The runs of a working source: there are some, and none failed, was cut short
\* or was cancelled.
LEMMA OperativeRuns ==
  ASSUME RunLog, Verdict = "operativa"
  PROVE  /\ runs # <<>>
         /\ \A i \in DOMAIN runs :
              /\ runs[i] \in RunKinds \cup {Cancelled}
              /\ ~runs[i].cut /\ ~runs[i].failed /\ ~runs[i].network
              /\ runs[i].status # "failed"
<1>1. runs # <<>>
  BY OperativeChecks DEF Persistencia
<1> SUFFICES ASSUME NEW i \in DOMAIN runs
             PROVE  /\ runs[i] \in RunKinds \cup {Cancelled}
                    /\ ~runs[i].cut /\ ~runs[i].failed /\ ~runs[i].network
                    /\ runs[i].status # "failed"
  BY <1>1
<1>2. runs[i] \in RunKinds \cup {Cancelled}
  BY DEF RunLog
<1>3. ~runs[i].cut /\ ~runs[i].failed
  BY <1>1, OperativeChecks DEF Persistencia
<1>4. ~runs[i].network
  BY <1>1, OperativeChecks DEF Conectividad
<1> QED
  BY <1>2, <1>3, <1>4 DEF RunKinds, Cancelled, RunRow

\* Empty runs, errors and cancelled runs do not add up to a working source.
LEMMA OperativeFound ==
  ASSUME RunLog, Verdict = "operativa",
         Cardinality({i \in DOMAIN runs : runs[i] # Cancelled}) >= EmptyRunsFail
  PROVE  \E i \in DOMAIN runs : runs[i].found
<1> SUFFICES ASSUME \A i \in DOMAIN runs : ~runs[i].found PROVE FALSE
  OBVIOUS
<1> DEFINE Own == {i \in DOMAIN runs : runs[i] # Cancelled}
           Void == {i \in DOMAIN runs : ~runs[i].found /\ runs[i].status # "failed"}
<1>1. Own \subseteq Void
  BY OperativeRuns
<1>2. IsFiniteSet(Void)
  <2>1. DOMAIN runs = 1 .. Len(runs) /\ Len(runs) \in Nat
    BY LenProperties DEF RunLog
  <2>2. IsFiniteSet(DOMAIN runs)
    BY <2>1, FS_Interval
  <2> QED
    BY <2>2, FS_Subset
<1>3. Cardinality(Own) <= Cardinality(Void) /\ Cardinality(Own) \in Nat /\ Cardinality(Void) \in Nat
  BY <1>1, <1>2, FS_Subset, FS_CardinalityType
<1>4. EmptyRuns = Cardinality(Void)
  BY DEF EmptyRuns
<1> HIDE DEF Own, Void
<1>5. EmptyRuns >= EmptyRunsFail
  BY <1>3, <1>4 DEF Own
<1>6. Extraccion = "FAIL"
  <2>1. runs # <<>>
    BY OperativeRuns
  <2> QED
    BY <1>3, <1>4, <1>5, <2>1 DEF Extraccion
<1> QED
  BY <1>6, OperativeChecks

\* The dashboard does not call a working source failing unless it has been silent
\* for two windows.
LEMMA OperativeBanner ==
  ASSUME RunLog, Verdict = "operativa", Banner = "failing"
  PROVE  quiet = 2
<1>1. SourceHealth = "failing"
  BY DEF Banner
<1>2. 1 \in DOMAIN runs /\ Len(runs) \in Nat \ {0}
  BY OperativeRuns, LenProperties, EmptySeq DEF RunLog
<1>3. Cardinality({i \in DOMAIN runs : runs[i].status = "failed"}) = 0
  <2>1. {i \in DOMAIN runs : runs[i].status = "failed"} = {}
    BY OperativeRuns
  <2> QED
    BY <2>1, FS_EmptySet
<1>4. ~(10 * 0 >= 6 * Len(runs))
  BY <1>2
<1> QED
  BY <1>1, <1>2, <1>3, <1>4, OperativeRuns DEF SourceHealth

\* "operativa" and the dashboard agree with the runs.
THEOREM AuditOperativeYields == AuditSpec => []OperativeYields
<1>1. RunLog => OperativeYields
  BY OperativeFound, OperativeBanner DEF OperativeYields
<1> QED
  BY <1>1, RunLogInit, RunLogStep, PTL DEF AuditSpec

-----------------------------------------------------------------------------
(* ScrapePipeline, for any calls, pages, connectors and caps: no candidate is  *)
(* lost from the counts, and no pass undoes another.                         *)

\* A candidate: its text is that of its own page or card.
Reading == {Blank} \cup ({"listing", "page"} \X Urls)
Candidates == {c \in [url : Urls, text : Urls \X {1, 2}, vals : [Gaps -> Reading]] :
                 c.text[1] = c.url}

\* What one pass may make of a candidate, as in GapFillOnly.
Fills(c, d) ==
  /\ d.url = c.url
  /\ d.text[2] >= c.text[2]
  /\ d.text[1] = c.url
  /\ \A f \in Gaps : IF c.vals[f] # Blank THEN d.vals[f] = c.vals[f]
                    ELSE d.vals[f] \in {Blank, <<"page", c.url>>}

\* The places of a run between parse and the persist loop.
Reads == {"deep", "enrich", "batch", "xhr", "render", "filter"}

\* Before the persist loop every parsed candidate is there; in it, each is counted
\* or waits.
Balance ==
  /\ site = [list |-> site.list, rest |-> site.rest] /\ site.list \in Seq(Urls)
  /\ at \in {"idle", "persist", "done"} \cup Reads
  /\ cands \in Seq(Candidates)
  /\ tally \in [parsed : Nat, noise : Nat, invalid : Nat, stored : Nat, failed : Nat,
                skipped : Nat]
  /\ at \in Reads => tally = [NoTally EXCEPT !.parsed = Len(cands)]
  /\ at = "persist" =>
       /\ ahead \in Seq(Urls)
       /\ tally.parsed = tally.noise + tally.invalid + tally.stored + tally.failed
                         + tally.skipped + Len(ahead)
  /\ Accounted

-----------------------------------------------------------------------------
\* The picked elements of a sequence are as many as their places.
LEMMA PickedLength ==
  ASSUME NEW S, NEW s \in Seq(S), NEW places \in SUBSET DOMAIN s, NEW p \in Picked(s, places)
  PROVE  p \in Seq(S) /\ Len(p) = Cardinality(places)
<1>1. PICK q \in [1 .. Cardinality(places) -> places] : p = [j \in DOMAIN q |-> s[q[j]]]
  BY DEF Picked, Ordered
<1>2. Cardinality(places) \in Nat
  <2>1. DOMAIN s = 1 .. Len(s) /\ Len(s) \in Nat
    BY LenProperties
  <2>2. IsFiniteSet(DOMAIN s)
    BY <2>1, FS_Interval
  <2> QED
    BY <2>2, FS_Subset, FS_CardinalityType
<1>3. \A j \in 1 .. Cardinality(places) : s[q[j]] \in S
  BY ElementOfSeq, LenProperties
<1>4. p \in [1 .. Cardinality(places) -> S]
  BY <1>1, <1>3
<1> QED
  BY <1>2, <1>4

\* The first n elements of a sequence.
LEMMA FirstOfLength ==
  ASSUME NEW S, NEW s \in Seq(S), NEW n \in Nat
  PROVE  /\ FirstOf(s, n) \in Seq(S)
         /\ Len(FirstOf(s, n)) = IF Len(s) < n THEN Len(s) ELSE n
<1>1. Len(s) \in Nat
  BY LenProperties
<1> QED
  BY <1>1, SubSeqProperties DEF FirstOf

\* What parse makes of a list of calls is a list of calls.
LEMMA ListingsOfCalls ==
  ASSUME NEW list \in Seq(Urls), NEW found \in Listings(list)
  PROVE  found \in Seq(Urls)
<1>1. CASE kind # "tenders"
  BY <1>1 DEF Listings
<1>2. CASE kind = "tenders"
  <2>1. PICK new \in Unprocessed(list) : found \in WithSlug(FirstOf(new, TenderCap))
    BY <1>2 DEF Listings
  <2>2. new \in Seq(Urls)
    BY <2>1, PickedLength DEF Unprocessed
  <2>3. FirstOf(new, TenderCap) \in Seq(Urls)
    BY <2>2, FirstOfLength, CapsAssumption
  <2> QED
    BY <2>1, <2>3, PickedLength DEF WithSlug
<1> QED
  BY <1>1, <1>2

\* A candidate as the listing shows it.
LEMMA CardCandidate ==
  ASSUME NEW u \in Urls
  PROVE  Card(u) \in Candidates
BY DEF Card, Candidates, Reading, Gaps

\* What is read on its own page fills gaps of a candidate and undoes nothing.
LEMMA ApplyFills ==
  ASSUME NEW c \in Candidates, NEW p, p.url = c.url, NEW prefer
  PROVE  Apply(c, p, prefer) \in Candidates /\ Fills(c, Apply(c, p, prefer))
<1> DEFINE d == Apply(c, p, prefer)
<1>1. c.url \in Urls /\ c.text \in Urls \X {1, 2} /\ c.vals \in [Gaps -> Reading] /\ c.text[1] = c.url
  BY DEF Candidates
<1>2. /\ d.url = c.url
      /\ d.text = IF prefer /\ "long" \in p.got /\ c.text[2] < 2 THEN <<c.url, 2>> ELSE c.text
      /\ d.vals = [f \in Gaps |-> IF c.vals[f] = Blank /\ f \in p.got THEN <<"page", c.url>>
                                  ELSE c.vals[f]]
      /\ d \in [url : {d.url}, text : {d.text}, vals : {d.vals}]
  BY DEF Apply, Candidates
<1> HIDE DEF d
<1>3. d.text \in Urls \X {1, 2} /\ d.text[1] = c.url /\ d.text[2] >= c.text[2]
  BY <1>1, <1>2
<1>4. d.vals \in [Gaps -> Reading]
  BY <1>1, <1>2 DEF Reading
<1>5. d \in Candidates
  BY <1>1, <1>2, <1>3, <1>4 DEF Candidates
<1>6. Fills(c, d)
  BY <1>1, <1>2, <1>3 DEF Fills
<1> QED
  BY <1>5, <1>6 DEF d

\* Nothing read leaves a candidate as it is.
LEMMA SameFills ==
  ASSUME NEW c \in Candidates
  PROVE  Fills(c, c)
BY DEF Fills, Candidates

\* The pages of a pass fill gaps of the candidates they were read for.
LEMMA MergedFills ==
  ASSUME cands \in Seq(Candidates), NEW found, NEW prefer
  PROVE  /\ Merged(found, prefer) \in Seq(Candidates)
         /\ DOMAIN Merged(found, prefer) = DOMAIN cands
         /\ Len(Merged(found, prefer)) = Len(cands)
         /\ \A i \in DOMAIN cands : Fills(cands[i], Merged(found, prefer)[i])
<1> DEFINE M == Merged(found, prefer)
<1>1. DOMAIN cands = 1 .. Len(cands) /\ Len(cands) \in Nat
  BY LenProperties
<1>2. ASSUME NEW i \in DOMAIN cands
      PROVE  M[i] \in Candidates /\ Fills(cands[i], M[i])
  <2> DEFINE mine == {k \in DOMAIN found : found[k].url = cands[i].url /\ found[k].got # Failed}
  <2>0. cands[i] \in Candidates
    BY <1>1, <1>2, ElementOfSeq
  <2>1. CASE mine = {}
    BY <2>0, <2>1, SameFills DEF Merged
  <2>2. CASE mine # {}
    <3>1. (CHOOSE k \in mine : TRUE) \in mine
      BY <2>2
    <3>2. M[i] = Apply(cands[i], found[CHOOSE k \in mine : TRUE], prefer)
      BY <2>2 DEF Merged
    <3> QED
      BY <2>0, <3>1, <3>2, ApplyFills
  <2> QED
    BY <2>1, <2>2
<1>3. DOMAIN M = 1 .. Len(cands)
  BY <1>1 DEF Merged
<1>4. M = [i \in 1 .. Len(cands) |-> M[i]]
  BY <1>1 DEF Merged
<1> HIDE DEF M
<1>5. M \in Seq(Candidates) /\ Len(M) = Len(cands)
  BY <1>1, <1>2, <1>3, <1>4
<1> QED
  BY <1>1, <1>2, <1>3, <1>5 DEF M

\* The pages of a pass keep the count of the candidates.
LEMMA MergedBalance ==
  ASSUME Balance, NEW found, NEW prefer, cands' = Merged(found, prefer),
         at \in Reads, at' \in Reads, UNCHANGED <<site, tally>>
  PROVE  Balance'
BY MergedFills DEF Balance, Accounted, Reads

\* Two sets with nothing in common count together as each for itself.
LEMMA DisjointCount ==
  ASSUME NEW S, NEW T, IsFiniteSet(S), IsFiniteSet(T), S \cap T = {}
  PROVE  IsFiniteSet(S \cup T) /\ Cardinality(S \cup T) = Cardinality(S) + Cardinality(T)
<1>1. Cardinality(S) \in Nat /\ Cardinality(T) \in Nat /\ Cardinality({}) = 0
  BY FS_CardinalityType, FS_EmptySet
<1>2. /\ IsFiniteSet(S \cup T)
      /\ Cardinality(S \cup T) = Cardinality(S) + Cardinality(T) - Cardinality(S \cap T)
  BY FS_Union
<1>3. Cardinality(S \cap T) = 0
  BY <1>1
<1>4. Cardinality(S \cup T) = Cardinality(S) + Cardinality(T)
  BY <1>1, <1>2, <1>3
<1> QED
  BY <1>2, <1>4

\* The places that a verdict names.
Judged(verdict, v) == {i \in DOMAIN verdict : verdict[i] = v}

\* A verdict for each candidate: the three counts make up the whole.
LEMMA VerdictsAdd ==
  ASSUME NEW n \in Nat, NEW verdict \in [1 .. n -> {"kept", "noise", "invalid"}]
  PROVE  /\ \A v \in {"kept", "noise", "invalid"} : Cardinality(Judged(verdict, v)) \in Nat
         /\ n = Cardinality(Judged(verdict, "noise")) + Cardinality(Judged(verdict, "invalid"))
                 + Cardinality(Judged(verdict, "kept"))
<1> DEFINE Kept == Judged(verdict, "kept")
           Noise == Judged(verdict, "noise")
           Invalid == Judged(verdict, "invalid")
<1>1. IsFiniteSet(1 .. n) /\ Cardinality(1 .. n) = n
  BY FS_Interval
<1>2. /\ Kept \subseteq 1 .. n /\ Noise \subseteq 1 .. n /\ Invalid \subseteq 1 .. n
      /\ Noise \cap Invalid = {} /\ (Noise \cup Invalid) \cap Kept = {}
      /\ (Noise \cup Invalid) \cup Kept = 1 .. n
  BY DEF Judged
<1> HIDE DEF Kept, Noise, Invalid
<1>3. IsFiniteSet(Kept) /\ IsFiniteSet(Noise) /\ IsFiniteSet(Invalid)
  BY <1>1, <1>2, FS_Subset
<1>4. Cardinality(Kept) \in Nat /\ Cardinality(Noise) \in Nat /\ Cardinality(Invalid) \in Nat
  BY <1>3, FS_CardinalityType
<1>5. /\ IsFiniteSet(Noise \cup Invalid)
      /\ Cardinality(Noise \cup Invalid) = Cardinality(Noise) + Cardinality(Invalid)
  BY <1>2, <1>3, DisjointCount
<1>6. Cardinality((Noise \cup Invalid) \cup Kept) = Cardinality(Noise \cup Invalid) + Cardinality(Kept)
  BY <1>2, <1>3, <1>5, DisjointCount
<1>7. n = Cardinality(Noise) + Cardinality(Invalid) + Cardinality(Kept)
  BY <1>1, <1>2, <1>5, <1>6
<1> QED
  BY <1>4, <1>7 DEF Kept, Noise, Invalid

\* The filters: what they do not keep they count, and what exceeds the cap too.
LEMMA FilterBalance == Balance /\ Filter => Balance'
<1> SUFFICES ASSUME Balance, Filter PROVE Balance'
  OBVIOUS
<1>1. DOMAIN cands = 1 .. Len(cands) /\ Len(cands) \in Nat
  BY LenProperties DEF Balance
<1>2. PICK verdict \in [DOMAIN cands -> {"kept", "noise", "invalid"}], own \in SUBSET Gaps :
        \E kept \in Picked(UrlsOf(cands), {i \in DOMAIN cands : verdict[i] = "kept"}) :
            /\ cands' = [i \in DOMAIN cands |->
                           Apply(cands[i], [url |-> cands[i].url, got |-> own], FALSE)]
            /\ ahead' = FirstOf(kept, PersistCap)
            /\ tally' = [tally EXCEPT
                 !.noise = Cardinality({i \in DOMAIN cands : verdict[i] = "noise"}),
                 !.invalid = Cardinality({i \in DOMAIN cands : verdict[i] = "invalid"}),
                 !.skipped = Len(kept) - Len(ahead')]
  BY DEF Filter
<1>3. PICK kept \in Picked(UrlsOf(cands), Judged(verdict, "kept")) :
        /\ cands' = [i \in DOMAIN cands |->
                       Apply(cands[i], [url |-> cands[i].url, got |-> own], FALSE)]
        /\ ahead' = FirstOf(kept, PersistCap)
        /\ tally' = [tally EXCEPT !.noise = Cardinality(Judged(verdict, "noise")),
                                  !.invalid = Cardinality(Judged(verdict, "invalid")),
                                  !.skipped = Len(kept) - Len(ahead')]
  BY <1>2 DEF Judged
<1> DEFINE kepts == Cardinality(Judged(verdict, "kept"))
           noises == Cardinality(Judged(verdict, "noise"))
           invalids == Cardinality(Judged(verdict, "invalid"))
<1>4. /\ kepts \in Nat /\ noises \in Nat /\ invalids \in Nat
      /\ Len(cands) = noises + invalids + kepts
  BY <1>1, VerdictsAdd
<1>5. kept \in Seq(Urls) /\ Len(kept) = kepts
  <2>1. UrlsOf(cands) \in Seq(Urls) /\ DOMAIN UrlsOf(cands) = DOMAIN cands
    <3>1. \A i \in 1 .. Len(cands) : cands[i].url \in Urls
      BY <1>1, ElementOfSeq DEF Balance, Candidates
    <3> QED
      BY <1>1, <3>1 DEF UrlsOf
  <2>2. Judged(verdict, "kept") \in SUBSET DOMAIN UrlsOf(cands)
    BY <2>1 DEF Judged
  <2> QED
    BY <1>3, <2>1, <2>2, PickedLength
<1>6. cands' \in Seq(Candidates)
  <2>1. ASSUME NEW i \in 1 .. Len(cands)
        PROVE  Apply(cands[i], [url |-> cands[i].url, got |-> own], FALSE) \in Candidates
    <3>1. cands[i] \in Candidates
      BY ElementOfSeq DEF Balance
    <3>2. [url |-> cands[i].url, got |-> own].url = cands[i].url
      OBVIOUS
    <3> QED
      BY <3>1, <3>2, ApplyFills
  <2> DEFINE c(i) == Apply(cands[i], [url |-> cands[i].url, got |-> own], FALSE)
  <2>2. cands' = [i \in 1 .. Len(cands) |-> c(i)] /\ \A i \in 1 .. Len(cands) : c(i) \in Candidates
    BY <1>1, <1>3, <2>1
  <2> HIDE DEF c
  <2> QED
    BY <1>1, <2>2
<1> HIDE DEF kepts, noises, invalids
<1>7. /\ ahead' \in Seq(Urls) /\ Len(ahead') \in Nat /\ Len(kept) \in Nat
      /\ Len(ahead') <= Len(kept)
  <2>1. PersistCap \in Nat
    BY CapsAssumption
  <2>2. Len(kept) \in Nat
    BY <1>5, LenProperties
  <2>3. /\ ahead' \in Seq(Urls)
        /\ Len(ahead') = IF Len(kept) < PersistCap THEN Len(kept) ELSE PersistCap
    BY <1>3, <1>5, <2>1, FirstOfLength
  <2> QED
    BY <2>1, <2>2, <2>3
<1>8. tally = [NoTally EXCEPT !.parsed = Len(cands)] /\ at' = "persist"
  BY DEF Filter, Balance, Reads
<1>9. tally' = [parsed |-> Len(cands), noise |-> noises, invalid |-> invalids,
                stored |-> 0, failed |-> 0, skipped |-> Len(kept) - Len(ahead')]
  BY <1>3, <1>8 DEF NoTally, noises, invalids
<1>10. Len(kept) - Len(ahead') \in Nat
  BY <1>7
<1>11. /\ tally' \in [parsed : Nat, noise : Nat, invalid : Nat, stored : Nat, failed : Nat,
                      skipped : Nat]
       /\ tally'.parsed = tally'.noise + tally'.invalid + tally'.stored + tally'.failed
                         + tally'.skipped + Len(ahead')
  BY <1>1, <1>4, <1>5, <1>7, <1>9, <1>10
<1> QED
  BY <1>6, <1>7, <1>8, <1>11 DEF Filter, Balance, Accounted, Reads

\* One item of the persist loop is stored or fails, or the rest is skipped.
LEMMA PersistBalance == Balance /\ (PersistItem \/ PersistEnds) => Balance'
<1> SUFFICES ASSUME Balance, PersistItem \/ PersistEnds PROVE Balance'
  OBVIOUS
<1>1. at = "persist" /\ ahead \in Seq(Urls) /\ Len(ahead) \in Nat
  BY LenProperties DEF PersistItem, PersistEnds, Balance
<1>2. tally \in [parsed : Nat, noise : Nat, invalid : Nat, stored : Nat, failed : Nat,
                skipped : Nat]
  BY DEF Balance
<1>3. /\ tally.parsed \in Nat /\ tally.noise \in Nat /\ tally.invalid \in Nat
      /\ tally.stored \in Nat /\ tally.failed \in Nat /\ tally.skipped \in Nat
  BY <1>2
<1>4. tally.parsed = tally.noise + tally.invalid + tally.stored + tally.failed
                     + tally.skipped + Len(ahead)
  BY <1>1 DEF Balance
<1>5. CASE PersistItem
  <2>1. ahead' \in Seq(Urls) /\ Len(ahead') = Len(ahead) - 1
    <3>1. ahead # <<>> /\ ahead' = Tail(ahead)
      BY <1>5 DEF PersistItem
    <3> QED
      BY <1>1, <3>1, HeadTailProperties
  <2>2. Len(ahead) \in Nat /\ Len(ahead') = Len(ahead) - 1
    BY <1>1, <2>1
  <2>3. /\ tally' \in [parsed : Nat, noise : Nat, invalid : Nat, stored : Nat, failed : Nat,
                       skipped : Nat]
        /\ tally'.parsed = tally'.noise + tally'.invalid + tally'.stored + tally'.failed
                           + tally'.skipped + Len(ahead')
    <3>1. CASE tally' = [tally EXCEPT !.stored = @ + 1]
      <4>1. tally' = [parsed |-> tally.parsed, noise |-> tally.noise, invalid |-> tally.invalid,
                      stored |-> tally.stored + 1, failed |-> tally.failed,
                      skipped |-> tally.skipped]
        BY <1>2, <3>1
      <4>2. /\ tally.stored + 1 \in Nat
            /\ tally.parsed = tally.noise + tally.invalid + (tally.stored + 1) + tally.failed
                              + tally.skipped + Len(ahead')
        <5> DEFINE was == Len(ahead)
                   is == Len(ahead')
        <5>1. was \in Nat /\ is = was - 1
          BY <2>2
        <5>2. tally.parsed = tally.noise + tally.invalid + tally.stored + tally.failed
                             + tally.skipped + was
          BY <1>4
        <5> HIDE DEF was, is
        <5>3. /\ tally.stored + 1 \in Nat
              /\ tally.parsed = tally.noise + tally.invalid + (tally.stored + 1) + tally.failed
                                + tally.skipped + is
          BY <1>3, <5>1, <5>2
        <5> QED
          BY <5>3 DEF is
      <4>3. /\ tally'.parsed = tally.parsed /\ tally'.noise = tally.noise
            /\ tally'.invalid = tally.invalid /\ tally'.skipped = tally.skipped
            /\ tally'.stored = tally.stored + 1 /\ tally'.failed = tally.failed
        BY <4>1
      <4>4. tally' \in [parsed : Nat, noise : Nat, invalid : Nat, stored : Nat, failed : Nat,
                        skipped : Nat]
        BY <1>3, <4>1
      <4>5. tally'.parsed = tally'.noise + tally'.invalid + tally'.stored + tally'.failed
                            + tally'.skipped + Len(ahead')
        BY <4>2, <4>3
      <4> QED
        BY <4>4, <4>5
    <3>2. CASE tally' = [tally EXCEPT !.failed = @ + 1]
      <4>1. tally' = [parsed |-> tally.parsed, noise |-> tally.noise, invalid |-> tally.invalid,
                      stored |-> tally.stored, failed |-> tally.failed + 1,
                      skipped |-> tally.skipped]
        BY <1>2, <3>2
      <4>2. /\ tally.failed + 1 \in Nat
            /\ tally.parsed = tally.noise + tally.invalid + tally.stored + (tally.failed + 1)
                              + tally.skipped + Len(ahead')
        <5> DEFINE was == Len(ahead)
                   is == Len(ahead')
        <5>1. was \in Nat /\ is = was - 1
          BY <2>2
        <5>2. tally.parsed = tally.noise + tally.invalid + tally.stored + tally.failed
                             + tally.skipped + was
          BY <1>4
        <5> HIDE DEF was, is
        <5>3. /\ tally.failed + 1 \in Nat
              /\ tally.parsed = tally.noise + tally.invalid + tally.stored + (tally.failed + 1)
                                + tally.skipped + is
          BY <1>3, <5>1, <5>2
        <5> QED
          BY <5>3 DEF is
      <4>3. /\ tally'.parsed = tally.parsed /\ tally'.noise = tally.noise
            /\ tally'.invalid = tally.invalid /\ tally'.skipped = tally.skipped
            /\ tally'.failed = tally.failed + 1 /\ tally'.stored = tally.stored
        BY <4>1
      <4>4. tally' \in [parsed : Nat, noise : Nat, invalid : Nat, stored : Nat, failed : Nat,
                        skipped : Nat]
        BY <1>3, <4>1
      <4>5. tally'.parsed = tally'.noise + tally'.invalid + tally'.stored + tally'.failed
                            + tally'.skipped + Len(ahead')
        BY <4>2, <4>3
      <4> QED
        BY <4>4, <4>5
    <3> QED
      BY <1>5, <3>1, <3>2 DEF PersistItem
  <2> QED
    BY <1>1, <1>5, <2>1, <2>3 DEF PersistItem, Balance, Accounted, Reads
<1>6. CASE PersistEnds
  <2>1. /\ tally' \in [parsed : Nat, noise : Nat, invalid : Nat, stored : Nat, failed : Nat,
                       skipped : Nat]
        /\ tally'.parsed = tally'.noise + tally'.invalid + tally'.stored + tally'.failed
                           + tally'.skipped
    <3> DEFINE rest == Len(ahead)
    <3>1. tally' = [parsed |-> tally.parsed, noise |-> tally.noise, invalid |-> tally.invalid,
                    stored |-> tally.stored, failed |-> tally.failed,
                    skipped |-> tally.skipped + rest]
      BY <1>2, <1>6 DEF PersistEnds
    <3>2. rest \in Nat
      BY <1>1
    <3>3. tally.parsed = tally.noise + tally.invalid + tally.stored + tally.failed
                         + tally.skipped + rest
      BY <1>4
    <3> HIDE DEF rest
    <3>4. tally.parsed = tally.noise + tally.invalid + tally.stored + tally.failed
                         + (tally.skipped + rest)
      BY <1>3, <3>2, <3>3
    <3> QED
      BY <1>3, <3>1, <3>2, <3>4
  <2> QED
    BY <1>1, <1>6, <2>1 DEF PersistEnds, Balance, Accounted, Reads
<1> QED
  BY <1>5, <1>6

\* What parse finds is counted as parsed.
LEMMA FetchBalance == Balance /\ FetchListing => Balance'
<1> SUFFICES ASSUME Balance, FetchListing PROVE Balance'
  OBVIOUS
<1>1. PICK list \in IF kind = "grants" /\ site.list = <<>>
                    THEN {<<>>} \cup {<<u>> : u \in Urls} ELSE {site.list} :
        \E found \in Listings(list) :
          /\ cands' = [i \in DOMAIN found |-> Card(found[i])]
          /\ tally' = [NoTally EXCEPT !.parsed = Len(found)]
  BY DEF FetchListing
<1>2. list \in Seq(Urls)
  <2>1. site.list \in Seq(Urls) /\ <<>> \in Seq(Urls) /\ \A u \in Urls : <<u>> \in Seq(Urls)
    BY DEF Balance
  <2>2. list \in {<<>>} \cup {<<u>> : u \in Urls} \/ list = site.list
    BY <1>1
  <2> QED
    BY <2>1, <2>2
<1>3. PICK found \in Listings(list) :
          /\ cands' = [i \in DOMAIN found |-> Card(found[i])]
          /\ tally' = [NoTally EXCEPT !.parsed = Len(found)]
  BY <1>1
<1>4. found \in Seq(Urls) /\ DOMAIN found = 1 .. Len(found) /\ Len(found) \in Nat
  BY <1>2, ListingsOfCalls, LenProperties
<1>5. \A i \in 1 .. Len(found) : Card(found[i]) \in Candidates
  BY <1>4, ElementOfSeq, CardCandidate
<1>6. cands' \in Seq(Candidates) /\ Len(cands') = Len(found)
  BY <1>3, <1>4, <1>5
<1> QED
  BY <1>3, <1>4, <1>6 DEF FetchListing, Balance, Accounted, Reads, NoTally

\* At the start no run is under way.
LEMMA BalanceInit == PipelineInit => Balance
<1>1. <<>> \in Seq(Candidates) /\ <<>> \in Seq(Urls)
  OBVIOUS
<1> QED
  BY <1>1 DEF PipelineInit, Balance, Accounted, Reads, NoTally

\* Every step keeps the balance.
LEMMA BalanceStep == Balance /\ [PipelineNext]_pipeVars => Balance'
<1> SUFFICES ASSUME Balance, [PipelineNext]_pipeVars PROVE Balance'
  OBVIOUS
<1>1. CASE UNCHANGED pipeVars
  BY <1>1 DEF pipeVars, runVars, Balance, Accounted
<1>2. CASE FetchListing
  BY <1>2, FetchBalance
<1>3. CASE DeepFetch
  BY <1>3, MergedBalance DEF DeepFetch, Reads
<1>4. CASE Enrich \/ FetchDetail
  BY <1>4 DEF Enrich, FetchDetail, Balance, Accounted, Reads
<1>5. CASE CloseBatch
  BY <1>5, MergedBalance DEF CloseBatch, Reads
<1>6. CASE FundingXhr
  BY <1>6, MergedBalance DEF FundingXhr, Reads
<1>7. CASE Render
  <2>1. PICK found \in Gathered(FirstOf(IF kind = "grants" THEN LackingFunds
                                        ELSE LackingDetails, RenderCap)) :
          cands' = Merged(found, TRUE)
    BY <1>7 DEF Render
  <2> QED
    BY <1>7, <2>1, MergedBalance DEF Render, Reads
<1>8. CASE Filter
  BY <1>8, FilterBalance
<1>9. CASE PersistItem \/ PersistEnds
  BY <1>9, PersistBalance
<1>10. CASE CommitRun \/ RunFails \/ RunCancelled
  <2>1. <<>> \in Seq(Candidates)
    OBVIOUS
  <2>2. at' = "idle" /\ cands' = <<>> /\ tally' = NoTally /\ UNCHANGED site
    BY <1>10 DEF CommitRun, RunFails, RunCancelled, EndRun
  <2> QED
    BY <2>1, <2>2 DEF Balance, Accounted, Reads, NoTally
<1>11. CASE Publish
  <2>1. PICK u \in Urls : site' = [site EXCEPT !.list = <<u>> \o @]
    BY <1>11 DEF Publish
  <2>2. <<u>> \o site.list \in Seq(Urls)
    BY <2>1, ConcatProperties DEF Balance
  <2> QED
    BY <1>11, <2>1, <2>2 DEF Publish, runVars, Balance, Accounted, Reads
<1>12. CASE Touch
  BY <1>12 DEF Touch, runVars, Balance, Accounted, Reads
<1> QED
  BY <1>1, <1>2, <1>3, <1>4, <1>5, <1>6, <1>7, <1>8, <1>9, <1>10, <1>11, <1>12
  DEF PipelineNext, Work

\* The counts of every run that ends add up to what it parsed.
THEOREM PipelineAccounted == PipelineSpec => []Accounted
<1>1. Balance => Accounted
  BY DEF Balance
<1> QED
  BY <1>1, BalanceInit, BalanceStep, PTL DEF PipelineSpec

-----------------------------------------------------------------------------
\* A step that leaves the candidates alone undoes nothing.
LEMMA UntouchedFills ==
  ASSUME Balance, UNCHANGED cands
  PROVE  UrlsOf(cands') = UrlsOf(cands) /\ \A i \in DOMAIN cands : Fills(cands[i], cands'[i])
BY SameFills, ElementOfSeq, LenProperties DEF Balance

\* A pass that fills each candidate undoes nothing.
LEMMA PassFills ==
  ASSUME Balance, NEW found, NEW prefer, cands' = Merged(found, prefer)
  PROVE  UrlsOf(cands') = UrlsOf(cands) /\ \A i \in DOMAIN cands : Fills(cands[i], cands'[i])
<1>1. DOMAIN cands' = DOMAIN cands /\ \A i \in DOMAIN cands : Fills(cands[i], cands'[i])
  BY MergedFills DEF Balance
<1>2. \A i \in DOMAIN cands : cands'[i].url = cands[i].url
  BY <1>1 DEF Fills
<1> QED
  BY <1>1, <1>2 DEF UrlsOf

\* Nor does the pass over the candidates' own texts.
LEMMA FilterFills ==
  ASSUME Balance, Filter
  PROVE  UrlsOf(cands') = UrlsOf(cands) /\ \A i \in DOMAIN cands : Fills(cands[i], cands'[i])
<1>1. PICK own \in SUBSET Gaps :
        cands' = [i \in DOMAIN cands |->
                    Apply(cands[i], [url |-> cands[i].url, got |-> own], FALSE)]
  BY DEF Filter
<1>2. \A i \in DOMAIN cands : cands[i] \in Candidates
  BY ElementOfSeq, LenProperties DEF Balance
<1>3. \A i \in DOMAIN cands : Fills(cands[i], cands'[i])
  BY <1>1, <1>2, ApplyFills
<1>4. \A i \in DOMAIN cands : cands'[i].url = cands[i].url
  BY <1>3 DEF Fills
<1> QED
  BY <1>1, <1>3, <1>4 DEF UrlsOf

\* Within a run no pass undoes what an earlier one or the listing knew.
THEOREM PipelineGapFillOnly == PipelineSpec => GapFillOnly
<1> DEFINE Kept == UrlsOf(cands') = UrlsOf(cands)
                   /\ \A i \in DOMAIN cands : Fills(cands[i], cands'[i])
<1>1. Balance /\ [PipelineNext]_pipeVars => [at # "idle" /\ at' # "idle" => Kept]_pipeVars
  <2> SUFFICES ASSUME Balance, PipelineNext, at # "idle", at' # "idle" PROVE Kept
    OBVIOUS
  <2>1. CASE UNCHANGED cands
    BY <2>1, UntouchedFills
  <2>2. CASE DeepFetch
    BY <2>2, PassFills DEF DeepFetch
  <2>3. CASE CloseBatch
    BY <2>3, PassFills DEF CloseBatch
  <2>4. CASE FundingXhr
    BY <2>4, PassFills DEF FundingXhr
  <2>5. CASE Render
    <3>1. PICK found \in Gathered(FirstOf(IF kind = "grants" THEN LackingFunds
                                          ELSE LackingDetails, RenderCap)) :
            cands' = Merged(found, TRUE)
      BY <2>5 DEF Render
    <3> QED
      BY <3>1, PassFills
  <2>6. CASE Filter
    BY <2>6, FilterFills
  <2> QED
    BY <2>1, <2>2, <2>3, <2>4, <2>5, <2>6
    DEF PipelineNext, Work, FetchListing, Enrich, FetchDetail, PersistItem, PersistEnds,
        CommitRun, RunFails, RunCancelled, EndRun, Publish, Touch, runVars
<1>2. [at # "idle" /\ at' # "idle" => Kept]_pipeVars =>
        [at # "idle" /\ at' # "idle" =>
           /\ UrlsOf(cands') = UrlsOf(cands)
           /\ \A i \in DOMAIN cands :
                /\ cands'[i].text[2] >= cands[i].text[2]
                /\ cands'[i].text[1] = cands[i].url
                /\ \A f \in Gaps :
                     IF cands[i].vals[f] # Blank THEN cands'[i].vals[f] = cands[i].vals[f]
                     ELSE cands'[i].vals[f] \in {Blank, <<"page", cands[i].url>>}]_pipeVars
  BY Zenon DEF Fills
<1> HIDE DEF Kept
<1> QED
  BY <1>1, <1>2, BalanceInit, BalanceStep, PTL DEF PipelineSpec, GapFillOnly

-----------------------------------------------------------------------------
(* ListingWalk.  Wherever a walk stands, the steady calls on the pages that it *)
(* has turned are among what it got: new calls push only calls that it has     *)
(* read on to the pages before it.                                             *)

\* How far into I its member i is.
Place(I, i) == Cardinality({j \in I : j <= i})

\* The members of a finite set of numbers are counted from one on.
LEMMA Places1ToN ==
  ASSUME NEW n \in Nat, NEW I \in SUBSET (1 .. n)
  PROVE  /\ IsFiniteSet(I) /\ Cardinality(I) \in Nat
         /\ \A i \in I : Place(I, i) \in 1 .. Cardinality(I)
         /\ \A i, j \in I : i < j => Place(I, i) < Place(I, j)
         /\ \A i, j \in I : Place(I, i) = Place(I, j) => i = j
         /\ \A k \in 1 .. Cardinality(I) : \E i \in I : Place(I, i) = k
<1> DEFINE c == Cardinality(I)
           To(i) == {j \in I : j <= i}
<1>1. IsFiniteSet(I) /\ c \in Nat
  <2>1. 1 \in Int /\ n \in Int
    OBVIOUS
  <2>2. IsFiniteSet(1 .. n)
    BY <2>1, FS_Interval
  <2>3. IsFiniteSet(I)
    BY <2>2, FS_Subset
  <2> QED
    BY <2>3, FS_CardinalityType
<1>2. \A i \in I : IsFiniteSet(To(i)) /\ Cardinality(To(i)) \in Nat /\ Cardinality(To(i)) <= c
  <2> TAKE i \in I
  <2>1. To(i) \in SUBSET I
    OBVIOUS
  <2> HIDE DEF To
  <2> QED
    BY <1>1, <2>1, FS_Subset, FS_CardinalityType
<1>3. ASSUME NEW i \in I PROVE Place(I, i) \in 1 .. c
  <2>1. i \in To(i)
    OBVIOUS
  <2>2. Cardinality(To(i)) # 0
    <3> HIDE DEF To
    <3> QED
      BY <1>2, <2>1, FS_EmptySet
  <2> HIDE DEF c
  <2> QED
    BY <1>1, <1>2, <2>2 DEF Place
<1>4. ASSUME NEW i \in I, NEW j \in I, i < j PROVE Place(I, i) < Place(I, j)
  <2>1. To(i) \in SUBSET To(j) /\ j \in To(j) /\ j \notin To(i)
    <3>1. i \in Nat /\ j \in Nat /\ ~(j <= i) /\ \A k \in I : k \in Nat
      BY <1>4
    <3>2. \A k \in I : k <= i => k <= j
      BY <1>4, <3>1
    <3>3. j <= j
      BY <3>1
    <3> QED
      BY <3>1, <3>2, <3>3, Zenon
  <2>2. To(i) # To(j)
    BY <2>1
  <2>3. Cardinality(To(i)) < Cardinality(To(j))
    <3> HIDE DEF To
    <3> QED
      BY <1>2, <2>1, <2>2, FS_Subset
  <2> QED
    BY <2>3 DEF Place
<1>5. \A i, j \in I : Place(I, i) = Place(I, j) => i = j
  <2> SUFFICES ASSUME NEW i \in I, NEW j \in I, Place(I, i) = Place(I, j), i # j PROVE FALSE
    OBVIOUS
  <2>1. i < j \/ j < i
    OBVIOUS
  <2> QED
    BY <1>3, <1>4, <2>1
<1>6. ASSUME NEW k \in 1 .. c PROVE \E i \in I : Place(I, i) = k
  <2> DEFINE f == [i \in I |-> Place(I, i)]
  <2>1. f \in Injection(I, 1 .. c)
    BY <1>3, <1>5 DEF Injection, IsInjective
  <2>2. IsFiniteSet(1 .. c) /\ Cardinality(1 .. c) = c
    BY <1>1, FS_Interval
  <2>3. f \in Surjection(I, 1 .. c)
    <3> HIDE DEF f
    <3> QED
      BY <2>1, <2>2, FS_Injection
  <2> QED
    BY <2>3 DEF Surjection
<1> QED
  BY <1>1, <1>3, <1>4, <1>5, <1>6

\* One of them is the least.
LEMMA LeastOf ==
  ASSUME NEW n \in Nat, NEW I \in SUBSET (1 .. n), I # {}
  PROVE  \E i \in I : \A j \in I : i <= j
<1>1. Cardinality(I) # 0 /\ Cardinality(I) \in Nat
  BY Places1ToN, FS_EmptySet
<1>2. 1 \in 1 .. Cardinality(I)
  BY <1>1
<1>3. PICK i \in I : Place(I, i) = 1
  BY <1>2, Places1ToN
<1>4. ASSUME NEW j \in I, j < i PROVE FALSE
  <2>1. /\ \A k \in I : Place(I, k) \in 1 .. Cardinality(I)
        /\ \A k, m \in I : k < m => Place(I, k) < Place(I, m)
    BY Places1ToN
  <2>2. Place(I, j) \in 1 .. Cardinality(I) /\ Place(I, j) < 1
    BY <1>3, <1>4, <2>1
  <2> QED
    BY <1>1, <2>2
<1>5. \A j \in I : j \in Nat /\ i \in Nat
  OBVIOUS
<1> QED
  BY <1>4, <1>5

\* What is picked of a sequence is a sequence of what stands there.
LEMMA PickIs ==
  ASSUME NEW T, NEW s \in Seq(T), NEW I \in SUBSET (1 .. Len(s))
  PROVE  /\ Pick(s, I) \in Seq(T) /\ Len(Pick(s, I)) = Cardinality(I)
         /\ ToSet(Pick(s, I)) = {s[i] : i \in I}
<1> DEFINE n == Cardinality(I)
           At(k) == CHOOSE i \in I : Place(I, i) = k
<1>1. Len(s) \in Nat /\ \A i \in 1 .. Len(s) : s[i] \in T
  BY LenProperties, ElementOfSeq
<1>2. /\ n \in Nat
      /\ \A i \in I : Place(I, i) \in 1 .. n
      /\ \A i, j \in I : Place(I, i) = Place(I, j) => i = j
      /\ \A k \in 1 .. n : \E i \in I : Place(I, i) = k
  BY <1>1, Places1ToN
<1>3. Pick(s, I) = [k \in 1 .. n |-> s[At(k)]]
  BY DEF Pick, Place
<1>4. \A k \in 1 .. n : At(k) \in I /\ Place(I, At(k)) = k
  BY <1>2
<1>5. \A i \in I : At(Place(I, i)) = i
  BY <1>2, <1>4
<1> HIDE DEF n, At
<1>6. Pick(s, I) \in [1 .. n -> T]
  BY <1>1, <1>3, <1>4
<1>7. Pick(s, I) \in Seq(T) /\ Len(Pick(s, I)) = n
  <2>1. Pick(s, I) \in Seq(T)
    BY <1>2, <1>6, SeqDef
  <2> QED
    BY <1>2, <1>6, <2>1, LenProperties
<1>8. ToSet(Pick(s, I)) = {s[i] : i \in I}
  <2>1. DOMAIN Pick(s, I) = 1 .. n
    BY <1>6
  <2>2. ASSUME NEW k \in 1 .. n PROVE \E i \in I : Pick(s, I)[k] = s[i]
    BY <1>3, <1>4
  <2>3. ASSUME NEW i \in I PROVE \E k \in 1 .. n : Pick(s, I)[k] = s[i]
    BY <1>2, <1>3, <1>5
  <2> DEFINE p == Pick(s, I)
  <2>4. ToSet(p) = {p[k] : k \in 1 .. n}
    BY <2>1 DEF ToSet
  <2> HIDE DEF p
  <2>5. {p[k] : k \in 1 .. n} = {s[i] : i \in I}
    <3>1. \A k \in 1 .. n : \E i \in I : p[k] = s[i]
      BY <2>2 DEF p
    <3>2. \A i \in I : \E k \in 1 .. n : p[k] = s[i]
      BY <2>3 DEF p
    <3>3. ASSUME NEW x \in {p[k] : k \in 1 .. n} PROVE x \in {s[i] : i \in I}
      <4>1. PICK k \in 1 .. n : x = p[k]
        BY <3>3
      <4> QED
        BY <3>1, <4>1
    <3>4. ASSUME NEW x \in {s[i] : i \in I} PROVE x \in {p[k] : k \in 1 .. n}
      <4>1. PICK i \in I : x = s[i]
        BY <3>4
      <4> QED
        BY <3>2, <4>1
    <3> QED
      BY <3>3, <3>4
  <2> QED
    BY <2>4, <2>5 DEF p
<1> QED
  BY <1>7, <1>8 DEF n

\* Every element has a first place.
LEMMA FirstsIs ==
  ASSUME NEW T, NEW s \in Seq(T)
  PROVE  Firsts(s) \in Seq(T) /\ ToSet(Firsts(s)) = ToSet(s)
<1> DEFINE I == {i \in DOMAIN s : \A j \in DOMAIN s : s[j] = s[i] => i <= j}
<1>1. DOMAIN s = 1 .. Len(s) /\ Len(s) \in Nat /\ I \in SUBSET (1 .. Len(s))
  BY LenProperties
<1>2. Firsts(s) = Pick(s, I)
  BY DEF Firsts
<1>3. Firsts(s) \in Seq(T) /\ ToSet(Firsts(s)) = {s[i] : i \in I}
  <2> HIDE DEF I
  <2> QED
    BY <1>1, <1>2, PickIs
<1>4. ASSUME NEW k \in DOMAIN s PROVE \E i \in I : s[i] = s[k]
  <2> DEFINE J == {j \in DOMAIN s : s[j] = s[k]}
  <2>1. J \in SUBSET (1 .. Len(s)) /\ J # {}
    BY <1>1
  <2> HIDE DEF J
  <2>2. PICK i \in J : \A j \in J : i <= j
    BY <1>1, <2>1, LeastOf
  <2> QED
    BY <2>2 DEF J
<1> QED
  <2>1. \A i \in I : i \in DOMAIN s
    OBVIOUS
  <2> HIDE DEF I
  <2>2. {s[i] : i \in I} = ToSet(s)
    BY <1>4, <2>1 DEF ToSet
  <2> QED
    BY <1>3, <2>2

-----------------------------------------------------------------------------
(* What of the listing has been read. *)

\* The calls of the first k pages that stay listed are among what was got.
FrontRead(k, w, list) ==
  \A i \in 1 .. Len(list) :
    i <= k * PerPage /\ list[i] \in w.steady \ memory => list[i] \in ToSet(w.got)

\* All of an address that stay listed are, as far as the pages of the connector go.
Fits(list) == Len(list) <= connector.pages * PerPage
PlaceRead(w, list) ==
  Fits(list) => \A x \in ToSet(list) : x \in w.steady \ memory => x \in ToSet(w.got)

\* Those of all addresses are.
AllRead(w, lists) ==
  (\A p \in Walked : Fits(lists[p])) => w.steady \ memory \subseteq ToSet(w.got)

Elements == Calls \cup {PageItself}
Walks(c) ==
  [at : {"idle", "asking", "again", "rendering", "fetched", "raised", "listed"},
   place : 1 .. Places(c), page : Nat \ {0}, try : Nat, total : Nat, got : Seq(Elements),
   answered : BOOLEAN, steady : SUBSET Calls, sound : BOOLEAN, changes : Nat]

WalkTyped ==
  /\ connector \in Connectors /\ walk \in Walks(connector)
  /\ listing \in [Addresses -> Seq(Calls)]
  /\ Alike => \A p, q \in Addresses : listing[p] = listing[q]

\* The address that lists the others is asked.
AtIndex(w) == connector.index /\ w.place = 1

\* The calls that the walked addresses list.
InWalked(lists) == UNION {ToSet(lists[p]) : p \in Walked}

\* What a walk knows between two requests, while nothing came between.
OnTheWay(w, lists) ==
  /\ w.at # "rendering" /\ w.steady \subseteq InWalked(lists)
  /\ connector.probe \/ w.at = "again" => w.page = 1 /\ connector.probe
  /\ ~AtIndex(w) => FrontRead(w.page - 1, w, lists[w.place])
  /\ ~Alike => \A p \in Walked : p < w.place => PlaceRead(w, lists[p])
  /\ w.page > 1 /\ "total" \in connector.ends =>
       w.total = (Len(lists[w.place]) + PerPage - 1) \div PerPage

ReadSoFar(w, lists) ==
  w.sound =>
    /\ w.at \in {"asking", "again", "rendering"} => OnTheWay(w, lists)
    /\ w.at = "fetched" => w.answered /\ AllRead(w, lists)
    /\ w.at = "listed" => AllRead(w, lists)

WalkInv == WalkTyped /\ ReadSoFar(walk, listing)

\* How many addresses there are, and which are walked.
LEMMA PlacesAre ==
  ASSUME WalkTyped
  PROVE  /\ Places(connector) \in Nat \ {0} /\ Places(connector) <= MaxPlaces
         /\ 1 .. Places(connector) \subseteq Addresses /\ 1 \in 1 .. Places(connector)
         /\ Walked \subseteq 1 .. Places(connector)
         /\ connector.index => Places(connector) >= 2 /\ ~Alike /\ ~connector.probe
         /\ connector.probe => Alike /\ connector.pages = 1
         /\ walk.place \in Addresses
         /\ ~AtIndex(walk) => walk.place \in Walked
<1>1. connector \in Connectors /\ walk.place \in 1 .. Places(connector)
  BY DEF WalkTyped, Walks
<1>2. /\ connector.places \in Nat \ {0} /\ MaxPlaces \in Nat /\ MaxPlaces >= 2
      /\ connector.index => connector.places >= 2 /\ ~connector.probe
      /\ connector.probe => connector.pages = 1 /\ connector.enough # "all"
  BY <1>1, ListingAssumption
<1>3. /\ Places(connector) \in Nat \ {0} /\ Places(connector) <= MaxPlaces
      /\ connector.index => Places(connector) >= 2
  BY <1>2 DEF Places, Lesser
<1>4. 1 .. Places(connector) \subseteq Addresses /\ 1 \in 1 .. Places(connector)
  BY <1>2, <1>3 DEF Addresses
<1>5. Walked \subseteq 1 .. Places(connector)
  BY <1>3 DEF Walked
<1>6. ~AtIndex(walk) => walk.place \in Walked
  BY <1>1, <1>3 DEF AtIndex, Walked
<1>7. (connector.index => ~Alike) /\ (connector.probe => Alike)
  BY <1>2 DEF Alike
<1> QED
  BY <1>1, <1>2, <1>3, <1>4, <1>5, <1>6, <1>7

\* Where a walk goes from an address is a walk as sound as it was.
LEMMA GoesOn ==
  ASSUME WalkTyped, NEW w \in Walks(connector)
  PROVE  /\ Returned(w) \in Walks(connector) /\ Returned(w).sound = w.sound
         /\ NextPlace(w) \in Walks(connector) /\ (NextPlace(w).sound => w.sound)
         /\ GaveUp(w) \in Walks(connector) /\ (GaveUp(w).sound => w.sound)
<1>1. <<PageItself>> \in Seq(Elements)
  BY DEF Elements
<1>2. ASSUME NEW v \in Walks(connector)
      PROVE  Returned(v) \in Walks(connector) /\ Returned(v).sound = v.sound
  <2>1. /\ [v EXCEPT !.at = "fetched"] \in Walks(connector)
        /\ [v EXCEPT !.at = "fetched"].sound = v.sound
    BY DEF Walks
  <2>2. /\ [v EXCEPT !.at = "fetched", !.got = <<PageItself>>] \in Walks(connector)
        /\ [v EXCEPT !.at = "fetched", !.got = <<PageItself>>].sound = v.sound
    BY <1>1 DEF Walks
  <2>3. /\ [v EXCEPT !.at = "again", !.place = 1, !.page = 1] \in Walks(connector)
        /\ [v EXCEPT !.at = "again", !.place = 1, !.page = 1].sound = v.sound
    <3>1. 1 \in Nat \ {0} /\ 1 \in 1 .. Places(connector)
      BY PlacesAre
    <3> QED
      BY <3>1 DEF Walks
  <2>4. /\ [v EXCEPT !.at = "raised"] \in Walks(connector)
        /\ [v EXCEPT !.at = "raised"].sound = v.sound
    BY DEF Walks
  <2> HIDE DEF Walks
  <2> QED
    BY <2>1, <2>2, <2>3, <2>4 DEF Returned
<1>3. NextPlace(w) \in Walks(connector) /\ (NextPlace(w).sound => w.sound)
  <2>1. CASE w.place = Places(connector)
    BY <1>2, <2>1 DEF NextPlace
  <2>2. CASE w.place # Places(connector) /\ Enough(w)
    <3> DEFINE v == [w EXCEPT !.sound = @ /\ Alike]
    <3>1. v \in Walks(connector) /\ (v.sound => w.sound)
      <4>1. w \in Walks(connector) /\ (w.sound /\ Alike) \in BOOLEAN
        BY DEF Walks
      <4> QED
        BY <4>1 DEF Walks
    <3>2. NextPlace(w) = Returned(v)
      BY <2>2 DEF NextPlace
    <3> HIDE DEF v
    <3> QED
      BY <1>2, <3>1, <3>2
  <2>3. CASE w.place # Places(connector) /\ ~Enough(w)
    <3>1. w.place + 1 \in 1 .. Places(connector) /\ 1 \in Nat \ {0}
      BY <2>3, PlacesAre DEF Walks
    <3>2. ASSUME NEW p \in 1 .. Places(connector), NEW q \in Nat \ {0}
          PROVE  /\ [w EXCEPT !.at = "asking", !.place = p, !.page = q, !.try = q]
                       \in Walks(connector)
                 /\ [w EXCEPT !.at = "asking", !.place = p, !.page = q, !.try = q].sound = w.sound
      BY DEF Walks
    <3> QED
      BY <2>3, <3>1, <3>2 DEF NextPlace
  <2> QED
    BY <2>1, <2>2, <2>3
<1>4. GaveUp(w) \in Walks(connector) /\ (GaveUp(w).sound => w.sound)
  <2>1. /\ [w EXCEPT !.at = "raised"] \in Walks(connector)
        /\ [w EXCEPT !.at = "raised"].sound = w.sound
        /\ [w EXCEPT !.at = IF w.answered THEN "fetched" ELSE "raised"] \in Walks(connector)
        /\ [w EXCEPT !.at = IF w.answered THEN "fetched" ELSE "raised"].sound = w.sound
    BY DEF Walks
  <2> QED
    BY <1>2, <1>3, <2>1 DEF GaveUp
<1> QED
  BY <1>2, <1>3, <1>4

\* The same of an answer.
LEMMA TurnedTyped ==
  ASSUME WalkTyped, NEW w \in Walks(connector), NEW content \in Seq(Elements)
  PROVE  Turned(w, content) \in Walks(connector) /\ (Turned(w, content).sound => w.sound)
<1> DEFINE read == [w EXCEPT !.got = @ \o content, !.answered = TRUE,
                             !.total = IF w.page = 1 THEN TotalPages ELSE @]
<1>1. TotalPages \in Nat
  <2>1. Here \in Seq(Calls)
    BY PlacesAre DEF Here, WalkTyped
  <2>2. Len(Here) \in Nat /\ PerPage \in Nat \ {0}
    BY <2>1, LenProperties, ListingAssumption
  <2> QED
    BY <2>2 DEF TotalPages
<1>2. w.got \o content \in Seq(Elements)
  BY ConcatProperties DEF Walks
<1>3. read \in Walks(connector) /\ read.sound = w.sound
  BY <1>1, <1>2 DEF Walks
<1> HIDE DEF read
<1>4. /\ [read EXCEPT !.at = "fetched"] \in Walks(connector)
      /\ [w EXCEPT !.at = "again"] \in Walks(connector)
      /\ [read EXCEPT !.at = "asking", !.page = @ + 1, !.try = 1] \in Walks(connector)
  <2>1. read.page + 1 \in Nat \ {0}
    BY <1>3 DEF Walks
  <2> QED
    BY <1>3, <2>1 DEF Walks
<1>5. NextPlace(read) \in Walks(connector) /\ (NextPlace(read).sound => read.sound)
  BY <1>3, GoesOn
<1> QED
  <2>1. /\ [read EXCEPT !.at = "fetched"].sound = read.sound
        /\ [w EXCEPT !.at = "again"].sound = w.sound
        /\ [read EXCEPT !.at = "asking", !.page = @ + 1, !.try = 1].sound = read.sound
    BY <1>3 DEF Walks
  <2> QED
    BY <1>3, <1>4, <1>5, <2>1 DEF Turned, read

\* A page is what the address lists there, of a sitemap what memory has not.
LEMMA PageIs ==
  ASSUME WalkTyped, NEW k \in Nat \ {0}
  PROVE  /\ PageOf(k) \in Seq(Calls)
         /\ ~AtIndex(walk) =>
              \A i \in 1 .. Len(Here) :
                (k - 1) * PerPage < i /\ i <= k * PerPage /\ Here[i] \notin memory
                  => Here[i] \in ToSet(PageOf(k))
         /\ ~AtIndex(walk) /\ connector.fresh = {} /\ Len(PageOf(k)) < PerPage
              => Len(Here) <= k * PerPage
         /\ ~AtIndex(walk) /\ connector.fresh = {} /\ PageOf(k) = <<>>
              => Len(Here) <= k * PerPage
<1> DEFINE from == (k - 1) * PerPage
           to == k * PerPage
           n == Len(Here)
           last == Lesser(to, n)
           slice == SubSeq(Here, from + 1, last)
           fresh == {i \in DOMAIN slice : slice[i] \notin memory}
<1>1. n \in Nat /\ \A i \in 1 .. n : Here[i] \in Calls
  <2>1. Here \in Seq(Calls)
    BY PlacesAre DEF WalkTyped, Here
  <2> QED
    BY <2>1, LenProperties, ElementOfSeq
<1>2. from \in Nat /\ to \in Nat /\ to = from + PerPage /\ PerPage \in Nat \ {0}
  <2>1. k * PerPage = (k - 1) * PerPage + PerPage /\ (k - 1) * PerPage \in Nat
    BY ListingAssumption
  <2> QED
    BY <2>1, ListingAssumption
<1>3. /\ PageOf(k) = IF AtIndex(walk) THEN <<>>
                     ELSE IF walk.place \in connector.fresh THEN Pick(slice, fresh) ELSE slice
  BY DEF PageOf, AtIndex
<1> HIDE DEF from, to, n
<1>4. last \in Nat /\ last <= n /\ last <= to /\ (last = n \/ last = to)
  BY <1>1, <1>2 DEF Lesser
<1>5. /\ slice \in Seq(Calls)
      /\ Len(slice) = IF from + 1 <= last THEN last - from ELSE 0
      /\ \A j \in 1 .. last - from : slice[j] = Here[from + j]
  <2>1. \A i \in from + 1 .. last : Here[i] \in Calls
    BY <1>1, <1>2, <1>4
  <2>2. from + 1 \in Int /\ last \in Int
    BY <1>2, <1>4
  <2> HIDE DEF last
  <2>3. /\ slice \in Seq(Calls)
        /\ Len(slice) = IF from + 1 <= last THEN last - (from + 1) + 1 ELSE 0
        /\ \A j \in 1 .. last - (from + 1) + 1 : slice[j] = Here[from + 1 + j - 1]
    BY <2>1, <2>2, SubSeqProperties
  <2>4. last - (from + 1) + 1 = last - from
    BY <1>2, <1>4
  <2>5. \A j \in 1 .. last - from : from + 1 + j - 1 = from + j
    BY <1>2, <1>4
  <2> QED
    BY <2>3, <2>4, <2>5
<1> HIDE DEF last
<1>6. \A i \in 1 .. n : from < i /\ i <= to =>
        /\ i - from \in 1 .. Len(slice) /\ slice[i - from] = Here[i]
  <2> SUFFICES ASSUME NEW i \in 1 .. n, from < i, i <= to
               PROVE  i - from \in 1 .. Len(slice) /\ slice[i - from] = Here[i]
    OBVIOUS
  <2>1. i <= last /\ i - from \in 1 .. last - from /\ from + (i - from) = i /\ from + 1 <= last
    BY <1>1, <1>2, <1>4
  <2> HIDE DEF slice
  <2> QED
    BY <1>5, <2>1
<1>7. DOMAIN slice = 1 .. Len(slice) /\ fresh \in SUBSET (1 .. Len(slice))
  BY <1>5, LenProperties
<1>8. /\ Pick(slice, fresh) \in Seq(Calls)
      /\ ToSet(Pick(slice, fresh)) = {slice[i] : i \in fresh}
  <2> HIDE DEF slice, fresh
  <2> QED
    BY <1>5, <1>7, PickIs
<1>9. PageOf(k) \in Seq(Calls)
  <2>1. <<>> \in Seq(Calls)
    BY EmptySeq
  <2> HIDE DEF slice, fresh
  <2> QED
    BY <1>3, <1>5, <1>8, <2>1
<1>10. ASSUME ~AtIndex(walk), NEW i \in 1 .. n, from < i, i <= to, Here[i] \notin memory
       PROVE  Here[i] \in ToSet(PageOf(k))
  <2>1. i - from \in DOMAIN slice /\ slice[i - from] = Here[i]
    BY <1>6, <1>7, <1>10
  <2>2. i - from \in fresh
    BY <1>10, <2>1
  <2>3. Here[i] \in ToSet(slice) /\ Here[i] \in ToSet(Pick(slice, fresh))
    <3> HIDE DEF slice, fresh
    <3> QED
      BY <1>8, <2>1, <2>2 DEF ToSet
  <2> HIDE DEF slice, fresh
  <2> QED
    BY <1>3, <1>10, <2>3
<1>11. ASSUME Len(slice) < PerPage PROVE n <= to
  <2> HIDE DEF slice
  <2> QED
    BY <1>1, <1>2, <1>4, <1>5, <1>11
<1>12. slice = <<>> => Len(slice) < PerPage
  <2> HIDE DEF slice
  <2> QED
    BY <1>2, EmptySeq
<1> HIDE DEF slice, fresh
<1> QED
  BY <1>3, <1>9, <1>10, <1>11, <1>12 DEF from, to, n

\* As many pages as were counted hold the listing.
LEMMA CountedPages ==
  ASSUME NEW n \in Nat, NEW k \in Nat, k >= (n + PerPage - 1) \div PerPage
  PROVE  n <= k * PerPage
<1> DEFINE q == (n + PerPage - 1) \div PerPage
           a == n + PerPage - 1
<1>1. PerPage \in Nat \ {0} /\ a \in Nat
  BY ListingAssumption
<1>2. q \in Nat /\ a < (q + 1) * PerPage
  BY <1>1
<1>3. (q + 1) * PerPage = q * PerPage + PerPage /\ q * PerPage \in Nat
  BY <1>1, <1>2
<1>4. q * PerPage <= k * PerPage /\ k * PerPage \in Nat
  BY <1>1, <1>2
<1> QED
  BY <1>1, <1>2, <1>3, <1>4

-----------------------------------------------------------------------------
(* The steps. *)

\* What was known of a walk is known after a step that leaves source and memory.
LEMMA KnownAfter ==
  ASSUME WalkTyped', UNCHANGED <<connector, memory>>, ReadSoFar(walk', listing')
  PROVE  WalkInv'
BY DEF WalkInv, ReadSoFar, OnTheWay, AllRead, FrontRead, PlaceRead, Fits, InWalked, AtIndex,
       Walked, Alike

\* Of no page is anything to be known.
LEMMA NoPageRead ==
  ASSUME NEW w, NEW list \in Seq(Calls), w.page = 1
  PROVE  FrontRead(w.page - 1, w, list)
<1>1. \A i \in 1 .. Len(list) : ~(i <= 0)
  BY LenProperties
<1>2. (w.page - 1) * PerPage = 0
  BY ListingAssumption
<1> QED
  BY <1>1, <1>2 DEF FrontRead

LEMMA ScaledIsNat ==
  ASSUME NEW n \in Nat
  PROVE  Scaled(n) \in Nat
BY ListingAssumption DEF Scaled

\* The first m of a sequence are one, and all of it when they are as many.
LEMMA FrontIs ==
  ASSUME NEW T, NEW s \in Seq(T), NEW m \in Nat
  PROVE  /\ SubSeq(s, 1, Lesser(m, Len(s))) \in Seq(T)
         /\ Len(s) = Len(SubSeq(s, 1, Lesser(m, Len(s)))) => SubSeq(s, 1, Lesser(m, Len(s))) = s
<1> DEFINE last == Lesser(m, Len(s))
<1>1. last \in Nat /\ last <= Len(s) /\ Len(s) \in Nat
  BY LenProperties DEF Lesser
<1> HIDE DEF last
<1>2. \A i \in 1 .. last : s[i] \in T
  BY <1>1, ElementOfSeq
<1>3. /\ SubSeq(s, 1, last) \in Seq(T)
      /\ Len(SubSeq(s, 1, last)) = IF 1 <= last THEN last - 1 + 1 ELSE 0
  BY <1>1, <1>2, SubSeqProperties
<1>4. Len(SubSeq(s, 1, last)) = last
  BY <1>1, <1>3
<1>5. last = Len(s) => SubSeq(s, 1, last) = s
  BY SubSeqFull
<1> QED
  BY <1>3, <1>4, <1>5 DEF last

\* What has been got is still got when more is.
LEMMA GotMore ==
  ASSUME NEW s \in Seq(Elements), NEW t \in Seq(Elements)
  PROVE  ToSet(s \o t) = ToSet(s) \cup ToSet(t)
<1> DEFINE u == s \o t
           m == Len(s)
           n == Len(t)
<1>1. /\ m \in Nat /\ n \in Nat /\ DOMAIN s = 1 .. m /\ DOMAIN t = 1 .. n
  BY LenProperties
<1>2. /\ u \in Seq(Elements) /\ Len(u) = m + n
      /\ \A i \in 1 .. m + n : u[i] = IF i <= m THEN s[i] ELSE t[i - m]
  BY ConcatProperties
<1> HIDE DEF u, m, n
<1>3. DOMAIN u = 1 .. m + n
  BY <1>2, LenProperties
<1>4. ASSUME NEW i \in 1 .. m PROVE i \in DOMAIN u /\ u[i] = s[i]
  BY <1>1, <1>2, <1>3
<1>5. ASSUME NEW i \in 1 .. n PROVE \E p \in DOMAIN u : u[p] = t[i]
  <2> DEFINE p == m + i
  <2>1. p \in 1 .. m + n /\ ~(p <= m) /\ p - m = i
    BY <1>1
  <2> HIDE DEF p
  <2>2. u[p] = IF p <= m THEN s[p] ELSE t[p - m]
    BY <1>2, <2>1
  <2>3. u[p] = t[i]
    BY <2>1, <2>2
  <2> QED
    BY <1>3, <2>1, <2>3
<1>6. ASSUME NEW i \in DOMAIN u PROVE u[i] \in ToSet(s) \cup ToSet(t)
  <2>1. CASE i <= m
    <3>1. i \in DOMAIN s /\ u[i] = s[i]
      BY <1>1, <1>2, <1>3, <2>1
    <3> QED
      BY <3>1 DEF ToSet
  <2>2. CASE ~(i <= m)
    <3>1. i - m \in DOMAIN t /\ u[i] = t[i - m]
      BY <1>1, <1>2, <1>3, <2>2
    <3> QED
      BY <3>1 DEF ToSet
  <2> QED
    BY <2>1, <2>2
<1>7. \A x \in ToSet(s) : x \in ToSet(u)
  BY <1>1, <1>4 DEF ToSet
<1>8. \A x \in ToSet(t) : x \in ToSet(u)
  BY <1>1, <1>5 DEF ToSet
<1>9. \A x \in ToSet(u) : x \in ToSet(s) \cup ToSet(t)
  BY <1>6 DEF ToSet
<1> QED
  BY <1>7, <1>8, <1>9 DEF u

\* No walk is one.
LEMMA NoWalkTyped ==
  ASSUME connector \in Connectors
  PROVE  NoWalk \in Walks(connector)
<1>1. connector.places \in Nat \ {0} /\ MaxPlaces \in Nat /\ MaxPlaces >= 2
  BY ListingAssumption
<1>2. 1 \in 1 .. Places(connector)
  BY <1>1 DEF Places, Lesser
<1>3. <<>> \in Seq(Elements) /\ 1 \in Nat \ {0}
  BY EmptySeq
<1> QED
  BY <1>2, <1>3 DEF NoWalk, Walks

\* At the start no page is read.
LEMMA WalkStarts == WalkInit => WalkInv
<1> SUFFICES ASSUME WalkInit PROVE WalkInv
  OBVIOUS
<1>1. ASSUME NEW S \in SUBSET Calls PROVE SetToSeq(S) \in Seq(Calls)
  <2> DEFINE n == Cardinality(S)
  <2>1. IsFiniteSet(S) /\ n \in Nat
    BY FS_Subset, FS_CardinalityType, ListingAssumption
  <2>2. IsFiniteSet(1 .. n) /\ Cardinality(1 .. n) = n
    BY <2>1, FS_Interval
  <2>3. Bijection(1 .. n, S) # {}
    BY <2>1, <2>2, FS_SameCardinalityBij DEF ExistsBijection
  <2>4. \E f \in [1 .. n -> S] : IsInjective(f)
    BY <2>3 DEF Bijection, Injection, IsInjective
  <2>5. SetToSeq(S) = CHOOSE f \in [1 .. n -> S] : IsInjective(f)
    BY DEF SetToSeq
  <2>6. SetToSeq(S) \in [1 .. n -> S]
    BY <2>4, <2>5
  <2>7. SetToSeq(S) \in [1 .. n -> Calls]
    BY <2>6
  <2> QED
    BY <2>1, <2>7, SeqDef
<1> DEFINE At(p) == {c \in Calls : ListedAt(c, p)}
<1>2. \A p \in Addresses : listing[p] = SetToSeq(At(p)) /\ At(p) \in SUBSET Calls
  BY DEF WalkInit
<1>3. listing \in [Addresses -> Seq(Calls)]
  <2>1. DOMAIN listing = Addresses /\ listing = [p \in DOMAIN listing |-> listing[p]]
    BY DEF WalkInit
  <2> HIDE DEF At
  <2> QED
    BY <1>1, <1>2, <2>1
<1>4. Alike => \A p, q \in Addresses : listing[p] = listing[q]
  <2>1. Alike => \A p \in Addresses : At(p) = Calls
    BY DEF ListedAt
  <2> HIDE DEF At
  <2> QED
    BY <1>2, <2>1
<1>5. NoWalk \in Walks(connector)
  BY NoWalkTyped DEF WalkInit
<1> QED
  BY <1>3, <1>4, <1>5 DEF WalkInit, WalkInv, WalkTyped, ReadSoFar, NoWalk

\* A walk begins at the first page of the first address.
LEMMA OpenKeeps == ASSUME WalkInv, OpenListing PROVE WalkInv'
<1> DEFINE w == [NoWalk EXCEPT !.at = "asking", !.steady = InWalked(listing)]
<1>1. walk' = w /\ UNCHANGED <<connector, listing, memory>>
  BY DEF OpenListing, InWalked
<1>2. InWalked(listing) \in SUBSET Calls
  <2> SUFFICES ASSUME NEW p \in Walked, NEW x \in ToSet(listing[p]) PROVE x \in Calls
    BY DEF InWalked
  <2>1. listing[p] \in Seq(Calls)
    BY PlacesAre DEF WalkInv, WalkTyped
  <2> QED
    BY <2>1, LenProperties, ElementOfSeq DEF ToSet
<1>3. /\ w.at = "asking" /\ w.place = 1 /\ w.page = 1 /\ w.steady = InWalked(listing)
      /\ w \in Walks(connector)
  <2>1. NoWalk \in Walks(connector)
    BY NoWalkTyped DEF WalkInv, WalkTyped
  <2>2. NoWalk.place = 1 /\ NoWalk.page = 1
    BY DEF NoWalk
  <2> QED
    BY <1>2, <2>1, <2>2 DEF Walks
<1> HIDE DEF w
<1>4. FrontRead(w.page - 1, w, listing[w.place])
  <2>1. listing[w.place] \in Seq(Calls)
    BY <1>3, PlacesAre DEF WalkInv, WalkTyped
  <2> QED
    BY <1>3, <2>1, NoPageRead
<1>5. OnTheWay(w, listing)
  <2>1. \A p \in Walked : ~(p < w.place)
    BY <1>3, PlacesAre DEF WalkInv
  <2> QED
    BY <1>3, <1>4, <2>1 DEF OnTheWay
<1>6. WalkTyped'
  BY <1>1, <1>3 DEF WalkInv, WalkTyped, Alike
<1> QED
  BY <1>1, <1>3, <1>5, <1>6, KnownAfter DEF ReadSoFar

\* A walk that was disturbed promises nothing more.
LEMMA UnsoundKeeps ==
  ASSUME WalkInv, UNCHANGED <<connector, listing>>, walk' \in Walks(connector), ~walk'.sound
  PROVE  WalkInv'
BY DEF WalkInv, WalkTyped, ReadSoFar, Alike

\* The answer that a sound walk takes whole: the page is read, and with the last
\* of the last address the walk has what it came for.
LEMMA SoundAnswer ==
  ASSUME WalkInv, Asking, walk.sound, UNCHANGED <<connector, listing, memory>>,
         walk' = Turned(walk, PageOf(walk.page))
  PROVE  WalkInv'
<1> DEFINE w == walk
           k == walk.page
           content == PageOf(k)
           read == [w EXCEPT !.got = @ \o content, !.answered = TRUE,
                             !.total = IF w.page = 1 THEN TotalPages ELSE @]
           n == Len(Here)
<1>1. /\ w \in Walks(connector) /\ k \in Nat \ {0} /\ w.got \in Seq(Elements)
      /\ Here \in Seq(Calls) /\ n \in Nat
      /\ PerPage \in Nat \ {0} /\ connector.pages \in Nat \ {0}
  <2>1. Here \in Seq(Calls)
    BY PlacesAre DEF WalkInv, WalkTyped, Here
  <2> QED
    BY <2>1, LenProperties, ListingAssumption DEF WalkInv, WalkTyped, Walks
<1>3. w.at \in {"asking", "again", "rendering"}
  BY DEF Asking
<1>4. content \in Seq(Calls) /\ content \in Seq(Elements)
  BY <1>1, PageIs, SeqMonotonic DEF WalkInv, Elements
<1>5. Turned(w, content) \in Walks(connector)
  BY <1>1, <1>4, TurnedTyped DEF WalkInv
<1>6. WalkTyped'
  BY <1>5 DEF WalkInv, WalkTyped, Alike
<1> SUFFICES ReadSoFar(Turned(w, content), listing)
  BY <1>6, KnownAfter
<1>7. OnTheWay(w, listing)
  BY <1>3 DEF WalkInv, ReadSoFar
<1>8. /\ read \in Walks(connector) /\ read.got = w.got \o content /\ read.answered = TRUE
      /\ read.place = w.place /\ read.page = k /\ read.steady = w.steady /\ read.sound = TRUE
      /\ read.total = IF k = 1 THEN (n + PerPage - 1) \div PerPage ELSE w.total
  <2>1. w.got \o content \in Seq(Elements)
    BY <1>1, <1>4, ConcatProperties
  <2>2. TotalPages \in Nat
    BY <1>1 DEF TotalPages
  <2>3. w.sound = TRUE
    BY <1>1 DEF Walks
  <2> QED
    BY <1>1, <2>1, <2>2, <2>3 DEF Walks, TotalPages
<1>9. ToSet(read.got) = ToSet(w.got) \cup ToSet(content)
  BY <1>1, <1>4, <1>8, GotMore
<1>10. ~AtIndex(w) => FrontRead(k, read, Here)
  <2> SUFFICES ASSUME ~AtIndex(w), NEW i \in 1 .. n, i <= k * PerPage,
                      Here[i] \in w.steady \ memory
               PROVE  Here[i] \in ToSet(read.got)
    BY <1>8 DEF FrontRead
  <2>1. CASE i <= (k - 1) * PerPage
    BY <1>7, <1>9, <2>1 DEF OnTheWay, FrontRead, Here
  <2>2. CASE ~(i <= (k - 1) * PerPage)
    <3>1. (k - 1) * PerPage \in Nat
      BY <1>1
    <3>2. (k - 1) * PerPage < i
      BY <2>2, <3>1
    <3>3. Here[i] \in ToSet(content)
      BY <1>1, <3>2, PageIs DEF WalkInv
    <3> QED
      BY <1>9, <3>3
  <2> QED
    BY <2>1, <2>2
<1>11. ASSUME ~AtIndex(w), n <= connector.pages * PerPage => n <= k * PerPage
       PROVE  PlaceRead(read, Here)
  <2> SUFFICES ASSUME n <= connector.pages * PerPage, NEW x \in ToSet(Here),
                      x \in w.steady \ memory
               PROVE  x \in ToSet(read.got)
    BY <1>8 DEF PlaceRead, Fits
  <2>1. PICK i \in 1 .. n : Here[i] = x
    BY <1>1, LenProperties DEF ToSet
  <2>2. k * PerPage \in Nat
    BY <1>1
  <2>3. i <= k * PerPage
    BY <1>1, <1>11, <2>1, <2>2
  <2> QED
    BY <1>8, <1>10, <1>11, <2>1, <2>3 DEF FrontRead
<1>12. ASSUME ~AtIndex(w), Over(read, content) PROVE PlaceRead(read, Here)
  <2>1. connector.ends # {} => connector.fresh = {}
    BY ListingAssumption DEF WalkInv, WalkTyped
  <2>2. CASE read.page = connector.pages
    BY <1>8, <1>11, <1>12, <2>2
  <2>3. CASE "short" \in connector.ends /\ Len(content) < PerPage
    <3>1. n <= k * PerPage
      BY <1>1, <1>12, <2>1, <2>3, PageIs DEF WalkInv
    <3> QED
      BY <1>11, <1>12, <3>1
  <2>4. CASE "blank" \in connector.ends /\ content = <<>>
    <3>1. n <= k * PerPage
      BY <1>1, <1>12, <2>1, <2>4, PageIs DEF WalkInv
    <3> QED
      BY <1>11, <1>12, <3>1
  <2>5. CASE "total" \in connector.ends /\ read.page >= read.total
    <3>1. read.total = (n + PerPage - 1) \div PerPage
      BY <1>1, <1>7, <1>8, <2>5 DEF OnTheWay, Here
    <3>2. n <= k * PerPage
      BY <1>1, <1>8, <2>5, <3>1, CountedPages
    <3> QED
      BY <1>11, <1>12, <3>2
  <2>6. CASE "next" \in connector.ends /\ read.page * PerPage >= Len(Here)
    <3>1. k * PerPage \in Nat
      BY <1>1
    <3>2. n <= k * PerPage
      BY <1>1, <1>8, <2>6, <3>1
    <3> QED
      BY <1>11, <1>12, <3>2
  <2> QED
    BY <1>12, <2>2, <2>3, <2>4, <2>5, <2>6 DEF Over
<1>13. \A p \in Addresses : PlaceRead(w, listing[p]) => PlaceRead(read, listing[p])
  BY <1>8, <1>9 DEF PlaceRead
<1>14. ASSUME ~AtIndex(w), PlaceRead(read, Here), w.place = Places(connector) \/ Alike
       PROVE  AllRead(read, listing)
  <2> SUFFICES ASSUME \A p \in Walked : Fits(listing[p]), NEW x \in w.steady \ memory
               PROVE  x \in ToSet(read.got)
    BY <1>8 DEF AllRead
  <2>1. PICK p \in Walked : x \in ToSet(listing[p])
    BY <1>7 DEF OnTheWay, InWalked
  <2>2. p \in Addresses /\ p \in 1 .. Places(connector) /\ w.place \in Addresses
    BY PlacesAre DEF WalkInv
  <2>3. PlaceRead(read, listing[p])
    <3>1. CASE p = w.place
      BY <1>14, <3>1 DEF Here
    <3>2. CASE Alike
      BY <1>14, <2>2, <3>2 DEF WalkInv, WalkTyped, Here
    <3>3. CASE p # w.place /\ ~Alike
      <4>1. w.place = Places(connector) /\ Places(connector) \in Nat
        BY <1>14, <3>3, PlacesAre DEF WalkInv
      <4>2. p < w.place
        <5> HIDE DEF w
        <5> QED
          BY <2>2, <3>3, <4>1
      <4> QED
        BY <1>7, <1>13, <2>2, <3>3, <4>2 DEF OnTheWay
    <3> QED
      BY <3>1, <3>2, <3>3
  <2> QED
    BY <1>8, <2>1, <2>3 DEF PlaceRead
<1>15. /\ w.steady \subseteq InWalked(listing) /\ w.at # "rendering"
       /\ connector.probe \/ w.at = "again" => k = 1 /\ connector.probe
       /\ ~Alike => \A p \in Walked : p < w.place => PlaceRead(w, listing[p])
  BY <1>7 DEF OnTheWay
<1>16. /\ connector.index => Places(connector) >= 2 /\ ~Alike /\ ~connector.probe
       /\ connector.probe => Alike /\ connector.pages = 1
       /\ Walked \subseteq Addresses /\ w.place \in Walked \cup {1}
  BY PlacesAre DEF WalkInv, AtIndex
<1> HIDE DEF read, content, k, n
<1>17. CASE w.at = "again"
  <2> DEFINE t == [read EXCEPT !.at = "fetched"]
  <2>1. Turned(w, content) = t
    BY <1>17 DEF Turned, read
  <2>2. t.at = "fetched" /\ t.answered = TRUE /\ t.got = read.got /\ t.steady = read.steady
    BY <1>8 DEF Walks
  <2>3. AllRead(read, listing)
    BY <1>11, <1>14, <1>15, <1>16, <1>17 DEF AtIndex
  <2> HIDE DEF t
  <2> QED
    BY <2>1, <2>2, <2>3 DEF ReadSoFar, AllRead
<1>18. CASE w.at = "asking" /\ connector.probe
  <2> DEFINE t == [w EXCEPT !.at = "again"]
  <2>1. Turned(w, content) = t
    BY <1>18 DEF Turned
  <2>2. /\ t.at = "again" /\ t.place = w.place /\ t.page = w.page /\ t.got = w.got
        /\ t.steady = w.steady /\ t.total = w.total
    BY <1>1 DEF Walks
  <2>3. w.page = 1 /\ Alike
    BY <1>15, <1>16, <1>18 DEF k
  <2> HIDE DEF t
  <2> QED
    BY <1>7, <1>18, <2>1, <2>2, <2>3 DEF ReadSoFar, OnTheWay, FrontRead, AtIndex
<1>19. CASE w.at = "asking" /\ ~connector.probe /\ Over(read, content)
  <2>1. Turned(w, content) = NextPlace(read)
    BY <1>19 DEF Turned, read
  <2>2. ASSUME ~AtIndex(w), w.place = Places(connector) \/ Alike, NEW v,
               v.at = "fetched", v.answered = TRUE, v.got = read.got, v.steady = read.steady
        PROVE  ReadSoFar(v, listing)
    <3>1. AllRead(read, listing)
      BY <1>12, <1>14, <1>19, <2>2
    <3> QED
      BY <2>2, <3>1 DEF ReadSoFar, AllRead
  <2>3. CASE read.place = Places(connector)
    <3> DEFINE v == [read EXCEPT !.at = "fetched"]
    <3>1. ~AtIndex(w)
      BY <1>8, <1>16, <2>3 DEF AtIndex
    <3>2. NextPlace(read) = v
      BY <1>8, <2>3 DEF NextPlace, Returned
    <3>3. v.at = "fetched" /\ v.answered = TRUE /\ v.got = read.got /\ v.steady = read.steady
      BY <1>8 DEF Walks
    <3> HIDE DEF v
    <3> QED
      BY <1>8, <2>1, <2>2, <2>3, <3>1, <3>2, <3>3
  <2>4. CASE read.place # Places(connector) /\ Enough(read)
    <3> DEFINE u == [read EXCEPT !.sound = @ /\ Alike]
               v == [u EXCEPT !.at = "fetched"]
    <3>1. /\ u.answered = TRUE /\ u.got = read.got /\ u.steady = read.steady
          /\ v.at = "fetched" /\ v.answered = TRUE /\ v.got = read.got /\ v.steady = read.steady
          /\ v.sound => Alike
      BY <1>8 DEF Walks
    <3>2. NextPlace(read) = v
      <4>1. NextPlace(read) = Returned(u)
        BY <2>4 DEF NextPlace
      <4> HIDE DEF u
      <4> QED
        BY <3>1, <4>1 DEF Returned
    <3> HIDE DEF u, v
    <3>3. CASE v.sound
      <4>1. Alike /\ ~AtIndex(w)
        BY <1>16, <3>1, <3>3 DEF AtIndex
      <4> QED
        BY <2>1, <2>2, <3>1, <3>2, <4>1
    <3>4. CASE ~v.sound
      BY <2>1, <3>2, <3>4 DEF ReadSoFar
    <3> QED
      BY <3>3, <3>4
  <2>5. CASE read.place # Places(connector) /\ ~Enough(read)
    <3> DEFINE t == [read EXCEPT !.at = "asking", !.place = @ + 1, !.page = 1, !.try = 1]
    <3>1. Turned(w, content) = t
      BY <2>1, <2>5 DEF NextPlace
    <3>2. /\ t.at = "asking" /\ t.page = 1 /\ t.steady = read.steady /\ t.got = read.got
          /\ t.place = read.place + 1
      BY <1>8 DEF Walks
    <3> HIDE DEF t
    <3>3. t.place \in 1 .. Places(connector)
      BY <1>8, <2>5, <3>2, PlacesAre DEF WalkInv, WalkTyped, Walks
    <3>4. FrontRead(t.page - 1, t, listing[t.place])
      <4>1. listing[t.place] \in Seq(Calls)
        BY <3>3, PlacesAre DEF WalkInv, WalkTyped
      <4> QED
        BY <3>2, <4>1, NoPageRead
    <3>5. ASSUME ~Alike, NEW p \in Walked, p < t.place PROVE PlaceRead(t, listing[p])
      <4>1. CASE p < w.place
        <5>1. PlaceRead(read, listing[p])
          BY <1>13, <1>15, <1>16, <3>5, <4>1
        <5> QED
          BY <3>2, <5>1 DEF PlaceRead
      <4>2. CASE ~(p < w.place)
        <5>1. p = w.place
          BY <1>1, <1>8, <3>2, <3>5, <4>2, PlacesAre DEF WalkInv, Addresses
        <5>2. ~AtIndex(w)
          BY <3>5, <5>1 DEF Walked, AtIndex
        <5>3. PlaceRead(read, Here)
          BY <1>12, <1>19, <5>2
        <5> QED
          BY <3>2, <5>1, <5>3 DEF PlaceRead, Here
      <4> QED
        BY <4>1, <4>2
    <3> QED
      BY <1>8, <1>15, <1>19, <3>1, <3>2, <3>4, <3>5 DEF ReadSoFar, OnTheWay
  <2> QED
    BY <2>3, <2>4, <2>5
<1>20. CASE w.at = "asking" /\ ~connector.probe /\ ~Over(read, content)
  <2> DEFINE t == [read EXCEPT !.at = "asking", !.page = @ + 1, !.try = 1]
  <2>1. Turned(w, content) = t
    BY <1>20 DEF Turned, read
  <2>2. /\ t.at = "asking" /\ t.page = k + 1 /\ t.steady = read.steady /\ t.got = read.got
        /\ t.place = read.place /\ t.total = read.total
    BY <1>8 DEF Walks
  <2>3. t.page - 1 = k
    BY <1>1, <2>2
  <2>4. "total" \in connector.ends => t.total = (Len(Here) + PerPage - 1) \div PerPage
    <3>1. k > 1 /\ "total" \in connector.ends => w.total = (n + PerPage - 1) \div PerPage
      BY <1>7 DEF OnTheWay, k, n, Here
    <3> QED
      BY <1>1, <1>8, <2>2, <3>1 DEF n
  <2> HIDE DEF t
  <2>5. /\ t.place = w.place /\ listing[t.place] = Here
        /\ AtIndex(t) = AtIndex(w)
    BY <1>8, <2>2 DEF Here, AtIndex
  <2>6. ~AtIndex(t) => FrontRead(t.page - 1, t, listing[t.place])
    BY <1>10, <2>2, <2>3, <2>5 DEF FrontRead
  <2>7. ~Alike => \A p \in Walked : p < t.place => PlaceRead(t, listing[p])
    <3>1. ~Alike => \A p \in Walked : p < t.place => PlaceRead(read, listing[p])
      BY <1>13, <1>15, <1>16, <2>5
    <3> QED
      BY <2>2, <3>1 DEF PlaceRead
  <2> QED
    BY <1>8, <1>15, <1>20, <2>1, <2>2, <2>4, <2>5, <2>6, <2>7 DEF ReadSoFar, OnTheWay
<1> QED
  BY <1>3, <1>15, <1>17, <1>18, <1>19, <1>20

\* An answer of which something is left out disturbs the walk.
LEMMA AnswerKeeps == ASSUME WalkInv, PageAnswered PROVE WalkInv'
<1> DEFINE page == PageOf(walk.page)
           cut == Few(page) # page
           w == [walk EXCEPT !.sound = @ /\ ~cut]
<1>1. /\ Asking /\ UNCHANGED <<connector, listing, memory>> /\ walk' = Turned(w, Few(page))
  BY DEF PageAnswered
<1>2. walk \in Walks(connector) /\ walk.page \in Nat \ {0}
  BY DEF WalkInv, WalkTyped, Walks
<1>3. page \in Seq(Calls)
  BY <1>2, PageIs DEF WalkInv
<1> HIDE DEF page
<1>4. Few(page) \in Seq(Elements)
  <2>1. Few(page) \in Seq(Calls)
    BY <1>3, FrontIs, ScaledIsNat DEF Few
  <2> QED
    BY <2>1, SeqMonotonic DEF Elements
<1> HIDE DEF cut
<1>5. w \in Walks(connector) /\ w.sound = (walk.sound /\ ~cut)
  <2>1. (walk.sound /\ ~cut) \in BOOLEAN
    BY <1>2 DEF Walks
  <2> QED
    BY <1>2, <2>1 DEF Walks
<1>6. CASE walk.sound /\ ~cut
  <2>1. walk.sound = (walk.sound /\ ~cut)
    BY <1>2, <1>6 DEF Walks
  <2>2. w = [walk EXCEPT !.sound = walk.sound]
    BY <2>1
  <2>3. w = walk
    BY <1>2, <2>2 DEF Walks
  <2>4. Few(page) = PageOf(walk.page)
    BY <1>6 DEF cut, page
  <2> HIDE DEF w
  <2> QED
    BY <1>1, <1>6, <2>3, <2>4, SoundAnswer
<1>7. CASE ~(walk.sound /\ ~cut)
  <2> HIDE DEF w
  <2>1. Turned(w, Few(page)) \in Walks(connector) /\ ~Turned(w, Few(page)).sound
    BY <1>4, <1>5, <1>7, TurnedTyped DEF WalkInv
  <2> QED
    BY <1>1, <2>1, UnsoundKeeps
<1> QED
  BY <1>6, <1>7

\* A request that ends otherwise disturbs it.
LEMMA EndsKeep == ASSUME WalkInv, NEW how, Ends(how) PROVE WalkInv'
<1> DEFINE w == [walk EXCEPT !.sound = FALSE]
<1>1. WalkTyped /\ w \in Walks(connector) /\ ~w.sound /\ walk \in Walks(connector)
  BY DEF WalkInv, WalkTyped, Walks
<1>2. /\ GaveUp(w) \in Walks(connector) /\ ~GaveUp(w).sound
      /\ Returned(w) \in Walks(connector) /\ ~Returned(w).sound
  BY <1>1, GoesOn
<1>3. [w EXCEPT !.try = @ + 1] \in Walks(connector) /\ ~[w EXCEPT !.try = @ + 1].sound
  <2> HIDE DEF w
  <2>1. w.try + 1 \in Nat
    BY <1>1 DEF Walks
  <2> QED
    BY <1>1, <2>1 DEF Walks
<1>4. [w EXCEPT !.at = "rendering"] \in Walks(connector) /\ ~[w EXCEPT !.at = "rendering"].sound
  BY <1>1 DEF Walks
<1>5. walk' \in Walks(connector) /\ ~walk'.sound
  <2>1. \/ walk' = GaveUp(w) \/ walk' = Returned(w)
        \/ walk' = [w EXCEPT !.try = @ + 1] \/ walk' = [w EXCEPT !.at = "rendering"]
    BY DEF Ends
  <2> HIDE DEF w
  <2> QED
    BY <1>2, <1>3, <1>4, <2>1
<1> QED
  BY <1>5, UnsoundKeeps DEF Ends

\* So does a body of another kind, whatever it is taken for.
LEMMA OddKeeps == ASSUME WalkInv, Odd PROVE WalkInv'
<1> DEFINE w == [walk EXCEPT !.sound = FALSE]
           taken == IF walk.at = "asking" THEN connector.odd ELSE {"blank"}
<1>1. WalkTyped /\ w \in Walks(connector) /\ ~w.sound /\ walk \in Walks(connector)
  BY DEF WalkInv, WalkTyped, Walks
<1>2. CASE taken = {}
  BY <1>2, EndsKeep DEF Odd
<1>3. CASE taken # {}
  <2>1. UNCHANGED <<connector, listing, memory>>
    BY <1>3 DEF Odd
  <2>2. NextPlace(w) \in Walks(connector) /\ ~NextPlace(w).sound
    BY <1>1, GoesOn
  <2>3. Turned(w, <<>>) \in Walks(connector) /\ ~Turned(w, <<>>).sound
    BY <1>1, TurnedTyped, EmptySeq
  <2>4. /\ [w EXCEPT !.at = "fetched", !.answered = TRUE] \in Walks(connector)
        /\ ~[w EXCEPT !.at = "fetched", !.answered = TRUE].sound
    BY <1>1 DEF Walks
  <2>5. [w EXCEPT !.at = "raised"] \in Walks(connector) /\ ~[w EXCEPT !.at = "raised"].sound
    BY <1>1 DEF Walks
  <2>6. /\ [w EXCEPT !.at = "rendering", !.answered = TRUE] \in Walks(connector)
        /\ ~[w EXCEPT !.at = "rendering", !.answered = TRUE].sound
    BY <1>1 DEF Walks
  <2>7. \/ walk' = NextPlace(w) \/ walk' = Turned(w, <<>>)
        \/ walk' = [w EXCEPT !.at = "fetched", !.answered = TRUE]
        \/ walk' = [w EXCEPT !.at = "raised"]
        \/ walk' = [w EXCEPT !.at = "rendering", !.answered = TRUE]
    BY <1>3 DEF Odd
  <2> HIDE DEF w
  <2>8. walk' \in Walks(connector) /\ ~walk'.sound
    BY <2>2, <2>3, <2>4, <2>5, <2>6, <2>7
  <2> QED
    BY <2>1, <2>8, UnsoundKeeps
<1> QED
  BY <1>2, <1>3

\* What is listed is what was got, once each, when no cap is reached.
LEMMA ParseKeeps == ASSUME WalkInv, ParseListing PROVE WalkInv'
<1> DEFINE keyed == IF connector.unique THEN Firsts(walk.got) ELSE walk.got
           short == Capped(keyed)
           m == Len(keyed)
           t(page) == [walk EXCEPT !.at = "listed", !.got = short \o page,
                                   !.sound = @ /\ m = Len(short)]
<1>1. PICK page \in {<<>>, <<PageItself>>} : walk' = t(page)
  BY DEF ParseListing
<1>2. walk.at = "fetched" /\ UNCHANGED <<connector, listing, memory>>
  BY DEF ParseListing
<1>3. walk \in Walks(connector) /\ walk.got \in Seq(Elements)
  BY DEF WalkInv, WalkTyped, Walks
<1>4. page \in Seq(Elements)
  <2>1. PageItself \in Elements
    BY DEF Elements
  <2>2. <<PageItself>> \in Seq(Elements) /\ <<>> \in Seq(Elements)
    BY <2>1, EmptySeq
  <2> QED
    BY <2>2
<1>5. keyed \in Seq(Elements) /\ ToSet(keyed) = ToSet(walk.got)
  BY <1>3, FirstsIs
<1> HIDE DEF keyed
<1>6. m \in Nat /\ connector.cap \in Nat /\ CapUnit \in Nat \ {0}
  BY <1>5, LenProperties, ListingAssumption DEF WalkInv, WalkTyped
<1>7. Scaled(connector.cap) \in Nat
  BY <1>6, ScaledIsNat
<1>8. short \in Seq(Elements) /\ (m = Len(short) => short = keyed)
  BY <1>5, <1>7, FrontIs DEF Capped
<1> HIDE DEF short, m
<1>9. short \o page \in Seq(Elements) /\ ToSet(short \o page) = ToSet(short) \cup ToSet(page)
  BY <1>4, <1>8, ConcatProperties, GotMore
<1>10. /\ t(page) \in Walks(connector) /\ t(page).at = "listed" /\ t(page).got = short \o page
       /\ t(page).sound = (walk.sound /\ m = Len(short)) /\ t(page).steady = walk.steady
  BY <1>3, <1>9 DEF Walks
<1> HIDE DEF t
<1>11. ASSUME walk'.sound PROVE AllRead(walk', listing)
  <2>1. walk.sound /\ short = keyed
    BY <1>1, <1>8, <1>10, <1>11
  <2>2. AllRead(walk, listing)
    BY <1>2, <2>1 DEF WalkInv, ReadSoFar
  <2>3. ToSet(walk.got) \subseteq ToSet(walk'.got)
    BY <1>1, <1>5, <1>9, <1>10, <2>1
  <2> QED
    BY <1>1, <1>10, <2>2, <2>3 DEF AllRead
<1> QED
  <2>1. WalkTyped'
    BY <1>1, <1>2, <1>10 DEF WalkInv, WalkTyped, Alike
  <2> QED
    BY <1>1, <1>2, <1>10, <1>11, <2>1, KnownAfter DEF ReadSoFar

\* What is known of a listing is known when a call that is not steady comes in
\* front of it.
LEMMA PushedRead ==
  ASSUME WalkTyped, NEW w, NEW c \in Calls, c \notin w.steady, NEW list \in Seq(Calls)
  PROVE  /\ <<c>> \o list \in Seq(Calls) /\ ToSet(list) \subseteq ToSet(<<c>> \o list)
         /\ \A k \in Nat : FrontRead(k, w, list) => FrontRead(k, w, <<c>> \o list)
         /\ PlaceRead(w, list) => PlaceRead(w, <<c>> \o list)
<1> DEFINE more == <<c>> \o list
           n == Len(list)
<1>1. n \in Nat /\ <<c>> \in Seq(Calls) /\ DOMAIN list = 1 .. n
  BY LenProperties
<1>2. /\ more \in Seq(Calls) /\ Len(more) = 1 + n
      /\ \A i \in 1 .. 1 + n : more[i] = IF i <= 1 THEN <<c>>[i] ELSE list[i - 1]
  <2>1. Len(<<c>>) = 1
    OBVIOUS
  <2> HIDE DEF n
  <2>2. n = Len(list)
    BY DEF n
  <2> QED
    BY <1>1, <2>1, <2>2, ConcatProperties
<1> HIDE DEF n, more
<1>3. more[1] = c /\ \A i \in 2 .. 1 + n : more[i] = list[i - 1]
  <2>1. 1 \in 1 .. 1 + n /\ <<c>>[1] = c
    BY <1>1
  <2>2. \A i \in 2 .. 1 + n : i \in 1 .. 1 + n /\ ~(i <= 1)
    BY <1>1
  <2> QED
    BY <1>2, <2>1, <2>2
<1>4. DOMAIN more = 1 .. 1 + n
  BY <1>2, LenProperties
<1>5. ToSet(list) \subseteq ToSet(more)
  <2> SUFFICES ASSUME NEW i \in 1 .. n PROVE list[i] \in ToSet(more)
    BY <1>1 DEF ToSet
  <2> DEFINE j == i + 1
  <2>1. j \in 2 .. 1 + n /\ j - 1 = i /\ j \in DOMAIN more
    BY <1>1, <1>4
  <2> HIDE DEF j
  <2>2. more[j] = list[i]
    BY <1>3, <2>1
  <2> QED
    BY <2>1, <2>2 DEF ToSet
<1>6. ASSUME NEW i \in 1 .. 1 + n, more[i] \in w.steady
      PROVE  i \in 2 .. 1 + n /\ i - 1 \in 1 .. n /\ more[i] = list[i - 1]
  <2>1. i # 1
    BY <1>3, <1>6
  <2>2. i \in 2 .. 1 + n /\ i - 1 \in 1 .. n
    BY <1>1, <2>1
  <2> QED
    BY <1>3, <2>2
<1>7. ASSUME NEW k \in Nat, FrontRead(k, w, list) PROVE FrontRead(k, w, more)
  <2> SUFFICES ASSUME NEW i \in 1 .. 1 + n, i <= k * PerPage, more[i] \in w.steady \ memory
               PROVE  more[i] \in ToSet(w.got)
    BY <1>2 DEF FrontRead
  <2>1. i - 1 \in 1 .. n /\ more[i] = list[i - 1]
    BY <1>6
  <2>2. k * PerPage \in Nat
    BY ListingAssumption
  <2>3. i - 1 <= k * PerPage
    BY <2>1, <2>2
  <2> QED
    BY <1>7, <2>1, <2>3 DEF FrontRead, n
<1>8. ASSUME PlaceRead(w, list) PROVE PlaceRead(w, more)
  <2> SUFFICES ASSUME Fits(more), NEW x \in ToSet(more), x \in w.steady \ memory
               PROVE  x \in ToSet(w.got)
    BY DEF PlaceRead
  <2>1. connector.pages * PerPage \in Nat
    BY ListingAssumption DEF WalkTyped
  <2>2. Fits(list)
    <3>1. Len(more) <= connector.pages * PerPage /\ n = Len(list)
      BY DEF Fits, n
    <3> QED
      BY <1>1, <1>2, <2>1, <3>1 DEF Fits
  <2>3. PICK i \in 1 .. 1 + n : x = more[i]
    BY <1>4 DEF ToSet
  <2>4. i - 1 \in 1 .. n /\ x = list[i - 1]
    BY <1>6, <2>3
  <2>5. x \in ToSet(list)
    BY <1>1, <2>4 DEF ToSet
  <2> QED
    BY <1>8, <2>2, <2>5 DEF PlaceRead
<1> QED
  BY <1>2, <1>5, <1>7, <1>8 DEF more

\* A new call is none of the steady ones, and they follow it.
LEMMA PublishKeeps == ASSUME WalkInv, PublishCall PROVE WalkInv'
<1> DEFINE sound == "total" \notin connector.ends
           w == [walk EXCEPT !.changes = @ + 1, !.steady = walk.steady, !.sound = @ /\ sound]
<1>1. PICK c \in Calls \ OnSite :
        listing' = [p \in Addresses |-> IF ListedAt(c, p) THEN <<c>> \o listing[p] ELSE listing[p]]
  BY DEF PublishCall
<1>2. walk.at \in {"asking", "again", "rendering"} /\ UNCHANGED <<connector, memory>>
  BY DEF PublishCall, Asking
<1>3. walk' = w
  BY <1>2 DEF PublishCall, SiteChanged
<1>4. /\ w \in Walks(connector) /\ w.at = walk.at /\ w.place = walk.place /\ w.page = walk.page
      /\ w.got = walk.got /\ w.steady = walk.steady /\ w.total = walk.total
      /\ w.sound = (walk.sound /\ sound)
  <2>1. walk \in Walks(connector) /\ walk.changes + 1 \in Nat /\ (walk.sound /\ sound) \in BOOLEAN
    BY DEF WalkInv, WalkTyped, Walks
  <2> HIDE DEF sound
  <2> QED
    BY <2>1 DEF Walks
<1> HIDE DEF w
<1>5. /\ listing \in [Addresses -> Seq(Calls)]
      /\ Walked \subseteq Addresses /\ walk.place \in Addresses
      /\ walk \in Walks(connector)
  BY PlacesAre DEF WalkInv, WalkTyped
<1>6. \A p \in Addresses : listing'[p] \in Seq(Calls)
  <2> SUFFICES ASSUME NEW p \in Addresses PROVE listing'[p] \in Seq(Calls)
    OBVIOUS
  <2>1. listing[p] \in Seq(Calls) /\ <<c>> \in Seq(Calls)
    BY <1>5
  <2>2. <<c>> \o listing[p] \in Seq(Calls)
    BY <2>1, ConcatProperties
  <2> QED
    BY <1>1, <2>1, <2>2
<1>7. WalkTyped'
  <2>1. listing' \in [Addresses -> Seq(Calls)]
    <3>1. DOMAIN listing' = Addresses /\ listing' = [p \in DOMAIN listing' |-> listing'[p]]
      BY <1>1
    <3> QED
      BY <1>6, <3>1
  <2>2. Alike => \A p, q \in Addresses : listing'[p] = listing'[q]
    BY <1>1 DEF ListedAt, WalkInv, WalkTyped
  <2>3. Alike' = Alike
    BY <1>2 DEF Alike
  <2> QED
    BY <1>2, <1>3, <1>4, <2>1, <2>2, <2>3 DEF WalkInv, WalkTyped
<1> SUFFICES ASSUME w.sound PROVE OnTheWay(w, listing')
  BY <1>2, <1>3, <1>4, <1>7, KnownAfter DEF ReadSoFar
<1>8. OnTheWay(walk, listing) /\ "total" \notin connector.ends
  BY <1>2, <1>4 DEF WalkInv, ReadSoFar
<1>9. c \notin walk.steady
  BY <1>1, <1>5, <1>8 DEF OnTheWay, InWalked, OnSite
<1>10. ASSUME NEW p \in Addresses
       PROVE  /\ ToSet(listing[p]) \subseteq ToSet(listing'[p])
              /\ \A k \in Nat : FrontRead(k, walk, listing[p]) => FrontRead(k, walk, listing'[p])
              /\ PlaceRead(walk, listing[p]) => PlaceRead(walk, listing'[p])
  <2>1. listing[p] \in Seq(Calls) /\ c \in Calls
    BY <1>1, <1>5
  <2>2. /\ ToSet(listing[p]) \subseteq ToSet(<<c>> \o listing[p])
        /\ \A k \in Nat : FrontRead(k, walk, listing[p]) => FrontRead(k, walk, <<c>> \o listing[p])
        /\ PlaceRead(walk, listing[p]) => PlaceRead(walk, <<c>> \o listing[p])
    BY <1>9, <2>1, PushedRead DEF WalkInv
  <2>3. listing'[p] = <<c>> \o listing[p] \/ listing'[p] = listing[p]
    BY <1>1
  <2> QED
    BY <2>2, <2>3
<1>11. w.steady \subseteq InWalked(listing')
  BY <1>4, <1>5, <1>8, <1>10 DEF OnTheWay, InWalked
<1>12. ~AtIndex(w) => FrontRead(w.page - 1, w, listing'[w.place])
  <2>1. walk.page - 1 \in Nat
    BY <1>5 DEF Walks
  <2>2. ~AtIndex(w) => FrontRead(walk.page - 1, walk, listing'[walk.place])
    BY <1>4, <1>5, <1>8, <1>10, <2>1 DEF OnTheWay, AtIndex
  <2> QED
    BY <1>4, <2>2 DEF FrontRead
<1>13. ~Alike => \A p \in Walked : p < w.place => PlaceRead(w, listing'[p])
  <2>1. ~Alike => \A p \in Walked : p < w.place => PlaceRead(walk, listing'[p])
    BY <1>4, <1>5, <1>8, <1>10 DEF OnTheWay
  <2> QED
    BY <1>4, <2>1 DEF PlaceRead
<1> QED
  BY <1>4, <1>8, <1>11, <1>12, <1>13 DEF OnTheWay

\* A call that goes disturbs a walk, if there is one.
LEMMA WithdrawKeeps == ASSUME WalkInv, WithdrawCall PROVE WalkInv'
<1> DEFINE Left(c, p) == {i \in DOMAIN listing[p] : listing[p][i] # c}
<1>1. PICK c \in OnSite :
        /\ listing' = [p \in Addresses |-> Pick(listing[p], Left(c, p))]
        /\ walk' = SiteChanged(walk.steady \ {c}, FALSE)
  BY DEF WithdrawCall
<1>2. UNCHANGED <<connector, memory>>
  BY DEF WithdrawCall
<1>3. listing' \in [Addresses -> Seq(Calls)]
  <2>1. ASSUME NEW p \in Addresses PROVE listing'[p] \in Seq(Calls)
    <3>1. listing[p] \in Seq(Calls)
      BY DEF WalkInv, WalkTyped
    <3>2. Left(c, p) \in SUBSET (1 .. Len(listing[p]))
      BY <3>1, LenProperties
    <3> HIDE DEF Left
    <3>3. Pick(listing[p], Left(c, p)) \in Seq(Calls)
      BY <3>1, <3>2, PickIs
    <3> QED
      BY <1>1, <3>3
  <2>2. DOMAIN listing' = Addresses /\ listing' = [p \in DOMAIN listing' |-> listing'[p]]
    BY <1>1
  <2> QED
    BY <2>1, <2>2
<1>4. Alike' => \A p, q \in Addresses : listing'[p] = listing'[q]
  <2>1. Alike' = Alike
    BY <1>2 DEF Alike
  <2>2. ASSUME Alike, NEW p \in Addresses, NEW q \in Addresses PROVE listing'[p] = listing'[q]
    <3>1. listing[p] = listing[q]
      BY <2>2 DEF WalkInv, WalkTyped
    <3>2. Left(c, p) = Left(c, q)
      BY <3>1
    <3> HIDE DEF Left
    <3> QED
      BY <1>1, <3>1, <3>2
  <2> QED
    BY <2>1, <2>2
<1>5. CASE walk.at = "idle"
  BY <1>1, <1>2, <1>3, <1>4, <1>5 DEF SiteChanged, WalkInv, WalkTyped, ReadSoFar
<1>6. CASE walk.at # "idle"
  <2>1. walk \in Walks(connector) /\ walk.changes + 1 \in Nat /\ walk.steady \ {c} \in SUBSET Calls
    BY DEF WalkInv, WalkTyped, Walks
  <2>2. walk' = [walk EXCEPT !.changes = @ + 1, !.steady = walk.steady \ {c},
                             !.sound = @ /\ FALSE]
    BY <1>1, <1>6 DEF SiteChanged
  <2>3. walk' \in Walks(connector) /\ ~walk'.sound
    BY <2>1, <2>2 DEF Walks
  <2> QED
    BY <1>2, <1>3, <1>4, <2>3 DEF WalkInv, WalkTyped, ReadSoFar
<1> QED
  BY <1>5, <1>6

\* Nothing is known of a walk that is over.
LEMMA EndKeeps == ASSUME WalkInv, EndWalk PROVE WalkInv'
<1>1. walk' = NoWalk /\ UNCHANGED <<connector, listing>>
  BY DEF EndWalk
<1>2. NoWalk \in Walks(connector) /\ NoWalk.at = "idle"
  BY NoWalkTyped DEF WalkInv, WalkTyped, NoWalk
<1> QED
  BY <1>1, <1>2 DEF WalkInv, WalkTyped, ReadSoFar, Alike

\* Every step keeps the invariant.
LEMMA WalkStep == WalkInv /\ [WalkNext]_walkVars => WalkInv'
<1> SUFFICES ASSUME WalkInv, [WalkNext]_walkVars PROVE WalkInv'
  OBVIOUS
<1>1. CASE UNCHANGED walkVars
  <2>1. WalkTyped'
    BY <1>1 DEF walkVars, WalkInv, WalkTyped, Alike
  <2> QED
    BY <1>1, <2>1, KnownAfter DEF walkVars, WalkInv
<1>2. CASE RequestFails
  BY <1>2, EndsKeep DEF RequestFails
<1> QED
  BY <1>1, <1>2, OpenKeeps, AnswerKeeps, OddKeeps, ParseKeeps, EndKeeps, PublishKeeps,
     WithdrawKeeps DEF WalkNext

\* Calls that stay listed while a walk reads are listed by it, however many
\* come in front of them: for any listing, page size and connector that is as
\* ListingAssumption says.
THEOREM SteadyCallsAreListed == WalkSpec => []SteadyCallsListed
<1>1. WalkInit => WalkInv
  BY WalkStarts
<1>2. WalkInv /\ [WalkNext]_walkVars => WalkInv'
  BY WalkStep
<1>3. WalkInv => SteadyCallsListed
  BY DEF WalkInv, ReadSoFar, AllRead, Fits, SteadyCallsListed
<1> QED
  BY <1>1, <1>2, <1>3, PTL DEF WalkSpec
================================================================================
