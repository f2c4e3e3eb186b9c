------------------------------- MODULE LiveProbe -------------------------------
(***************************************************************************)
(* The live probe of a source: one GET of its first address, with the      *)
(* redirects that stay with the same owner, under a budget of requests.    *)
(* The site may answer anything at any step.                               *)
(* A host is the sequence of its labels, the top-level domain first; an    *)
(* address in digits, which is related to itself alone, is not modelled.   *)
(***************************************************************************)
EXTENDS Naturals, Sequences, SequencesExt

CONSTANTS
  Hosts,        \* hosts that addresses and redirects name
  Starts,       \* the start addresses, as a sequence of hosts
  AuthorizedHosts,
  MultiLabelSuffixes,
  OwnerPairs,   \* SAME_OWNER_REGISTRABLE_PAIRS: sets of two registrable domains
  SharedTenants,
  RequestBudget, \* max_requests_per_source: 10, and 1 from the command line
  MaxRedirects,
  OwnerOf,      \* for the property: who runs each host, and the suffixes
  PublicSuffixes \* under which anyone may register a domain

VARIABLE probe
  \* pending, made, hops: as in the code; allowed: the hosts let through so far;
  \* asked: hosts requested, in order; status and wall: of the last answer, wall
  \* for a body or an error with the words of a firewall; step: "loop", "over" or
  \* the outcome

NoBody == FALSE
NoStatus == "none"

-----------------------------------------------------------------------------
(* Owners. *)

Suffix(h) == SubSeq(h, 1, 2) \in MultiLabelSuffixes /\ Len(h) >= 3
Registrable(h) ==
  SubSeq(h, 1, IF Len(h) < 2 THEN Len(h) ELSE IF Suffix(h) THEN 3 ELSE 2)

SharedTenant(h) == \E t \in SharedTenants : IsPrefix(t, h)
Paired(o, t) == {Registrable(o), Registrable(t)} \in OwnerPairs
Related(o, t) == IsPrefix(o, t) \/ IsPrefix(t, o) \/ Registrable(o) = Registrable(t)

\* Mutant: the veto of shared tenants is asked after the relations.
SameOwnerFirst(o, t) == Related(o, t) \/ Paired(o, t)

\* same_owner_reason(o, t) is not None.
SameOwner(o, t) ==
  \/ Paired(o, t)
  \/ ~SharedTenant(o) /\ ~SharedTenant(t) /\ Related(o, t)

Known == Hosts \cup AuthorizedHosts
Zone(h) == SubSeq(h, 1, 2)

\* A domain of one registrant: no public suffix is at it or below it.
OneRegistrant(domain) == ~\E p \in PublicSuffixes : IsPrefix(domain, p)

\* Zones of many registrants that the tables do not tell apart: a suffix that
\* the short list lacks, or one of it that is a host or has suffixes below it.
Mixed(z) ==
  IF z \in MultiLabelSuffixes
    THEN z \in Known \/ \E p \in PublicSuffixes : Len(p) > 2 /\ IsPrefix(z, p)
    ELSE ~OneRegistrant(z)

\* A host has a top-level domain and a name below it, who registers a domain runs
\* the hosts below it that are not shared, and a pair that the table documents is
\* one owner's, not a shared host's, and no bridge out of a mixed zone.
ASSUME OwnersAssumption ==
  /\ \A h \in Known : h \in Seq(STRING) /\ Len(h) >= 2
  /\ PublicSuffixes \subseteq Seq(STRING)
  /\ \A o, t \in Known : ~SharedTenant(o) /\ ~SharedTenant(t) =>
       \A n \in 2 .. Len(o) :
         n <= Len(t) /\ SubSeq(o, 1, n) = SubSeq(t, 1, n) /\ OneRegistrant(SubSeq(o, 1, n))
           => OwnerOf[o] = OwnerOf[t]
  /\ \A o, t \in Known : Paired(o, t) =>
       /\ OwnerOf[o] = OwnerOf[t] /\ ~SharedTenant(t)
       /\ Mixed(Zone(o)) => Zone(t) = Zone(o)

\* classify_http.
Classified(status, wall) ==
  CASE status = "200" /\ ~wall -> "live_ok"
    [] status = "404" -> "live_dead"
    [] status = "403" \/ (wall /\ status # "404") -> "live_blocked"
    [] OTHER -> "live_transient"

-----------------------------------------------------------------------------
(* run_live_probe. *)

ProbeInit ==
  probe = [pending |-> Starts, made |-> 0, hops |-> 0, allowed |-> AuthorizedHosts,
           asked |-> <<>>, status |-> NoStatus, wall |-> NoBody, step |-> "loop"]

Looping == probe.step = "loop" /\ probe.pending # <<>> /\ probe.made < RequestBudget
Upcoming == Head(probe.pending)  \* pending.pop(0)

\* The policy of addresses, the host or its DNS answer refuses the next one.
Refused == Looping /\ probe' = [probe EXCEPT !.step = "blocked_by_policy"]

\* Sixty seconds are over.
OutOfTime == Looping /\ probe' = [probe EXCEPT !.step = "over"]

\* The next host is let through and requested.
Sent(p) ==
  [p EXCEPT !.pending = Tail(@), !.made = @ + 1, !.asked = Append(@, Upcoming)]
MayAsk == Looping /\ Upcoming \in probe.allowed

FinalAnswer(wall, status) ==
  /\ MayAsk
  /\ probe' = [Sent(probe) EXCEPT !.status = status, !.wall = wall, !.step = "over"]

\* A timeout or a network error: the body of an earlier answer stays.
Fails ==
  /\ MayAsk
  /\ probe' = [Sent(probe) EXCEPT !.status = NoStatus, !.step = "over"]

BodyTooLarge == MayAsk /\ probe' = [Sent(probe) EXCEPT !.step = "over_budget"]

\* The address of a redirect breaks the policy, or names a private host.
RedirectRefused ==
  MayAsk /\ probe' = [Sent(probe) EXCEPT !.status = "3xx", !.step = "blocked_by_policy"]

Redirected(to, wall) ==
  /\ MayAsk
  /\ LET sent == [Sent(probe) EXCEPT !.status = "3xx", !.wall = wall] IN
     probe' =
       IF ~(to \in probe.allowed \/ SameOwner(Upcoming, to))
         THEN [sent EXCEPT !.step = "blocked_by_policy"]
       ELSE IF probe.hops + 1 > MaxRedirects
         THEN [sent EXCEPT !.step = "over_budget", !.hops = @ + 1]
       ELSE [sent EXCEPT !.hops = @ + 1, !.allowed = @ \cup {to},
                         !.pending = <<to>> \o @]

\* After the loop.
Concludes ==
  /\ ~Looping /\ probe.step \in {"loop", "over"}
  /\ probe' = [probe EXCEPT !.step =
       IF probe.made >= RequestBudget /\ (probe.pending # <<>> \/ probe.status = "3xx")
         THEN "over_budget"
         ELSE Classified(probe.status, probe.wall)]

ProbeNext ==
  \/ Refused \/ OutOfTime \/ Fails \/ BodyTooLarge \/ RedirectRefused \/ Concludes
  \/ \E wall \in BOOLEAN, status \in {"200", "403", "404", "429", "3xx", "5xx"} :
       FinalAnswer(wall, status)
  \/ \E to \in Hosts, wall \in BOOLEAN : Redirected(to, wall)

ProbeSpec == ProbeInit /\ [][ProbeNext]_probe

-----------------------------------------------------------------------------
(* Properties. *)

\* However a site redirects, every host that the probe sends a request to is run
\* by the owner of an authorised host, or lies in a mixed zone in which such an
\* owner has a host; and a host shared by many owners is asked only when it is
\* authorised itself.  The set of hosts let through grows with every redirect:
\* a chain of them must not lead further away.
RequestsStayOwned ==
  \A i \in DOMAIN probe.asked :
    LET h == probe.asked[i] IN
    /\ \E a \in AuthorizedHosts, b \in Known :
         /\ OwnerOf[b] = OwnerOf[a]
         /\ b = h \/ (Mixed(Zone(h)) /\ Zone(b) = Zone(h))
    /\ SharedTenant(h) => h \in AuthorizedHosts
================================================================================
