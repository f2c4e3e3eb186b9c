-------------------------- MODULE MCOpportunityStore --------------------------
(* Two sources that list the same call, one of them scraped twice. *)
EXTENDS OpportunityStore, TLC

CONSTANTS r1, r2, r3, o1, o2, a, b, e1, e2, t1, t2, d1, d2, g1, u1, u2

MCRuns == {r1, r2, r3}
MCLoop == {r1, r2}
MCOrgs == {o1, o2}
MCSourceOf == (r1 :> a) @@ (r2 :> b) @@ (r3 :> b)
MCOrgOf == [r \in MCRuns |-> o1]
Made(k) == [made |-> TRUE, id |-> k]
Given(k) == [made |-> FALSE, id |-> k]
Url(k, i) == [kind |-> k, id |-> i]
Cand(s, x, u, t, c) ==
  [src |-> s, ext |-> x, url |-> u, num |-> NoNum, title |-> t, close |-> c]

\* Source a lists a call of its own and one that source b lists too.
MCPage == (a :> {Cand(a, Given(e1), Url("plain", u1), t1, d1),
                 Cand(a, Made(g1), Url("grants", g1), t2, NoClose)})
       @@ (b :> {Cand(b, Made(g1), Url("grants", g1), t2, d2)})

\* The same with a close date on the shared call of both.
MCPageDates == (a :> {Cand(a, Made(g1), Url("grants", g1), t2, d1)})
            @@ (b :> {Cand(b, Made(g1), Url("grants", g1), t2, d2)})

At(c, org) == Row(c, c.url, org)
Simpler(org) == At(Cand(b, Given(e2), Url("simpler", g1), t2, d1), org)
Grants(s, x, org) == At(Cand(s, x, Url("grants", g1), t2, NoClose), org)

\* Before the runs: nothing; the shared call as a global row; the shared call
\* of another organisation and the own call at its old address; three rows of
\* the shared call, as runs that raced left them.
MCTables ==
  { << >>,
    << Simpler(NoOrg) >>,
    << Grants(b, Made(g1), o2), At(Cand(a, Given(e1), Url("plain", u2), t2, d2), o1) >>,
    << Grants(b, Given(e2), NoOrg), Grants(a, Made(g1), o1), Grants(b, Given(e1), NoOrg) >> }
MCMarking == {<<o2, 3>>}
MCDying == {Url("plain", u1)}
MCWithin == {<<g1, g1>>, <<u1, u1>>, <<u2, u2>>}
=============================================================================
