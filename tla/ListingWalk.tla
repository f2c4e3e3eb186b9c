------------------------------ MODULE ListingWalk ------------------------------
(***************************************************************************)
(* How the connectors read a listing: fetch walks from address to address  *)
(* and page to page with an await at each request, parse makes candidates  *)
(* of what it got.  They differ in when they go on, what a request that    *)
(* fails or is answered with something else does, and what is returned     *)
(* when nothing was answered; each is a record of those decisions.  Calls  *)
(* come and go at the front of the listing while it is read.               *)
(***************************************************************************)
EXTENDS Naturals, Sequences, SequencesExt, FiniteSets

CONSTANTS
  Calls,        \* what the site may list
  Homes,        \* [Calls -> the addresses of it, by number, that list the call]
  PerPage,         \* calls per page
  CapUnit,      \* a cap of n candidates is one of n \div CapUnit, rounded up, here
  MaxPlaces,    \* bound: addresses past this one are not walked
  MaxChanges,   \* bound: changes of the listing during one walk
  MemoryCap,    \* processed_hashes kept by get_updated_config
  Connectors    \* the records a run picks from, of those below

\* What every connector below is like, and what SteadyCallsListed needs of one.
ASSUME ListingAssumption ==
  /\ IsFiniteSet(Calls) /\ PerPage \in Nat \ {0} /\ CapUnit \in Nat \ {0}
  /\ MaxPlaces \in Nat /\ MaxPlaces >= 2
  /\ \A c \in Connectors :
       /\ c.places \in Nat \ {0} /\ c.pages \in Nat \ {0} /\ c.cap \in Nat
       /\ c.index => c.places >= 2 /\ ~c.probe
       /\ c.probe => c.pages = 1 /\ c.enough # "all"
       /\ c.fresh # {} => c.ends = {}

VARIABLES
  connector,    \* of the source
  listing,      \* of each address of the site, newest first
  memory,       \* processed_hashes in the row of the source
  walk          \* fetch and parse of one run

walkVars == <<connector, listing, memory, walk>>

-----------------------------------------------------------------------------
(* The connectors.                                                           *)
(* places, pages: addresses asked in turn, and pages of each                 *)
(* enough:  "all" of the addresses are asked, each of which has calls of its *)
(*          own, or they are equal and asked until an "answer" or "calls"    *)
(* ends:    what else ends the pages of an address                           *)
(* tries:   requests for a page when they end as one of retry                *)
(* browser: the page is rendered when they did                               *)
(* fails:   then the walk "raise"s, goes on with the next "place", raises at *)
(*          the "last" of them only, "keep"s what it has if it has any, or   *)
(*          "stop"s                                                          *)
(* odd:     what a body of another kind is taken for; {}: for a failure      *)
(* none:    result of a walk that was never answered                         *)
(* index:   the first address lists the others, which then have calls of     *)
(*          their own, and are asked until there are "ten" or all            *)
(* probe:   an address that answers is only picked, and asked again          *)
(* few:     addresses of which ten calls are taken at most                   *)
(* fresh:   addresses of which only those are that memory has not            *)
(* whole:   the page itself is a call when it speaks of calls and shows none *)
(* unique:  candidates are told apart by a key; cap: of the candidates       *)

Single == [places |-> 1, pages |-> 1, enough |-> "all", ends |-> {}, tries |-> 1,
           retry |-> {}, browser |-> FALSE, fails |-> "raise", odd |-> {"blank"},
           none |-> "raise", index |-> FALSE, probe |-> FALSE, whole |-> FALSE,
           unique |-> TRUE, cap |-> 50, few |-> {}, fresh |-> {}]
SingleCapped(n) == [Single EXCEPT !.cap = n]

\* Pages up to a fixed number, categories or not.
Anii == [SingleCapped(200) EXCEPT !.places = 4, !.pages = 3, !.fails = "place", !.none = "blank"]
Minciencias == [SingleCapped(200) EXCEPT !.pages = 5, !.browser = TRUE]

\* Pages while there are more, as the first page, the last or the next link says.
Bdn == [SingleCapped(150) EXCEPT !.pages = 10, !.ends = {"blank", "total"}, !.odd = {"raise"}]
WordPress == [SingleCapped(200) EXCEPT !.pages = 10, !.ends = {"blank", "total"}, !.fails = "place",
                !.odd = {"raise", "stop"}, !.none = "blank"]
Finep == [Single EXCEPT !.pages = 10, !.ends = {"short"}, !.odd = {"stop"}, !.cap = 0,
                        !.unique = FALSE]
Configurable == [Single EXCEPT !.pages = 11, !.ends = {"next"}, !.fails = "keep", !.odd = {"stop"}]

\* One search term after the other.
FtSearch == [SingleCapped(80) EXCEPT !.places = 5, !.fails = "place", !.odd = {"place"},
               !.none = "blank"]
Eic == [SingleCapped(40) EXCEPT !.places = 3, !.odd = {"raise"}]

\* Several origins, of which some may fail.
Apc == [SingleCapped(150) EXCEPT !.places = 7, !.fails = "place", !.none = "again"]
Mincit == [SingleCapped(150) EXCEPT !.places = 3, !.tries = 3,
             !.retry = {"error", "timeout", "odd"}, !.fails = "place", !.odd = {}]
Procolombia == [SingleCapped(100) EXCEPT !.places = 60, !.fails = "place"]
Uniandes == [Single EXCEPT !.places = 21, !.index = TRUE, !.fails = "place"]

\* The first address that answers, or that lists anything.
Nsf == [SingleCapped(40) EXCEPT !.places = 2, !.enough = "answer", !.fails = "place"]
Caricom == [SingleCapped(30) EXCEPT !.places = 2, !.enough = "answer", !.fails = "place",
              !.none = "blank"]
GenericHtml == [Single EXCEPT !.places = 12, !.enough = "answer", !.probe = TRUE,
                              !.fails = "place", !.none = "again"]
Innpulsa == [SingleCapped(200) EXCEPT !.places = 2, !.enough = "answer", !.fails = "place"]
GrantsGov == [Single EXCEPT !.places = 2, !.enough = "calls", !.fails = "last",
                            !.odd = {"stop"}, !.cap = 0, !.unique = FALSE]
UsaidGrants == [GrantsGov EXCEPT !.cap = 50]
GrantsGovRss == [Single EXCEPT !.places = 2, !.enough = "answer", !.odd = {"place"},
                               !.none = "blank", !.unique = FALSE]

\* Findeter by what its address is: a page of links, of which the sitemap makes
\* up for an empty one, a sitemap, or an index of sitemaps, of which three are
\* read, those first that are named for calls.
Findeter == [SingleCapped(100) EXCEPT !.places = 2, !.enough = "calls", !.fails = "stop",
               !.odd = {"place", "stop"}, !.none = "blank", !.few = {1}, !.fresh = {2}]
FindeterSitemap == [Findeter EXCEPT !.enough = "answer", !.few = {}, !.fresh = {1, 2}]
FindeterIndex == [Findeter EXCEPT !.places = 4, !.index = TRUE, !.enough = "ten",
                    !.fails = "place", !.odd = {"blank"}, !.few = 2 .. 4, !.fresh = 2 .. 4]

\* One address, asked again until its answer is a listing.
Wellcome == [Single EXCEPT !.tries = 4, !.retry = {"odd"}, !.odd = {}]
Innovamos == [SingleCapped(40) EXCEPT !.tries = 3, !.retry = {"error", "timeout"},
                !.odd = {"render"}, !.browser = TRUE, !.fails = "stop", !.whole = TRUE]
Unesco == [SingleCapped(25) EXCEPT !.tries = 2, !.retry = {"error"}, !.fails = "stop",
             !.none = "standin", !.whole = TRUE]

\* One address, once.
Rss == [Single EXCEPT !.odd = {"raise"}, !.unique = FALSE]
Api == [Single EXCEPT !.unique = FALSE]
WorldBank == [Single EXCEPT !.cap = 0, !.unique = FALSE]
Fapemig == [Single EXCEPT !.cap = 0, !.unique = FALSE]
Undef == [SingleCapped(30) EXCEPT !.whole = TRUE]
Pdf == [SingleCapped(12) EXCEPT !.whole = TRUE]
GlobalInnovationFund == [SingleCapped(20) EXCEPT !.whole = TRUE]
HeadingList == SingleCapped(40)
Ukri == SingleCapped(40)
Unwomen == SingleCapped(40)
Idrc == SingleCapped(40)
Giz == SingleCapped(20)
Ascun == SingleCapped(30)
CostOpenCalls == SingleCapped(30)
Icetex == SingleCapped(150)
Mineducacion == SingleCapped(150)
EuLife == Single
Biodiversidad == Single
SimplerGrants == Single

-----------------------------------------------------------------------------
(* fetch.                                                                    *)

PageItself == "the page itself"
Lesser(a, b) == IF a < b THEN a ELSE b
Places(c) == Lesser(c.places, MaxPlaces)
Scaled(n) == (n + CapUnit - 1) \div CapUnit

\* The addresses a walk reads, of those of the site, and whether they list the
\* same.
Addresses == 1 .. MaxPlaces
Walked == (IF connector.index THEN 2 ELSE 1) .. Places(connector)
Alike == connector.places = 1 \/ (connector.enough # "all" /\ ~connector.index)
ListedAt(c, p) == Alike \/ p \in Homes[c]
OnSite == UNION {ToSet(listing[p]) : p \in Addresses}

Here == listing[walk.place]
TotalPages == (Len(Here) + PerPage - 1) \div PerPage

\* The elements of s at the indices I, in their order.
Pick(s, I) ==
  [k \in 1 .. Cardinality(I) |-> s[CHOOSE i \in I : Cardinality({j \in I : j <= i}) = k]]

\* The calls of the k-th page of the address.  A sitemap is read past what memory
\* has of it.
PageOf(k) ==
  LET slice == SubSeq(Here, (k - 1) * PerPage + 1, Lesser(k * PerPage, Len(Here)))
  IN  IF connector.index /\ walk.place = 1 THEN <<>>
      ELSE IF walk.place \in connector.fresh
        THEN Pick(slice, {i \in DOMAIN slice : slice[i] \notin memory})
      ELSE slice

\* What is taken of them.
Few(content) == IF walk.place \notin connector.few THEN content
                ELSE SubSeq(content, 1, Lesser(Scaled(10), Len(content)))

NoWalk == [at |-> "idle", place |-> 1, page |-> 1, try |-> 1, total |-> 0, got |-> <<>>,
           answered |-> FALSE, steady |-> {}, sound |-> TRUE, changes |-> 0]

\* A run starts.  steady and sound are history: the calls that stay listed, and
\* whether anything else came between.
OpenListing ==
  /\ walk.at = "idle"
  /\ walk' = [NoWalk EXCEPT !.at = "asking",
                            !.steady = UNION {ToSet(listing[p]) : p \in Walked}]
  /\ UNCHANGED <<connector, listing, memory>>

\* The last address is done.
Returned(w) ==
  IF w.answered \/ connector.none = "blank" THEN [w EXCEPT !.at = "fetched"]
  ELSE IF connector.none = "standin" THEN [w EXCEPT !.at = "fetched", !.got = <<PageItself>>]
  ELSE IF connector.none = "again" THEN [w EXCEPT !.at = "again", !.place = 1, !.page = 1]
  ELSE [w EXCEPT !.at = "raised"]

Enough(w) == CASE connector.enough = "answer" -> w.answered
               [] connector.enough = "calls" -> w.got # <<>>
               [] connector.enough = "ten" -> Len(w.got) >= Scaled(10)
               [] OTHER -> FALSE

NextPlace(w) ==
  IF w.place = Places(connector) THEN Returned(w)
  ELSE IF Enough(w) THEN Returned([w EXCEPT !.sound = @ /\ Alike])
  ELSE [w EXCEPT !.at = "asking", !.place = @ + 1, !.page = 1, !.try = 1]

\* Mutant: a full last page ends the walk.
OverWhenFull(w, content) ==
  \/ w.page = connector.pages
  \/ "short" \in connector.ends /\ Len(content) <= PerPage
  \/ "blank" \in connector.ends /\ content = <<>>
  \/ "total" \in connector.ends /\ w.page >= w.total
  \/ "next" \in connector.ends /\ w.page * PerPage >= Len(Here)

\* The page was the last of its address.
Over(w, content) ==
  \/ w.page = connector.pages
  \/ "short" \in connector.ends /\ Len(content) < PerPage
  \/ "blank" \in connector.ends /\ content = <<>>
  \/ "total" \in connector.ends /\ w.page >= w.total
  \/ "next" \in connector.ends /\ w.page * PerPage >= Len(Here)

Turned(w, content) ==
  LET read == [w EXCEPT !.got = @ \o content, !.answered = TRUE,
                        !.total = IF w.page = 1 THEN TotalPages ELSE @]
  IN  CASE walk.at = "again" -> [read EXCEPT !.at = "fetched"]
        [] connector.probe /\ walk.at = "asking" -> [w EXCEPT !.at = "again"]
        [] OTHER -> IF Over(read, content) THEN NextPlace(read)
                    ELSE [read EXCEPT !.at = "asking", !.page = @ + 1, !.try = 1]

GaveUp(w) ==
  IF \/ w.at = "again" \/ connector.fails = "raise"
     \/ connector.fails = "last" /\ w.place = Places(connector)
    THEN [w EXCEPT !.at = "raised"]
  ELSE CASE connector.fails = "keep" ->
              [w EXCEPT !.at = IF w.answered THEN "fetched" ELSE "raised"]
         [] connector.fails = "stop" \/ (connector.index /\ w.place = 1) -> Returned(w)
         [] OTHER -> NextPlace(w)

Asking == walk.at \in {"asking", "again", "rendering"}

\* A request is answered with the page it asked for.
PageAnswered ==
  LET content == PageOf(walk.page)
      cut == Few(content) # content
  IN
  /\ Asking /\ walk' = Turned([walk EXCEPT !.sound = @ /\ ~cut], Few(content))
  /\ UNCHANGED <<connector, listing, memory>>

\* A request, or the retries of the client below it, ends as how says.  A probe
\* that timed out leaves no time for the other addresses.
Ends(how) ==
  LET w == [walk EXCEPT !.sound = FALSE]
  IN  /\ Asking
      /\ walk' = IF walk.at # "asking" THEN GaveUp(w)
                 ELSE IF how \in connector.retry /\ walk.try < connector.tries
                   THEN [w EXCEPT !.try = @ + 1]
                 ELSE IF connector.browser THEN [w EXCEPT !.at = "rendering"]
                 ELSE IF connector.probe /\ how = "timeout" THEN Returned(w)
                 ELSE GaveUp(w)
      /\ UNCHANGED <<connector, listing, memory>>

RequestFails == \E how \in {"error", "timeout"} : Ends(how)

\* Status 200, and something else than a listing.
Odd ==
  LET w == [walk EXCEPT !.sound = FALSE]
      taken == IF walk.at = "asking" THEN connector.odd ELSE {"blank"}
  IN  /\ Asking
      /\ IF taken = {} THEN Ends("odd")
         ELSE /\ \E t \in taken :
                   walk' = IF connector.index /\ w.place = 1 /\ t # "raise"
                             THEN [w EXCEPT !.at = "fetched", !.answered = TRUE]
                           ELSE CASE t = "raise" -> [w EXCEPT !.at = "raised"]
                             [] t = "stop" -> [w EXCEPT !.at = "fetched", !.answered = TRUE]
                             [] t = "place" -> NextPlace(w)
                             [] t = "render" -> [w EXCEPT !.at = "rendering", !.answered = TRUE]
                             [] OTHER -> Turned(w, <<>>)
              /\ UNCHANGED <<connector, listing, memory>>

-----------------------------------------------------------------------------
(* parse, and the end of the run.                                            *)

Firsts(s) == Pick(s, {i \in DOMAIN s : \A j \in DOMAIN s : s[j] = s[i] => i <= j})
Capped(s) ==
  IF connector.cap = 0 THEN s ELSE SubSeq(s, 1, Lesser(Scaled(connector.cap), Len(s)))

ParseListing ==
  /\ walk.at = "fetched"
  /\ LET keyed == IF connector.unique THEN Firsts(walk.got) ELSE walk.got
     IN  \E page \in {<<>>, <<PageItself>>} :
           /\ page # <<>> => connector.whole /\ keyed = <<>> /\ walk.answered
           /\ walk' = [walk EXCEPT !.at = "listed", !.got = Capped(keyed) \o page,
                                   !.sound = @ /\ Len(keyed) = Len(Capped(keyed))]
  /\ UNCHANGED <<connector, listing, memory>>

\* get_updated_config keeps what was processed, an arbitrary part of it when
\* that is too much.
Remembered(seen) == IF Cardinality(seen) <= MemoryCap THEN {seen}
              ELSE {s \in SUBSET seen : Cardinality(s) = MemoryCap}

\* The run commits, and the memory with it, or nothing is kept.
EndWalk ==
  /\ walk.at \in {"listed", "raised"} /\ walk' = NoWalk
  /\ memory' \in {memory} \cup
       (IF walk.at = "listed" /\ walk.place \in connector.fresh
        THEN Remembered(memory \cup ToSet(walk.got)) ELSE {})
  /\ UNCHANGED <<connector, listing>>

(* The site. *)

SiteChanged(steady, sound) ==
  IF walk.at = "idle" THEN walk
  ELSE [walk EXCEPT !.changes = @ + 1, !.steady = steady, !.sound = @ /\ sound]

\* A new call at the front pushes the others back, over the end of a page.
PublishCall ==
  /\ Asking /\ walk.changes < MaxChanges
  /\ \E c \in Calls \ OnSite :
       listing' = [p \in Addresses |-> IF ListedAt(c, p) THEN <<c>> \o listing[p] ELSE listing[p]]
  /\ walk' = SiteChanged(walk.steady, "total" \notin connector.ends)
  /\ UNCHANGED <<connector, memory>>

\* A call that goes draws the others forward, past a reader between two pages.
WithdrawCall ==
  /\ walk.at = "idle" \/ (Asking /\ walk.changes < MaxChanges)
  /\ \E c \in OnSite :
       /\ listing' = [p \in Addresses |->
            Pick(listing[p], {i \in DOMAIN listing[p] : listing[p][i] # c})]
       /\ walk' = SiteChanged(walk.steady \ {c}, FALSE)
  /\ UNCHANGED <<connector, memory>>

WalkInit ==
  /\ connector \in Connectors
  /\ listing = [p \in Addresses |-> SetToSeq({c \in Calls : ListedAt(c, p)})]
  /\ memory = {} /\ walk = NoWalk

\* No site is read.
NoListing ==
  /\ connector = Single /\ listing = [p \in Addresses |-> <<>>] /\ memory = {} /\ walk = NoWalk

WalkNext == \/ OpenListing \/ PageAnswered \/ RequestFails \/ Odd \/ ParseListing \/ EndWalk
            \/ PublishCall \/ WithdrawCall

WalkSpec == WalkInit /\ [][WalkNext]_walkVars

-----------------------------------------------------------------------------
(* Properties. *)

\* Calls that stay listed while the listing is read, at any address that is
\* walked, are found, although new ones push them from page to page meanwhile:
\* unless a request failed, a cap was reached, a call was withdrawn, or the number
\* of pages was taken from the first of them and has grown.
SteadyCallsListed ==
  /\ walk.at = "listed" /\ walk.sound
  /\ \A p \in Walked : Len(listing[p]) <= connector.pages * PerPage
  => walk.steady \ memory \subseteq ToSet(walk.got)

\* "If that fails, return empty page for YELLOW": what was never answered lists
\* nothing.
NothingInvented == walk.at = "listed" /\ ~walk.answered => walk.got = <<>>
=============================================================================
