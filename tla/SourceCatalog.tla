----------------------------- MODULE SourceCatalog -----------------------------
(***************************************************************************)
(* Who owns the rows of the catalog of sources.  The start of the api, the *)
(* registration of an organisation and two endpoints run the same seeding: *)
(* it looks the default keys up one after the other and writes when it     *)
(* commits (the sessions do not flush before), while users create, edit    *)
(* and delete sources.  A key has an index and no constraint.              *)
(***************************************************************************)
EXTENDS Naturals, Sequences, FiniteSets, FiniteSetsExt, SequencesExt, TLC

CONSTANTS
  Order,      \* the keys of the default catalog, in their order
  Rows,       \* ids of rows
  Tenants,    \* organisations
  LocalOrg,      \* the one that seed creates
  MaxBoots,   \* bound: starts of the api
  MaxClaims,  \* bound: seedings by organisations
  MaxEdits    \* bound: changes by users

CatalogKeys == ToSet(Order)
NoOwner == "unowned"
NoSource == [key |-> "absent"]

ASSUME CatalogAssumption ==
  /\ IsFiniteSet(Rows) /\ 0 \notin Rows
  /\ Order \in Seq(ToSet(Order)) /\ "absent" \notin ToSet(Order)
  /\ LocalOrg \in Tenants /\ NoOwner \notin Tenants
CatalogFields == {"owner", "edited", "config"}

VARIABLES
  source,     \* rows of the table; edited: its name, address or switch differs from
              \* the defaults; config: connector_config is the default's or a run's
  seeding,    \* one session per organisation
  up,         \* the api serves
  boots, claims, edits,
  askers,      \* history: the organisations that ever asked for sources
  profile     \* one faculty profile, seeded at the start as well

catalogVars == <<source, seeding, up, boots, claims, edits, askers, profile>>

NoSeeding == [at |-> 0, force |-> FALSE, seen |-> <<>>]
RowsOf(key) == {i \in Rows : source[i].key = key}
OwnedRow(i) == source[i].key # "absent" /\ source[i].owner # NoOwner

Default(key, owner) ==
  [key |-> key, owner |-> owner, edited |-> FALSE, config |-> "default"]

\* The rows that a lookup by key may return: no order, and the first of them.
Found(key) == IF RowsOf(key) = {} THEN {0} ELSE RowsOf(key)

\* What a seeding does with the row it found: i = 0 when there is none.
Mine(row, force) == force \/ row.owner = NoOwner

\* Mutant: every column goes into the UPDATE, whether or not it has changed.
AllColumns(row, new) == CatalogFields

\* Only the columns that the seeding gave another value are in its UPDATE.
ChangedColumns(row, new) == {f \in CatalogFields : new[f] # row[f]}

\* Ids that the database gives to new rows, one to each of those wanted.
Free == {i \in Rows : source[i] = NoSource}
NewIds(wanted) ==
  CHOOSE g \in [wanted -> Free] : \A a, b \in wanted : a # b => g[a] # g[b]

Overwritten(now, loaded, new) ==
  [f \in DOMAIN now |-> IF f \in ChangedColumns(loaded, new) THEN new[f] ELSE now[f]]

-----------------------------------------------------------------------------
(* The start of the api: create_all, seed, seed_faculties_sync.  Nothing else *)
(* touches the catalog until it serves.                                       *)

Picks(keys) == {f \in [keys -> Rows \cup {0}] : \A k \in keys : f[k] \in Found(k)}

\* A profile is seeded once; its vector is the local hash.
SeededProfile ==
  IF profile.version = 0 THEN [version |-> 1, text |-> "seed", vector |-> "seed"] ELSE profile

BootApi ==
  /\ ~up /\ boots < MaxBoots
  /\ \E pick \in Picks(CatalogKeys) :
       LET missing == {k \in CatalogKeys : pick[k] = 0}
           idOf == NewIds(missing)
       IN  /\ Cardinality(Free) >= Cardinality(missing)
           /\ source' =
                [i \in Rows |->
                   IF \E k \in missing : idOf[k] = i
                     THEN Default(CHOOSE k \in missing : idOf[k] = i, NoOwner)
                   ELSE IF \E k \in CatalogKeys : pick[k] = i /\ Mine(source[i], FALSE)
                     THEN Overwritten(source[i], source[i], Default(source[i].key, LocalOrg))
                   ELSE source[i]]
  /\ profile' = SeededProfile
  /\ up' = TRUE /\ boots' = boots + 1
  /\ UNCHANGED <<seeding, claims, edits, askers>>

\* A crash or a new release: open sessions are rolled back.
StopApi ==
  /\ up /\ boots < MaxBoots /\ up' = FALSE /\ seeding' = [o \in Tenants |-> NoSeeding]
  /\ UNCHANGED <<source, boots, claims, edits, askers, profile>>

-----------------------------------------------------------------------------
(* Seedings by organisations: at registration, POST /sources/claim-defaults,  *)
(* POST /admin/sources/reseed-defaults, the last two with force if they like. *)

BeginSeeding(o, force) ==
  /\ up /\ seeding[o].at = 0 /\ claims < MaxClaims
  /\ seeding' = [seeding EXCEPT ![o] = [at |-> 1, force |-> force, seen |-> <<>>]]
  /\ claims' = claims + 1 /\ askers' = askers \cup {o}
  /\ UNCHANGED <<source, up, boots, edits, profile>>

\* A new organisation's first user.
NewOrganization(o) == o # LocalOrg /\ o \notin askers /\ BeginSeeding(o, FALSE)

\* POST /sources/claim-defaults and /admin/sources/reseed-defaults.
ClaimDefaults(o) ==
  o \in askers \cup {LocalOrg} /\ \E force \in BOOLEAN : BeginSeeding(o, force)

\* The next key is looked up among the committed rows.
LookUp(o) ==
  LET s == seeding[o] IN
  /\ s.at \in DOMAIN Order
  /\ \E i \in Found(Order[s.at]) :
       seeding' = [seeding EXCEPT
         ![o].at = s.at + 1,
         ![o].seen = Append(@, [id |-> i, row |-> IF i = 0 THEN NoSource ELSE source[i]])]
  /\ UNCHANGED <<source, up, boots, claims, edits, askers, profile>>

\* The commit writes; a row that is gone by then fails the whole of it.
CommitSeeding(o) ==
  LET s == seeding[o]
      lacking == {n \in DOMAIN s.seen : s.seen[n].id = 0}
      claimed == {n \in DOMAIN s.seen : s.seen[n].id # 0 /\ Mine(s.seen[n].row, s.force)}
      gone == {n \in claimed : /\ source[s.seen[n].id] = NoSource
                               /\ ChangedColumns(s.seen[n].row, Default(Order[n], o)) # {}}
      idOf == NewIds(lacking)
  IN  /\ s.at > Len(Order)
      /\ IF gone # {} THEN UNCHANGED source
         ELSE /\ Cardinality(Free) >= Cardinality(lacking)
              /\ source' =
                   [i \in Rows |->
                      IF \E n \in lacking : idOf[n] = i
                        THEN Default(Order[CHOOSE n \in lacking : idOf[n] = i], o)
                      ELSE IF source[i] # NoSource /\ \E n \in claimed : s.seen[n].id = i
                        THEN LET n == CHOOSE n \in claimed : s.seen[n].id = i
                             IN  Overwritten(source[i], s.seen[n].row, Default(Order[n], o))
                      ELSE source[i]]
      /\ seeding' = [seeding EXCEPT ![o] = NoSeeding]
      /\ UNCHANGED <<up, boots, claims, edits, askers, profile>>

-----------------------------------------------------------------------------
(* Users.                                                                    *)

User == up /\ edits < MaxEdits /\ edits' = edits + 1

\* POST /sources: any key.
CreateSource(o, key) ==
  /\ User /\ o \in askers \cup {LocalOrg}
  /\ \E i \in Rows : /\ source[i] = NoSource /\ \A j \in Rows : source[j] = NoSource => i <= j
                     /\ source' = [source EXCEPT ![i] = [Default(key, o) EXCEPT !.edited = TRUE]]
  /\ askers' = askers \cup {o} /\ UNCHANGED <<seeding, up, boots, claims, profile>>

\* PATCH and DELETE /sources/{id}: the owner's, "Shared sources cannot be modified".
EditSource(o, i) ==
  /\ User /\ OwnedRow(i) /\ source[i].owner = o
  /\ source' = [source EXCEPT ![i].edited = TRUE]
  /\ UNCHANGED <<seeding, up, boots, claims, askers, profile>>

DeleteSource(o, i) ==
  /\ User /\ OwnedRow(i) /\ source[i].owner = o
  /\ source' = [source EXCEPT ![i] = NoSource]
  /\ UNCHANGED <<seeding, up, boots, claims, askers, profile>>

\* A run of the source, of a worker or of the api, keeps what its connector has
\* seen in connector_config, whoever owns the row.
RunKeepsConfig(i) ==
  /\ source[i] # NoSource /\ source' = [source EXCEPT ![i].config = "run"]
  /\ UNCHANGED <<seeding, up, boots, claims, edits, askers, profile>>

\* PUT /faculty-profiles/{id}: a new description takes a new vector, when that
\* can be computed.
UpdateProfile ==
  /\ User /\ profile.version = 1
  /\ \E vector \in {profile.vector, "edited"} :
       profile' = [version |-> profile.version + 1, text |-> "edited", vector |-> vector]
  /\ UNCHANGED <<source, seeding, up, boots, claims, askers>>

CatalogInit ==
  /\ source = [i \in Rows |-> NoSource] /\ seeding = [o \in Tenants |-> NoSeeding]
  /\ up = FALSE /\ boots = 0 /\ claims = 0 /\ edits = 0 /\ askers = {}
  /\ profile = [version |-> 0, text |-> "none", vector |-> "none"]

CatalogNext ==
  \/ BootApi \/ StopApi \/ UpdateProfile
  \/ \E i \in Rows : RunKeepsConfig(i)
  \/ \E o \in Tenants :
       \/ NewOrganization(o)
       \/ ClaimDefaults(o)
       \/ LookUp(o) \/ CommitSeeding(o)
       \/ \E key \in CatalogKeys : CreateSource(o, key)
       \/ \E i \in Rows : EditSource(o, i) \/ DeleteSource(o, i)

CatalogSpec == CatalogInit /\ [][CatalogNext]_catalogVars

-----------------------------------------------------------------------------
(* Properties. *)

\* What an organisation edited stays as it is: a start of the api and a claim
\* without force leave every column of an owned source alone, or, when the claim
\* read it before it was owned, every column but the owner and what runs keep in
\* connector_config; a start leaves an edited faculty profile alone.
OwnerEditsStay ==
  [][/\ \A i \in Rows :
          /\ OwnedRow(i) /\ source[i] # source'[i]
          /\ \/ ~up
             \/ \E o \in Tenants : ~seeding[o].force /\ seeding[o].at # 0 /\ seeding'[o].at = 0
          => source'[i] = [source[i] EXCEPT !.owner = source'[i].owner,
                                            !.config = source'[i].config]
     /\ ~up /\ profile.version > 1 => UNCHANGED profile]_catalogVars

\* "This allows ANY org to claim them when they register": what no organisation
\* asked for is nobody's.
CatalogClaimable ==
  \A i \in Rows : OwnedRow(i) => source[i].owner \in askers
=============================================================================
