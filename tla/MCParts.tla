-------------------------------- MODULE MCParts --------------------------------
(***************************************************************************)
(* Model values for the components that share no state with one another    *)
(* between two of their steps, and their sum: a behaviour picks one of     *)
(* them and runs it, the others rest in their initial states.              *)
(***************************************************************************)
EXTENDS OpportunityFields, Access, Artifacts, EmbeddingGateway,
  ScrapePipeline, ListingWalk, SourceCatalog, SourceAudit, LiveProbe,
  Extraction, HttpClients, Dashboard, HealthCache, Sectors, Scoring

CONSTANT PartNames  \* the components a run picks from

VARIABLE part

-----------------------------------------------------------------------------
(* OpportunityFields: four candidates that differ in what they leave open,   *)
(* and a poor and a rich answer of the model.                                *)

Money(m, d, v) == [marker |-> m, dollar |-> d, value |-> v, tr |-> FALSE]
Candidate(summary, long, close, raw, value, cur, mentions, words) ==
  [summary |-> summary, long |-> long, lists |-> long, raw |-> raw, value |-> value,
   cur |-> cur, close |-> close, open |-> NoDate, words |-> words, ctx |-> "CO",
   mentions |-> mentions]
MCPayloads ==
  { Candidate("", FALSE, NoDate, NoRaw, NoValue, None, {}, "open"),
    Candidate("thin", TRUE, 3, Money(None, TRUE, 20000), NoValue, None, {1}, "none"),
    Candidate("real", TRUE, NoDate, Money("EUR", FALSE, 700), NoValue, "EUR", {1, 2, 4}, "closed"),
    Candidate("short", FALSE, 2, Money(None, TRUE, 300), 700, "USD", {}, "none") }
MCExtractions ==
  { [summary |-> "", close |-> NoDate, open |-> NoDate, raw |-> NoRaw, value |-> NoValue,
     cur |-> None],
    [summary |-> "real", close |-> 4, open |-> 1, raw |-> [NoRaw EXCEPT !.tr = TRUE],
     value |-> 20000, cur |-> None] }

(* EmbeddingGateway: two batches that share a text, two remote providers. *)
MCTextsOf == [b \in Batches |-> IF b = 1 THEN <<"x", "y">> ELSE <<"y", "z">>]
MCChain == <<"gemini", "remote">>

(* ScrapePipeline: the listing dates one of two calls; a page says nothing of *)
(* the money, nothing of the dates, or cannot be read.                        *)
MCShown == [u \in Urls |-> IF u = "a" THEN {"dates"} ELSE {}]
MCOutcomes == {Failed, {"dates"}, {"funding", "long"}}
WholePages == {Gaps}

(* SourceCatalog: two default sources. *)
MCOrder == <<"k1", "k2">>

(* SourceAudit: two rows of one title. *)
AuditRow(n, url, dated, news) ==
  [id |-> n, url |-> url, title |-> "t", dated |-> dated, news |-> news]
MCAuditRows == {AuditRow(1, "u", TRUE, FALSE), AuditRow(2, "none", FALSE, TRUE)}

(* LiveProbe: authorised sites with a neighbour under a listed suffix, with one *)
(* under a suffix the list lacks, with a host of many owners beside it, and with *)
(* a documented pair of domains.                                              *)
Site == <<"co", "gov", "minciencias", "www">>
Apex == <<"co", "gov", "minciencias">>
Neighbour == <<"co", "gov", "mintic">>
Google == <<"com", "google", "www">>
Drive == <<"com", "google", "drive">>
Peru == <<"pe", "gob", "proinnovate">>
PeruCdn == <<"pe", "gob", "www", "cdn">>
FinepSite == <<"br", "gov", "finep", "www">>
Anp == <<"br", "gov", "anp">>
MCHosts == {Site, Apex, Neighbour, Google, Drive, Peru, PeruCdn, FinepSite, Anp}
MCStarts == <<Site, Google>>
MCAuthorized == {Site, Google, Peru, FinepSite}
MCPublic ==
  {<<"co">>, <<"co", "gov">>, <<"pe">>, <<"pe", "gob">>, <<"com">>, <<"br">>, <<"br", "gov">>}
MCSuffixes == {<<"co", "gov">>, <<"pe", "gob">>}
MCPairs == {{Peru, <<"pe", "gob", "www">>}}
MCShared == {Drive}
MCOwnerOf ==
  [h \in MCHosts |->
     CASE h \in {Site, Apex} -> "minciencias" [] h \in {Peru, PeruCdn} -> "proinnovate"
       [] h = Google -> "google" [] h = Neighbour -> "mintic" [] h = FinepSite -> "finep"
       [] h = Anp -> "anp" [] OTHER -> "anyone"]

(* Dashboard: deadlines in the hours and on the days where the views differ. *)
Opp(owner, close, url, noise, points, from, amount, raw) ==
  [owner |-> owner, close |-> close, url |-> url, noise |-> noise, score |-> points,
   source |-> from, amount |-> amount, raw |-> raw]
MCPosting ==
  ("o1" :> Opp("us", 3, TRUE, "none", 74, "s1", 100, TRUE))
  @@ ("o2" :> Opp("us", NoClose, FALSE, "none", 57, "none", NoAmount, TRUE))
  @@ ("o3" :> Opp("global", 4, TRUE, "body", 60, "s1", NoAmount, FALSE))
  @@ ("o4" :> Opp("them", 2, TRUE, "none", 90, "s1", 9000, TRUE))
  @@ ("o5" :> Opp("global", 7, TRUE, "title", NoScore, "s2", 499, FALSE))
MCOrigin ==
  ("s1" :> {"health", "healthcare"}) @@ ("s2" :> {"health"})

(* Sectors: a row the rules are sure of, one they hardly know, one they do not. *)
MCByRules ==
  ("o1" :> Label("salud", 3)) @@ ("o2" :> Label("salud", 1)) @@ ("o3" :> Otros)
MCByVectors ==
  ("o1" :> Otros) @@ ("o2" :> Label("cultura", 2)) @@ ("o3" :> Label("cultura", 1))
MCJudgements == {Label("deporte", 3), Label("cultura", 9)}

(* Scoring: columns worth 57, 58 and 60 points, on both sides of "high". *)
Features(type, requirements, documents) ==
  [country |-> "same", type |-> type, topics |-> "half", amount |-> "none", close |-> "far",
   requirements |-> requirements, documents |-> documents]
MCContents ==
  {Features("anyone", FALSE, TRUE), Features("anyone", TRUE, FALSE),
   Features("listed", FALSE, FALSE)}

(* ListingWalk: every connector; those of equal decisions are one.            *)
MCConnectors ==
  { Anii, Minciencias, Bdn, WordPress, Finep, Configurable, FtSearch, Eic, Apc, Mincit,
    Procolombia, Uniandes, Nsf, Caricom, GenericHtml, Innpulsa, GrantsGov, UsaidGrants,
    GrantsGovRss, Findeter, FindeterSitemap, FindeterIndex, Wellcome, Innovamos, Unesco,
    Rss, Api, WorldBank, Fapemig, Undef, Pdf, GlobalInnovationFund, HeadingList, Ukri,
    Unwomen, Idrc, Giz, Ascun, CostOpenCalls, Icetex, Mineducacion, EuLife, Biodiversidad,
    SimplerGrants }

\* The addresses that list each call, where they do not all list the same.
MCHomes ==
  ("a" :> {1, 2}) @@ ("b" :> {1, 2, 3}) @@ ("c" :> {3}) @@ ("d" :> {1})

(* Access: requests that are limited and end there, on any addresses; or      *)
(* requests on one that are answered.                                        *)
TurnedAway == <<users, tokens, doing>>' = <<users, tokens, doing>>
Answered == hits' # hits => doing' # doing
FirstMail == CHOOSE m \in Mails : TRUE
OneAddress == \A f \in Flows : Keys(buckets'[f]) \subseteq {FirstMail}

-----------------------------------------------------------------------------
partVars ==
  <<part, fieldsVars, accessVars, artifactVars, gatewayVars, pipeVars,
    walkVars, catalogVars, auditVars, probe, extractionVars, httpVars, dashVars,
    healthVars, sectorVars, scoringVars>>

PartsInit ==
  /\ part \in PartNames
  /\ FieldsInit /\ AccessInit /\ ArtifactsInit /\ GatewayInit /\ CatalogInit
  /\ AuditInit /\ ProbeInit /\ ExtractionInit /\ HttpInit /\ DashInit /\ HealthInit
  /\ SectorInit /\ ScoringInit
  /\ IF part = "pipeline" THEN PipelineInit ELSE NoPipeline
  /\ IF part = "listing" THEN WalkInit ELSE NoListing
  /\ part # "extraction" => caller = "extraction"

PartsNext ==
  /\ UNCHANGED part
  /\ \/ /\ part = "fields" /\ FieldsNext
        /\ UNCHANGED <<accessVars, artifactVars, gatewayVars, pipeVars,
                       walkVars, catalogVars, auditVars, probe, extractionVars, httpVars,
                       dashVars, healthVars, sectorVars, scoringVars>>
     \/ /\ AccessNext
        /\ \/ part = "limits" /\ TurnedAway
           \/ part = "sessions" /\ OneAddress /\ Answered
        /\ UNCHANGED <<fieldsVars, artifactVars, gatewayVars, pipeVars,
                       walkVars, catalogVars, auditVars, probe, extractionVars, httpVars,
                       dashVars, healthVars, sectorVars, scoringVars>>
     \/ /\ part = "artifacts" /\ ArtifactsNext
        /\ UNCHANGED <<fieldsVars, accessVars, gatewayVars, pipeVars, walkVars,
                       catalogVars, auditVars, probe, extractionVars, httpVars, dashVars,
                       healthVars, sectorVars, scoringVars>>
     \/ /\ part = "gateway" /\ GatewayNext
        /\ UNCHANGED <<fieldsVars, accessVars, artifactVars, pipeVars,
                       walkVars, catalogVars, auditVars, probe, extractionVars, httpVars,
                       dashVars, healthVars, sectorVars, scoringVars>>
     \/ /\ part = "pipeline" /\ PipelineNext
        /\ UNCHANGED <<fieldsVars, accessVars, artifactVars, gatewayVars,
                       walkVars, catalogVars, auditVars, probe, extractionVars, httpVars,
                       dashVars, healthVars, sectorVars, scoringVars>>
     \/ /\ part = "listing" /\ WalkNext
        /\ UNCHANGED <<fieldsVars, accessVars, artifactVars, gatewayVars,
                       pipeVars, catalogVars, auditVars, probe, extractionVars, httpVars,
                       dashVars, healthVars, sectorVars, scoringVars>>
     \/ /\ part = "catalog" /\ CatalogNext
        /\ UNCHANGED <<fieldsVars, accessVars, artifactVars, gatewayVars,
                       pipeVars, walkVars, auditVars, probe, extractionVars, httpVars,
                       dashVars, healthVars, sectorVars, scoringVars>>
     \/ /\ part = "audit" /\ AuditNext
        /\ UNCHANGED <<fieldsVars, accessVars, artifactVars, gatewayVars,
                       pipeVars, walkVars, catalogVars, probe, extractionVars, httpVars,
                       dashVars, healthVars, sectorVars, scoringVars>>
     \/ /\ part = "probe" /\ ProbeNext
        /\ UNCHANGED <<fieldsVars, accessVars, artifactVars, gatewayVars,
                       pipeVars, walkVars, catalogVars, auditVars, extractionVars,
                       httpVars, dashVars, healthVars, sectorVars, scoringVars>>
     \/ /\ part = "extraction" /\ ExtractionNext
        /\ UNCHANGED <<fieldsVars, accessVars, artifactVars, gatewayVars,
                       pipeVars, walkVars, catalogVars, auditVars, probe, httpVars,
                       dashVars, healthVars, sectorVars, scoringVars>>
     \/ /\ part = "clients" /\ HttpNext
        /\ UNCHANGED <<fieldsVars, accessVars, artifactVars, gatewayVars,
                       pipeVars, walkVars, catalogVars, auditVars, probe, extractionVars,
                       dashVars, healthVars, sectorVars, scoringVars>>
     \/ /\ part = "dashboard" /\ DashNext
        /\ UNCHANGED <<fieldsVars, accessVars, artifactVars, gatewayVars,
                       pipeVars, walkVars, catalogVars, auditVars, probe, extractionVars,
                       httpVars, healthVars, sectorVars, scoringVars>>
     \/ /\ part = "health" /\ HealthNext
        /\ UNCHANGED <<fieldsVars, accessVars, artifactVars, gatewayVars,
                       pipeVars, walkVars, catalogVars, auditVars, probe, extractionVars,
                       httpVars, dashVars, sectorVars, scoringVars>>
     \/ /\ part = "sectors" /\ SectorNext
        /\ UNCHANGED <<fieldsVars, accessVars, artifactVars, gatewayVars,
                       pipeVars, walkVars, catalogVars, auditVars, probe, extractionVars,
                       httpVars, dashVars, healthVars, scoringVars>>
     \/ /\ part = "scoring" /\ ScoringNext
        /\ UNCHANGED <<fieldsVars, accessVars, artifactVars, gatewayVars,
                       pipeVars, walkVars, catalogVars, auditVars, probe, extractionVars,
                       httpVars, dashVars, healthVars, sectorVars>>

PartsSpec == PartsInit /\ [][PartsNext]_partVars

\* The pipeline alone, where no run fails or is cancelled and the page keeps
\* changing, so that runs do not end as unchanged for ever.
PipelineSteady ==
  /\ Work \/ Publish \/ Touch
  /\ UNCHANGED <<part, fieldsVars, accessVars, artifactVars, gatewayVars,
                 walkVars, catalogVars, auditVars, probe, extractionVars, httpVars,
                 dashVars, healthVars, sectorVars, scoringVars>>
SteadySpec ==
  PartsInit /\ [][PipelineSteady]_partVars /\ WF_pipeVars(Work) /\ WF_pipeVars(Touch)
================================================================================
