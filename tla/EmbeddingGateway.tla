--------------------------- MODULE EmbeddingGateway ---------------------------
(***************************************************************************)
(* Embeddings of opportunities: the ordered chain of providers with its    *)
(* cache and its quota, all in the memory of one process, and the rows     *)
(* that batches store afterwards.  Every call of a provider is an await in *)
(* which the other batches of the process go on.                           *)
(***************************************************************************)
EXTENDS Naturals, Sequences, SequencesExt, FiniteSets, FiniteSetsExt

CONSTANTS
  Texts,        \* source texts, one per opportunity
  Batches,      \* concurrent callers: a batch each, of texts in their order
  TextsOf,      \* the sequence of texts of each batch
  Chain,        \* the remote providers that are configured, in order
  Quota,        \* ai_quota_embeddings_per_day
  CacheSize     \* ai_embedding_cache_size

Local == "local"
ASSUME GatewayAssumption ==
  /\ CacheSize >= 1 /\ Quota \in Nat
  /\ Chain \in Seq(ToSet(Chain)) /\ Local \notin ToSet(Chain)
  /\ IsFiniteSet(Batches) /\ TextsOf \in [Batches -> Seq(Texts)]

VARIABLES
  cache,        \* least recently used first: text, model of the key, maker of the vector
  used,         \* count of the organisation in the current window
  call,         \* per batch: step, providers left, makers of its vectors
  rows          \* per text: who made the stored vector, and the label it carries

gatewayVars == <<cache, used, call, rows>>

Primary == IF Chain = <<>> THEN Local ELSE Head(Chain)
Pending == "pending"       \* a text that waits for its vector
NoVector == [maker |-> "nobody", label |-> "nobody"]
Fetched(b) == ToSet(TextsOf[b])
At(b, step) == call[b].at = step
Size(b) == Cardinality({i \in DOMAIN call[b].makers : call[b].makers[i] = Pending})

-----------------------------------------------------------------------------
(* The cache: keyed by model and text, with a bound on its entries.          *)

Hit(c, text) == \E i \in DOMAIN c : c[i].text = text /\ c[i].model = Primary
Entry(c, text) == c[CHOOSE i \in DOMAIN c : c[i].text = text /\ c[i].model = Primary]
Newest(c, e) == Append(SelectSeq(c, LAMBDA x : <<x.text, x.model>> # <<e.text, e.model>>), e)

\* cache_get: a hit becomes the youngest entry.
Look(c, text) == IF Hit(c, text) THEN Newest(c, Entry(c, text)) ELSE c
Looked(texts) == FoldLeft(Look, cache, texts)

\* cache_set.
CacheSet(c, e) == LET all == Newest(c, e)
                  IN  SubSeq(all, IF Len(all) > CacheSize THEN 2 ELSE 1, Len(all))

\* The key names the model that served, not the one that was asked for first.
Kept(text, maker) == [text |-> text, model |-> maker, maker |-> maker]

-----------------------------------------------------------------------------
(* embed_texts.                                                              *)

\* Mutant: the quota is not looked at.
NoQuota(b) == FALSE

\* check_embedding_quota, before any provider is awaited.
QuotaExceeded(b) == Primary # Local /\ Quota > 0 /\ used >= Quota

Begin(b) ==
  /\ At(b, "new")
  /\ LET texts == TextsOf[b]
         makers == [i \in DOMAIN texts |->
                      IF Hit(cache, texts[i]) THEN Entry(cache, texts[i]).maker ELSE Pending]
         asks == Pending \in ToSet(makers)
     IN  /\ cache' = Looked(texts)
         /\ call' = [call EXCEPT ![b] =
              [at |-> IF asks THEN "asking" ELSE "served",
               left |-> IF QuotaExceeded(b) THEN <<>> ELSE Chain, makers |-> makers]]
  /\ UNCHANGED <<used, rows>>

Served(b, maker) == [i \in DOMAIN call[b].makers |->
                       IF call[b].makers[i] = Pending THEN maker ELSE call[b].makers[i]]

\* The vectors of the texts that were missing, and the cache after them.
CacheServed(b, maker) ==
  LET texts == TextsOf[b]
      missing == SelectSeq([i \in DOMAIN texts |-> i], LAMBDA i : call[b].makers[i] = Pending)
  IN  FoldLeft(LAMBDA c, i : CacheSet(c, Kept(texts[i], maker)), cache, missing)

Serve(b, maker) ==
  /\ cache' = CacheServed(b, maker)
  /\ call' = [call EXCEPT ![b].at = "served", ![b].makers = Served(b, maker)]

\* A provider answers with a vector for every text; the usage is counted now.
Answers(b) ==
  /\ At(b, "asking") /\ call[b].left # <<>>
  /\ Serve(b, Head(call[b].left))
  /\ used' = used + Size(b) /\ UNCHANGED rows

\* It fails, or its answer is short or of another dimension: the next one.
Refuses(b) ==
  /\ At(b, "asking") /\ call[b].left # <<>>
  /\ call' = [call EXCEPT ![b].left = Tail(@)]
  /\ UNCHANGED <<cache, used, rows>>

\* Nobody is left, or the quota was exceeded: the local hash.
FallBack(b) ==
  /\ At(b, "asking") /\ call[b].left = <<>>
  /\ Serve(b, Local) /\ UNCHANGED <<used, rows>>

-----------------------------------------------------------------------------
\* EmbeddingBatchService.batch_upsert: every row gets the label of the result,
\* and model_version is that of the first vector.
Upsert(b) ==
  /\ At(b, "served")
  /\ LET label == Head(call[b].makers)
     IN  rows' = [t \in Texts |->
           IF t \in Fetched(b)
           THEN [maker |-> call[b].makers[Min({i \in DOMAIN TextsOf[b] : TextsOf[b][i] = t})],
                 label |-> label]
           ELSE rows[t]]
  /\ call' = [call EXCEPT ![b] = [at |-> "new", left |-> <<>>, makers |-> <<>>]]
  /\ UNCHANGED <<cache, used>>

\* A new day opens a new window; a restart forgets cache, quota and calls.
NewWindow == used > 0 /\ used' = 0 /\ UNCHANGED <<cache, call, rows>>

Restart ==
  /\ cache' = <<>> /\ used' = 0 /\ UNCHANGED rows
  /\ call' = [b \in Batches |-> [at |-> "new", left |-> <<>>, makers |-> <<>>]]

GatewayInit ==
  /\ cache = <<>> /\ used = 0 /\ rows = [t \in Texts |-> NoVector]
  /\ call = [b \in Batches |-> [at |-> "new", left |-> <<>>, makers |-> <<>>]]

GatewayNext ==
  \/ \E b \in Batches : Begin(b) \/ Answers(b) \/ Refuses(b) \/ FallBack(b) \/ Upsert(b)
  \/ NewWindow \/ Restart

GatewaySpec == GatewayInit /\ [][GatewayNext]_gatewayVars

-----------------------------------------------------------------------------
(* Properties. *)

TextsIn(some) == UNION {{b} \X DOMAIN TextsOf[b] : b \in some}

\* The quota is checked before the await and counted after it, so concurrent
\* batches overshoot it, but only by what was in flight: at most all of one
\* batch each.
QuotaOvershoot == Quota > 0 => used <= (Quota - 1) + Cardinality(TextsIn(Batches))

\* A stored row is labelled with the model that made its vector.
LabelsHonest == \A t \in Texts : rows[t].label = rows[t].maker
=============================================================================
