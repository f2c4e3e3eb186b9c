------------------------------- MODULE Extraction -------------------------------
(***************************************************************************)
(* What the language model says of a text: the call with its retries, the  *)
(* local fallback and the least-recently-used caches, a dictionary and a   *)
(* list beside it.  The main loop, sweeps and requests run in threads of   *)
(* their own and share the caches without a lock, so every operation on    *)
(* the dictionary or the list is a step.                                   *)
(***************************************************************************)
EXTENDS Naturals, Sequences, FiniteSets, SequencesExt

CONSTANTS
  Pages,       \* texts, by the hash of their first characters
  Threads,     \* that extract at the same time
  LlmCache,    \* extraction_llm_cache_size; 256 for the faculties
  MaxRetries,  \* _LLM_429_MAX_RETRIES
  MaxAsks      \* bound: extractions of each thread

ASSUME ExtractionAssumption == LlmCache \in Nat

VARIABLES
  caller,  \* "extraction" or "faculty": the two caches are alike and disjoint
  order,   \* _LLM_CACHE_ORDER
  kept,    \* _LLM_CACHE: per page what is kept, NotHeld without an entry
  thread   \* per thread: step, page, 429s so far, value to keep, key to drop, asks

extractionVars == <<caller, order, kept, thread>>

NotHeld == "nothing"

-----------------------------------------------------------------------------
InStep(t, s) == thread[t].step = s
PageIn(t) == thread[t].page
Goes(t, s) == thread' = [thread EXCEPT ![t].step = s]
Resting(asks) ==
  [step |-> "idle", page |-> NotHeld, tries |-> 0, value |-> NotHeld, old |-> NotHeld,
   asks |-> asks]
Returns(t) == thread' = [thread EXCEPT ![t] = Resting(@.asks)]
Keeps(t, value) == thread' = [thread EXCEPT ![t].step = "set", ![t].value = value]

\* _llm_cache_get: a hit is touched, a miss asks the provider.
Ask(t, p) ==
  /\ InStep(t, "idle") /\ thread[t].asks < MaxAsks
  /\ thread' = [thread EXCEPT
       ![t].step = IF kept[p] = NotHeld THEN "calling" ELSE "hit",
       ![t].page = p, ![t].tries = 0, ![t].asks = @ + 1]
  /\ UNCHANGED <<caller, order, kept>>

\* list.remove takes the first occurrence; an absent key is ignored.
Unlist(t) ==
  /\ InStep(t, "hit") \/ InStep(t, "replace")
  /\ \/ PageIn(t) \notin Range(order) /\ UNCHANGED order
     \/ \E i \in DOMAIN order :
          /\ order[i] = PageIn(t) /\ \A j \in 1 .. i - 1 : order[j] # PageIn(t)
          /\ order' = RemoveAt(order, i)
  /\ Goes(t, IF InStep(t, "hit") THEN "touch" ELSE "put")
  /\ UNCHANGED <<caller, kept>>

TouchEntry(t) ==
  /\ InStep(t, "touch")
  /\ order' = Append(order, PageIn(t))
  /\ Returns(t)
  /\ UNCHANGED <<caller, kept>>

\* _call_llm waits and tries again; the faculty call raises at once.
RateLimited(t) ==
  /\ InStep(t, "calling") /\ caller = "extraction" /\ thread[t].tries < MaxRetries
  /\ thread' = [thread EXCEPT ![t].tries = @ + 1]
  /\ UNCHANGED <<caller, order, kept>>

\* The last 429, a failure or no provider at all.  An extraction keeps what the
\* local rules make of the text, under the same key; the faculty call keeps
\* nothing.
GoesLocal(t) ==
  /\ InStep(t, "calling")
  /\ IF caller = "extraction" THEN Keeps(t, "local") ELSE Returns(t)
  /\ UNCHANGED <<caller, order, kept>>

\* A valid answer, and one that the schema refuses: the local result of the
\* latter is returned and not kept.
Replies(t, valid) ==
  /\ InStep(t, "calling")
  /\ IF valid THEN Keeps(t, "remote") ELSE Returns(t)
  /\ UNCHANGED <<caller, order, kept>>

\* _llm_cache_set.
LooksFor(t) ==
  /\ InStep(t, "set")
  /\ Goes(t, IF kept[PageIn(t)] = NotHeld THEN "put" ELSE "replace")
  /\ UNCHANGED <<caller, order, kept>>

Puts(t) ==
  /\ InStep(t, "put")
  /\ kept' = [kept EXCEPT ![PageIn(t)] = thread[t].value]
  /\ Goes(t, "list")
  /\ UNCHANGED <<caller, order>>

Lists(t) ==
  /\ InStep(t, "list")
  /\ order' = Append(order, PageIn(t))
  /\ Goes(t, "evict")
  /\ UNCHANGED <<caller, kept>>

\* Mutant: the list forgets a key that the dictionary keeps.
PopsOnly(t) ==
  /\ InStep(t, "evict")
  /\ IF Len(order) > LlmCache
       THEN order' = Tail(order) /\ UNCHANGED thread
       ELSE Returns(t) /\ UNCHANGED order
  /\ UNCHANGED <<caller, kept>>

Pops(t) ==
  /\ InStep(t, "evict")
  /\ IF Len(order) > LlmCache
       THEN /\ order' = Tail(order)
            /\ thread' = [thread EXCEPT ![t].step = "drop", ![t].old = Head(order)]
       ELSE Returns(t) /\ UNCHANGED order
  /\ UNCHANGED <<caller, kept>>

Drops(t) ==
  /\ InStep(t, "drop")
  /\ kept' = [kept EXCEPT ![thread[t].old] = NotHeld]
  /\ Goes(t, "evict")
  /\ UNCHANGED <<caller, order>>

-----------------------------------------------------------------------------
ExtractionInit ==
  /\ caller \in {"extraction", "faculty"}
  /\ order = <<>>
  /\ kept = [p \in Pages |-> NotHeld]
  /\ thread = [t \in Threads |-> Resting(0)]

ExtractionNext ==
  \E t \in Threads :
    \/ \E p \in Pages : Ask(t, p)
    \/ Unlist(t) \/ TouchEntry(t) \/ RateLimited(t) \/ GoesLocal(t)
    \/ \E valid \in BOOLEAN : Replies(t, valid)
    \/ LooksFor(t) \/ Puts(t) \/ Lists(t) \/ Pops(t) \/ Drops(t)

ExtractionSpec == ExtractionInit /\ [][ExtractionNext]_extractionVars

-----------------------------------------------------------------------------
(* Properties. *)

\* Threads that meet in a cache leave doubles and phantoms in its list, but
\* whatever the dictionary holds stays in the list once nobody is inside, or it
\* could never be evicted again.
NothingImmortal ==
  (\A t \in Threads : thread[t].step \in {"idle", "calling", "set"})
    => \A p \in Pages : kept[p] # NotHeld => p \in Range(order)

\* What the provider said of a text is kept until it is evicted.  The code
\* breaks it: of two threads that ask for one text, the one whose call fails
\* later puts the local result in its place.
RemoteKept ==
  [][\A p \in Pages : kept[p] = "remote" => kept'[p] \in {"remote", NotHeld}]_extractionVars
================================================================================
