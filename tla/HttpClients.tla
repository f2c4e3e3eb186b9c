------------------------------ MODULE HttpClients ------------------------------
(***************************************************************************)
(* The HTTP clients of the process: one for synchronous code, built under  *)
(* a lock, and one for the event loop that asked first, with another for   *)
(* every other loop.  Requests, sweeps and jobs run in threads, most of    *)
(* them each on a short-lived loop of its own; a loop's id is the address  *)
(* of the object and is given out again when the object is gone.           *)
(***************************************************************************)
EXTENDS Naturals, FiniteSets

CONSTANTS
  Workers,   \* threads
  LoopIds,   \* addresses for loops
  MaxLoops   \* bound: loops that are ever opened

VARIABLES
  sync,      \* the synchronous side: client, clients built since the last close, lock
  http,      \* _async_client, _async_client_loop_id, _async_client_loop
  second,    \* _secondary_clients: by id, the loop whose client it is
  wk,        \* per thread: step, its loop (id and number), what it was handed
  loops      \* loops opened so far

httpVars == <<sync, http, second, wk, loops>>

NoLoop == [id |-> "none", n |-> 0]
Nobody == "nobody"
ASSUME HttpAssumption == Nobody \notin Workers
Calm == [step |-> "idle", loop |-> NoLoop, got |-> NoLoop]

Stands(w, s) == wk[w].step = s
Steps(w, s) == wk' = [wk EXCEPT ![w].step = s]
LoopAlive(loop) == \E w \in Workers : wk[w].loop = loop

-----------------------------------------------------------------------------
(* sync_http_client. *)

AskSync(w) ==
  /\ Stands(w, "idle")
  /\ Steps(w, IF sync.client = 0 THEN "wait" ELSE "idle")
  /\ UNCHANGED <<sync, http, second, loops>>

TakeLock(w) ==
  /\ Stands(w, "wait") /\ sync.lock = Nobody
  /\ sync' = [sync EXCEPT !.lock = w]
  /\ Steps(w, "locked")
  /\ UNCHANGED <<http, second, loops>>

\* Mutant: the client is not asked for again under the lock.
BuildUnasked(w) ==
  /\ Stands(w, "locked")
  /\ sync' = [client |-> sync.built + 1, built |-> sync.built + 1, lock |-> Nobody]
  /\ Steps(w, "idle")
  /\ UNCHANGED <<http, second, loops>>

Build(w) ==
  /\ Stands(w, "locked")
  /\ sync' = IF sync.client = 0
       THEN [client |-> sync.built + 1, built |-> sync.built + 1, lock |-> Nobody]
       ELSE [sync EXCEPT !.lock = Nobody]
  /\ Steps(w, "idle")
  /\ UNCHANGED <<http, second, loops>>

\* The end of lifespan; no lock is taken.
CloseSync ==
  /\ sync.client # 0
  /\ sync' = [sync EXCEPT !.client = 0, !.built = 0]
  /\ UNCHANGED <<http, second, wk, loops>>

-----------------------------------------------------------------------------
(* http_client, in the steps between which another thread may run. *)

\* A thread starts a loop.  The id of one that the module still refers to is
\* not free.
OpenLoop(w, i) ==
  /\ Stands(w, "idle") /\ wk[w].loop = NoLoop /\ loops < MaxLoops
  /\ http.loop.id # i /\ \A v \in Workers : wk[v].loop.id # i
  /\ loops' = loops + 1
  /\ wk' = [wk EXCEPT ![w].loop = [id |-> i, n |-> loops + 1]]
  /\ UNCHANGED <<sync, http, second>>

NoClient == [client |-> NoLoop, id |-> "none", loop |-> NoLoop]

\* A client of a loop that is closed is forgotten, and not closed.
AskAsync(w) ==
  /\ wk[w].loop # NoLoop /\ wk[w].step \in {"idle", "using"}
  /\ LET stale == http.client # NoLoop /\ http.loop # NoLoop /\ ~LoopAlive(http.loop)
         now == IF stale THEN NoClient ELSE http
     IN http' = now /\ Steps(w, IF now.client = NoLoop THEN "first" ELSE "compare")
  /\ UNCHANGED <<sync, second, loops>>

\* The three assignments of the first call ever.
FirstClient(w) ==
  /\ Stands(w, "first")
  /\ http' = [http EXCEPT !.client = wk[w].loop]
  /\ Steps(w, "id")
  /\ UNCHANGED <<sync, second, loops>>

FirstId(w) ==
  /\ Stands(w, "id")
  /\ http' = [http EXCEPT !.id = wk[w].loop.id]
  /\ Steps(w, "loop")
  /\ UNCHANGED <<sync, second, loops>>

FirstLoop(w) ==
  /\ Stands(w, "loop")
  /\ http' = [http EXCEPT !.loop = wk[w].loop]
  /\ wk' = [wk EXCEPT ![w].step = "using", ![w].got = http.client]
  /\ UNCHANGED <<sync, second, loops>>

Compare(w) ==
  /\ Stands(w, "compare")
  /\ LET i == wk[w].loop.id
         mine == IF second[i] = NoLoop THEN wk[w].loop ELSE second[i]
     IN IF http.id = i
          THEN /\ wk' = [wk EXCEPT ![w].step = "using", ![w].got = http.client]
               /\ UNCHANGED second
          ELSE /\ wk' = [wk EXCEPT ![w].step = "using", ![w].got = mine]
               /\ second' = [second EXCEPT ![i] = mine]
  /\ UNCHANGED <<sync, http, loops>>

\* closing_per_loop_client: the client of this loop is closed with it, unless
\* it is the singleton.
CloseLoop(w) ==
  /\ Stands(w, "using")
  /\ second' = IF http.id = wk[w].loop.id THEN second
               ELSE [second EXCEPT ![wk[w].loop.id] = NoLoop]
  /\ wk' = [wk EXCEPT ![w] = Calm]
  /\ UNCHANGED <<sync, http, loops>>

-----------------------------------------------------------------------------
HttpInit ==
  /\ sync = [client |-> 0, built |-> 0, lock |-> Nobody]
  /\ http = NoClient
  /\ second = [i \in LoopIds |-> NoLoop]
  /\ wk = [w \in Workers |-> Calm]
  /\ loops = 0

HttpNext ==
  \/ CloseSync
  \/ \E w \in Workers :
      \/ AskSync(w) \/ TakeLock(w) \/ Build(w)
      \/ \E i \in LoopIds : OpenLoop(w, i)
      \/ AskAsync(w) \/ FirstClient(w) \/ FirstId(w) \/ FirstLoop(w) \/ Compare(w)
      \/ CloseLoop(w)

HttpSpec == HttpInit /\ [][HttpNext]_httpVars

-----------------------------------------------------------------------------
(* Properties. *)

\* However the threads race for it, only one synchronous client is ever built:
\* a second one would replace the first while others send requests over it.
OneSyncClient == sync.built <= 1

\* "Await coro and then release this loop's per-loop client": none is left when
\* its loop is gone.  The code breaks it: a loop that has a client of its own,
\* and asks again after the loop of the singleton was closed, becomes the
\* singleton's and is not released.
NoneLeft == \A i \in LoopIds : second[i] # NoLoop => LoopAlive(second[i])

\* "If the current running loop differs from the one that created the singleton
\* a dedicated per-loop client is created": nobody is handed the client of
\* another loop.  The code breaks it by what NoneLeft says, when a later loop
\* gets the same id, and when the three assignments of two first calls mix.
OwnLoopClient ==
  \A w \in Workers : Stands(w, "using") => wk[w].got = wk[w].loop
================================================================================
