-------------------------------- MODULE Access --------------------------------
(***************************************************************************)
(* Accounts: registration, login, password change and reset, the signed    *)
(* tokens they hand out, and the in-process limiter in front of them.      *)
(* Nothing is stored of a token: it is judged by its claims and by the     *)
(* second in which the password of its user last changed.  No request holds *)
(* a lock between the row it reads and the token or the row it writes.     *)
(***************************************************************************)
EXTENDS Naturals, Sequences, SequencesExt, FiniteSets

CONSTANTS
  Mails,        \* e-mail addresses, the keys of the limiter
  Callers,      \* requests that are served at a time
  MaxHits,      \* hits a key has in a window: 5 in the code
  Window,       \* width of the window
  MaxKeys,      \* keys the limiter keeps: 10000 in the code
  Lifetime,     \* access_token_expire_minutes
  LastSecond,   \* bounds of the model: the clock stops, tokens are few
  MaxTokens,
  MaxPasswords  \* passwords an account has one after another

ASSUME AccessAssumption ==
  /\ MaxHits \in Nat \ {0} /\ Window \in Nat \ {0} /\ MaxKeys \in Nat \ {0}
  /\ Lifetime \in Nat /\ LastSecond \in Nat \ {0} /\ MaxPasswords \in Nat

VARIABLES
  now,
  buckets,      \* one limiter per flow: <<key, hits>> pairs, least recently used first
  users,        \* the second of password_changed_at of each account, 0 when NULL
  tokens,       \* every token handed out and not yet expired
  doing,        \* what each request read, between that read and its end
  passwords,    \* for the property: the seconds of an account's passwords, oldest first
  hits          \* what was let through and, for the property, not evicted since

accessVars == <<now, buckets, users, tokens, doing, passwords, hits>>

NoAccount == LastSecond + 1
Flows == {"register", "login", "forgot"}
Idle == [at |-> "idle"]

-----------------------------------------------------------------------------
(* SlidingWindowLimiter. *)

\* Where the bucket of a key is; 0: it has none.
Place(f, k) == LET at == {i \in DOMAIN buckets[f] : buckets[f][i][1] = k}
               IN  IF at = {} THEN 0 ELSE CHOOSE i \in at : TRUE
Bucket(f, k) == IF Place(f, k) = 0 THEN <<>> ELSE buckets[f][Place(f, k)][2]

\* Mutant: a hit leaves the window one step early.
LeftEarly(hit) == hit + Window <= now + 1

\* A hit leaves the window when the window's width has passed.
Left(hit) == hit + Window <= now

\* The oldest go, up to the first that is still in the window.
Pruned(times) ==
  LET n == CHOOSE n \in 0 .. Len(times) :
             /\ \A i \in 1 .. n : Left(times[i])
             /\ n < Len(times) => ~Left(times[n + 1])
  IN  SubSeq(times, n + 1, Len(times))

Allowed(f, k) == Len(Pruned(Bucket(f, k))) < MaxHits

\* The key moves to the young end, a rejected hit is not recorded, and the
\* oldest key goes when there are too many.
Touched(f, k) ==
  LET kept == Pruned(Bucket(f, k))
      times == IF Allowed(f, k) THEN Append(kept, now) ELSE kept
      others == IF Place(f, k) = 0 THEN buckets[f] ELSE RemoveAt(buckets[f], Place(f, k))
      all == Append(others, <<k, times>>)
  IN  SubSeq(all, IF Len(all) > MaxKeys THEN 2 ELSE 1, Len(all))

Keys(b) == {b[i][1] : i \in DOMAIN b}

\* One call of check: what the limiter and the log become.
CheckLimit(f, k) ==
  /\ buckets' = [buckets EXCEPT ![f] = Touched(f, k)]
  /\ hits' = [hits EXCEPT ![f] = [m \in Mails |->
       IF m \notin Keys(Touched(f, k)) THEN <<>>
       ELSE IF m = k /\ Allowed(f, k) THEN Append(hits[f][m], now)
       ELSE hits[f][m]]]

-----------------------------------------------------------------------------
(* Tokens: the claims, and the judgement of get_current_user and             *)
(* reset_password.                                                           *)

Scope(t) == IF t.flow = "forgot" THEN "password_reset" ELSE "access"

\* For the property a token remembers the password it was earned with.
Mint(flow, user, claim, password) ==
  /\ Cardinality(tokens) < MaxTokens
  /\ tokens' = tokens \cup {[flow |-> flow, user |-> user, claim |-> claim,
                             password |-> password, expires |-> now + Lifetime]}

\* Mutant: what counts is when the token was minted, not what it claims.
ValidByMint(t, scope) ==
  /\ t.expires > now /\ Scope(t) = scope
  /\ users[t.user] # NoAccount /\ t.expires > users[t.user] + Lifetime

Valid(t, scope) ==
  /\ t.expires > now /\ Scope(t) = scope
  /\ users[t.user] # NoAccount /\ t.claim = users[t.user]

-----------------------------------------------------------------------------
(* The requests. *)

Account(m) == users[m] # NoAccount
Unused(c) == doing[c].at = "idle"
Reads(c, step, m) ==
  doing' = [doing EXCEPT ![c] = [at |-> step, user |-> m, seen |-> users'[m],
                                 password |-> Len(passwords'[m]), since |-> now]]
Done(c) == doing' = [doing EXCEPT ![c] = Idle]

\* register: the organisation, its profile and the user in one commit; an
\* address that has an account is refused.
Register(c, m) ==
  /\ Unused(c) /\ CheckLimit("register", m)
  /\ IF Allowed("register", m) /\ ~Account(m)
       THEN /\ users' = [users EXCEPT ![m] = 0]
            /\ passwords' = [passwords EXCEPT ![m] = <<0>>]
            /\ Reads(c, "register", m)
       ELSE UNCHANGED <<users, passwords, doing>>
  /\ UNCHANGED <<now, tokens>>

\* The commit expired the row: the token claims what it says by then.
RegisterEnds(c) ==
  /\ doing[c].at = "register"
  /\ Mint("register", doing[c].user, users[doing[c].user], doing[c].password)
  /\ Done(c) /\ UNCHANGED <<now, buckets, users, passwords, hits>>

\* login verifies the password against the row it read, forgot_password reads
\* whose password to forget: the token of either claims the second of that row.
Asks(c, flow, m) ==
  /\ Unused(c) /\ CheckLimit(flow, m) /\ UNCHANGED <<now, users, tokens, passwords>>
  /\ \/ Allowed(flow, m) /\ Account(m) /\ Reads(c, flow, m)
     \/ (flow = "login" \/ ~Allowed(flow, m) \/ ~Account(m)) /\ UNCHANGED doing

Login(c, m) == Asks(c, "login", m)
Forgot(c, m) == Asks(c, "forgot", m)

Signs(c) ==
  /\ doing[c].at \in {"login", "forgot"}
  /\ Mint(doing[c].at, doing[c].user, doing[c].seen, doing[c].password)
  /\ Done(c) /\ UNCHANGED <<now, buckets, users, passwords, hits>>

\* change_password and reset_password check a token of their scope against the
\* row, hash the password, stamp it, and write the row at their commit.
Admit(c, scope) ==
  /\ Unused(c) /\ UNCHANGED <<now, buckets, users, tokens, passwords, hits>>
  /\ \E t \in tokens : Valid(t, scope) /\ Reads(c, "change", t.user)

Change(c) ==
  /\ doing[c].at = "change" /\ Len(passwords[doing[c].user]) < MaxPasswords
  /\ \E second \in doing[c].since .. now :
       /\ users' = [users EXCEPT ![doing[c].user] = second]
       /\ passwords' = [passwords EXCEPT ![doing[c].user] = Append(@, second)]
  /\ Done(c) /\ UNCHANGED <<now, buckets, tokens, hits>>

Second ==
  /\ now < LastSecond /\ now' = now + 1
  /\ tokens' = {t \in tokens : t.expires > now + 1}
  /\ UNCHANGED <<buckets, users, doing, passwords, hits>>

AccessInit ==
  /\ now = 1 /\ buckets = [f \in Flows |-> <<>>] /\ tokens = {}
  /\ users = [m \in Mails |-> NoAccount] /\ passwords = [m \in Mails |-> <<>>]
  /\ doing = [c \in Callers |-> Idle]
  /\ hits = [f \in Flows |-> [m \in Mails |-> <<>>]]

AccessNext ==
  \/ \E c \in Callers, m \in Mails : Register(c, m) \/ Login(c, m) \/ Forgot(c, m)
  \/ \E c \in Callers : RegisterEnds(c) \/ Signs(c) \/ Change(c)
  \/ \E c \in Callers, scope \in {"access", "password_reset"} : Admit(c, scope)
  \/ Second

AccessSpec == AccessInit /\ [][AccessNext]_accessVars

-----------------------------------------------------------------------------
(* Properties. *)

\* No window holds more accepted hits of a key than the limit, for a key that
\* was not evicted meanwhile.
LimitHolds ==
  \A f \in Flows, m \in Mails :
    Cardinality({i \in DOMAIN hits[f][m] : hits[f][m][i] + Window > now}) <= MaxHits

\* A password ends the sessions and the links earned with the ones before it:
\* what get_current_user and reset_password accept was earned with a password of
\* the same second as the current one, although a login reads the row before a
\* change commits and mints after it, and changes commit out of order.  A
\* registration is left out: it reads its row anew for its token.
SessionsEndWithPassword ==
  \A t \in tokens : \A scope \in {"access", "password_reset"} :
    Valid(t, scope) /\ t.flow # "register"
      => passwords[t.user][t.password] = users[t.user]
=============================================================================
