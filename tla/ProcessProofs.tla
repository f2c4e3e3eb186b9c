---------------------------- MODULE ProcessProofs -----------------------------
(*****************************************************************************)
(* Proofs about the state that requests and jobs share inside one process:   *)
(* the tokens and limits of Access, the caches of Extraction and HealthCache, *)
(* the clients of HttpClients and the quota of EmbeddingGateway.             *)
(*****************************************************************************)
EXTENDS Access, Extraction, HealthCache, HttpClients, EmbeddingGateway,
  SequenceTheorems, FiniteSetTheorems, TLAPS

-----------------------------------------------------------------------------
(* Access, for any addresses, any number of requests at a time, any lifetime *)
(* of tokens and any number of them: a password ends what was earned before. *)

USE AccessAssumption

\* What a request holds from its read to its end.
Held(r, pw) ==
  /\ r.at \in {"register", "login", "forgot", "change"} /\ r.user \in Mails
  /\ r.since \in Nat /\ r.password \in DOMAIN pw[r.user]
  /\ r.at # "register" => pw[r.user][r.password] = r.seen

\* What a token was earned with, and that it claims the second of just that.
Earned(t, pw) ==
  /\ t.user \in Mails /\ t.password \in DOMAIN pw[t.user]
  /\ t.flow # "register" => t.claim = pw[t.user][t.password]

\* The row of an account carries the second of its newest password.
Current(m) ==
  IF Account(m) THEN passwords[m] # <<>> /\ users[m] = passwords[m][Len(passwords[m])]
  ELSE passwords[m] = <<>>

Claims ==
  /\ now \in Nat /\ now <= LastSecond
  /\ users \in [Mails -> Nat] /\ passwords \in [Mails -> Seq(Nat)]
  /\ DOMAIN doing = Callers
  /\ \A m \in Mails : Current(m)
  /\ \A c \in Callers : doing[c] = Idle \/ Held(doing[c], passwords)
  /\ \A t \in tokens : Earned(t, passwords)

-----------------------------------------------------------------------------
\* A new password goes to the end and leaves the others where they are.
LEMMA NewPassword ==
  ASSUME NEW s \in Seq(Nat), NEW moment \in Nat
  PROVE  /\ Append(s, moment) \in Seq(Nat) /\ Append(s, moment) # <<>>
         /\ Append(s, moment)[Len(Append(s, moment))] = moment
         /\ \A p \in DOMAIN s : p \in DOMAIN Append(s, moment) /\ Append(s, moment)[p] = s[p]
<1>1. /\ Append(s, moment) \in Seq(Nat)
      /\ Len(Append(s, moment)) = Len(s) + 1
      /\ \A i \in 1 .. Len(s) : Append(s, moment)[i] = s[i]
      /\ Append(s, moment)[Len(s) + 1] = moment
  BY AppendProperties
<1>2. Len(s) \in Nat /\ DOMAIN s = 1 .. Len(s)
  BY LenProperties
<1>3. DOMAIN Append(s, moment) = 1 .. Len(s) + 1
  BY <1>1, LenProperties
<1>4. Append(s, moment) # <<>>
  BY AppendProperties
<1> QED
  BY <1>1, <1>2, <1>3, <1>4

\* A password that keeps its place keeps what requests and tokens hold.
Grown(old, new) ==
  \A m \in Mails : \A p \in DOMAIN old[m] : p \in DOMAIN new[m] /\ new[m][p] = old[m][p]

\* What a request held before it holds after; what it reads now it holds too.
LEMMA StillHeld ==
  ASSUME NEW old, NEW new, Grown(old, new)
  PROVE  /\ \A r : Held(r, old) => Held(r, new)
         /\ \A t : Earned(t, old) => Earned(t, new)
BY DEF Held, Earned, Grown

\* The request of a caller begins or ends while the others go on.
LEMMA OneRequest ==
  ASSUME Claims, Grown(passwords, passwords'), NEW c \in Callers, NEW r,
         r = Idle \/ Held(r, passwords'), doing' = [doing EXCEPT ![c] = r]
  PROVE  DOMAIN doing' = Callers /\ \A d \in Callers : doing'[d] = Idle \/ Held(doing'[d], passwords')
BY StillHeld DEF Claims

\* A request that mints hands out what it earned.
LEMMA MintEarned ==
  ASSUME Claims, NEW flow, NEW user \in Mails, NEW claim, NEW password \in DOMAIN passwords[user],
         flow # "register" => claim = passwords[user][password], Mint(flow, user, claim, password)
  PROVE  \A t \in tokens' : Earned(t, passwords)
BY DEF Mint, Claims, Earned

\* What was read of an account is its newest password.
LEMMA NewestHeld ==
  ASSUME NEW m \in Mails, NEW pw, pw[m] \in Seq(Nat), pw[m] # <<>>,
         NEW step \in {"register", "login", "forgot", "change"}, NEW seen, NEW since \in Nat,
         seen = pw[m][Len(pw[m])]
  PROVE  Held([at |-> step, user |-> m, seen |-> seen, password |-> Len(pw[m]), since |-> since], pw)
<1>1. Len(pw[m]) \in DOMAIN pw[m]
  BY LenProperties, EmptySeq
<1> QED
  BY <1>1 DEF Held

\* At the start there is no account, no request and no token.
LEMMA ClaimsInit == AccessInit => Claims
BY DEF AccessInit, Claims, Current, Account, NoAccount, Idle

\* Every step keeps the claims.
LEMMA ClaimsStep == Claims /\ [AccessNext]_accessVars => Claims'
<1> SUFFICES ASSUME Claims, [AccessNext]_accessVars PROVE Claims'
  OBVIOUS
<1> DEFINE Settled == /\ now' = now /\ users' = users /\ passwords' = passwords
<1>0. now \in Nat /\ now <= LastSecond /\ LastSecond \in Nat
  BY DEF Claims
<1>1. CASE UNCHANGED accessVars
  BY <1>1 DEF accessVars, Claims, Current, Account
<1>2. ASSUME NEW c \in Callers, NEW r, r = Idle \/ Held(r, passwords), Settled,
             doing' = [doing EXCEPT ![c] = r], \A t \in tokens' : Earned(t, passwords)
      PROVE  Claims'
  <2>1. Grown(passwords, passwords')
    BY <1>2 DEF Grown
  <2>2. DOMAIN doing' = Callers /\ \A d \in Callers : doing'[d] = Idle \/ Held(doing'[d], passwords')
    BY <1>2, <2>1, OneRequest
  <2> QED
    BY <1>2, <2>2 DEF Claims, Current, Account
<1>3. ASSUME NEW c \in Callers, NEW m \in Mails, Register(c, m) PROVE Claims'
  <2>1. CASE UNCHANGED <<users, passwords, doing>>
    BY <1>3, <2>1 DEF Register, Claims, Current, Account
  <2>2. CASE /\ ~Account(m) /\ users' = [users EXCEPT ![m] = 0]
             /\ passwords' = [passwords EXCEPT ![m] = <<0>>] /\ Reads(c, "register", m)
    <3>1. passwords[m] = <<>>
      BY <2>2 DEF Claims, Current
    <3>2. Grown(passwords, passwords')
      BY <2>2, <3>1 DEF Grown, Claims
    <3>3. /\ passwords'[m] = <<0>> /\ users'[m] = 0 /\ <<0>> \in Seq(Nat) /\ <<0>> # <<>>
          /\ <<0>>[Len(<<0>>)] = 0
      BY <2>2 DEF Claims
    <3> DEFINE r == [at |-> "register", user |-> m, seen |-> users'[m],
                     password |-> Len(passwords'[m]), since |-> now]
    <3>4. Held(r, passwords')
      BY <1>0, <3>3, NewestHeld
    <3>5. doing' = [doing EXCEPT ![c] = r]
      BY <2>2 DEF Reads
    <3> HIDE DEF r
    <3>6. DOMAIN doing' = Callers /\ \A d \in Callers : doing'[d] = Idle \/ Held(doing'[d], passwords')
      BY <3>2, <3>4, <3>5, OneRequest
    <3>7. \A n \in Mails : Current(n)'
      BY <1>0, <2>2, <3>3 DEF Current, Account, NoAccount, Claims
    <3>8. \A t \in tokens' : Earned(t, passwords')
      BY <1>3, <3>2, StillHeld DEF Register, Claims
    <3>9. users' \in [Mails -> Nat] /\ passwords' \in [Mails -> Seq(Nat)]
      BY <2>2, <3>3 DEF Claims
    <3> QED
      BY <1>3, <3>6, <3>7, <3>8, <3>9 DEF Register, Claims
  <2> QED
    BY <1>3, <2>1, <2>2 DEF Register
<1>4. ASSUME NEW c \in Callers, RegisterEnds(c) PROVE Claims'
  <2>1. Held(doing[c], passwords)
    BY <1>4 DEF RegisterEnds, Claims, Idle
  <2>2. \A t \in tokens' : Earned(t, passwords)
    BY <1>4, <2>1, MintEarned DEF RegisterEnds, Held
  <2> QED
    BY <1>2, <1>4, <2>2 DEF RegisterEnds, Done
<1>5. ASSUME NEW c \in Callers, NEW m \in Mails, NEW flow \in {"login", "forgot"}, Asks(c, flow, m)
      PROVE  Claims'
  <2>1. CASE UNCHANGED doing
    BY <1>5, <2>1 DEF Asks, Claims, Current, Account
  <2>2. CASE Account(m) /\ Reads(c, flow, m)
    <3> DEFINE r == [at |-> flow, user |-> m, seen |-> users'[m],
                     password |-> Len(passwords'[m]), since |-> now]
    <3>1. Held(r, passwords')
      BY <1>0, <1>5, <2>2, NewestHeld DEF Asks, Claims, Current
    <3>2. doing' = [doing EXCEPT ![c] = r]
      BY <2>2 DEF Reads
    <3> HIDE DEF r
    <3> QED
      BY <1>2, <1>5, <3>1, <3>2 DEF Asks, Claims
  <2> QED
    BY <1>5, <2>1, <2>2 DEF Asks
<1>6. ASSUME NEW c \in Callers, Signs(c) PROVE Claims'
  <2>1. Held(doing[c], passwords) /\ doing[c].at # "register"
    BY <1>6 DEF Signs, Claims, Idle
  <2>2. \A t \in tokens' : Earned(t, passwords)
    BY <1>6, <2>1, MintEarned DEF Signs, Held
  <2> QED
    BY <1>2, <1>6, <2>2 DEF Signs, Done
<1>7. ASSUME NEW c \in Callers, NEW scope \in {"access", "password_reset"}, Admit(c, scope)
      PROVE  Claims'
  <2>1. PICK t \in tokens : Valid(t, scope) /\ Reads(c, "change", t.user)
    BY <1>7 DEF Admit
  <2>2. t.user \in Mails /\ Account(t.user)
    BY <2>1 DEF Valid, Account, Claims, Earned
  <2> DEFINE r == [at |-> "change", user |-> t.user, seen |-> users'[t.user],
                   password |-> Len(passwords'[t.user]), since |-> now]
  <2>3. Held(r, passwords')
    BY <1>0, <1>7, <2>2, NewestHeld DEF Admit, Claims, Current
  <2>4. doing' = [doing EXCEPT ![c] = r]
    BY <2>1 DEF Reads
  <2> HIDE DEF r
  <2> QED
    BY <1>2, <1>7, <2>3, <2>4 DEF Admit, Claims
<1>8. ASSUME NEW c \in Callers, Change(c) PROVE Claims'
  <2>1. Held(doing[c], passwords)
    BY <1>8 DEF Change, Claims, Idle
  <2>2. PICK m \in Mails : m = doing[c].user /\ doing[c].since \in Nat
    BY <2>1 DEF Held
  <2>3. PICK moment \in doing[c].since .. now :
          /\ users' = [users EXCEPT ![m] = moment]
          /\ passwords' = [passwords EXCEPT ![m] = Append(@, moment)]
    BY <1>8, <2>2 DEF Change
  <2>4. moment \in Nat /\ moment <= now
    BY <1>0, <2>2, <2>3
  <2>5. /\ passwords'[m] \in Seq(Nat) /\ passwords'[m] # <<>>
        /\ passwords'[m][Len(passwords'[m])] = moment
        /\ \A p \in DOMAIN passwords[m] : p \in DOMAIN passwords'[m]
                                          /\ passwords'[m][p] = passwords[m][p]
    <3>1. passwords[m] \in Seq(Nat) /\ passwords'[m] = Append(passwords[m], moment)
      BY <2>2, <2>3 DEF Claims
    <3> QED
      BY <2>4, <3>1, NewPassword
  <2>6. \A n \in Mails \ {m} : passwords'[n] = passwords[n] /\ users'[n] = users[n]
    BY <2>3 DEF Claims
  <2>7. Grown(passwords, passwords')
    BY <2>5, <2>6 DEF Grown
  <2>8. DOMAIN doing' = Callers /\ \A d \in Callers : doing'[d] = Idle \/ Held(doing'[d], passwords')
    BY <1>8, <2>7, OneRequest DEF Change, Done
  <2>9. \A n \in Mails : Current(n)'
    <3>1. users'[m] = moment /\ Account(m)'
      BY <1>0, <2>2, <2>3, <2>4 DEF Claims, Account, NoAccount
    <3> QED
      BY <2>2, <2>5, <2>6, <3>1 DEF Current, Account, Claims
  <2>10. \A t \in tokens' : Earned(t, passwords')
    BY <1>8, <2>7, StillHeld DEF Change, Claims
  <2>11. users' \in [Mails -> Nat] /\ passwords' \in [Mails -> Seq(Nat)]
    BY <2>2, <2>3, <2>4, <2>5, <2>6 DEF Claims
  <2> QED
    BY <1>8, <2>8, <2>9, <2>10, <2>11 DEF Change, Claims
<1>9. CASE Second
  BY <1>9 DEF Second, Claims, Current, Account
<1> QED
  BY <1>1, <1>3, <1>4, <1>5, <1>6, <1>7, <1>8, <1>9 DEF AccessNext, Login, Forgot

-----------------------------------------------------------------------------
\* What get_current_user or reset_password accepts was earned with a password of
\* the second of the current one, whichever logins, links and changes overlapped.
THEOREM OldTokensExpire == AccessSpec => []SessionsEndWithPassword
<1>1. Claims => SessionsEndWithPassword
  BY DEF Claims, SessionsEndWithPassword, Valid, Earned
<1> QED
  BY <1>1, ClaimsInit, ClaimsStep, PTL DEF AccessSpec

HIDE AccessAssumption

-----------------------------------------------------------------------------
(* The limiter: whatever is evicted, no window holds more hits than allowed. *)

UpTo(T, x) == {y \in T : y <= x}

\* Every set of numbers that is not empty has a least one: of the finite sets
\* of numbers up to a member, one is minimal.
LEMMA LeastElement ==
  ASSUME NEW T \in SUBSET Nat, T # {}
  PROVE  \E x \in T : \A y \in T : x <= y
<1> DEFINE Parts == {UpTo(T, x) : x \in T}
           Smaller == StrictSubsetOrdering(Nat)
<1>1. \A x \in T : UpTo(T, x) \in FiniteSubsetsOf(Nat)
  <2> SUFFICES ASSUME NEW x \in T PROVE UpTo(T, x) \in FiniteSubsetsOf(Nat)
    OBVIOUS
  <2>1. UpTo(T, x) \in SUBSET Nat /\ x \in Nat /\ \A s \in UpTo(T, x) : s <= x
    BY DEF UpTo
  <2>2. IsFiniteSet(UpTo(T, x))
    BY <2>1, FS_BoundedSetOfNaturals
  <2> QED
    BY <2>1, <2>2 DEF FiniteSubsetsOf
<1>2. IsWellFoundedOn(Smaller, FiniteSubsetsOf(Nat))
  BY FS_StrictSubsetOrderingWellFounded
<1>3. Parts \subseteq FiniteSubsetsOf(Nat) /\ Parts # {}
  BY <1>1
<1>4. PICK U \in Parts : \A V \in Parts : <<V, U>> \notin Smaller
  <2> HIDE DEF Parts, Smaller
  <2> QED
    BY <1>2, <1>3, WFMin
<1>5. PICK x \in T : U = UpTo(T, x)
  OBVIOUS
<1>6. ASSUME NEW y \in T, ~(x <= y) PROVE FALSE
  <2>1. T \subseteq Nat /\ x \in Nat /\ y \in Nat /\ y < x
    BY <1>6
  <2>2. UpTo(T, y) \subseteq UpTo(T, x) /\ x \in UpTo(T, x) /\ x \notin UpTo(T, y)
    <3>1. \A z \in Nat : z <= y => z <= x
      BY <2>1
    <3>2. x <= x /\ ~(x <= y)
      BY <2>1
    <3> QED
      BY <2>1, <3>1, <3>2 DEF UpTo
  <2>3. UpTo(T, x) \subseteq Nat /\ UpTo(T, y) \subseteq Nat
    BY DEF UpTo
  <2>4. <<UpTo(T, y), U>> \in Smaller
    BY <2>2, <2>3, <1>5 DEF StrictSubsetOrdering
  <2> QED
    BY <2>4, <1>4
<1> QED
  BY <1>6

-----------------------------------------------------------------------------
Hits == Seq(Nat)
Pairs == Mails \X Hits

\* A bucket holds the youngest hits of its log, and the rest left the window.
Tails(times, log, at) ==
  \E a \in Nat : /\ Len(log) = a + Len(times)
                 /\ \A i \in 1 .. Len(times) : times[i] = log[a + i]
                 /\ \A i \in 1 .. a : log[i] + Window <= at

\* What a key's bucket and its log are to each other at some time.
Agrees(times, log, at) ==
  times \in Hits /\ Len(times) <= MaxHits /\ Tails(times, log, at)

Distinct(b) == \A i, j \in DOMAIN b : b[i][1] = b[j][1] => i = j

\* A flow: keys that differ, and each bucket agrees with the log of its key; a
\* key without a bucket has an empty log.
FlowAgrees(f) ==
  /\ Distinct(buckets[f])
  /\ \A i \in DOMAIN buckets[f] : Agrees(buckets[f][i][2], hits[f][buckets[f][i][1]], now)
  /\ \A m \in Mails : m \notin Keys(buckets[f]) => hits[f][m] = <<>>

Limits ==
  /\ now \in Nat
  /\ buckets \in [Flows -> Seq(Pairs)]
  /\ hits \in [Flows -> [Mails -> Hits]]
  /\ \A f \in Flows : FlowAgrees(f)

\* Pruning drops hits that left the window, from the old end.
LEMMA PrunedDrops ==
  ASSUME now \in Nat, NEW times \in Hits
  PROVE  \E n \in 0 .. Len(times) : /\ Pruned(times) = SubSeq(times, n + 1, Len(times))
                                    /\ \A i \in 1 .. n : Left(times[i])
<1> DEFINE P(n) == /\ \A i \in 1 .. n : Left(times[i])
                   /\ n < Len(times) => ~Left(times[n + 1])
           T == {n \in 0 .. Len(times) : n = Len(times) \/ ~Left(times[n + 1])}
<1>1. Len(times) \in Nat
  BY LenProperties DEF Hits
<1>2. PICK x \in T : \A y \in T : x <= y
  <2>1. T \subseteq Nat /\ Len(times) \in T
    BY <1>1
  <2> QED
    BY <2>1, LeastElement
<1>3. P(x)
  <2>1. ASSUME NEW i \in 1 .. x PROVE Left(times[i])
    <3>1. i - 1 \in 0 .. Len(times) /\ i - 1 # Len(times) /\ ~(x <= i - 1) /\ (i - 1) + 1 = i
      BY <1>1
    <3>2. i - 1 \notin T
      BY <1>2, <3>1
    <3> QED
      BY <3>1, <3>2
  <2> QED
    BY <1>1, <1>2, <2>1
<1>4. \E n \in 0 .. Len(times) : P(n)
  BY <1>2, <1>3
<1> DEFINE n == CHOOSE n \in 0 .. Len(times) : P(n)
<1>5. n \in 0 .. Len(times) /\ P(n)
  BY <1>4
<1>6. Pruned(times) = SubSeq(times, n + 1, Len(times))
  BY DEF Pruned
<1> HIDE DEF n
<1> QED
  BY <1>5, <1>6

\* What is left of a bucket by pruning still agrees with its log.
LEMMA PrunedAgrees ==
  ASSUME now \in Nat, NEW times \in Hits, NEW log \in Hits, Agrees(times, log, now)
  PROVE  Agrees(Pruned(times), log, now)
<1>1. PICK n \in 0 .. Len(times) : /\ Pruned(times) = SubSeq(times, n + 1, Len(times))
                                   /\ \A i \in 1 .. n : Left(times[i])
  BY PrunedDrops
<1>2. PICK a \in Nat : /\ Len(log) = a + Len(times)
                       /\ \A i \in 1 .. Len(times) : times[i] = log[a + i]
                       /\ \A i \in 1 .. a : Left(log[i])
  BY DEF Agrees, Tails, Left
<1>3. Len(times) \in Nat /\ Len(log) \in Nat /\ \A i \in 1 .. Len(times) : times[i] \in Nat
  BY LenProperties, ElementOfSeq DEF Hits
<1> DEFINE rest == SubSeq(times, n + 1, Len(times))
<1>4. /\ rest \in Seq(Nat) /\ Len(rest) = Len(times) - n
      /\ \A i \in 1 .. Len(times) - n : rest[i] = times[n + i]
  <2>1. \A j \in n + 1 .. Len(times) : times[j] \in Nat
    BY <1>3
  <2>2. /\ rest \in Seq(Nat)
        /\ Len(rest) = IF n + 1 <= Len(times) THEN Len(times) - (n + 1) + 1 ELSE 0
        /\ \A j \in 1 .. Len(times) - (n + 1) + 1 : rest[j] = times[n + 1 + j - 1]
    <3>1. n + 1 \in Int /\ Len(times) \in Int
      BY <1>3
    <3> HIDE DEF rest
    <3>2. QED
      BY <2>1, <3>1, SubSeqProperties DEF rest
  <2> QED
    BY <1>3, <2>2
<1> HIDE DEF rest
<1>5. ASSUME NEW i \in 1 .. a + n PROVE Left(log[i])
  <2>1. CASE i <= a
    BY <1>2, <2>1
  <2>2. CASE i > a
    <3>1. i - a \in 1 .. n /\ i - a \in 1 .. Len(times) /\ a + (i - a) = i
      BY <1>3, <2>2
    <3> QED
      BY <1>1, <1>2, <3>1
  <2> QED
    BY <2>1, <2>2
<1>6. \A i \in 1 .. Len(rest) : rest[i] = log[(a + n) + i]
  <2> SUFFICES ASSUME NEW i \in 1 .. Len(rest) PROVE rest[i] = log[(a + n) + i]
    OBVIOUS
  <2>1. n + i \in 1 .. Len(times) /\ a + (n + i) = (a + n) + i /\ i \in 1 .. Len(times) - n
    BY <1>3, <1>4
  <2> QED
    BY <1>2, <1>4, <2>1
<1>7. a + n \in Nat /\ Len(log) = (a + n) + Len(rest) /\ Len(rest) <= MaxHits
  <2>1. /\ a \in Nat /\ n \in Nat /\ n <= Len(times) /\ Len(times) \in Nat
        /\ Len(times) <= MaxHits /\ MaxHits \in Nat
    BY <1>3, AccessAssumption DEF Agrees
  <2>2. Len(rest) = Len(times) - n
    BY <1>4
  <2>3. Len(log) = a + Len(times)
    BY <1>2
  <2> QED
    BY <2>1, <2>2, <2>3
<1>8. Tails(rest, log, now)
  BY <1>5, <1>6, <1>7 DEF Tails, Left
<1> QED
  BY <1>1, <1>4, <1>7, <1>8 DEF rest, Agrees, Hits

\* A hit that is let through goes to the bucket and to the log.
LEMMA AppendAgrees ==
  ASSUME now \in Nat, NEW times \in Hits, NEW log \in Hits,
         Agrees(times, log, now), Len(times) < MaxHits
  PROVE  Agrees(Append(times, now), Append(log, now), now)
<1> DEFINE young == Append(times, now)
           long == Append(log, now)
<1>1. Len(times) \in Nat /\ Len(log) \in Nat
  BY LenProperties DEF Hits
<1>2. /\ young \in Seq(Nat) /\ Len(young) = Len(times) + 1
      /\ \A i \in 1 .. Len(times) : young[i] = times[i]
      /\ young[Len(times) + 1] = now
  BY AppendProperties DEF Hits
<1>3. /\ Len(long) = Len(log) + 1 /\ \A i \in 1 .. Len(log) : long[i] = log[i]
      /\ long[Len(log) + 1] = now
  BY AppendProperties DEF Hits
<1> HIDE DEF young, long
<1>4. PICK a \in Nat : /\ Len(log) = a + Len(times)
                       /\ \A i \in 1 .. Len(times) : times[i] = log[a + i]
                       /\ \A i \in 1 .. a : Left(log[i])
  BY DEF Agrees, Tails, Left
<1>5. ASSUME NEW i \in 1 .. Len(young) PROVE young[i] = long[a + i]
  <2>1. CASE i = Len(times) + 1
    <3>1. a + i = Len(log) + 1
      BY <1>1, <1>4, <2>1
    <3> QED
      BY <1>2, <1>3, <2>1, <3>1
  <2>2. CASE i # Len(times) + 1
    <3>1. i \in 1 .. Len(times) /\ a + i \in 1 .. Len(log)
      BY <1>1, <1>2, <1>4, <2>2
    <3> QED
      BY <1>2, <1>3, <1>4, <3>1
  <2> QED
    BY <2>1, <2>2
<1>6. ASSUME NEW i \in 1 .. a PROVE Left(long[i])
  <2>1. i \in 1 .. Len(log)
    BY <1>1, <1>4
  <2> QED
    BY <1>3, <1>4, <2>1
<1>7. Len(long) = a + Len(young) /\ Len(young) <= MaxHits
  <2>1. Len(young) = Len(times) + 1 /\ Len(long) = Len(log) + 1
    BY <1>2, <1>3
  <2>2. Len(log) = a + Len(times)
    BY <1>4
  <2> QED
    BY <1>1, <2>1, <2>2, AccessAssumption
<1>8. Tails(young, long, now)
  BY <1>5, <1>6, <1>7 DEF Tails, Left
<1> QED
  BY <1>2, <1>7, <1>8 DEF young, long, Agrees, Hits

\* Where a key is, its bucket is; where it is not, no pair has it.
LEMMA PlaceFinds ==
  ASSUME NEW f \in Flows, NEW k
  PROVE  \/ /\ Place(f, k) = 0
            /\ \A i \in DOMAIN buckets[f] : buckets[f][i][1] # k
         \/ /\ Place(f, k) \in DOMAIN buckets[f]
            /\ buckets[f][Place(f, k)][1] = k
<1> DEFINE at == {i \in DOMAIN buckets[f] : buckets[f][i][1] = k}
<1>1. Place(f, k) = IF at = {} THEN 0 ELSE CHOOSE i \in at : TRUE
  BY DEF Place
<1>2. CASE at = {}
  BY <1>1, <1>2
<1>3. CASE at # {}
  <2>1. (CHOOSE i \in at : TRUE) \in at
    BY <1>3
  <2> QED
    BY <1>1, <1>3, <2>1
<1> QED
  BY <1>2, <1>3

\* What remains of a sequence without one of its elements.
LEMMA RemovedOne ==
  ASSUME NEW S, NEW s \in Seq(S), NEW p \in 1 .. Len(s)
  PROVE  /\ RemoveAt(s, p) \in Seq(S) /\ Len(RemoveAt(s, p)) = Len(s) - 1
         /\ \A i \in 1 .. Len(s) - 1 : RemoveAt(s, p)[i] = s[IF i < p THEN i ELSE i + 1]
<1> DEFINE before == SubSeq(s, 1, p - 1)
           after == SubSeq(s, p + 1, Len(s))
<1>1. Len(s) \in Nat /\ \A j \in 1 .. Len(s) : s[j] \in S
  BY LenProperties, ElementOfSeq
<1>2. /\ before \in Seq(S) /\ Len(before) = p - 1
      /\ \A j \in 1 .. p - 1 : before[j] = s[j]
  <2>1. \A j \in 1 .. p - 1 : s[j] \in S
    BY <1>1
  <2>2. p - 1 \in Int /\ (IF 1 <= p - 1 THEN p - 1 - 1 + 1 ELSE 0) = p - 1
    OBVIOUS
  <2> QED
    BY <2>1, <2>2, SubSeqProperties
<1>3. /\ after \in Seq(S) /\ Len(after) = Len(s) - p
      /\ \A j \in 1 .. Len(s) - p : after[j] = s[p + j]
  <2>1. \A j \in p + 1 .. Len(s) : s[j] \in S
    BY <1>1
  <2>2. /\ after \in Seq(S)
        /\ Len(after) = IF p + 1 <= Len(s) THEN Len(s) - (p + 1) + 1 ELSE 0
        /\ \A j \in 1 .. Len(s) - (p + 1) + 1 : after[j] = s[p + 1 + j - 1]
    <3>1. p + 1 \in Int /\ Len(s) \in Int
      BY <1>1
    <3> HIDE DEF after
    <3> QED
      BY <2>1, <3>1, SubSeqProperties DEF after
  <2> QED
    BY <1>1, <2>2
<1> HIDE DEF before, after
<1>4. RemoveAt(s, p) = before \o after
  BY DEF RemoveAt, before, after
<1>5. /\ before \o after \in Seq(S) /\ Len(before \o after) = Len(before) + Len(after)
      /\ \A i \in 1 .. Len(before) + Len(after) :
           (before \o after)[i] = IF i <= Len(before) THEN before[i] ELSE after[i - Len(before)]
  BY <1>2, <1>3, ConcatProperties
<1>6. ASSUME NEW i \in 1 .. Len(s) - 1
      PROVE  (before \o after)[i] = s[IF i < p THEN i ELSE i + 1]
  <2>1. i \in 1 .. Len(before) + Len(after)
    BY <1>1, <1>2, <1>3
  <2>2. CASE i < p
    <3>1. i <= Len(before) /\ i \in 1 .. p - 1
      BY <1>2, <2>2
    <3> QED
      BY <1>2, <1>5, <2>1, <2>2, <3>1
  <2>3. CASE ~(i < p)
    <3>1. /\ ~(i <= Len(before)) /\ i - Len(before) \in 1 .. Len(s) - p
          /\ p + (i - Len(before)) = i + 1
      BY <1>1, <1>2, <2>3
    <3> QED
      BY <1>3, <1>5, <2>1, <2>3, <3>1
  <2> QED
    BY <2>2, <2>3
<1> QED
  BY <1>1, <1>2, <1>3, <1>4, <1>5, <1>6

\* The pairs of a list are pairs of another one, and its keys differ.
Among(list, b, k) ==
  /\ list \in Seq(Pairs) /\ Distinct(list)
  /\ \A i \in 1 .. Len(list) : \E j \in 1 .. Len(b) : list[i] = b[j] /\ b[j][1] # k

Others(f, k) == IF Place(f, k) = 0 THEN buckets[f] ELSE RemoveAt(buckets[f], Place(f, k))

\* The other buckets of a flow are those of the other keys.
LEMMA OthersAre ==
  ASSUME Limits, NEW f \in Flows, NEW k \in Mails
  PROVE  Among(Others(f, k), buckets[f], k)
<1> DEFINE b == buckets[f]
<1>1. /\ b \in Seq(Pairs) /\ Len(b) \in Nat /\ DOMAIN b = 1 .. Len(b) /\ Distinct(b)
  BY LenProperties DEF Limits, FlowAgrees
<1>2. CASE Place(f, k) = 0
  <2>1. \A i \in 1 .. Len(b) : b[i][1] # k
    BY <1>1, <1>2, PlaceFinds
  <2> QED
    BY <1>1, <1>2, <2>1 DEF Among, Others
<1>3. CASE Place(f, k) # 0
  <2> DEFINE p == Place(f, k)
  <2>1. p \in 1 .. Len(b) /\ b[p][1] = k
    BY <1>1, <1>3, PlaceFinds
  <2> DEFINE rest == RemoveAt(b, p)
             Source(i) == IF i < p THEN i ELSE i + 1
  <2> HIDE DEF p
  <2>2. /\ rest \in Seq(Pairs) /\ Len(rest) = Len(b) - 1
        /\ \A i \in 1 .. Len(b) - 1 : rest[i] = b[Source(i)]
    <3> HIDE DEF b
    <3> QED
      BY <1>1, <2>1, RemovedOne
  <2>3. DOMAIN rest = 1 .. Len(b) - 1
    BY <2>2, LenProperties
  <2> HIDE DEF b, rest
  <2>4. ASSUME NEW i \in 1 .. Len(b) - 1
        PROVE  Source(i) \in 1 .. Len(b) /\ rest[i] = b[Source(i)] /\ b[Source(i)][1] # k
    <3>1. Source(i) \in 1 .. Len(b) /\ Source(i) # p
      BY <1>1, <2>1
    <3>2. b[Source(i)][1] # b[p][1]
      <4> HIDE DEF Source
      <4> QED
        BY <1>1, <2>1, <3>1 DEF Distinct
    <3> QED
      BY <2>1, <2>2, <3>1, <3>2
  <2>5. ASSUME NEW i \in 1 .. Len(b) - 1, NEW j \in 1 .. Len(b) - 1, rest[i][1] = rest[j][1]
        PROVE  i = j
    <3>1. Source(i) \in 1 .. Len(b) /\ Source(j) \in 1 .. Len(b) /\ b[Source(i)][1] = b[Source(j)][1]
      <4> HIDE DEF Source
      <4> QED
        BY <2>4, <2>5
    <3>2. Source(i) = Source(j)
      <4> HIDE DEF Source
      <4> QED
        BY <1>1, <3>1 DEF Distinct
    <3> QED
      BY <1>1, <2>1, <3>2
  <2>6. Distinct(rest)
    BY <2>3, <2>5 DEF Distinct
  <2>7. \A i \in 1 .. Len(rest) : \E j \in 1 .. Len(b) : rest[i] = b[j] /\ b[j][1] # k
    <3> HIDE DEF Source
    <3> QED
      BY <2>2, <2>4
  <2>8. Others(f, k) = rest
    BY <1>3 DEF Others, rest, b, p
  <2> QED
    BY <2>2, <2>6, <2>7, <2>8 DEF Among, b
<1> QED
  BY <1>2, <1>3

OwnPair(f, k) == <<k, IF Allowed(f, k) THEN Append(Pruned(Bucket(f, k)), now)
                  ELSE Pruned(Bucket(f, k))>>

\* After a call the keys of a flow differ, and a pair is the caller's or one of
\* another key that was there.
LEMMA TouchedIs ==
  ASSUME Limits, NEW f \in Flows, NEW k \in Mails, OwnPair(f, k) \in Pairs
  PROVE  /\ Touched(f, k) \in Seq(Pairs) /\ Distinct(Touched(f, k))
         /\ \A i \in DOMAIN Touched(f, k) :
              \/ Touched(f, k)[i] = OwnPair(f, k)
              \/ \E j \in DOMAIN buckets[f] : /\ Touched(f, k)[i] = buckets[f][j]
                                              /\ buckets[f][j][1] # k
<1> DEFINE b == buckets[f]
           o == Others(f, k)
           own == OwnPair(f, k)
           all == Append(o, own)
           start == IF Len(all) > MaxKeys THEN 2 ELSE 1
           t == SubSeq(all, start, Len(all))
<1>1. Touched(f, k) = t
  BY DEF Touched, Others, OwnPair
<1>2. /\ o \in Seq(Pairs) /\ Distinct(o)
      /\ \A i \in 1 .. Len(o) : \E j \in 1 .. Len(b) : o[i] = b[j] /\ b[j][1] # k
  BY OthersAre DEF Among
<1>3. Len(o) \in Nat /\ DOMAIN o = 1 .. Len(o) /\ DOMAIN b = 1 .. Len(b)
  <2>1. b \in Seq(Pairs)
    BY DEF Limits
  <2> QED
    BY <1>2, <2>1, LenProperties
<1>4. own[1] = k
  BY DEF OwnPair
<1> HIDE DEF o, own
<1>5. /\ all \in Seq(Pairs) /\ Len(all) = Len(o) + 1
      /\ \A i \in 1 .. Len(o) : all[i] = o[i]
      /\ all[Len(o) + 1] = own
  BY <1>2, AppendProperties DEF own
<1> HIDE DEF all
<1>6. start \in {1, 2} /\ start <= Len(all) /\ Len(all) \in Nat
  <2>1. Len(all) > MaxKeys => Len(all) >= 2
    BY <1>3, <1>5, AccessAssumption
  <2> QED
    BY <1>3, <1>5, <2>1
<1> HIDE DEF start
<1>7. /\ t \in Seq(Pairs) /\ Len(t) = Len(all) - start + 1
      /\ \A i \in 1 .. Len(all) - start + 1 : t[i] = all[start + i - 1]
  <2>1. \A j \in start .. Len(all) : all[j] \in Pairs
    <3>1. \A j \in 1 .. Len(all) : all[j] \in Pairs
      BY <1>5, ElementOfSeq
    <3> QED
      BY <1>6, <3>1
  <2>2. /\ t \in Seq(Pairs)
        /\ Len(t) = IF start <= Len(all) THEN Len(all) - start + 1 ELSE 0
        /\ \A i \in 1 .. Len(all) - start + 1 : t[i] = all[start + i - 1]
    <3>1. start \in Int /\ Len(all) \in Int
      BY <1>6
    <3> HIDE DEF t
    <3> QED
      BY <2>1, <3>1, SubSeqProperties DEF t
  <2> QED
    BY <1>6, <2>2
<1>8. DOMAIN t = 1 .. Len(all) - start + 1
  BY <1>7, LenProperties
<1> HIDE DEF t
<1>9. ASSUME NEW i \in 1 .. Len(all)
      PROVE  \/ i = Len(o) + 1 /\ all[i] = own
             \/ i \in 1 .. Len(o) /\ all[i] = o[i] /\ o[i][1] # k
  <2>1. i = Len(o) + 1 \/ i \in 1 .. Len(o)
    BY <1>3, <1>5
  <2> QED
    BY <1>2, <1>5, <2>1
<1>10. ASSUME NEW i \in 1 .. Len(all), NEW j \in 1 .. Len(all), all[i][1] = all[j][1]
       PROVE  i = j
  <2>1. CASE i = Len(o) + 1
    BY <1>4, <1>9, <1>10, <2>1
  <2>2. CASE j = Len(o) + 1
    BY <1>4, <1>9, <1>10, <2>2
  <2>3. CASE i \in 1 .. Len(o) /\ j \in 1 .. Len(o)
    BY <1>2, <1>3, <1>5, <1>10, <2>3 DEF Distinct
  <2> QED
    BY <1>9, <2>1, <2>2, <2>3
<1>11. \A i \in DOMAIN t : start + i - 1 \in 1 .. Len(all) /\ t[i] = all[start + i - 1]
  BY <1>6, <1>7, <1>8
<1>12. Distinct(t)
  <2> SUFFICES ASSUME NEW i \in DOMAIN t, NEW j \in DOMAIN t, t[i][1] = t[j][1] PROVE i = j
    BY DEF Distinct
  <2>1. start + i - 1 = start + j - 1
    BY <1>10, <1>11
  <2> QED
    BY <1>6, <1>8, <2>1
<1>13. ASSUME NEW i \in DOMAIN t
       PROVE  t[i] = own \/ \E j \in DOMAIN b : t[i] = b[j] /\ b[j][1] # k
  <2> DEFINE q == start + i - 1
  <2>1. q \in 1 .. Len(all) /\ t[i] = all[q]
    BY <1>11
  <2> HIDE DEF q
  <2>2. CASE q \in 1 .. Len(o) /\ all[q] = o[q]
    BY <1>2, <1>3, <2>1, <2>2
  <2> QED
    BY <1>9, <2>1, <2>2
<1> QED
  BY <1>1, <1>7, <1>12, <1>13 DEF own

\* The bucket a call finds agrees with the log of its key.
LEMMA BucketAgrees ==
  ASSUME Limits, NEW f \in Flows, NEW k \in Mails
  PROVE  Bucket(f, k) \in Hits /\ hits[f][k] \in Hits /\ Agrees(Bucket(f, k), hits[f][k], now)
<1>1. hits[f][k] \in Hits /\ buckets[f] \in Seq(Pairs) /\ FlowAgrees(f)
  BY DEF Limits
<1>2. CASE Place(f, k) = 0
  <2>1. k \notin Keys(buckets[f])
    <3>1. DOMAIN buckets[f] = 1 .. Len(buckets[f]) /\ Len(buckets[f]) \in Nat
      BY <1>1, LenProperties
    <3> QED
      BY <1>2, <3>1, PlaceFinds DEF Keys
  <2>2. hits[f][k] = <<>> /\ Bucket(f, k) = <<>>
    BY <1>1, <1>2, <2>1 DEF FlowAgrees, Bucket
  <2>3. <<>> \in Seq(Nat) /\ Len(<<>>) = 0
    OBVIOUS
  <2>4. Tails(<<>>, <<>>, now)
    <3>1. 0 \in Nat /\ Len(<<>>) = 0 + Len(<<>>) /\ (1 .. 0) = {}
      BY <2>3
    <3> QED
      BY <2>3, <3>1 DEF Tails
  <2> QED
    BY <2>2, <2>3, <2>4, AccessAssumption DEF Agrees, Hits
<1>3. CASE Place(f, k) # 0
  <2>1. Place(f, k) \in DOMAIN buckets[f] /\ buckets[f][Place(f, k)][1] = k
    BY <1>3, PlaceFinds
  <2>2. Bucket(f, k) = buckets[f][Place(f, k)][2]
    BY <1>3 DEF Bucket
  <2> QED
    BY <1>1, <2>1, <2>2 DEF FlowAgrees, Agrees
<1> QED
  BY <1>2, <1>3

\* One call of the limiter keeps every flow.
LEMMA CallLimits ==
  ASSUME Limits, NEW f \in Flows, NEW k \in Mails, CheckLimit(f, k), now' = now
  PROVE  Limits'
<1> DEFINE unspent == Pruned(Bucket(f, k))
           times == IF Allowed(f, k) THEN Append(unspent, now) ELSE unspent
           log == IF Allowed(f, k) THEN Append(hits[f][k], now) ELSE hits[f][k]
           t == Touched(f, k)
<1>1. now \in Nat /\ buckets \in [Flows -> Seq(Pairs)] /\ hits \in [Flows -> [Mails -> Hits]]
  BY DEF Limits
<1>2. hits[f][k] \in Hits /\ unspent \in Hits /\ Agrees(unspent, hits[f][k], now)
  <2>1. Bucket(f, k) \in Hits /\ hits[f][k] \in Hits /\ Agrees(Bucket(f, k), hits[f][k], now)
    BY BucketAgrees
  <2>2. Agrees(unspent, hits[f][k], now)
    BY <1>1, <2>1, PrunedAgrees
  <2> QED
    BY <2>1, <2>2 DEF Agrees
<1>3. times \in Hits /\ log \in Hits /\ Agrees(times, log, now)
  <2>1. CASE Allowed(f, k)
    <3>1. Len(unspent) < MaxHits
      BY <2>1 DEF Allowed
    <3>2. Agrees(Append(unspent, now), Append(hits[f][k], now), now)
      BY <1>1, <1>2, <3>1, AppendAgrees
    <3>3. Append(unspent, now) \in Hits /\ Append(hits[f][k], now) \in Hits
      BY <1>1, <1>2, AppendProperties DEF Hits
    <3> QED
      BY <2>1, <3>2, <3>3
  <2>2. CASE ~Allowed(f, k)
    BY <1>2, <2>2
  <2> QED
    BY <2>1, <2>2
<1>4. OwnPair(f, k) = <<k, times>> /\ OwnPair(f, k) \in Pairs
  BY <1>3 DEF OwnPair, Pairs
<1> HIDE DEF unspent, times, log
<1>5. /\ t \in Seq(Pairs) /\ Distinct(t)
      /\ \A i \in DOMAIN t : \/ t[i] = <<k, times>>
                             \/ \E j \in DOMAIN buckets[f] : t[i] = buckets[f][j] /\ buckets[f][j][1] # k
  BY <1>4, TouchedIs
<1> HIDE DEF t
<1> DEFINE logs == [m \in Mails |-> IF m \notin Keys(t) THEN <<>>
                                    ELSE IF m = k THEN log ELSE hits[f][m]]
<1>6. hits' = [hits EXCEPT ![f] = logs]
  <2>1. logs = [m \in Mails |-> IF m \notin Keys(t) THEN <<>>
                                ELSE IF m = k /\ Allowed(f, k) THEN Append(hits[f][m], now)
                                ELSE hits[f][m]]
    BY DEF log
  <2> QED
    BY <2>1 DEF CheckLimit, t
<1>7. buckets' = [buckets EXCEPT ![f] = t]
  BY DEF CheckLimit, t
<1>8. logs \in [Mails -> Hits]
  <2>1. <<>> \in Hits
    BY DEF Hits
  <2> QED
    BY <1>1, <1>3, <2>1
<1>9. Keys(t) \subseteq Mails /\ \A i \in DOMAIN t : t[i][1] \in Keys(t)
  <2>1. \A i \in DOMAIN t : t[i] \in Pairs
    BY <1>5, ElementOfSeq, LenProperties
  <2> QED
    BY <2>1 DEF Keys, Pairs
<1>10. ASSUME NEW i \in DOMAIN t PROVE Agrees(t[i][2], logs[t[i][1]], now)
  <2>1. t[i][1] \in Mails /\ t[i][1] \in Keys(t)
    BY <1>9
  <2>2. CASE t[i] = <<k, times>>
    <3>1. t[i][1] = k /\ t[i][2] = times
      BY <2>2
    <3> QED
      BY <1>3, <2>1, <3>1
  <2>3. CASE \E j \in DOMAIN buckets[f] : t[i] = buckets[f][j] /\ buckets[f][j][1] # k
    <3>1. PICK j \in DOMAIN buckets[f] : t[i] = buckets[f][j] /\ buckets[f][j][1] # k
      BY <2>3
    <3>2. Agrees(buckets[f][j][2], hits[f][buckets[f][j][1]], now)
      BY DEF Limits, FlowAgrees
    <3>3. logs[t[i][1]] = hits[f][t[i][1]]
      BY <2>1, <3>1
    <3> QED
      BY <3>1, <3>2, <3>3
  <2> QED
    BY <1>5, <2>2, <2>3
<1>11. \A m \in Mails : m \notin Keys(t) => logs[m] = <<>>
  OBVIOUS
<1> HIDE DEF logs
<1>12. buckets'[f] = t /\ hits'[f] = logs
  BY <1>1, <1>6, <1>7
<1>13. FlowAgrees(f)'
  BY <1>5, <1>10, <1>11, <1>12 DEF FlowAgrees, Distinct, Agrees, Tails, Keys
<1>14. ASSUME NEW g \in Flows, g # f PROVE FlowAgrees(g)'
  <2>1. buckets'[g] = buckets[g] /\ hits'[g] = hits[g] /\ FlowAgrees(g)
    BY <1>1, <1>6, <1>7, <1>14 DEF Limits
  <2> QED
    BY <2>1 DEF FlowAgrees, Agrees, Tails, Distinct, Keys
<1>15. /\ now' \in Nat /\ buckets' \in [Flows -> Seq(Pairs)]
       /\ hits' \in [Flows -> [Mails -> Hits]]
  BY <1>1, <1>5, <1>6, <1>7, <1>8
<1> QED
  BY <1>13, <1>14, <1>15 DEF Limits

\* At the start there is no bucket and no log.
LEMMA LimitsInit == AccessInit => Limits
<1> SUFFICES ASSUME AccessInit PROVE Limits
  OBVIOUS
<1>1. /\ now = 1 /\ buckets = [f \in Flows |-> <<>>]
      /\ hits = [f \in Flows |-> [m \in Mails |-> <<>>]]
  BY DEF AccessInit
<1>2. <<>> \in Seq(Pairs) /\ <<>> \in Hits /\ DOMAIN <<>> = {}
  BY DEF Hits
<1>3. \A f \in Flows : FlowAgrees(f)
  BY <1>1, <1>2 DEF FlowAgrees, Distinct
<1> QED
  BY <1>1, <1>2, <1>3 DEF Limits

\* Every step keeps every flow; time only makes hits leave.
LEMMA LimitsStep == Limits /\ [AccessNext]_accessVars => Limits'
<1> SUFFICES ASSUME Limits, [AccessNext]_accessVars PROVE Limits'
  OBVIOUS
<1>1. ASSUME UNCHANGED <<buckets, hits>>, now' \in Nat, now <= now' PROVE Limits'
  <2>1. ASSUME NEW f \in Flows PROVE FlowAgrees(f)'
    <3>1. FlowAgrees(f) /\ now \in Nat
      BY DEF Limits
    <3>2. ASSUME NEW i \in DOMAIN buckets[f]
          PROVE  Agrees(buckets[f][i][2], hits[f][buckets[f][i][1]], now')
      <4> DEFINE times == buckets[f][i][2]
                 log == hits[f][buckets[f][i][1]]
      <4>1. Agrees(times, log, now) /\ log \in Hits
        <5>1. buckets[f] \in Seq(Pairs)
          BY DEF Limits
        <5>2. buckets[f][i] \in Pairs
          BY <5>1, ElementOfSeq, LenProperties
        <5> QED
          BY <3>1, <5>2 DEF FlowAgrees, Limits, Pairs
      <4> HIDE DEF times, log
      <4>2. PICK a \in Nat : /\ Len(log) = a + Len(times)
                             /\ \A j \in 1 .. Len(times) : times[j] = log[a + j]
                             /\ \A j \in 1 .. a : log[j] + Window <= now
        BY <4>1 DEF Agrees, Tails
      <4>3. ASSUME NEW j \in 1 .. a PROVE log[j] + Window <= now'
        <5>1. j \in 1 .. Len(log) /\ Len(times) \in Nat
          BY <4>1, <4>2, LenProperties DEF Agrees, Hits
        <5>2. log[j] \in Nat
          BY <4>1, <5>1, ElementOfSeq DEF Hits
        <5> QED
          BY <1>1, <3>1, <4>2, <5>2, AccessAssumption
      <4>4. Agrees(times, log, now')
        BY <4>1, <4>2, <4>3 DEF Agrees, Tails
      <4> QED
        BY <4>4 DEF times, log
    <3>3. buckets'[f] = buckets[f] /\ hits'[f] = hits[f]
      BY <1>1
    <3> QED
      BY <3>1, <3>2, <3>3 DEF FlowAgrees, Distinct, Keys
  <2> QED
    BY <1>1, <2>1 DEF Limits
<1>2. now \in Nat
  BY DEF Limits
<1>3. CASE UNCHANGED accessVars
  BY <1>1, <1>2, <1>3 DEF accessVars
<1>4. ASSUME NEW c \in Callers, NEW m \in Mails, Register(c, m) PROVE Limits'
  BY <1>4, CallLimits DEF Register, Flows
<1>5. ASSUME NEW c \in Callers, NEW m \in Mails, Login(c, m) PROVE Limits'
  BY <1>5, CallLimits DEF Login, Asks, Flows
<1>6. ASSUME NEW c \in Callers, NEW m \in Mails, Forgot(c, m) PROVE Limits'
  BY <1>6, CallLimits DEF Forgot, Asks, Flows
<1>7. ASSUME NEW c \in Callers, RegisterEnds(c) \/ Signs(c) \/ Change(c) PROVE Limits'
  BY <1>1, <1>2, <1>7 DEF RegisterEnds, Signs, Change
<1>8. ASSUME NEW c \in Callers, NEW scope \in {"access", "password_reset"}, Admit(c, scope)
      PROVE  Limits'
  BY <1>1, <1>2, <1>8 DEF Admit
<1>9. CASE Second
  BY <1>1, <1>2, <1>9 DEF Second
<1> QED
  BY <1>3, <1>4, <1>5, <1>6, <1>7, <1>8, <1>9 DEF AccessNext

\* The hits of a log in the window are in the bucket, which holds no more than
\* the limit.
LEMMA LimitsHold == Limits => LimitHolds
<1> SUFFICES ASSUME Limits, NEW f \in Flows, NEW m \in Mails
             PROVE  Cardinality({i \in DOMAIN hits[f][m] : hits[f][m][i] + Window > now}) <= MaxHits
  BY DEF LimitHolds
<1> DEFINE log == hits[f][m]
           inside == {i \in DOMAIN log : log[i] + Window > now}
<1>1. FlowAgrees(f) /\ log \in Hits /\ now \in Nat
  BY DEF Limits
<1>2. CASE m \notin Keys(buckets[f])
  <2>1. log = <<>>
    BY <1>1, <1>2 DEF FlowAgrees
  <2>2. inside = {}
    BY <2>1
  <2> QED
    BY <2>2, FS_EmptySet, AccessAssumption
<1>3. CASE m \in Keys(buckets[f])
  <2>1. PICK i \in DOMAIN buckets[f] : buckets[f][i][1] = m
    BY <1>3 DEF Keys
  <2> DEFINE times == buckets[f][i][2]
  <2>2. Agrees(times, log, now)
    BY <1>1, <2>1 DEF FlowAgrees
  <2> HIDE DEF times, log
  <2>3. PICK a \in Nat : /\ Len(log) = a + Len(times)
                         /\ \A j \in 1 .. a : log[j] + Window <= now
    BY <2>2 DEF Agrees, Tails
  <2>4. DOMAIN log = 1 .. Len(log) /\ Len(times) \in Nat /\ Len(times) <= MaxHits
    BY <1>1, <2>2, LenProperties DEF Agrees, Hits
  <2>5. inside \subseteq (a + 1) .. (a + Len(times))
    <3>1. SUFFICES ASSUME NEW j \in 1 .. Len(log), log[j] + Window > now
                   PROVE  j \in (a + 1) .. (a + Len(times))
      BY <2>4
    <3>2. log[j] \in Nat
      BY <1>1, ElementOfSeq DEF Hits
    <3>3. ~(j \in 1 .. a)
      BY <1>1, <2>3, <3>1, <3>2, AccessAssumption
    <3> QED
      BY <2>3, <2>4, <3>3
  <2> HIDE DEF inside
  <2>6. /\ IsFiniteSet((a + 1) .. (a + Len(times)))
        /\ Cardinality((a + 1) .. (a + Len(times))) = Len(times)
    <3>1. /\ IsFiniteSet((a + 1) .. (a + Len(times)))
          /\ Cardinality((a + 1) .. (a + Len(times))) =
               IF a + 1 > a + Len(times) THEN 0 ELSE (a + Len(times)) - (a + 1) + 1
      <4> DEFINE low == a + 1
                 high == a + Len(times)
      <4>1. low \in Int /\ high \in Int
        BY <2>4
      <4> HIDE DEF low, high
      <4>2. /\ IsFiniteSet(low .. high)
            /\ Cardinality(low .. high) = IF low > high THEN 0 ELSE high - low + 1
        BY <4>1, FS_Interval
      <4> QED
        BY <4>2 DEF low, high
    <3> QED
      BY <2>4, <3>1
  <2>7. /\ IsFiniteSet(inside)
        /\ Cardinality(inside) <= Cardinality((a + 1) .. (a + Len(times)))
    BY <2>5, <2>6, FS_Subset
  <2>8. Cardinality(inside) \in Nat
    BY <2>7, FS_CardinalityType
  <2>9. Cardinality(inside) <= MaxHits
    BY <2>4, <2>6, <2>7, <2>8, AccessAssumption
  <2> QED
    BY <2>9 DEF inside, log
<1> QED
  BY <1>2, <1>3

-----------------------------------------------------------------------------
\* No window lets more hits of a key through than the limit, however many keys
\* were used meanwhile: the bucket of a key is evicted with its log.
THEOREM LimiterHolds == AccessSpec => []LimitHolds
<1>1. AccessInit => Limits
  BY LimitsInit
<1>2. Limits /\ [AccessNext]_accessVars => Limits'
  BY LimitsStep
<1>3. Limits => LimitHolds
  BY LimitsHold
<1> QED
  BY <1>1, <1>2, <1>3, PTL DEF AccessSpec

-----------------------------------------------------------------------------
(* Extraction: for any number of threads and texts and any size of the cache, *)
(* what the dictionary holds can be evicted.  A page that is held and not listed *)
(* is in the hands of a thread that is about to list it again or to drop it; *)
(* whatever the threads do to the list between two steps of one of them, that *)
(* thread still will.                                                        *)

USE ExtractionAssumption

CacheSteps == {"idle", "calling", "hit", "touch", "set", "replace", "put", "list", "evict", "drop"}

\* The page of a thread inside the cache and the key it drops are texts.
ThreadsTyped ==
  /\ thread \in [Threads -> [step : CacheSteps, page : Pages \union {NotHeld}, tries : Nat,
                             value : {NotHeld, "local", "remote"},
                             old : Pages \union {NotHeld}, asks : Nat]]
  /\ \A t \in Threads : /\ thread[t].step # "idle" => PageIn(t) \in Pages
                        /\ thread[t].step = "drop" => thread[t].old \in Pages

CacheTyped == order \in Seq(Pages) /\ kept \in [Pages -> {NotHeld, "local", "remote"}]

\* This thread will list the page again, or drop it.
InHands(t, p) ==
  \/ thread[t].step \in {"touch", "put", "list"} /\ PageIn(t) = p
  \/ thread[t].step = "drop" /\ thread[t].old = p

Evictable ==
  \A p \in Pages : kept[p] # NotHeld => p \in Range(order) \/ \E t \in Threads : InHands(t, p)

Cached == ThreadsTyped /\ CacheTyped /\ Evictable

-----------------------------------------------------------------------------
(* The list.                                                                 *)

\* Without one of its elements a sequence still has the others.
LEMMA RemovalKeeps ==
  ASSUME NEW S, NEW s \in Seq(S), NEW i \in 1 .. Len(s)
  PROVE  /\ RemoveAt(s, i) \in Seq(S)
         /\ \A q \in Range(s) : q # s[i] => q \in Range(RemoveAt(s, i))
<1> DEFINE before == SubSeq(s, 1, i - 1)
           after == SubSeq(s, i + 1, Len(s))
<1>1. Len(s) \in Nat /\ \A j \in 1 .. Len(s) : s[j] \in S
  BY LenProperties, ElementOfSeq
<1>2. /\ before \in Seq(S) /\ Len(before) = i - 1
      /\ \A j \in 1 .. i - 1 : before[j] = s[j]
  <2>1. \A j \in 1 .. i - 1 : s[j] \in S
    BY <1>1
  <2>2. i - 1 \in Int /\ (IF 1 <= i - 1 THEN i - 1 - 1 + 1 ELSE 0) = i - 1
    OBVIOUS
  <2>3. QED
    BY <2>1, <2>2, SubSeqProperties
<1>3. /\ after \in Seq(S) /\ Len(after) = Len(s) - i
      /\ \A j \in 1 .. Len(s) - i : after[j] = s[i + j]
  <2>1. \A j \in i + 1 .. Len(s) : s[j] \in S
    BY <1>1
  <2>2. /\ after \in Seq(S)
        /\ Len(after) = IF i + 1 <= Len(s) THEN Len(s) - (i + 1) + 1 ELSE 0
        /\ \A j \in 1 .. Len(s) - (i + 1) + 1 : after[j] = s[i + 1 + j - 1]
    <3>1. i + 1 \in Int /\ Len(s) \in Int
      BY <1>1
    <3> HIDE DEF after
    <3>2. QED
      BY <2>1, <3>1, SubSeqProperties DEF after
  <2>3. QED
    BY <1>1, <2>2
<1> HIDE DEF before, after
<1>4. RemoveAt(s, i) = before \o after
  BY DEF RemoveAt, before, after
<1>5. Range(before \o after) = Range(before) \union Range(after)
  BY <1>2, <1>3, RangeConcatenation
<1>6. RemoveAt(s, i) \in Seq(S)
  BY <1>2, <1>3, <1>4, ConcatProperties
<1>7. ASSUME NEW q \in Range(s), q # s[i] PROVE q \in Range(before) \union Range(after)
  <2>1. PICK j \in 1 .. Len(s) : s[j] = q
    BY <1>7, RangeEquality
  <2>2. CASE j < i
    <3>1. j \in 1 .. Len(before) /\ before[j] = q
      BY <1>2, <2>1, <2>2
    <3>2. QED
      BY <1>2, <3>1, RangeEquality
  <2>3. CASE j > i
    <3>1. j - i \in 1 .. Len(after) /\ after[j - i] = q
      BY <1>1, <1>3, <2>1, <2>3
    <3>2. QED
      BY <1>3, <3>1, RangeEquality
  <2>4. QED
    BY <1>7, <2>1, <2>2, <2>3
<1>8. QED
  BY <1>4, <1>5, <1>6, <1>7

\* An appended key is listed, and so is what was.
LEMMA AppendLists ==
  ASSUME NEW S, NEW s \in Seq(S), NEW p \in S
  PROVE  /\ Append(s, p) \in Seq(S)
         /\ p \in Range(Append(s, p)) /\ Range(s) \subseteq Range(Append(s, p))
<1>1. /\ Append(s, p) \in Seq(S) /\ Len(Append(s, p)) = Len(s) + 1
      /\ \A i \in 1 .. Len(s) : Append(s, p)[i] = s[i]
      /\ Append(s, p)[Len(s) + 1] = p
  BY AppendProperties
<1>2. Len(s) \in Nat
  BY LenProperties
<1>3. /\ Range(s) = {s[i] : i \in 1 .. Len(s)}
      /\ Range(Append(s, p)) = {Append(s, p)[i] : i \in 1 .. Len(s) + 1}
  BY <1>1, RangeEquality
<1>4. QED
  BY <1>1, <1>2, <1>3

\* Without its head a list misses no other key.
LEMMA TailMisses ==
  ASSUME NEW S, NEW s \in Seq(S), s # <<>>
  PROVE  /\ Tail(s) \in Seq(S) /\ Head(s) \in S
         /\ \A q \in Range(s) : q = Head(s) \/ q \in Range(Tail(s))
<1>1. /\ Head(s) \in S /\ Tail(s) \in Seq(S) /\ Len(Tail(s)) = Len(s) - 1
      /\ \A i \in 1 .. Len(Tail(s)) : Tail(s)[i] = s[i + 1]
  BY HeadTailProperties
<1>2. Len(s) \in Nat /\ Head(s) = s[1]
  BY LenProperties
<1>3. /\ Range(s) = {s[i] : i \in 1 .. Len(s)}
      /\ Range(Tail(s)) = {Tail(s)[i] : i \in 1 .. Len(s) - 1}
  BY <1>1, RangeEquality
<1>4. ASSUME NEW i \in 1 .. Len(s), i # 1 PROVE s[i] \in Range(Tail(s))
  <2>1. i - 1 \in 1 .. Len(s) - 1 /\ Tail(s)[i - 1] = s[i]
    BY <1>1, <1>2, <1>4
  <2>2. QED
    BY <1>3, <2>1
<1>5. QED
  BY <1>1, <1>2, <1>3, <1>4

-----------------------------------------------------------------------------
(* Threads.                                                                  *)

\* A step of one thread that leaves the list and the dictionary alone and had
\* nothing in its hands.
LEMMA HandsFree ==
  ASSUME Cached, NEW t \in Threads, UNCHANGED <<order, kept>>, ThreadsTyped',
         \A u \in Threads \ {t} : thread'[u] = thread[u],
         thread[t].step \notin {"touch", "put", "list", "drop"}
  PROVE  Cached'
<1>1. CacheTyped'
  BY DEF Cached, CacheTyped
<1>2. \A u \in Threads, p \in Pages : InHands(u, p) => InHands(u, p)'
  BY DEF InHands, PageIn
<1>3. Evictable'
  BY <1>2 DEF Cached, Evictable
<1>4. QED
  BY <1>1, <1>3 DEF Cached

\* What a thread that rests looks like.
LEMMA RestIsTyped ==
  ASSUME NEW n \in Nat
  PROVE  /\ Resting(n) \in [step : CacheSteps, page : Pages \union {NotHeld}, tries : Nat,
                            value : {NotHeld, "local", "remote"},
                            old : Pages \union {NotHeld}, asks : Nat]
         /\ Resting(n).step = "idle"
  BY DEF Resting, CacheSteps

\* A thread keeps its types when it returns.
LEMMA ReturnsTyped ==
  ASSUME Cached, NEW t \in Threads, Returns(t)
  PROVE  /\ ThreadsTyped' /\ thread'[t].step = "idle"
         /\ \A u \in Threads \ {t} : thread'[u] = thread[u]
<1>1. thread[t].asks \in Nat
  BY DEF Cached, ThreadsTyped
<1>2. thread' = [thread EXCEPT ![t] = Resting(thread[t].asks)]
  BY DEF Returns
<1>3. QED
  BY <1>1, <1>2, RestIsTyped DEF Cached, ThreadsTyped, PageIn

\* Likewise when it goes on with the page that it has.
LEMMA GoesTyped ==
  ASSUME Cached, NEW t \in Threads, NEW s \in CacheSteps \ {"idle", "drop"}, Goes(t, s),
         thread[t].step # "idle"
  PROVE  /\ ThreadsTyped' /\ thread'[t].step = s /\ PageIn(t)' = PageIn(t)
         /\ \A u \in Threads \ {t} : thread'[u] = thread[u]
  BY DEF Cached, ThreadsTyped, Goes, PageIn

\* And when it has something to keep.
LEMMA KeepsTyped ==
  ASSUME Cached, NEW t \in Threads, NEW v \in {"local", "remote"}, Keeps(t, v),
         thread[t].step # "idle"
  PROVE  ThreadsTyped' /\ \A u \in Threads \ {t} : thread'[u] = thread[u]
  BY ZenonT(60) DEF Cached, ThreadsTyped, Keeps, PageIn, CacheSteps

\* The first state: nothing is held.
LEMMA StartCached == ExtractionInit => Cached
<1> SUFFICES ASSUME ExtractionInit PROVE Cached
  OBVIOUS
<1>1. ThreadsTyped
  BY RestIsTyped DEF ExtractionInit, ThreadsTyped
<1>2. CacheTyped /\ Evictable
  BY DEF ExtractionInit, CacheTyped, Evictable
<1>3. QED
  BY <1>1, <1>2 DEF Cached

-----------------------------------------------------------------------------
(* CacheSteps.                                                                    *)

\* Before anything is put: the call and the look at the dictionary.
LEMMA CallCached ==
  ASSUME Cached, NEW t \in Threads,
         \/ \E p \in Pages : Ask(t, p)
         \/ RateLimited(t) \/ GoesLocal(t) \/ LooksFor(t)
         \/ \E valid \in BOOLEAN : Replies(t, valid)
  PROVE  Cached'
<1>1. ASSUME NEW p \in Pages, Ask(t, p) PROVE Cached'
  <2> DEFINE step == IF kept[p] = NotHeld THEN "calling" ELSE "hit"
  <2>1. /\ thread[t].step = "idle" /\ UNCHANGED <<order, kept>>
        /\ thread' = [thread EXCEPT ![t].step = step, ![t].page = p, ![t].tries = 0,
                                    ![t].asks = @ + 1]
    BY <1>1 DEF Ask, InStep
  <2>2. step \in CacheSteps \ {"idle", "drop"}
    BY DEF CacheSteps
  <2> HIDE DEF step
  <2>3. ThreadsTyped' /\ \A u \in Threads \ {t} : thread'[u] = thread[u]
    BY <2>1, <2>2 DEF Cached, ThreadsTyped, PageIn
  <2>4. QED
    BY <2>1, <2>3, HandsFree
<1>2. CASE RateLimited(t)
  <2>1. /\ ThreadsTyped' /\ thread[t].step = "calling" /\ UNCHANGED <<order, kept>>
        /\ \A u \in Threads \ {t} : thread'[u] = thread[u]
    BY <1>2 DEF RateLimited, InStep, Cached, ThreadsTyped, PageIn
  <2>2. QED
    BY <2>1, HandsFree
<1>3. CASE GoesLocal(t) \/ \E valid \in BOOLEAN : Replies(t, valid)
  <2>1. /\ thread[t].step = "calling" /\ UNCHANGED <<order, kept>>
        /\ Keeps(t, "local") \/ Keeps(t, "remote") \/ Returns(t)
    BY <1>3 DEF GoesLocal, Replies, InStep
  <2>2. ThreadsTyped' /\ \A u \in Threads \ {t} : thread'[u] = thread[u]
    BY <2>1, KeepsTyped, ReturnsTyped
  <2>3. QED
    BY <2>1, <2>2, HandsFree
<1>4. CASE LooksFor(t)
  <2>1. /\ thread[t].step = "set" /\ UNCHANGED <<order, kept>>
        /\ Goes(t, "put") \/ Goes(t, "replace")
    BY <1>4 DEF LooksFor, InStep
  <2>2. ThreadsTyped' /\ \A u \in Threads \ {t} : thread'[u] = thread[u]
    BY <2>1, GoesTyped DEF CacheSteps
  <2>3. QED
    BY <2>1, <2>2, HandsFree
<1>5. QED
  BY <1>1, <1>2, <1>3, <1>4

\* The key that leaves the list stays in the hands of the thread.
LEMMA UnlistCached == ASSUME Cached, NEW t \in Threads, Unlist(t) PROVE Cached'
<1>1. /\ thread[t].step \in {"hit", "replace"} /\ UNCHANGED kept
      /\ Goes(t, "touch") \/ Goes(t, "put")
  BY DEF Unlist, InStep
<1>2. /\ ThreadsTyped' /\ thread'[t].step \in {"touch", "put"} /\ PageIn(t)' = PageIn(t)
      /\ \A u \in Threads \ {t} : thread'[u] = thread[u]
  BY <1>1, GoesTyped DEF CacheSteps
<1>3. order' \in Seq(Pages) /\ \A q \in Range(order) : q # PageIn(t) => q \in Range(order')
  <2>1. CASE UNCHANGED order
    BY <2>1 DEF Cached, CacheTyped
  <2>2. CASE \E i \in DOMAIN order : order[i] = PageIn(t) /\ order' = RemoveAt(order, i)
    <3>1. order \in Seq(Pages) /\ DOMAIN order = 1 .. Len(order)
      BY LenProperties DEF Cached, CacheTyped
    <3>2. QED
      BY <2>2, <3>1, RemovalKeeps
  <2>3. QED
    BY <2>1, <2>2 DEF Unlist
<1>4. \A u \in Threads, p \in Pages : InHands(u, p) => InHands(u, p)'
  BY <1>1, <1>2 DEF InHands, PageIn
<1>5. \A p \in Pages : p = PageIn(t) => InHands(t, p)'
  BY <1>2 DEF InHands
<1>6. Evictable'
  BY <1>1, <1>3, <1>4, <1>5 DEF Cached, Evictable
<1>7. CacheTyped'
  BY <1>1, <1>3 DEF Cached, CacheTyped
<1>8. QED
  BY <1>2, <1>6, <1>7 DEF Cached

\* A key that is listed may leave the hands.
LEMMA ListCached ==
  ASSUME Cached, NEW t \in Threads, TouchEntry(t) \/ Lists(t) PROVE Cached'
<1>1. /\ thread[t].step \in {"touch", "list"} /\ UNCHANGED kept
      /\ order' = Append(order, PageIn(t)) /\ (Returns(t) \/ Goes(t, "evict"))
  BY DEF TouchEntry, Lists, InStep
<1>2. ThreadsTyped' /\ \A u \in Threads \ {t} : thread'[u] = thread[u]
  BY <1>1, ReturnsTyped, GoesTyped DEF CacheSteps
<1>3. PageIn(t) \in Pages /\ order \in Seq(Pages)
  BY <1>1 DEF Cached, CacheTyped, ThreadsTyped
<1>4. /\ order' \in Seq(Pages) /\ PageIn(t) \in Range(order')
      /\ Range(order) \subseteq Range(order')
  BY <1>3, AppendLists DEF TouchEntry, Lists
<1>5. \A u \in Threads, p \in Pages :
        InHands(u, p) => InHands(u, p)' \/ (u = t /\ p = PageIn(t))
  BY <1>1, <1>2 DEF InHands, PageIn
<1>6. Evictable'
  BY <1>1, <1>4, <1>5 DEF Cached, Evictable
<1>7. CacheTyped'
  BY <1>1, <1>4 DEF Cached, CacheTyped
<1>8. QED
  BY <1>2, <1>6, <1>7 DEF Cached

\* What is put is in the hands until it is listed.
LEMMA PutCached == ASSUME Cached, NEW t \in Threads, Puts(t) PROVE Cached'
<1>1. /\ thread[t].step = "put" /\ UNCHANGED order /\ Goes(t, "list")
      /\ kept' = [kept EXCEPT ![PageIn(t)] = thread[t].value]
  BY DEF Puts, InStep
<1>2. /\ ThreadsTyped' /\ thread'[t].step = "list" /\ PageIn(t)' = PageIn(t)
      /\ \A u \in Threads \ {t} : thread'[u] = thread[u]
  BY <1>1, GoesTyped DEF CacheSteps
<1>3. CacheTyped' /\ \A p \in Pages : p # PageIn(t) => kept'[p] = kept[p]
  BY <1>1 DEF Cached, CacheTyped, ThreadsTyped
<1>4. \A u \in Threads, p \in Pages : InHands(u, p) => InHands(u, p)'
  BY <1>1, <1>2 DEF InHands, PageIn
<1>5. \A p \in Pages : p = PageIn(t) => InHands(t, p)'
  BY <1>2 DEF InHands
<1>6. Evictable'
  BY <1>1, <1>3, <1>4, <1>5 DEF Cached, Evictable
<1>7. QED
  BY <1>2, <1>3, <1>6 DEF Cached

\* The oldest key goes from the list into the hands.
LEMMA PopCached == ASSUME Cached, NEW t \in Threads, Pops(t) PROVE Cached'
<1>1. CASE Len(order) > LlmCache
  <2>1. /\ thread[t].step = "evict" /\ UNCHANGED kept /\ order' = Tail(order)
        /\ thread' = [thread EXCEPT ![t].step = "drop", ![t].old = Head(order)]
    BY <1>1 DEF Pops, InStep
  <2>2. order \in Seq(Pages) /\ order # <<>>
    <3>1. order \in Seq(Pages) /\ Len(order) \in Nat /\ Len(order) # 0
      BY <1>1, LenProperties DEF Cached, CacheTyped
    <3>2. QED
      BY <3>1, EmptySeq
  <2>3. /\ Tail(order) \in Seq(Pages) /\ Head(order) \in Pages
        /\ \A q \in Range(order) : q = Head(order) \/ q \in Range(Tail(order))
    BY <2>2, TailMisses
  <2>4. ThreadsTyped'
    BY <2>1, <2>3, ZenonT(60) DEF Cached, ThreadsTyped, CacheSteps, PageIn
  <2>5. \A u \in Threads, p \in Pages : InHands(u, p) => InHands(u, p)'
    BY <2>1 DEF InHands, PageIn, Cached, ThreadsTyped
  <2>6. \A p \in Pages : p = Head(order) => InHands(t, p)'
    BY <2>1 DEF InHands, Cached, ThreadsTyped
  <2>7. Evictable'
    BY <2>1, <2>3, <2>5, <2>6 DEF Cached, Evictable
  <2>8. CacheTyped'
    BY <2>1, <2>3 DEF Cached, CacheTyped
  <2>9. QED
    BY <2>4, <2>7, <2>8 DEF Cached
<1>2. CASE ~(Len(order) > LlmCache)
  <2>1. thread[t].step = "evict" /\ UNCHANGED <<order, kept>> /\ Returns(t)
    BY <1>2 DEF Pops, InStep
  <2>2. QED
    BY <2>1, ReturnsTyped, HandsFree
<1>3. QED
  BY <1>1, <1>2

\* A dropped page is held no more.
LEMMA DropCached == ASSUME Cached, NEW t \in Threads, Drops(t) PROVE Cached'
<1>1. /\ thread[t].step = "drop" /\ UNCHANGED order /\ Goes(t, "evict")
      /\ kept' = [kept EXCEPT ![thread[t].old] = NotHeld]
  BY DEF Drops, InStep
<1>2. ThreadsTyped' /\ \A u \in Threads \ {t} : thread'[u] = thread[u]
  BY <1>1, GoesTyped DEF CacheSteps
<1>3. /\ CacheTyped'
      /\ \A p \in Pages : kept'[p] = IF p = thread[t].old THEN NotHeld ELSE kept[p]
  BY <1>1 DEF Cached, CacheTyped, ThreadsTyped
<1>4. \A u \in Threads, p \in Pages :
        InHands(u, p) => InHands(u, p)' \/ p = thread[t].old
  BY <1>1, <1>2 DEF InHands, PageIn
<1>5. Evictable'
  BY <1>1, <1>3, <1>4 DEF Cached, Evictable
<1>6. QED
  BY <1>2, <1>3, <1>5 DEF Cached

\* Every step keeps the invariant.
LEMMA StepCached == Cached /\ [ExtractionNext]_extractionVars => Cached'
<1> SUFFICES ASSUME Cached, [ExtractionNext]_extractionVars PROVE Cached'
  OBVIOUS
<1>1. CASE UNCHANGED extractionVars
  BY <1>1 DEF extractionVars, Cached, ThreadsTyped, CacheTyped, Evictable, InHands, PageIn
<1>2. ASSUME NEW t \in Threads,
             \/ \E p \in Pages : Ask(t, p)
             \/ Unlist(t) \/ TouchEntry(t) \/ RateLimited(t) \/ GoesLocal(t)
             \/ \E valid \in BOOLEAN : Replies(t, valid)
             \/ LooksFor(t) \/ Puts(t) \/ Lists(t) \/ Pops(t) \/ Drops(t)
      PROVE  Cached'
  BY <1>2, CallCached, UnlistCached, ListCached, PutCached, PopCached, DropCached
<1>3. QED
  BY <1>1, <1>2 DEF ExtractionNext

\* For any number of threads that share the cache without a lock, every entry
\* that is held while nobody is inside is listed, so that it can be evicted.
THEOREM HeldIsListed == ExtractionSpec => []NothingImmortal
<1>1. Cached => NothingImmortal
  BY DEF Cached, Evictable, InHands, NothingImmortal
<1>2. QED
  BY <1>1, StartCached, StepCached, PTL DEF ExtractionSpec

HIDE ExtractionAssumption

-----------------------------------------------------------------------------
(* HealthCache, for any number of requests and organisations, any number of  *)
(* queries and any time to live: what is served from the cache is as fresh as the *)
(* cache promises.                                                           *)

USE HealthAssumption

Part == [org : Orgs \cup {"none"}, oldest : Nat]

View == [step : {"idle", "served", "reading", "fallback"}, stamp : Nat, have : Nat,
         broken : BOOLEAN, payload : Part]

\* A payload under construction, or kept, is of its organisation, and none of its
\* parts was read before the stamp it has or will have.
Stamped(stamp, payload) == stamp \in Nat /\ stamp <= clock /\ payload.oldest >= stamp

Stamps ==
  /\ clock \in Nat /\ clock <= LastClock
  /\ cached \in [Orgs -> [stamp : Nat, payload : Part]]
  /\ view \in [Viewers -> View]
  /\ \A o \in Orgs : cached[o] # NoPayload =>
       cached[o].payload.org = o /\ Stamped(cached[o].stamp, cached[o].payload)
  /\ \A v \in Viewers : view[v].step = "reading" =>
       view[v].payload.org \in Orgs /\ Stamped(view[v].stamp, view[v].payload)

-----------------------------------------------------------------------------
\* Nothing is read and nothing kept at the start.
LEMMA StampsInit == HealthInit => Stamps
BY DEF HealthInit, Stamps, View, Part, NoPayload, NoParts, AtRest, Unread

\* A request that goes on with a true stamp keeps the stamps true.
LEMMA NextView ==
  ASSUME Stamps, NEW v \in Viewers, NEW next \in View, view' = [view EXCEPT ![v] = next],
         UNCHANGED <<clock, cached>>,
         next.step = "reading" => next.payload.org \in Orgs /\ Stamped(next.stamp, next.payload)
  PROVE  Stamps'
BY DEF Stamps, Stamped

\* A part read now makes no payload older than its stamp.
LEMMA GotStamps ==
  ASSUME Stamps, NEW v \in Viewers, view' = Got(v), UNCHANGED <<clock, cached>>
  PROVE  Stamps'
<1> DEFINE payload == [view[v].payload EXCEPT !.oldest = Older(@, clock)]
<1>1. view[v] \in View /\ view[v].payload \in Part
  BY DEF Stamps, View
<1>2. payload \in Part /\ payload.org = view[v].payload.org
  BY <1>1 DEF Part, Older, Stamps
<1>3. view[v].step = "reading" => Stamped(view[v].stamp, payload)
  BY <1>1 DEF Stamps, Stamped, Older, Part
<1> DEFINE next == [view[v] EXCEPT !.have = @ + 1, !.payload = payload]
<1>4. view' = [view EXCEPT ![v] = next]
  BY DEF Got
<1> HIDE DEF payload
<1>5. next \in View
  <2>1. view[v].have + 1 \in Nat
    BY <1>1 DEF View
  <2> QED
    BY <1>1, <1>2, <2>1 DEF View
<1>6. next.step = view[v].step /\ next.stamp = view[v].stamp /\ next.payload = payload
  BY <1>1 DEF View
<1> HIDE DEF next
<1> QED
  BY <1>2, <1>3, <1>4, <1>5, <1>6, NextView DEF Stamps

\* A request that ends leaves no payload behind.
LEMMA RestStamps ==
  ASSUME Stamps, NEW v \in Viewers, view' = [view EXCEPT ![v] = AtRest],
         UNCHANGED <<clock, cached>>
  PROVE  Stamps'
<1>1. AtRest \in View /\ AtRest.step # "reading"
  BY DEF AtRest, View, NoParts, Unread, Part
<1> QED
  BY <1>1, NextView

\* Every step keeps the stamps true.
LEMMA StampsStep == Stamps /\ [HealthNext]_healthVars => Stamps'
<1> SUFFICES ASSUME Stamps, [HealthNext]_healthVars PROVE Stamps'
  OBVIOUS
<1>1. CASE UNCHANGED healthVars
  BY <1>1 DEF healthVars, Stamps, Stamped
<1>2. CASE Tick
  BY <1>2 DEF Tick, Stamps, Stamped
<1>3. ASSUME NEW v \in Viewers, NEW o \in Orgs, AskHealth(v, o) PROVE Stamps'
  <2> DEFINE hit == [AtRest EXCEPT !.step = "served", !.payload = cached[o].payload]
             miss == [AtRest EXCEPT !.step = "reading", !.stamp = clock, !.payload.org = o]
  <2>1. hit \in View /\ hit.step # "reading"
    BY DEF AtRest, View, Stamps
  <2>2. miss \in View /\ miss.payload.org \in Orgs /\ Stamped(miss.stamp, miss.payload)
    <3>1. miss.payload = [org |-> o, oldest |-> Unread]
      BY DEF AtRest, NoParts
    <3>2. miss.payload \in Part
      BY <3>1 DEF Part, Unread
    <3>3. miss.stamp = clock /\ miss.payload.oldest >= clock /\ clock \in Nat
      BY <3>1 DEF Stamps, Unread, AtRest
    <3>4. miss \in View
      BY <3>2, <3>3 DEF AtRest, View
    <3> QED
      BY <3>1, <3>3, <3>4 DEF Stamped
  <2>3. view' = [view EXCEPT ![v] = IF WithinTTL(cached[o]) THEN hit ELSE miss]
    BY <1>3 DEF AskHealth
  <2> HIDE DEF hit, miss
  <2> QED
    BY <1>3, <2>1, <2>2, <2>3, NextView DEF AskHealth
<1>4. ASSUME NEW v \in Viewers, Read(v) PROVE Stamps'
  BY <1>4, GotStamps DEF Read
<1>5. ASSUME NEW v \in Viewers, EssentialFails(v) PROVE Stamps'
  <2>1. CASE view' = [view EXCEPT ![v] = AtRest]
    BY <1>5, <2>1, RestStamps DEF EssentialFails
  <2> DEFINE again == [AtRest EXCEPT !.step = "fallback", !.payload.org = view[v].payload.org]
  <2>2. CASE view' = [view EXCEPT ![v] = again]
    <3>1. again.payload = [org |-> view[v].payload.org, oldest |-> Unread]
      BY DEF AtRest, NoParts
    <3>2. again.payload \in Part
      BY <3>1 DEF Part, Unread, Stamps, View
    <3>3. again \in View /\ again.step # "reading"
      BY <3>2 DEF AtRest, View
    <3> HIDE DEF again
    <3> QED
      BY <1>5, <2>2, <3>3, NextView DEF EssentialFails
  <2> QED
    BY <1>5, <2>1, <2>2 DEF EssentialFails
<1>6. ASSUME NEW v \in Viewers, ChartFails(v) PROVE Stamps'
  <2>1. PICK aborted \in BOOLEAN :
          view' = [view EXCEPT ![v].have = @ + 1, ![v].broken = aborted]
    BY <1>6 DEF ChartFails
  <2> DEFINE next == [view[v] EXCEPT !.have = @ + 1, !.broken = aborted]
  <2>2. view' = [view EXCEPT ![v] = next]
    BY <2>1
  <2>3. view[v] \in View /\ view[v].have + 1 \in Nat
    BY DEF Stamps, View
  <2>4. next \in View
    BY <2>3 DEF View
  <2>5. next.step = view[v].step /\ next.stamp = view[v].stamp
        /\ next.payload = view[v].payload
    BY <2>3 DEF View
  <2> HIDE DEF next
  <2> QED
    BY <1>6, <2>2, <2>4, <2>5, NextView DEF ChartFails, Stamps
<1>7. ASSUME NEW v \in Viewers, Keep(v) PROVE Stamps'
  <2> DEFINE o == view[v].payload.org
             entry == [stamp |-> view[v].stamp, payload |-> view[v].payload]
  <2>1. o \in Orgs /\ Stamped(entry.stamp, entry.payload) /\ entry.payload \in Part
    BY <1>7 DEF Keep, Stored, Stamps, View
  <2>2. view' \in [Viewers -> View] /\ AtRest.step # "reading"
    BY <1>7 DEF Keep, Stored, Stamps, View, AtRest, NoParts, Unread, Part
  <2>3. cached' = [cached EXCEPT ![o] = entry] /\ view' = [view EXCEPT ![v] = AtRest]
    BY <1>7 DEF Keep, Stored
  <2>4. cached' \in [Orgs -> [stamp : Nat, payload : Part]]
    BY <2>1, <2>3 DEF Stamps, Stamped
  <2>5. clock' = clock
    BY <1>7 DEF Keep, Stored
  <2>6. entry.payload.org = o
    OBVIOUS
  <2> HIDE DEF o, entry
  <2> QED
    BY <2>1, <2>2, <2>3, <2>4, <2>5, <2>6 DEF Stamps, Stamped
<1>8. ASSUME NEW v \in Viewers, Fallback(v) PROVE Stamps'
  BY <1>8, GotStamps, RestStamps DEF Fallback
<1>9. ASSUME NEW v \in Viewers, FallbackFails(v) \/ Received(v) PROVE Stamps'
  BY <1>9, RestStamps DEF FallbackFails, Received
<1> QED
  BY <1>1, <1>2, <1>3, <1>4, <1>5, <1>6, <1>7, <1>8, <1>9 DEF HealthNext

-----------------------------------------------------------------------------
\* A payload that comes out of the cache is of the organisation that asked, and its
\* oldest part was read within the time to live.
LEMMA ServedFresh ==
  ASSUME Stamps, NEW v \in Viewers, NEW o \in Orgs, AskHealth(v, o),
         view'[v].step = "served"
  PROVE  /\ view'[v].payload.org = o
         /\ clock - view'[v].payload.oldest < KeptTicks
<1>1. WithinTTL(cached[o])
  BY DEF AskHealth, AtRest, Stamps
<1>2. view'[v].payload = cached[o].payload
  BY <1>1 DEF AskHealth, AtRest, Stamps
<1> QED
  BY <1>1, <1>2 DEF WithinTTL, Stamps, Stamped, Part

\* However slow the request was that filled the cache, and whichever stored last.
THEOREM ServedWithinTTL == HealthSpec => FreshWithinTTL
<1>1. Stamps /\ [HealthNext]_healthVars =>
        [\A v \in Viewers : \A o \in Orgs : AskHealth(v, o) /\ view'[v].step = "served" =>
           /\ view'[v].payload.org = o
           /\ clock - view'[v].payload.oldest < KeptTicks]_healthVars
  BY ServedFresh
<1> QED
  BY <1>1, StampsInit, StampsStep, PTL DEF HealthSpec, FreshWithinTTL

HIDE HealthAssumption

-----------------------------------------------------------------------------
(* HttpClients, for any number of threads and loops: one synchronous client is *)
(* built until the next close, by the thread that holds the lock.              *)

ClientOfLock ==
  /\ sync \in [client : {0, 1}, built : {0, 1}, lock : Workers \cup {Nobody}]
  /\ sync.client = sync.built
  /\ DOMAIN wk = Workers
  /\ \A w \in Workers : wk[w] = [step |-> wk[w].step, loop |-> wk[w].loop, got |-> wk[w].got]
  /\ \A w \in Workers : Stands(w, "locked") => sync.lock = w

\* At the start nobody holds the lock and nothing is built.
LEMMA ClientOfLockInit == HttpInit => ClientOfLock
BY DEF HttpInit, ClientOfLock, Calm, Stands

\* The steps of the asynchronous side take no part in it.
LEMMA AsyncKeepsClient ==
  ASSUME ClientOfLock, NEW w \in Workers,
         \/ \E i \in LoopIds : OpenLoop(w, i)
         \/ AskAsync(w) \/ FirstClient(w) \/ FirstId(w) \/ FirstLoop(w) \/ Compare(w)
         \/ CloseLoop(w)
  PROVE  ClientOfLock'
<1>1. sync' = sync /\ ~Stands(w, "locked")
  BY DEF OpenLoop, AskAsync, FirstClient, FirstId, FirstLoop, Compare, CloseLoop, Stands
<1> DEFINE Whole(e) == e = [step |-> e.step, loop |-> e.loop, got |-> e.got]
<1>2. /\ DOMAIN wk' = Workers /\ \A v \in Workers \ {w} : wk'[v] = wk[v]
      /\ Whole(wk'[w]) /\ wk'[w].step # "locked"
  <2>1. DOMAIN wk = Workers /\ Whole(wk[w])
    BY DEF ClientOfLock
  <2>2. CASE AskAsync(w) \/ FirstClient(w) \/ FirstId(w)
    BY <2>1, <2>2 DEF AskAsync, FirstClient, FirstId, Steps
  <2>3. ASSUME NEW i \in LoopIds, OpenLoop(w, i)
        PROVE  \E l : wk' = [wk EXCEPT ![w].loop = l]
    BY <2>3 DEF OpenLoop
  <2>4. CASE \E i \in LoopIds : OpenLoop(w, i)
    <3>1. PICK l : wk' = [wk EXCEPT ![w].loop = l]
      BY <2>3, <2>4
    <3> QED
      BY <1>1, <2>1, <3>1 DEF Stands
  <2>5. CASE FirstLoop(w) \/ Compare(w)
    <3>1. PICK got : wk' = [wk EXCEPT ![w].step = "using", ![w].got = got]
      BY <2>5 DEF FirstLoop, Compare
    <3> QED
      BY <2>1, <3>1
  <2>6. CASE CloseLoop(w)
    BY <2>1, <2>6 DEF CloseLoop, Calm
  <2> QED
    BY <2>2, <2>4, <2>5, <2>6
<1> QED
  BY <1>1, <1>2 DEF ClientOfLock, Stands

\* Every step keeps it: only the holder builds, and only when it finds none.
LEMMA ClientOfLockStep == ClientOfLock /\ [HttpNext]_httpVars => ClientOfLock'
<1> SUFFICES ASSUME ClientOfLock, [HttpNext]_httpVars PROVE ClientOfLock'
  OBVIOUS
<1>1. CASE UNCHANGED httpVars
  BY <1>1 DEF httpVars, ClientOfLock, Stands
<1>2. CASE CloseSync
  BY <1>2 DEF CloseSync, ClientOfLock, Stands
<1>3. ASSUME NEW w \in Workers, AskSync(w) PROVE ClientOfLock'
  BY <1>3 DEF AskSync, Steps, ClientOfLock, Stands
<1>4. ASSUME NEW w \in Workers, TakeLock(w) PROVE ClientOfLock'
  BY <1>4, HttpAssumption DEF TakeLock, Steps, ClientOfLock, Stands, Nobody
<1>5. ASSUME NEW w \in Workers, Build(w) PROVE ClientOfLock'
  BY <1>5 DEF Build, Steps, ClientOfLock, Stands
<1> QED
  BY <1>1, <1>2, <1>3, <1>4, <1>5, AsyncKeepsClient DEF HttpNext

\* Until it is closed, no second synchronous client is ever built.
THEOREM OnlyOneSyncClient == HttpSpec => []OneSyncClient
<1>1. ClientOfLock => OneSyncClient
  BY DEF ClientOfLock, OneSyncClient
<1> QED
  BY <1>1, ClientOfLockInit, ClientOfLockStep, PTL DEF HttpSpec

-----------------------------------------------------------------------------
(* EmbeddingGateway, for any batches, texts and providers.  A batch that the   *)
(* quota let through has not been counted yet; what is counted beyond the      *)
(* quota came from the others.                                                 *)

Admitted(b) == At(b, "asking") /\ call[b].left # <<>>
Counted == {b \in Batches : ~Admitted(b)}
IsCall(c) == c = [at |-> c.at, left |-> c.left, makers |-> c.makers]

InFlight ==
  /\ used \in Nat
  /\ DOMAIN call = Batches /\ \A b \in Batches : IsCall(call[b])
  /\ \A b \in Batches : At(b, "asking") => DOMAIN call[b].makers = DOMAIN TextsOf[b]
  /\ used <= (Quota - 1) + Cardinality(TextsIn(Counted))

\* A step counts nothing and lets no batch through.
Fewer ==
  /\ used' \in Nat /\ used' <= used /\ DOMAIN call' = Batches
  /\ \A b \in Batches : /\ IsCall(call'[b])
                        /\ call'[b].at = "asking" =>
                             /\ DOMAIN call'[b].makers = DOMAIN TextsOf[b]
                             /\ call'[b].left # <<>> => Admitted(b)

\* There are finitely many texts, and more in more batches.
LEMMA TextsFinite ==
  ASSUME NEW all \in SUBSET Batches, NEW some \in SUBSET all
  PROVE  /\ IsFiniteSet(TextsIn(all)) /\ Cardinality(TextsIn(all)) \in Nat
         /\ Cardinality(TextsIn(some)) \in Nat
         /\ Cardinality(TextsIn(some)) <= Cardinality(TextsIn(all))
<1>1. \A b \in Batches : IsFiniteSet({b} \X DOMAIN TextsOf[b])
  <2> SUFFICES ASSUME NEW b \in Batches PROVE IsFiniteSet({b} \X DOMAIN TextsOf[b])
    OBVIOUS
  <2>1. TextsOf[b] \in Seq(Texts)
    BY GatewayAssumption
  <2>2. DOMAIN TextsOf[b] = 1 .. Len(TextsOf[b]) /\ Len(TextsOf[b]) \in Int
    BY <2>1
  <2>3. IsFiniteSet(DOMAIN TextsOf[b])
    BY <2>2, FS_Interval
  <2> QED
    BY <2>3, FS_Singleton, FS_Product
<1>2. IsFiniteSet({{b} \X DOMAIN TextsOf[b] : b \in all})
  <2> DEFINE Own == [b \in all |-> {b} \X DOMAIN TextsOf[b]]
             Owned == {{b} \X DOMAIN TextsOf[b] : b \in all}
  <2>1. IsFiniteSet(all)
    BY GatewayAssumption, FS_Subset
  <2>2. Own \in Surjection(all, Owned)
    BY DEF Surjection
  <2> HIDE DEF Own, Owned
  <2>3. IsFiniteSet(Owned)
    BY <2>1, <2>2, FS_Surjection
  <2> QED
    BY <2>3 DEF Owned
<1>3. IsFiniteSet(TextsIn(all))
  BY <1>1, <1>2, FS_UNION DEF TextsIn
<1>4. TextsIn(some) \subseteq TextsIn(all)
  BY DEF TextsIn
<1> QED
  BY <1>3, <1>4, FS_Subset, FS_CardinalityType

\* At the start no batch is in flight and nothing is counted.
LEMMA InFlightInit == GatewayInit /\ Quota > 0 => InFlight
<1> SUFFICES ASSUME GatewayInit, Quota > 0 PROVE InFlight
  OBVIOUS
<1>1. Cardinality(TextsIn(Counted)) \in Nat
  BY TextsFinite DEF Counted
<1> QED
  BY <1>1, GatewayAssumption DEF GatewayInit, InFlight, IsCall, At

\* Such a step keeps the invariant.
LEMMA CountsLess == ASSUME InFlight, Quota > 0, Fewer PROVE InFlight'
<1>1. Counted \subseteq Counted' /\ Counted' \subseteq Batches
  BY DEF Fewer, Counted, Admitted, At
<1>2. TextsIn(Counted)' = TextsIn(Counted')
  BY DEF TextsIn
<1>3. /\ Cardinality(TextsIn(Counted)) <= Cardinality(TextsIn(Counted'))
      /\ Cardinality(TextsIn(Counted)) \in Nat /\ Cardinality(TextsIn(Counted')) \in Nat
  BY <1>1, TextsFinite
<1>4. used' <= (Quota - 1) + Cardinality(TextsIn(Counted'))
  BY <1>3, GatewayAssumption DEF Fewer, InFlight
<1> QED
  BY <1>2, <1>4 DEF Fewer, InFlight, IsCall, At

\* A batch is let through only while the count is below the quota.
LEMMA BeginCounts ==
  ASSUME InFlight, Quota > 0, NEW b \in Batches, Begin(b) PROVE InFlight'
<1>1. used' = used /\ DOMAIN call' = Batches
      /\ \A d \in Batches \ {b} : call'[d] = call[d]
  BY DEF Begin, InFlight
<1>2. PICK at, left, makers :
        /\ call'[b] = [at |-> at, left |-> left, makers |-> makers]
        /\ left = IF QuotaExceeded(b) THEN <<>> ELSE Chain
        /\ DOMAIN makers = DOMAIN TextsOf[b]
  <2> DEFINE makers == [i \in DOMAIN TextsOf[b] |->
                      IF Hit(cache, TextsOf[b][i]) THEN Entry(cache, TextsOf[b][i]).maker
                      ELSE Pending]
             at == IF Pending \in ToSet(makers) THEN "asking" ELSE "served"
             left == IF QuotaExceeded(b) THEN <<>> ELSE Chain
  <2>1. call' = [call EXCEPT ![b] = [at |-> at, left |-> left, makers |-> makers]]
    BY DEF Begin
  <2>2. call'[b] = [at |-> at, left |-> left, makers |-> makers]
    <3> HIDE DEF at, left, makers
    <3> QED
      BY <2>1 DEF InFlight
  <2>3. DOMAIN makers = DOMAIN TextsOf[b]
    OBVIOUS
  <2> HIDE DEF makers, at
  <2> QED
    BY <2>2, <2>3
<1>3. CASE left = <<>>
  <2> USE <1>3
  <2>1. ~Admitted(b)
    BY DEF Begin, Admitted, At
  <2>2. Fewer
    BY <1>1, <1>2, <1>3 DEF Fewer, InFlight, IsCall, At, Admitted
  <2> QED
    BY <2>2, CountsLess
<1>4. CASE left # <<>>
  <2>1. ~QuotaExceeded(b) /\ Chain # <<>>
    BY <1>2, <1>4
  <2>2. Primary # Local
    <3>1. Primary = Chain[1] /\ 1 \in DOMAIN Chain
      BY <2>1, GatewayAssumption DEF Primary
    <3> QED
      BY <3>1, GatewayAssumption DEF ToSet
  <2>3. used <= Quota - 1 /\ used \in Nat
    BY <2>1, <2>2, GatewayAssumption DEF QuotaExceeded, InFlight
  <2>4. Cardinality(TextsIn(Counted')) \in Nat
    BY TextsFinite DEF Counted
  <2>5. TextsIn(Counted)' = TextsIn(Counted')
    BY DEF TextsIn
  <2>6. used' <= (Quota - 1) + Cardinality(TextsIn(Counted'))
    BY <1>1, <2>3, <2>4, GatewayAssumption
  <2>7. \A d \in Batches : /\ IsCall(call'[d])
                           /\ call'[d].at = "asking" =>
                                DOMAIN call'[d].makers = DOMAIN TextsOf[d]
    BY <1>1, <1>2 DEF InFlight, IsCall, At
  <2>8. used' \in Nat /\ DOMAIN call' = Batches
    BY <1>1, <2>3
  <2> QED
    BY <2>5, <2>6, <2>7, <2>8 DEF InFlight, IsCall, At
<1> QED
  BY <1>3, <1>4

\* An answer counts at most the texts of its batch, which was not counted yet.
LEMMA AnswerCounts ==
  ASSUME InFlight, Quota > 0, NEW b \in Batches, Answers(b) PROVE InFlight'
<1> DEFINE mine == {b} \X DOMAIN TextsOf[b]
           open == {i \in DOMAIN call[b].makers : call[b].makers[i] = Pending}
<1>1. /\ used' = used + Size(b) /\ Admitted(b)
      /\ call' = [call EXCEPT ![b].at = "served", ![b].makers = Served(b, Head(call[b].left))]
  BY DEF Answers, Serve, Admitted
<1>2. /\ DOMAIN call' = Batches /\ \A d \in Batches \ {b} : call'[d] = call[d]
      /\ IsCall(call'[b]) /\ call'[b].at = "served"
  <2>1. PICK makers : call' = [call EXCEPT ![b].at = "served", ![b].makers = makers]
    BY <1>1
  <2>2. IsCall(call[b]) /\ DOMAIN call = Batches
    BY DEF InFlight
  <2> QED
    BY <2>1, <2>2 DEF IsCall
<1>3. Counted' = Counted \cup {b} /\ b \notin Counted
  BY <1>1, <1>2 DEF Counted, Admitted, At
<1>4. TextsIn(Counted') = TextsIn(Counted) \cup mine /\ TextsIn(Counted) \cap mine = {}
  BY <1>3 DEF TextsIn
<1>5. /\ IsFiniteSet(mine) /\ Cardinality(mine) = Cardinality(DOMAIN TextsOf[b])
      /\ IsFiniteSet(DOMAIN TextsOf[b]) /\ Cardinality(DOMAIN TextsOf[b]) \in Nat
  <2>1. TextsOf[b] \in Seq(Texts)
    BY GatewayAssumption
  <2>2. DOMAIN TextsOf[b] = 1 .. Len(TextsOf[b]) /\ Len(TextsOf[b]) \in Int
    BY <2>1
  <2>3. IsFiniteSet(DOMAIN TextsOf[b])
    BY <2>2, FS_Interval
  <2>4. Cardinality(DOMAIN TextsOf[b]) \in Nat
    BY <2>3, FS_CardinalityType
  <2>5. IsFiniteSet({b}) /\ Cardinality({b}) = 1
    BY FS_Singleton
  <2> QED
    BY <2>3, <2>4, <2>5, FS_Product
<1>6. Size(b) \in Nat /\ Size(b) <= Cardinality(mine)
  <2>1. open \subseteq DOMAIN TextsOf[b]
    BY <1>1 DEF InFlight, Admitted
  <2>2. Cardinality(open) <= Cardinality(DOMAIN TextsOf[b]) /\ IsFiniteSet(open)
    BY <1>5, <2>1, FS_Subset
  <2>3. Cardinality(open) \in Nat
    BY <2>2, FS_CardinalityType
  <2> QED
    BY <1>5, <2>2, <2>3 DEF Size
<1>7. /\ IsFiniteSet(TextsIn(Counted)) /\ Cardinality(TextsIn(Counted)) \in Nat
  BY TextsFinite DEF Counted
<1>8. Cardinality(TextsIn(Counted')) = Cardinality(TextsIn(Counted)) + Cardinality(mine)
  <2>1. Cardinality(TextsIn(Counted) \cup mine)
          = Cardinality(TextsIn(Counted)) + Cardinality(mine) - Cardinality(TextsIn(Counted) \cap mine)
    BY <1>5, <1>7, FS_Union
  <2>2. Cardinality(TextsIn(Counted) \cap mine) = 0
    BY <1>4, FS_EmptySet
  <2> HIDE DEF mine
  <2> QED
    BY <1>4, <1>5, <1>7, <2>1, <2>2
<1>9. used' \in Nat /\ used' <= (Quota - 1) + Cardinality(TextsIn(Counted'))
  <2>1. used \in Nat /\ used <= (Quota - 1) + Cardinality(TextsIn(Counted)) /\ Quota \in Nat
    BY GatewayAssumption DEF InFlight
  <2>2. Cardinality(mine) \in Nat
    BY <1>5
  <2> HIDE DEF mine
  <2> QED
    BY <1>1, <1>6, <1>7, <1>8, <2>1, <2>2
<1>10. TextsIn(Counted)' = TextsIn(Counted')
  BY DEF TextsIn
<1>11. \A d \in Batches : IsCall(call'[d]) /\ (call'[d].at = "asking" =>
                                 DOMAIN call'[d].makers = DOMAIN TextsOf[d])
  BY <1>2 DEF InFlight, At
<1> QED
  BY <1>2, <1>9, <1>10, <1>11 DEF InFlight, IsCall, At

\* Every step keeps the count.
LEMMA InFlightStep ==
  ASSUME InFlight, Quota > 0, [GatewayNext]_gatewayVars PROVE InFlight'
<1>1. CASE UNCHANGED gatewayVars
  <2>1. Fewer
    BY <1>1 DEF Fewer, gatewayVars, InFlight, Admitted, At
  <2> QED
    BY <2>1, CountsLess
<1>2. ASSUME NEW b \in Batches, Refuses(b) \/ FallBack(b) \/ Upsert(b) PROVE InFlight'
  <2>1. used' = used /\ DOMAIN call' = Batches /\ \A d \in Batches \ {b} : call'[d] = call[d]
    BY <1>2 DEF Refuses, FallBack, Serve, Upsert, InFlight
  <2>2. /\ IsCall(call'[b])
        /\ call'[b].at = "asking" =>
             Admitted(b) /\ At(b, "asking") /\ call'[b].makers = call[b].makers
    <3>0. IsCall(call[b]) /\ DOMAIN call = Batches
      BY DEF InFlight
    <3>1. CASE Refuses(b)
      <4>1. PICK left : call' = [call EXCEPT ![b].left = left]
        BY <3>1 DEF Refuses
      <4>2. Admitted(b)
        BY <3>1 DEF Refuses, Admitted
      <4> QED
        BY <3>0, <4>1, <4>2 DEF IsCall, Admitted, At
    <3>2. CASE FallBack(b)
      <4>1. PICK makers : call' = [call EXCEPT ![b].at = "served", ![b].makers = makers]
        BY <3>2 DEF FallBack, Serve
      <4> QED
        BY <3>0, <4>1 DEF IsCall
    <3>3. CASE Upsert(b)
      <4>1. call' = [call EXCEPT ![b] = [at |-> "new", left |-> <<>>, makers |-> <<>>]]
        BY <3>3 DEF Upsert
      <4> QED
        BY <4>1 DEF InFlight, IsCall
    <3> QED
      BY <1>2, <3>1, <3>2, <3>3
  <2>3. Fewer
    BY <2>1, <2>2 DEF Fewer, InFlight, Admitted, At
  <2> QED
    BY <2>3, CountsLess
<1>3. CASE NewWindow
  <2>1. Fewer
    BY <1>3 DEF Fewer, NewWindow, InFlight, Admitted, At
  <2> QED
    BY <2>1, CountsLess
<1>4. CASE Restart
  <2>1. Fewer
    BY <1>4 DEF Fewer, Restart, InFlight, IsCall
  <2> QED
    BY <2>1, CountsLess
<1> QED
  BY <1>1, <1>2, <1>3, <1>4, BeginCounts, AnswerCounts DEF GatewayNext

\* However many batches run at once, the quota of the day is exceeded by no more
\* than the texts of the batches, each counted once.
THEOREM QuotaOvershootBounded == GatewaySpec => []QuotaOvershoot
<1>1. CASE Quota > 0
  <2>1. InFlight => QuotaOvershoot
    <3>1. Counted \subseteq Batches
      BY DEF Counted
    <3>2. /\ Cardinality(TextsIn(Counted)) \in Nat /\ Cardinality(TextsIn(Batches)) \in Nat
          /\ Cardinality(TextsIn(Counted)) <= Cardinality(TextsIn(Batches))
      BY <3>1, TextsFinite
    <3> QED
      BY <3>2, GatewayAssumption DEF InFlight, QuotaOvershoot
  <2>2. GatewayInit => InFlight
    BY <1>1, InFlightInit
  <2>3. InFlight /\ [GatewayNext]_gatewayVars => InFlight'
    BY <1>1, InFlightStep
  <2> QED
    BY <2>1, <2>2, <2>3, PTL DEF GatewaySpec
<1>2. CASE ~(Quota > 0)
  <2>1. QuotaOvershoot
    BY <1>2 DEF QuotaOvershoot
  <2> QED
    BY <2>1, PTL
<1> QED
  BY <1>1, <1>2
=============================================================================
