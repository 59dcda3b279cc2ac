---------------------------- MODULE ServicesProofs ----------------------------
(***************************************************************************)
(* Proofs about LoginRegistry, for any number of logins and waits and any  *)
(* capacity of the early results, and about SessionRegistry, for any       *)
(* threads and any one-shot runs among them.                               *)
(***************************************************************************)
EXTENDS LoginRegistry, SessionRegistry, FiniteSetTheorems, SequenceTheorems,
        TLAPS

-----------------------------------------------------------------------------
(* Queues.                                                                 *)

Once(queue) == \A i, j \in DOMAIN queue : queue[i] = queue[j] => i = j

(* Who leaves a queue leaves the others in it, once and in their order.    *)
LEMMA Leaving ==
  ASSUME NEW S, NEW q \in Seq(S), Once(q), NEW who
  PROVE  /\ Without(q, who) \in Seq(S)
         /\ Once(Without(q, who))
         /\ \A x : Queued(Without(q, who), x) <=> Queued(q, x) /\ x # who
         /\ q # <<>> /\ Head(q) # who =>
              Without(q, who) # <<>> /\ Head(Without(q, who)) = Head(q)
         /\ Len(Without(q, who)) <= Len(q)
<1>1. CASE ~Queued(q, who)
  BY <1>1 DEF Without, Queued
<1>2. CASE Queued(q, who)
  <2> DEFINE n == Len(q)
             r == Without(q, who)
  <2>1. PICK k \in 1 .. n : q[k] = who
    BY <1>2 DEF Queued
  <2>2. n \in Nat /\ DOMAIN q = 1 .. n /\ \A i \in 1 .. n : q[i] \in S
    OBVIOUS
  <2>3. \A i \in 1 .. n : q[i] = who => i = k
    BY <2>1, <2>2 DEF Once
  <2>4. r = [i \in 1 .. n - 1 |-> IF k <= i THEN q[i + 1] ELSE q[i]]
    <3>1. \A i \in 1 .. n - 1 : (\E j \in 1 .. i : q[j] = who) <=> k <= i
      BY <2>1, <2>2, <2>3
    <3> QED BY <1>2, <3>1 DEF Without
  <2> HIDE DEF r
  <2>5. n - 1 \in Nat /\ \A i \in 1 .. n - 1 : r[i] \in S
    BY <2>1, <2>2, <2>4
  <2>6. r \in Seq(S) /\ Len(r) = n - 1 /\ DOMAIN r = 1 .. n - 1
    BY <2>4, <2>5, IsASeq
  <2>7. Once(r)
    <3> SUFFICES ASSUME NEW i \in 1 .. n - 1, NEW j \in 1 .. n - 1, r[i] = r[j]
                 PROVE  i = j
      BY <2>6 DEF Once
    <3> DEFINE at(m) == IF k <= m THEN m + 1 ELSE m
    <3>1. at(i) \in 1 .. n /\ at(j) \in 1 .. n /\ q[at(i)] = q[at(j)]
      BY <2>1, <2>2, <2>4
    <3>2. at(i) = at(j)
      BY <2>2, <3>1 DEF Once
    <3> QED BY <2>1, <2>2, <3>2
  <2>8. ASSUME NEW x PROVE Queued(r, x) <=> Queued(q, x) /\ x # who
    <3>1. ASSUME Queued(r, x) PROVE Queued(q, x) /\ x # who
      <4> PICK i \in 1 .. n - 1 : r[i] = x
        BY <2>6, <3>1 DEF Queued
      <4> DEFINE m == IF k <= i THEN i + 1 ELSE i
      <4>1. m \in 1 .. n /\ m # k /\ q[m] = x
        BY <2>1, <2>2, <2>4
      <4> QED BY <2>2, <2>3, <4>1 DEF Queued
    <3>2. ASSUME Queued(q, x), x # who PROVE Queued(r, x)
      <4> PICK i \in 1 .. n : q[i] = x
        BY <2>2, <3>2 DEF Queued
      <4> DEFINE m == IF k <= i THEN i - 1 ELSE i
      <4>1. m \in 1 .. n - 1 /\ r[m] = x
        BY <2>1, <2>2, <2>4, <3>2
      <4> QED BY <2>6, <4>1 DEF Queued
    <3> QED BY <3>1, <3>2
  <2>9. ASSUME q # <<>>, Head(q) # who PROVE r # <<>> /\ Head(r) = Head(q)
    <3>1. k # 1 /\ 1 \in 1 .. n - 1 /\ r[1] = q[1]
      BY <2>1, <2>2, <2>4, <2>9
    <3> QED BY <2>6, <2>9, <3>1
  <2> QED BY <2>6, <2>7, <2>8, <2>9 DEF r
<1> QED BY <1>1, <1>2

(* Who joins a queue it is not in is behind the others.                    *)
LEMMA Joining ==
  ASSUME NEW S, NEW q \in Seq(S), Once(q), NEW who \in S, ~Queued(q, who)
  PROVE  /\ Append(q, who) \in Seq(S)
         /\ Once(Append(q, who))
         /\ \A x : Queued(Append(q, who), x) <=> Queued(q, x) \/ x = who
         /\ q # <<>> => Head(Append(q, who)) = Head(q)
         /\ Append(q, who) # <<>>
<1> DEFINE n == Len(q)
           r == Append(q, who)
<1>1. /\ n \in Nat /\ DOMAIN q = 1 .. n
      /\ r \in Seq(S) /\ DOMAIN r = 1 .. n + 1 /\ r # <<>>
      /\ r[n + 1] = who /\ \A i \in 1 .. n : r[i] = q[i]
  OBVIOUS
<1> HIDE DEF r
<1>2. Once(r)
  BY <1>1 DEF Once, Queued
<1>3. ASSUME NEW x PROVE Queued(r, x) <=> Queued(q, x) \/ x = who
  BY <1>1 DEF Queued
<1>4. q # <<>> => Head(r) = Head(q)
  BY <1>1
<1> QED BY <1>1, <1>2, <1>3, <1>4 DEF r

LEMMA JoinedIsQueued ==
  ASSUME NEW S, NEW q \in Seq(S), NEW who
  PROVE  Queued(Append(q, who), who)
<1>1. Len(q) + 1 \in DOMAIN Append(q, who) /\ Append(q, who)[Len(q) + 1] = who
  OBVIOUS
<1> QED BY <1>1 DEF Queued

(* A queue is as long as there are members in it.                          *)
LEMMA QueueCounts ==
  ASSUME NEW S, NEW q \in Seq(S), Once(q)
  PROVE  Cardinality({x \in S : Queued(q, x)}) = Len(q)
<1> DEFINE T == {x \in S : Queued(q, x)}
<1>1. /\ Len(q) \in Nat /\ DOMAIN q = 1 .. Len(q)
      /\ q = [i \in 1 .. Len(q) |-> q[i]]
      /\ \A i \in 1 .. Len(q) : q[i] \in S
  OBVIOUS
<1>2. q \in Bijection(1 .. Len(q), T)
  <2>1. q \in [1 .. Len(q) -> T]
    BY <1>1 DEF Queued
  <2>2. \A x \in T : \E i \in 1 .. Len(q) : q[i] = x
    BY <1>1 DEF Queued
  <2>3. \A i, j \in 1 .. Len(q) : q[i] = q[j] => i = j
    BY <1>1 DEF Once
  <2> QED BY <2>1, <2>2, <2>3 DEF Bijection, Injection, Surjection, IsInjective
<1>3. ExistsBijection(1 .. Len(q), T)
  BY <1>2 DEF ExistsBijection
<1> QED BY <1>1, <1>3, FS_CountingElements

(* The first member leaves.                                                *)
LEMMA FirstLeaves ==
  ASSUME NEW S, NEW q \in Seq(S), Once(q), q # <<>>
  PROVE  /\ Tail(q) \in Seq(S) /\ Once(Tail(q)) /\ Len(Tail(q)) = Len(q) - 1
         /\ \A x : Queued(Tail(q), x) <=> Queued(q, x) /\ x # Head(q)
<1> DEFINE n == Len(q)
           r == Tail(q)
<1>1. /\ n \in Nat \ {0} /\ DOMAIN q = 1 .. n /\ Head(q) = q[1]
      /\ r \in Seq(S) /\ Len(r) = n - 1 /\ DOMAIN r = 1 .. n - 1
      /\ \A i \in 1 .. n - 1 : r[i] = q[i + 1]
  OBVIOUS
<1> HIDE DEF r
<1>2. Once(r)
  <2>1. SUFFICES ASSUME NEW i \in 1 .. n - 1, NEW j \in 1 .. n - 1, r[i] = r[j]
                 PROVE  i = j
    BY <1>1 DEF Once
  <2>2. /\ i + 1 \in 1 .. n /\ j + 1 \in 1 .. n
        /\ q[i + 1] = q[j + 1]
    BY <1>1, <2>1
  <2>3. i + 1 = j + 1
    BY <1>1, <2>2 DEF Once
  <2> QED BY <1>1, <2>3
<1>3. ASSUME NEW x PROVE Queued(r, x) <=> Queued(q, x) /\ x # Head(q)
  <2>1. ASSUME Queued(r, x) PROVE Queued(q, x) /\ x # Head(q)
    <3> PICK i \in 1 .. n - 1 : r[i] = x
      BY <1>1, <2>1 DEF Queued
    <3>1. i + 1 \in 1 .. n /\ i + 1 # 1 /\ q[i + 1] = x /\ 1 \in 1 .. n
      BY <1>1
    <3> QED BY <1>1, <3>1 DEF Queued, Once
  <2>2. ASSUME Queued(q, x), x # Head(q) PROVE Queued(r, x)
    <3> PICK i \in 1 .. n : q[i] = x
      BY <1>1, <2>2 DEF Queued
    <3>1. i - 1 \in 1 .. n - 1 /\ r[i - 1] = x
      BY <1>1, <2>2
    <3> QED BY <1>1, <3>1 DEF Queued
  <2> QED BY <2>1, <2>2
<1> QED BY <1>1, <1>2, <1>3 DEF r

-----------------------------------------------------------------------------
(* LoginRegistry.  Its promises to the callers do not depend on the queue  *)
(* of the early results: what it evicts is recorded.  The part of          *)
(* LoginTypeOK that they need:                                             *)
LoginTypes ==
  /\ LinkType
  /\ handle \in [Logins -> {"none", "starting", "answered", "failed",
                            "registered", "held", "dropped"}]
  /\ terminal \in [Logins -> Results \cup {"none"}]
  /\ announced \subseteq Logins
  /\ cached \in [Logins -> Results \cup {"none"}]
  /\ wait \in [Waits -> {"idle", "waiting", "done", "dropped"}]
  /\ on \in [Waits -> Logins \cup {"none"}]
  /\ sender \in [Waits -> {"none", "listed", "taken", "sent"}]
  /\ answer \in [Waits -> Results \cup {"none"}]
  /\ got \in [Waits -> Results \cup {"none", "timeout"}]

(* A login has no outcome before it is registered, and what the router has *)
(* read of it till then is in the cache.                                   *)
Kept(l) ==
  /\ handle[l] \in {"none", "starting", "answered", "failed"} => terminal[l] = "none"
  /\ handle[l] = "none" => l \notin announced
  /\ handle[l] \in {"starting", "answered"} /\ l \in announced \ evicted
       => cached[l] # "none"
  /\ Active(l) /\ l \in announced \ evicted => terminal[l] # "none"
  /\ handle[l] = "held" /\ link = "cut" => terminal[l] # "none"

(* A listed sender waits for an outcome that is still open; one that is    *)
(* taken carries the outcome.                                              *)
Told(w) ==
  /\ wait[w] = "idle" => sender[w] = "none" /\ got[w] = "none"
  /\ wait[w] # "idle" => on[w] \in Logins
  /\ sender[w] = "listed" =>
       /\ wait[w] = "waiting" /\ link # "cut"
       /\ handle[on[w]] = "held" /\ terminal[on[w]] = "none"
  /\ sender[w] \in {"taken", "sent"} =>
       answer[w] # "none" /\ answer[w] = terminal[on[w]]
  /\ got[w] \in Results => got[w] = terminal[on[w]]

LoginIInv ==
  /\ LoginTypes
  /\ \A l \in Logins : Kept(l)
  /\ \A w \in Waits : Told(w)

LEMMA LoginStarts == LinkInit /\ LoginInit => LoginIInv
BY DEF LinkInit, LoginInit, LoginIInv, LoginTypes, LinkType, Kept, Told, Active,
       Results

(* complete, by whomever: the outcome of an open login is set once and its *)
(* listed senders take it; that of a login without an entry is cached.     *)
LEMMA CompleteKeeps ==
  ASSUME LoginIInv, NEW l \in Logins, NEW result \in Results,
         Complete(l, result),
         \/ handle' = handle
         \/ handle[l] = "registered" /\ handle' = [handle EXCEPT ![l] = "held"],
         link' = link, announced' \subseteq announced \cup {l},
         handle[l] # "none" \/ announced' = announced
  PROVE  LoginIInv'
<1> USE DEF LoginIInv
<1>1. CASE ~Active(l)
  <2> handle' = handle /\ UNCHANGED <<terminal, waitVars>> /\ CacheEarly(l, result)
    BY <1>1, Zenon DEF Complete, Active
  <2>1. /\ cached' \in [Logins -> Results \cup {"none"}]
        /\ cached'[l] # "none"
        /\ evicted \subseteq evicted'
        /\ \A m \in Logins \ evicted' : cached[m] # "none" => cached'[m] # "none"
    BY DEF CacheEarly, LoginTypes, Results, earlyVars
  <2>2. LoginTypes'
    BY <2>1 DEF LoginTypes, LinkType, waitVars
  <2>3. ASSUME NEW m \in Logins PROVE Kept(m)'
    BY <1>1, <2>1 DEF Kept, Active, LoginTypes
  <2>4. ASSUME NEW w \in Waits PROVE Told(w)'
    BY DEF Told, waitVars
  <2> QED BY <2>2, <2>3, <2>4
<1>2. CASE Active(l) /\ terminal[l] # "none"
  <2> UNCHANGED <<terminal, waitVars, earlyVars>>
    BY <1>2 DEF Complete
  <2>1. LoginTypes'
    BY DEF LoginTypes, LinkType, waitVars, earlyVars
  <2>2. ASSUME NEW m \in Logins PROVE Kept(m)'
    BY <1>2 DEF Kept, Active, LoginTypes, earlyVars
  <2>3. ASSUME NEW w \in Waits PROVE Told(w)'
    BY DEF Told, waitVars, LoginTypes
  <2> QED BY <2>1, <2>2, <2>3
<1>3. CASE Active(l) /\ terminal[l] = "none"
  <2> /\ terminal' = [terminal EXCEPT ![l] = result]
      /\ Take({w \in Waits : Listed(w, l)}, result)
      /\ UNCHANGED earlyVars
    BY <1>3 DEF Complete
  <2> result # "none"
    BY DEF Results
  <2>1. LoginTypes'
    BY DEF LoginTypes, LinkType, earlyVars, Take
  <2>2. ASSUME NEW m \in Logins PROVE Kept(m)'
    BY <1>3 DEF Kept, Active, LoginTypes, earlyVars
  <2>3. ASSUME NEW w \in Waits PROVE Told(w)'
    BY <1>3 DEF Told, Take, Listed, LoginTypes, Active, Results
  <2> QED BY <2>1, <2>2, <2>3
<1> QED BY <1>1, <1>2, <1>3

LEMMA LoginKept == LoginIInv /\ [LoginNext]_<<link, loginVars>> => LoginIInv'
<1> SUFFICES ASSUME LoginIInv, [LoginNext]_<<link, loginVars>> PROVE LoginIInv'
  OBVIOUS
<1>1. CASE UNCHANGED <<link, loginVars>> \/ Disconnect
  BY <1>1 DEF LoginIInv, LoginTypes, LinkType, Kept, Told, Active, loginVars,
              earlyVars, waitVars, Disconnect, BeginDisconnect
<1>2. CASE FailActive
  <2> USE <1>2 DEF LoginIInv, FailActive, Take, FailedWaits, earlyVars
  <2>1. LoginTypes'
    BY DEF LoginTypes, LinkType, Results
  <2>2. ASSUME NEW l \in Logins PROVE Kept(l)'
    BY DEF Kept, Active, LoginTypes
  <2>3. ASSUME NEW w \in Waits PROVE Told(w)'
    BY DEF Told, Kept, Active, LoginTypes, Results
  <2> QED BY <2>1, <2>2, <2>3
<1>3. ASSUME NEW l \in Logins,
             \/ StartLogin(l) \/ AnswerStart(l) \/ StartFails(l) \/ Register(l)
             \/ Release(l) \/ CancelLogin(l)
      PROVE  LoginIInv'
  <2> USE <1>3 DEF LoginIInv, StartLogin, AnswerStart, StartFails, Register, Release,
                   CancelLogin, Promote, Promoted, earlyVars, waitVars
  <2>1. LoginTypes'
    BY DEF LoginTypes, LinkType
  <2>2. ASSUME NEW m \in Logins PROVE Kept(m)'
    BY DEF Kept, Active, LoginTypes
  <2>3. ASSUME NEW w \in Waits PROVE Told(w)'
    BY DEF Told, Kept, Active, LoginTypes, Results
  <2> QED BY <2>1, <2>2, <2>3
<1>4. ASSUME NEW l \in Logins,
             CheckRegistered(l) \/ CancelAnswered(l) \/ RouteCompletion(l)
      PROVE  LoginIInv'
  <2>1. CASE \E result \in Results : Complete(l, result)
    <3>1. PICK result \in Results : Complete(l, result)
      BY <2>1
    <3>2. /\ \/ handle' = handle
             \/ handle[l] = "registered" /\ handle' = [handle EXCEPT ![l] = "held"]
          /\ link' = link /\ announced' \subseteq announced \cup {l}
          /\ handle[l] # "none" \/ announced' = announced
      BY <1>4 DEF CheckRegistered, CancelAnswered, RouteCompletion
    <3> QED BY ONLY LoginIInv, l \in Logins, <3>1, <3>2, CompleteKeeps
  <2>2. CASE UNCHANGED <<terminal, earlyVars, waitVars>> /\ CancelAnswered(l)
    BY <2>2 DEF CancelAnswered, LoginIInv, LoginTypes, LinkType, Kept, Told, Active,
                earlyVars, waitVars
  <2>3. CASE UNCHANGED <<terminal, earlyVars, waitVars>> /\ CheckRegistered(l)
             /\ ~IsDisconnected
    BY <2>3 DEF CheckRegistered, LoginIInv, LoginTypes, LinkType, Kept, Told, Active,
                earlyVars, waitVars, IsDisconnected
  <2> QED BY <1>4, <2>1, <2>2, <2>3
          DEF CheckRegistered, CancelAnswered, RouteCompletion, FailIfDisconnected,
              Results
<1>5. ASSUME NEW w \in Waits,
             (\E l \in Logins : Wait(w, l)) \/ Send(w) \/ Receive(w) \/ LeaveWait(w)
      PROVE  LoginIInv'
  <2> USE <1>5 DEF LoginIInv, Wait, Send, Receive, LeaveWait, earlyVars
  <2>1. LoginTypes'
    BY DEF LoginTypes, LinkType
  <2>2. ASSUME NEW m \in Logins PROVE Kept(m)'
    BY DEF Kept, Active
  <2>3. ASSUME NEW v \in Waits PROVE Told(v)'
    BY DEF Told, Kept, LoginTypes, Results
  <2> QED BY <2>1, <2>2, <2>3
<1> QED BY <1>1, <1>2, <1>3, <1>4, <1>5 DEF LoginNext

LEMMA LoginMeans == LoginIInv => OneLoginOutcome /\ EarlyResultKept /\ NoLoginLeft
BY DEF LoginIInv, LoginTypes, Kept, Told, OneLoginOutcome, EarlyResultKept, NoLoginLeft

(* Every wait for a login hears its one terminal result, however complete, *)
(* cancel_login and fail_active race.                                      *)
THEOREM LoginHasOneOutcome == LoginSpec => []OneLoginOutcome
BY LoginStarts, LoginKept, LoginMeans, PTL DEF LoginSpec

(* A completion that the router reads before the login is registered       *)
(* reaches its handle unless the cache evicted it.                         *)
THEOREM LoginKeepsEarlyResult == LoginSpec => []EarlyResultKept
BY LoginStarts, LoginKept, LoginMeans, PTL DEF LoginSpec

(* After a disconnect no login is without an outcome and nobody waits in   *)
(* vain, a caller of register_login that came too late for fail_active     *)
(* included.                                                               *)
THEOREM LoginLeavesNobody == LoginSpec => []NoLoginLeft
BY LoginStarts, LoginKept, LoginMeans, PTL DEF LoginSpec

(* The cache and its queue.  That the cache is full is read off its size,  *)
(* which is the length of the queue.                                       *)
EarlyOrdered ==
  /\ order \in Seq(Logins) /\ Once(order)
  /\ Len(order) <= EarlyCapacity
  /\ \A l \in Logins : Queued(order, l) <=> cached[l] # "none"

LoginQueues ==
  /\ EarlyOrdered
  /\ cancel \in [Logins -> {"none", "sent", "done"}]
  /\ evicted \subseteq Logins

LEMMA QueuesStart == LoginInit => LoginQueues
<1> SUFFICES ASSUME LoginInit PROVE LoginQueues
  OBVIOUS
<1>1. order \in Seq(Logins) /\ Len(order) = 0 /\ DOMAIN order = {}
  BY DEF LoginInit
<1> QED
  BY <1>1, EarlyCapacityAssumption DEF LoginInit, LoginQueues, EarlyOrdered, Once,
                                       Queued

LEMMA CacheKeepsOrder ==
  ASSUME LoginTypes, LoginQueues, NEW l \in Logins, NEW result \in Results,
         CacheEarly(l, result)
  PROVE  EarlyOrdered' /\ evicted' \subseteq Logins
<1> DEFINE size == Cardinality({m \in Logins : cached[m] # "none"})
           full == size >= EarlyCapacity /\ order # <<>>
           out == IF full THEN {Head(order)} ELSE {}
           rest == IF full THEN Tail(order) ELSE order
<1>1. /\ order \in Seq(Logins) /\ Once(order) /\ Len(order) \in Nat
      /\ Len(order) <= EarlyCapacity /\ EarlyCapacity \in Nat \ {0}
      /\ \A m \in Logins : Queued(order, m) <=> cached[m] # "none"
      /\ cached \in [Logins -> Results \cup {"none"}]
  BY EarlyCapacityAssumption DEF LoginTypes, LoginQueues, EarlyOrdered
<1>2. CASE cached[l] # "none"
  BY <1>2 DEF CacheEarly, earlyVars, LoginQueues, EarlyOrdered
<1>3. CASE cached[l] = "none"
  <2>1. /\ cached' = [m \in Logins |-> IF m = l THEN result
                                       ELSE IF m \in out THEN "none" ELSE cached[m]]
        /\ order' = Append(rest, l)
        /\ evicted' = evicted \cup out
    BY <1>3 DEF CacheEarly
  <2>2. size = Len(order)
    <3>1. {m \in Logins : cached[m] # "none"} = {m \in Logins : Queued(order, m)}
      BY <1>1
    <3> QED BY <1>1, <3>1, QueueCounts
  <2>3. order # <<>> => Head(order) \in Logins /\ Queued(order, Head(order))
    BY <1>1 DEF Queued
  <2>4. /\ rest \in Seq(Logins) /\ Once(rest) /\ Len(rest) < EarlyCapacity
        /\ \A m : Queued(rest, m) <=> Queued(order, m) /\ m \notin out
    <3>1. CASE full
      BY <1>1, <3>1, FirstLeaves
    <3>2. CASE ~full
      <4>1. rest = order /\ out = {}
        BY <3>2
      <4>2. Len(order) < EarlyCapacity
        <5>1. CASE order = <<>>
          BY <1>1, <5>1
        <5>2. CASE order # <<>>
          BY <1>1, <2>2, <3>2, <5>2
        <5> QED BY <5>1, <5>2
      <4> QED BY <1>1, <4>1, <4>2
    <3> QED BY <3>1, <3>2
  <2>5. out \subseteq Logins /\ l \notin out
    BY <1>1, <1>3, <2>3
  <2> HIDE DEF out, rest
  <2>6. ~Queued(rest, l)
    BY <1>1, <1>3, <2>4
  <2>7. /\ order' \in Seq(Logins) /\ Once(order')
        /\ \A m : Queued(order', m) <=> Queued(rest, m) \/ m = l
    BY <2>1, <2>4, <2>6, Joining
  <2>8. Len(order') <= EarlyCapacity
    BY <1>1, <2>1, <2>4
  <2>9. \A m \in Logins : Queued(order', m) <=> cached'[m] # "none"
    BY <1>1, <2>1, <2>4, <2>5, <2>7 DEF Results
  <2> QED BY <2>1, <2>5, <2>7, <2>8, <2>9 DEF EarlyOrdered, LoginQueues
<1> QED BY <1>2, <1>3

LEMMA PromoteKeepsOrder ==
  ASSUME LoginTypes, LoginQueues, NEW l \in Logins, Promote(l)
  PROVE  EarlyOrdered'
<1>1. order \in Seq(Logins) /\ Once(order) /\ order' = Without(order, l)
  BY DEF LoginQueues, EarlyOrdered, Promote, NotQueued
<1>2. /\ order' \in Seq(Logins) /\ Once(order') /\ Len(order') <= Len(order)
      /\ \A m : Queued(order', m) <=> Queued(order, m) /\ m # l
  BY <1>1, Leaving
<1>3. Len(order') <= EarlyCapacity
  <2>1. Len(order') \in Nat /\ Len(order) \in Nat /\ EarlyCapacity \in Nat
    BY <1>1, <1>2, EarlyCapacityAssumption
  <2> QED BY <1>2, <2>1 DEF LoginQueues, EarlyOrdered
<1>4. \A m \in Logins : Queued(order', m) <=> cached'[m] # "none"
  BY <1>2 DEF LoginQueues, EarlyOrdered, LoginTypes, Promote
<1> QED BY <1>2, <1>3, <1>4 DEF EarlyOrdered

LEMMA QueuesKept ==
  LoginTypes /\ LoginQueues /\ [LoginNext]_<<link, loginVars>> => LoginQueues'
<1> SUFFICES ASSUME LoginTypes, LoginQueues, [LoginNext]_<<link, loginVars>>
             PROVE  LoginQueues'
  OBVIOUS
<1>1. ASSUME UNCHANGED earlyVars, cancel' \in [Logins -> {"none", "sent", "done"}]
      PROVE  LoginQueues'
  BY <1>1 DEF earlyVars, LoginQueues, EarlyOrdered
<1>2. ASSUME NEW l \in Logins, NEW result \in Results, Complete(l, result),
             cancel' \in [Logins -> {"none", "sent", "done"}]
      PROVE  LoginQueues'
  <2>1. CASE Active(l)
    BY <1>1, <1>2, <2>1 DEF Complete
  <2>2. CASE ~Active(l)
    BY <1>2, <2>2, CacheKeepsOrder DEF Complete, LoginQueues
  <2> QED BY <2>1, <2>2
<1>3. ASSUME NEW l \in Logins, Promote(l), UNCHANGED <<evicted, cancel>>
      PROVE  LoginQueues'
  BY <1>3, PromoteKeepsOrder DEF LoginQueues
<1>4. CASE UNCHANGED <<link, loginVars>> \/ Disconnect \/ FailActive
  BY <1>1, <1>4 DEF loginVars, Disconnect, FailActive, LoginQueues
<1>5. ASSUME NEW l \in Logins,
             StartLogin(l) \/ AnswerStart(l) \/ StartFails(l) \/ CancelLogin(l)
      PROVE  LoginQueues'
  BY <1>1, <1>5 DEF StartLogin, AnswerStart, StartFails, CancelLogin, LoginQueues
<1>6. ASSUME NEW l \in Logins, Register(l) \/ Release(l)
      PROVE  LoginQueues'
  BY <1>3, <1>6 DEF Register, Release
<1>7. ASSUME NEW l \in Logins,
             CheckRegistered(l) \/ CancelAnswered(l) \/ RouteCompletion(l)
      PROVE  LoginQueues'
  <2>1. cancel' \in [Logins -> {"none", "sent", "done"}]
    BY <1>7 DEF CheckRegistered, CancelAnswered, RouteCompletion, LoginQueues
  <2>2. UNCHANGED earlyVars \/ \E result \in Results : Complete(l, result)
    BY <1>7 DEF CheckRegistered, CancelAnswered, RouteCompletion,
                FailIfDisconnected, Results
  <2> QED BY <1>1, <1>2, <2>1, <2>2
<1>8. ASSUME NEW w \in Waits,
             (\E l \in Logins : Wait(w, l)) \/ Send(w) \/ Receive(w) \/ LeaveWait(w)
      PROVE  LoginQueues'
  BY <1>1, <1>8 DEF Wait, Send, Receive, LeaveWait, LoginQueues
<1> QED BY <1>4, <1>5, <1>6, <1>7, <1>8 DEF LoginNext

LEMMA QueuesMean == LoginIInv /\ LoginQueues => LoginInvariant
<1> SUFFICES ASSUME LoginIInv, LoginQueues PROVE LoginInvariant
  OBVIOUS
<1>1. ASSUME NEW l \in Logins
      PROVE  Cardinality({i \in DOMAIN order : order[i] = l})
               = IF cached[l] = "none" THEN 0 ELSE 1
  <2> DEFINE places == {i \in DOMAIN order : order[i] = l}
  <2>1. CASE cached[l] = "none"
    <3>1. places = {}
      BY <2>1 DEF LoginQueues, EarlyOrdered, Queued
    <3> QED BY <2>1, <3>1, FS_EmptySet
  <2>2. CASE cached[l] # "none"
    <3>1. PICK i \in DOMAIN order : order[i] = l
      BY <2>2 DEF LoginQueues, EarlyOrdered, Queued
    <3>2. places = {i}
      BY <3>1 DEF LoginQueues, EarlyOrdered, Once
    <3> QED BY <2>2, <3>2, FS_Singleton
  <2> QED BY <2>1, <2>2
<1>2. LoginTypeOK
  BY <1>1 DEF LoginTypeOK, LoginIInv, LoginTypes, LoginQueues, EarlyOrdered
<1> QED BY <1>2, LoginMeans DEF LoginInvariant

(* The first terminal result of a login is its only one and is not lost,   *)
(* and LoginRegistry's two collections of early results hold the same      *)
(* logins, each once and no more than the capacity.                        *)
THEOREM LoginRegistryInStep == LoginSpec => []LoginInvariant
<1>1. LoginIInv /\ LoginQueues /\ [LoginNext]_<<link, loginVars>>
        => (LoginIInv /\ LoginQueues)'
  BY LoginKept, QueuesKept DEF LoginIInv
<1>2. LinkInit /\ LoginInit => LoginIInv /\ LoginQueues
  BY LoginStarts, QueuesStart
<1> QED BY <1>1, <1>2, QueuesMean, PTL DEF LoginSpec

-----------------------------------------------------------------------------
(* SessionRegistry.  The properties depend on the two locks: who works     *)
(* with the lifecycle lock is at the head of its queue, alone, and who     *)
(* asks for it holds the lock of its session.                              *)

(* The types but for the queues.                                           *)
SessionStates ==
  /\ LinkType
  /\ loaded \subseteq Threads /\ todo \subseteq Threads
  /\ visited \subseteq Threads /\ givenUp \subseteq Threads
  /\ session \in [Threads -> {"none", "open", "used", "ending", "closed",
                             "dropped"}]
  /\ create \in [Threads -> {"idle", "queued", "sent", "fencing", "done"}]
  /\ start \in [Threads -> {"idle", "queued", "ordered", "sent", "fencing"}]
  /\ close \in [Threads -> {"idle", "queued", "ordered", "sent"}]
  /\ clean \in [Threads -> {"idle", "queued", "interrupting", "sent", "fencing",
                            "done"}]
  /\ turn \in [Threads -> {"none", "starting", "running"}]
  /\ remote \in [Threads -> {"none", "loaded", "unloaded"}]
  /\ shutdown \in {"idle", "queued", "visiting", "interrupting", "sending",
                   "stopping", "done"}

SessionFlags == {closing, fence, failures, expired} \subseteq BOOLEAN

(* Who is in the queue of the lifecycle lock, and who is its head.         *)
LifecycleOrdered ==
  /\ lifecycle \in Seq(Tasks) /\ Once(lifecycle)
  /\ \A t \in Threads :
       /\ Queued(lifecycle, <<"create", t>>) <=> create[t] \notin {"idle", "done"}
       /\ Queued(lifecycle, <<"start", t>>) <=> start[t] \notin {"idle", "queued"}
       /\ Queued(lifecycle, <<"close", t>>) <=> close[t] \notin {"idle", "queued"}
       /\ Queued(lifecycle, <<"clean", t>>) <=> clean[t] \notin {"idle", "done"}
  /\ Queued(lifecycle, Shutter) <=> shutdown \notin {"idle", "stopping", "done"}
  /\ \A t \in Threads :
       /\ create[t] \in {"sent", "fencing"} => Holds(<<"create", t>>)
       /\ start[t] \in {"sent", "fencing"} => Holds(<<"start", t>>)
       /\ close[t] = "sent" => Holds(<<"close", t>>)
       /\ clean[t] \in {"interrupting", "sent", "fencing"} => Holds(<<"clean", t>>)
  /\ shutdown \in {"visiting", "interrupting", "sending"} => Holds(Shutter)

(* The same for the lock of a session.                                     *)
SessionOrdered ==
  /\ sessionLock \in [Threads -> Seq({"start", "close"})]
  /\ \A t \in Threads :
       /\ Once(sessionLock[t])
       /\ Queued(sessionLock[t], "start") <=> start[t] # "idle"
       /\ Queued(sessionLock[t], "close") <=> close[t] # "idle"
       /\ start[t] \notin {"idle", "queued"} => HoldsSession(t, "start")
       /\ close[t] \notin {"idle", "queued"} => HoldsSession(t, "close")

(* What there is of a Session while the calls on it run.                   *)
SessionUsed(t) ==
  /\ create[t] = "idle" => session[t] = "none"
  /\ create[t] \in {"queued", "sent", "fencing"} =>
       session[t] \in {"none", "closed", "dropped"}
  /\ t \in OneShot /\ create[t] # "done" => session[t] = "none"
  /\ start[t] # "idle" => session[t] \in {"open", "used", "closed"}
  /\ close[t] # "idle" =>
       session[t] \in {"closed", IF t \in OneShot THEN "ending" ELSE "open"}
  /\ start[t] \notin {"idle", "queued"} => session[t] # "closed"
  /\ clean[t] # "idle" => t \in OneShot /\ session[t] = "dropped"

Sound == link = "up" /\ ~fence

(* A thread of an open Session is loaded, and no task that is about to     *)
(* unsubscribe a thread meets a turn of it.  That a loaded thread is in    *)
(* the registry holds until the operation's deadline has passed.           *)
ThreadKept(t) ==
  /\ link = "up" /\ start[t] = "sent" => turn[t] = "starting"
  /\ Sound /\ turn[t] = "starting" => start[t] = "sent"
  /\ close[t] = "sent" => turn[t] = "none"
  /\ Sound /\ clean[t] = "sent" => turn[t] = "none"
  /\ Sound /\ ~closing /\ t \notin givenUp
       /\ session[t] \in {"open", "used", "ending"} => remote[t] = "loaded"
  /\ Sound /\ ~failures /\ t \notin givenUp /\ turn[t] # "none" =>
       remote[t] = "loaded"
  /\ Sound /\ ~expired /\ remote[t] = "loaded" => t \in loaded

(* shutdown visits every thread that is loaded when it gets the lock.      *)
(* After the deadline it does not ask for the lock.                        *)
ShutdownVisits ==
  /\ closing <=> shutdown # "idle"
  /\ shutdown \in {"idle", "queued", "visiting"} => visited = {}
  /\ shutdown \in {"idle", "queued"} => todo = {}
  /\ shutdown \in {"stopping", "done"} /\ link = "up" /\ ~expired =>
       \A t \in Threads : create[t] # "sent"
  /\ Sound /\ ~failures =>
       /\ shutdown = "sending" => \A t \in visited : turn[t] = "none"
       /\ shutdown \in {"stopping", "done"} => todo = {} /\ visited = {}
  /\ Sound /\ ~failures /\ ~expired =>
       /\ shutdown \in {"visiting", "interrupting", "sending", "stopping", "done"} =>
            \A t \in Threads : remote[t] = "loaded" => t \in todo \cup visited

SessionIInv ==
  /\ SessionStates /\ SessionFlags
  /\ LifecycleOrdered
  /\ SessionOrdered
  /\ \A t \in Threads : SessionUsed(t) /\ ThreadKept(t)
  /\ ShutdownVisits

-----------------------------------------------------------------------------
(* What a step does to the two locks.                                      *)

LifecycleAfter(x) ==
  /\ lifecycle' \in Seq(Tasks) /\ Once(lifecycle')
  /\ \A y : y # x => (Queued(lifecycle', y) <=> Queued(lifecycle, y))
  /\ \A y : y # x /\ Holds(y) => Holds(y)'
  /\ Exit(x) => ~Queued(lifecycle', x)
  /\ Enter(x) => Queued(lifecycle', x)

LEMMA LifecycleMoves ==
  ASSUME LifecycleOrdered, NEW x \in Tasks,
         \/ lifecycle' = lifecycle
         \/ Exit(x)
         \/ Enter(x) /\ ~Queued(lifecycle, x)
  PROVE  LifecycleAfter(x)
<1>1. /\ Exit(x) => ~Queued(lifecycle', x)
      /\ Enter(x) => Queued(lifecycle', x)
  <2>1. lifecycle \in Seq(Tasks) /\ Once(lifecycle)
    BY DEF LifecycleOrdered
  <2>2. ~Queued(Without(lifecycle, x), x)
    BY ONLY <2>1, Leaving
  <2>3. Queued(Append(lifecycle, x), x)
    BY ONLY <2>1, JoinedIsQueued
  <2> QED BY ONLY <2>2, <2>3 DEF Exit, Enter
<1>2. CASE lifecycle' = lifecycle
  BY <1>1, <1>2 DEF LifecycleOrdered, LifecycleAfter, Holds
<1>3. CASE Exit(x)
  BY <1>1, <1>3, Leaving DEF LifecycleOrdered, LifecycleAfter, Exit, Holds
<1>4. CASE Enter(x) /\ ~Queued(lifecycle, x)
  BY <1>1, <1>4, Joining DEF LifecycleOrdered, LifecycleAfter, Enter, Holds
<1> QED BY <1>2, <1>3, <1>4

(* Who holds the lifecycle lock is alone.                                  *)
LEMMA HolderIsAlone ==
  ASSUME LifecycleOrdered, NEW x, Holds(x)
  PROVE  /\ \A u \in Threads :
              /\ create[u] \in {"sent", "fencing"} => x = <<"create", u>>
              /\ start[u] \in {"sent", "fencing"} => x = <<"start", u>>
              /\ close[u] = "sent" => x = <<"close", u>>
              /\ clean[u] \in {"interrupting", "sent", "fencing"} =>
                   x = <<"clean", u>>
         /\ shutdown \in {"visiting", "interrupting", "sending"} => x = Shutter
BY DEF LifecycleOrdered, Holds

LEMMA KindsDiffer ==
  \A t, u : /\ <<"create", t>> # <<"start", u>> /\ <<"create", t>> # <<"close", u>>
            /\ <<"create", t>> # <<"clean", u>> /\ <<"create", t>> # Shutter
            /\ <<"start", t>> # <<"close", u>> /\ <<"start", t>> # <<"clean", u>>
            /\ <<"start", t>> # Shutter /\ <<"close", t>> # <<"clean", u>>
            /\ <<"close", t>> # Shutter /\ <<"clean", t>> # Shutter
            /\ <<"create", t>> = <<"create", u>> => t = u
            /\ <<"start", t>> = <<"start", u>> => t = u
            /\ <<"close", t>> = <<"close", u>> => t = u
            /\ <<"clean", t>> = <<"clean", u>> => t = u
BY DEF Shutter

SessionLockAfter(t, role) ==
  /\ sessionLock' \in [Threads -> Seq({"start", "close"})]
  /\ \A u \in Threads :
       /\ Once(sessionLock'[u])
       /\ u # t => sessionLock'[u] = sessionLock[u]
  /\ \A r : r # role =>
       /\ Queued(sessionLock'[t], r) <=> Queued(sessionLock[t], r)
       /\ HoldsSession(t, r) => HoldsSession(t, r)'
  /\ ExitSession(t, role) => ~Queued(sessionLock'[t], role)
  /\ EnterSession(t, role) => Queued(sessionLock'[t], role)

LEMMA SessionLockMoves ==
  ASSUME SessionOrdered, NEW t \in Threads, NEW role \in {"start", "close"},
         \/ sessionLock' = sessionLock
         \/ ExitSession(t, role)
         \/ EnterSession(t, role) /\ ~Queued(sessionLock[t], role)
  PROVE  SessionLockAfter(t, role)
<1> DEFINE Roles == {"start", "close"}
<1>0. sessionLock \in [Threads -> Seq(Roles)] /\ role \in Roles
      /\ \A u \in Threads : sessionLock[u] \in Seq(Roles) /\ Once(sessionLock[u])
  BY DEF SessionOrdered
<1> SUFFICES /\ sessionLock' \in [Threads -> Seq(Roles)]
             /\ \A u \in Threads :
                  /\ Once(sessionLock'[u])
                  /\ u # t => sessionLock'[u] = sessionLock[u]
             /\ \A r : r # role =>
                  /\ Queued(sessionLock'[t], r) <=> Queued(sessionLock[t], r)
                  /\ HoldsSession(t, r) => HoldsSession(t, r)'
             /\ ExitSession(t, role) => ~Queued(sessionLock'[t], role)
             /\ EnterSession(t, role) => Queued(sessionLock'[t], role)
  BY DEF SessionLockAfter
<1> HIDE DEF Roles
<1> USE DEF HoldsSession
<1>1. /\ ExitSession(t, role) => ~Queued(sessionLock'[t], role)
      /\ EnterSession(t, role) => Queued(sessionLock'[t], role)
  <2>1. sessionLock[t] \in Seq(Roles) /\ Once(sessionLock[t])
    BY <1>0
  <2>2. ~Queued(Without(sessionLock[t], role), role)
    BY ONLY <2>1, Leaving
  <2>3. Queued(Append(sessionLock[t], role), role)
    BY ONLY <2>1, JoinedIsQueued
  <2> QED BY <1>0, <2>2, <2>3 DEF ExitSession, EnterSession
<1>2. CASE sessionLock' = sessionLock
  BY <1>0, <1>1, <1>2
<1>3. CASE ExitSession(t, role)
  BY <1>0, <1>1, <1>3, Leaving DEF ExitSession
<1>4. CASE EnterSession(t, role) /\ ~Queued(sessionLock[t], role)
  BY <1>0, <1>1, <1>4, Joining DEF EnterSession
<1> QED BY <1>2, <1>3, <1>4

(* create_session and resume_session.                                      *)
LEMMA CreateKeeps ==
  ASSUME SessionIInv, NEW t \in Threads,
         BeginCreate(t) \/ CreateStep(t) \/ DropCreate(t)
  PROVE  SessionIInv'
<1> DEFINE x == <<"create", t>>
<1> USE DEF SessionIInv, BeginCreate, CreateStep, SendCreate, FinishCreate,
            CreateFails, CreateTimesOut, CreateOverdue, DropCreate,
            ReturnCreate, Orphaned, Calling, Refuses, IsDisconnected,
            BeginDisconnect, lockVars, stateVars, shutVars
<1>1. x \in Tasks
  BY DEF Tasks
<1>2. LifecycleAfter(x)
  BY <1>1, LifecycleMoves DEF LifecycleOrdered
<1>3. SessionStates' /\ SessionFlags'
  <2>1. SessionStates'
    BY DEF SessionStates, LinkType
  <2>2. SessionFlags'
    BY DEF SessionFlags
  <2> QED BY <2>1, <2>2
<1>4. LifecycleOrdered'
  <2>1. Queued(lifecycle', x) <=> create'[t] \notin {"idle", "done"}
    <3>1. Queued(lifecycle, x) <=> create[t] \notin {"idle", "done"}
      BY DEF LifecycleOrdered
    <3>2. /\ Exit(x) => ~Queued(lifecycle', x)
          /\ Enter(x) => Queued(lifecycle', x)
      BY <1>2 DEF LifecycleAfter
    <3>3. create = [u \in Threads |-> create[u]]
      BY DEF SessionStates
    <3> QED BY <3>1, <3>2, <3>3
  <2>2. create'[t] \in {"sent", "fencing"} => Holds(x)'
    BY <1>2 DEF LifecycleOrdered, SessionStates, Holds
  <2>3. UNCHANGED <<start, close, clean, shutdown>>
        /\ \A u \in Threads \ {t} : create'[u] = create[u]
    BY DEF SessionStates
  <2> QED
    BY ONLY <1>2, <2>1, <2>2, <2>3, LifecycleOrdered, KindsDiffer
       DEF LifecycleOrdered, LifecycleAfter
<1>5. SessionOrdered'
  BY DEF SessionOrdered, HoldsSession
<1>6. ASSUME NEW u \in Threads PROVE SessionUsed(u)'
  BY DEF SessionUsed, SessionStates
<1>7. create[t] \in {"sent", "fencing"} =>
        /\ \A u \in Threads : start[u] # "sent" /\ clean[u] # "sent"
        /\ shutdown \notin {"visiting", "interrupting", "sending"}
  <2> SUFFICES ASSUME Holds(x)
               PROVE  /\ \A u \in Threads : start[u] # "sent" /\ clean[u] # "sent"
                      /\ shutdown \notin {"visiting", "interrupting", "sending"}
    BY DEF LifecycleOrdered
  <2> QED BY KindsDiffer, HolderIsAlone
<1>8. ASSUME NEW u \in Threads PROVE ThreadKept(u)'
  <2>1. ThreadKept(u)
    OBVIOUS
  <2>2. UNCHANGED <<start, turn, close, clean, closing, failures>>
        /\ (link' = "up" => link = "up") /\ (~fence' => ~fence)
    BY DEF LinkType, SessionStates, SessionFlags
  <2>3. CASE u # t
    BY <2>1, <2>2, <2>3 DEF ThreadKept, Sound, SessionStates
  <2>4. CASE u = t
    BY <2>1, <2>2, <2>4, ZenonT(30) DEF ThreadKept, Sound, SessionStates
  <2> QED BY <2>3, <2>4
<1>9. ShutdownVisits'
  BY <1>7 DEF ShutdownVisits, Sound, SessionStates, LinkType, SessionFlags
<1> QED BY <1>3, <1>4, <1>5, <1>6, <1>8, <1>9

(* Session::start, and the end of a turn.                                  *)
LEMMA StartKeeps ==
  ASSUME SessionIInv, NEW t \in Threads,
         BeginStart(t) \/ StartStep(t) \/ DropStart(t) \/ EndTurn(t)
  PROVE  SessionIInv'
<1> DEFINE x == <<"start", t>>
<1> USE DEF SessionIInv, BeginStart, StartStep, LockStart, SendStart, FinishStart,
            StartTimesOut, StartLost, DropStart, EndTurn, ReturnStart, Advance,
            Calling, Refuses, IsDisconnected, BeginDisconnect, lockVars, stateVars,
            shutVars
<1>1. x \in Tasks
  BY DEF Tasks
<1>2. LifecycleAfter(x)
  BY <1>1, LifecycleMoves DEF LifecycleOrdered
<1>3. SessionLockAfter(t, "start")
  BY SessionLockMoves DEF SessionOrdered
<1>4. SessionStates' /\ SessionFlags'
  <2>1. SessionStates'
    BY DEF SessionStates, LinkType
  <2>2. SessionFlags'
    BY DEF SessionFlags
  <2> QED BY <2>1, <2>2
<1>5. LifecycleOrdered'
  <2>1. Queued(lifecycle', x) <=> start'[t] \notin {"idle", "queued"}
    <3>1. Queued(lifecycle, x) <=> start[t] \notin {"idle", "queued"}
      BY DEF LifecycleOrdered
    <3>2. /\ Exit(x) => ~Queued(lifecycle', x)
          /\ Enter(x) => Queued(lifecycle', x)
      BY <1>2 DEF LifecycleAfter
    <3>3. start = [u \in Threads |-> start[u]]
      BY DEF SessionStates
    <3> QED BY <3>1, <3>2, <3>3
  <2>2. start'[t] \in {"sent", "fencing"} => Holds(x)'
    BY <1>2 DEF LifecycleOrdered, SessionStates, Holds
  <2>3. UNCHANGED <<create, close, clean, shutdown>>
        /\ \A u \in Threads \ {t} : start'[u] = start[u]
    BY DEF SessionStates
  <2> QED
    BY ONLY <1>2, <2>1, <2>2, <2>3, LifecycleOrdered, KindsDiffer
       DEF LifecycleOrdered, LifecycleAfter
<1>6. SessionOrdered'
  <2>1. Queued(sessionLock'[t], "start") <=> start'[t] # "idle"
    BY <1>3 DEF SessionLockAfter, SessionOrdered, SessionStates
  <2>2. start'[t] \notin {"idle", "queued"} => HoldsSession(t, "start")'
    BY <1>3 DEF SessionOrdered, SessionStates, HoldsSession
  <2>3. UNCHANGED close /\ \A u \in Threads \ {t} : start'[u] = start[u]
    BY DEF SessionStates
  <2> QED
    BY ONLY <1>3, <2>1, <2>2, <2>3, SessionOrdered
       DEF SessionOrdered, SessionLockAfter, HoldsSession
<1>7. ASSUME NEW u \in Threads PROVE SessionUsed(u)'
  <2>1. SessionUsed(u) /\ UNCHANGED <<create, close, clean>>
    OBVIOUS
  <2>2. CASE u # t
    BY <2>1, <2>2 DEF SessionUsed, SessionStates
  <2>3. CASE u = t /\ BeginStart(t)
    BY <2>1, <2>3 DEF SessionUsed, SessionStates
  <2>4. CASE u = t /\ LockStart(t)
    BY <2>1, <2>4 DEF SessionUsed, SessionStates
  <2>5. CASE u = t /\ ~BeginStart(t) /\ ~LockStart(t)
    <3>1. session' = session
      BY <2>5
    <3>2. start'[t] # "idle" =>
            start[t] \notin {"idle", "queued"} \/ start'[t] = start[t]
      BY <2>5 DEF SessionStates
    <3> QED BY <2>1, <2>5, <3>1, <3>2 DEF SessionUsed
  <2> QED BY <2>2, <2>3, <2>4, <2>5
<1>8. (start[t] = "ordered" /\ Holds(x)) \/ start[t] = "sent" =>
        /\ \A u \in Threads : close[u] # "sent" /\ clean[u] # "sent"
        /\ \A u \in Threads : start[u] \in {"sent", "fencing"} => u = t
        /\ shutdown \notin {"visiting", "interrupting", "sending"}
  <2> SUFFICES ASSUME Holds(x)
               PROVE  /\ \A u \in Threads : close[u] # "sent" /\ clean[u] # "sent"
                      /\ \A u \in Threads : start[u] \in {"sent", "fencing"} => u = t
                      /\ shutdown \notin {"visiting", "interrupting", "sending"}
    BY DEF LifecycleOrdered
  <2> QED BY KindsDiffer, HolderIsAlone
<1>9. ASSUME NEW u \in Threads PROVE ThreadKept(u)'
  <2>1. ThreadKept(u) /\ SessionUsed(u)
    OBVIOUS
  <2>2. UNCHANGED <<create, close, clean, closing, failures, loaded, remote, givenUp>>
        /\ (link' = "up" => link = "up") /\ (~fence' => ~fence)
    BY DEF LinkType, SessionStates, SessionFlags
  <2>3. CASE u # t
    BY <2>1, <2>2, <2>3 DEF ThreadKept, Sound, SessionStates
  <2>4. CASE u = t
    <3> USE <2>1, <2>2, <2>4 DEF ThreadKept, SessionUsed, Sound, SessionStates
    <3>1. CASE BeginStart(t) \/ EndTurn(t)
      BY <3>1
    <3>2. CASE LockStart(t)
      BY <3>2
    <3>5. CASE DropStart(t)
      <4>1. start[t] = "sent" => fence'
        BY <3>5
      <4> QED BY <3>5, <4>1
    <3>3. CASE SendStart(t)
      BY <1>8, <3>3
    <3>4. CASE FinishStart(t) \/ StartTimesOut(t) \/ StartLost(t)
      BY <1>8, <3>4
    <3> QED BY <3>1, <3>2, <3>3, <3>4, <3>5
  <2> QED BY <2>3, <2>4
<1>10. ShutdownVisits'
  BY <1>8 DEF ShutdownVisits, Sound, SessionStates, LinkType, SessionFlags
<1> QED BY <1>4, <1>5, <1>6, <1>7, <1>9, <1>10

(* Session::close, and a Session that is dropped.                          *)
LEMMA CloseKeeps ==
  ASSUME SessionIInv, NEW t \in Threads,
         BeginClose(t) \/ CloseStep(t) \/ LeaveClose(t) \/ DropSession(t)
  PROVE  SessionIInv'
<1> DEFINE x == <<"close", t>>
<1> USE DEF SessionIInv, BeginClose, CloseStep, LockClose, SendClose, FinishClose,
            LeaveClose, DropSession, ReturnClose, Advance, Calling, Refuses,
            IsDisconnected, lockVars, stateVars, shutVars
<1>1. x \in Tasks
  BY DEF Tasks
<1>2. LifecycleAfter(x)
  BY <1>1, LifecycleMoves DEF LifecycleOrdered
<1>3. SessionLockAfter(t, "close")
  BY SessionLockMoves DEF SessionOrdered
<1>4. SessionStates' /\ SessionFlags'
  <2>1. SessionStates'
    BY DEF SessionStates, LinkType
  <2>2. SessionFlags'
    BY DEF SessionFlags
  <2> QED BY <2>1, <2>2
<1>5. LifecycleOrdered'
  <2>1. Queued(lifecycle', x) <=> close'[t] \notin {"idle", "queued"}
    <3>1. Queued(lifecycle, x) <=> close[t] \notin {"idle", "queued"}
      BY DEF LifecycleOrdered
    <3>2. /\ Exit(x) => ~Queued(lifecycle', x)
          /\ Enter(x) => Queued(lifecycle', x)
      BY <1>2 DEF LifecycleAfter
    <3>3. close = [u \in Threads |-> close[u]]
      BY DEF SessionStates
    <3> QED BY <3>1, <3>2, <3>3
  <2>2. close'[t] = "sent" => Holds(x)'
    BY <1>2 DEF LifecycleOrdered, SessionStates, Holds
  <2>3. UNCHANGED <<create, start, clean, shutdown>>
        /\ \A u \in Threads \ {t} : close'[u] = close[u]
    BY DEF SessionStates
  <2> QED
    BY ONLY <1>2, <2>1, <2>2, <2>3, LifecycleOrdered, KindsDiffer
       DEF LifecycleOrdered, LifecycleAfter
<1>6. SessionOrdered'
  <2>1. Queued(sessionLock'[t], "close") <=> close'[t] # "idle"
    BY <1>3 DEF SessionLockAfter, SessionOrdered, SessionStates
  <2>2. close'[t] \notin {"idle", "queued"} => HoldsSession(t, "close")'
    BY <1>3 DEF SessionOrdered, SessionStates, HoldsSession
  <2>3. UNCHANGED start /\ \A u \in Threads \ {t} : close'[u] = close[u]
    BY DEF SessionStates
  <2> QED
    BY ONLY <1>3, <2>1, <2>2, <2>3, SessionOrdered
       DEF SessionOrdered, SessionLockAfter, HoldsSession
<1>7. close[t] \notin {"idle", "queued"} => start[t] \in {"idle", "queued"}
  BY DEF SessionOrdered, HoldsSession
<1>8. ASSUME NEW u \in Threads PROVE SessionUsed(u)'
  BY <1>7 DEF SessionUsed, SessionStates
<1>9. ASSUME NEW u \in Threads PROVE ThreadKept(u)'
  <2>1. ThreadKept(u) /\ SessionUsed(u)
    OBVIOUS
  <2>2. UNCHANGED <<link, fence, create, start, clean, turn, closing, failures>>
    OBVIOUS
  <2>3. CASE u # t
    BY <2>1, <2>2, <2>3 DEF ThreadKept, Sound, SessionStates
  <2>4. CASE u = t
    BY <2>1, <2>2, <2>4 DEF ThreadKept, SessionUsed, Sound, SessionStates
  <2> QED BY <2>3, <2>4
<1>10. ShutdownVisits'
  BY DEF ShutdownVisits, Sound, SessionStates
<1> QED BY <1>4, <1>5, <1>6, <1>8, <1>9, <1>10

(* The clean-up of an abandoned one-shot run.                              *)
LEMMA CleanKeeps ==
  ASSUME SessionIInv, NEW t \in Threads, AbandonOneShot(t) \/ CleanStep(t)
  PROVE  SessionIInv'
<1> DEFINE x == <<"clean", t>>
<1> USE DEF SessionIInv, AbandonOneShot, CleanStep, SendClean, FinishClean,
            CleanFails, FenceAfterClean, CleanFenced, ReturnClean, IsDisconnected,
            BeginDisconnect, stateVars, shutVars
<1>1. x \in Tasks
  BY DEF Tasks
<1>2. LifecycleAfter(x)
  <2>1. AbandonOneShot(t) => clean[t] = "idle"
    BY DEF SessionUsed, SessionStates
  <2> QED BY <1>1, <2>1, LifecycleMoves DEF LifecycleOrdered
<1>3. SessionStates' /\ SessionFlags'
  <2>1. SessionStates'
    BY DEF SessionStates, LinkType
  <2>2. SessionFlags'
    BY DEF SessionFlags
  <2> QED BY <2>1, <2>2
<1>4. LifecycleOrdered'
  <2>1. Queued(lifecycle', x) <=> clean'[t] \notin {"idle", "done"}
    <3>1. Queued(lifecycle, x) <=> clean[t] \notin {"idle", "done"}
      BY DEF LifecycleOrdered
    <3>2. /\ Exit(x) => ~Queued(lifecycle', x)
          /\ Enter(x) => Queued(lifecycle', x)
      BY <1>2 DEF LifecycleAfter
    <3>3. clean = [u \in Threads |-> clean[u]]
      BY DEF SessionStates
    <3> QED BY <3>1, <3>2, <3>3
  <2>2. clean'[t] \in {"interrupting", "sent", "fencing"} => Holds(x)'
    BY <1>2 DEF LifecycleOrdered, SessionStates, Holds
  <2>3. UNCHANGED <<create, start, close, shutdown>>
        /\ \A u \in Threads \ {t} : clean'[u] = clean[u]
    BY DEF SessionStates
  <2> QED
    BY ONLY <1>2, <2>1, <2>2, <2>3, LifecycleOrdered, KindsDiffer
       DEF LifecycleOrdered, LifecycleAfter
<1>5. SessionOrdered'
  BY DEF SessionOrdered, HoldsSession
<1>6. ASSUME NEW u \in Threads PROVE SessionUsed(u)'
  BY DEF SessionUsed, SessionStates
<1>7. SendClean(t) \/ FinishClean(t) =>
        /\ \A u \in Threads : start[u] # "sent"
        /\ shutdown \notin {"visiting", "interrupting", "sending"}
  <2> SUFFICES ASSUME Holds(x)
               PROVE  /\ \A u \in Threads : start[u] # "sent"
                      /\ shutdown \notin {"visiting", "interrupting", "sending"}
    BY DEF LifecycleOrdered
  <2> QED BY KindsDiffer, HolderIsAlone
<1>8. ASSUME NEW u \in Threads PROVE ThreadKept(u)'
  <2>1. ThreadKept(u) /\ SessionUsed(u)
    OBVIOUS
  <2>2. UNCHANGED <<fence, create, start, close, turn, closing, failures, givenUp>>
        /\ (link' = "up" => link = "up")
    BY DEF LinkType
  <2>3. CASE u # t
    BY <2>1, <2>2, <2>3 DEF ThreadKept, Sound, SessionStates
  <2>4. CASE u = t
    BY <1>7, <2>1, <2>2, <2>4 DEF ThreadKept, SessionUsed, Sound, SessionStates
  <2> QED BY <2>3, <2>4
<1>9. ShutdownVisits'
  BY DEF ShutdownVisits, Sound, SessionStates, LinkType, SessionFlags
<1> QED BY <1>3, <1>4, <1>5, <1>6, <1>8, <1>9

(* ClientInner::shutdown.                                                  *)
LEMMA ShutdownKeeps ==
  ASSUME SessionIInv, BeginShutdown \/ ShutdownStep
  PROVE  SessionIInv'
<1> USE DEF SessionIInv, BeginShutdown, ShutdownStep, Snapshot, Visit, AwaitTurn,
            Unsubscribe, Stop, StopProcess, IsDisconnected, lockVars, stateVars
<1>1. Shutter \in Tasks
  BY DEF Tasks
<1>2. LifecycleAfter(Shutter)
  BY <1>1, LifecycleMoves DEF LifecycleOrdered, ShutdownVisits
<1>3. SessionStates' /\ SessionFlags'
  <2>1. SessionStates'
    BY DEF SessionStates, LinkType
  <2>2. SessionFlags'
    BY DEF SessionFlags
  <2> QED BY <2>1, <2>2
<1>4. LifecycleOrdered'
  <2>1. Queued(lifecycle', Shutter) <=> shutdown' \notin {"idle", "stopping", "done"}
    BY <1>2 DEF LifecycleAfter, LifecycleOrdered, SessionStates, ShutdownVisits
  <2>2. shutdown' \in {"visiting", "interrupting", "sending"} => Holds(Shutter)'
    BY <1>2 DEF LifecycleOrdered, SessionStates, Holds
  <2>3. UNCHANGED <<create, start, close, clean>>
    OBVIOUS
  <2> QED
    BY ONLY <1>2, <2>1, <2>2, <2>3, LifecycleOrdered, KindsDiffer
       DEF LifecycleOrdered, LifecycleAfter
<1>5. SessionOrdered'
  BY DEF SessionOrdered, HoldsSession
<1>6. ASSUME NEW u \in Threads PROVE SessionUsed(u)'
  BY DEF SessionUsed
<1>7. shutdown \in {"visiting", "interrupting", "sending"} \/ Snapshot =>
        \A u \in Threads : start[u] # "sent" /\ create[u] # "sent"
  <2> SUFFICES ASSUME Holds(Shutter)
               PROVE  \A u \in Threads : start[u] # "sent" /\ create[u] # "sent"
    BY DEF LifecycleOrdered
  <2> QED BY KindsDiffer, HolderIsAlone
<1>8. ASSUME NEW u \in Threads PROVE ThreadKept(u)'
  <2>1. ThreadKept(u)
    OBVIOUS
  <2>2. UNCHANGED <<fence, create, start, close, clean, turn, session, givenUp>>
        /\ (link' = "up" => link = "up") /\ (closing => closing')
        /\ (failures => failures')
    BY DEF LinkType, SessionStates, SessionFlags
  <2>3. CASE ~Unsubscribe
    BY <2>1, <2>2, <2>3 DEF ThreadKept, Sound, SessionStates, LinkType, SessionFlags
  <2>4. CASE Unsubscribe
    BY <2>1, <2>2, <2>4 DEF ThreadKept, ShutdownVisits, Sound, SessionStates
  <2> QED BY <2>3, <2>4
<1>9. ShutdownVisits'
  <2>1. \A u \in Threads : ThreadKept(u)
    OBVIOUS
  <2>2. CASE BeginShutdown
    BY <2>2 DEF ShutdownVisits, Sound, SessionStates, LinkType, SessionFlags
  <2>3. CASE Snapshot
    BY <1>7, <2>1, <2>3 DEF ShutdownVisits, ThreadKept, Sound, SessionStates
  <2>4. CASE Visit
    BY <1>7, <2>1, <2>4 DEF ShutdownVisits, ThreadKept, Sound, SessionStates
  <2>5. CASE AwaitTurn
    BY <1>7, <2>1, <2>5 DEF ShutdownVisits, ThreadKept, Sound, SessionStates
  <2>6. CASE Unsubscribe
    BY <1>7, <2>6 DEF ShutdownVisits, Sound, SessionStates
  <2>7. CASE Stop \/ StopProcess
    BY <1>7, <2>7 DEF ShutdownVisits, Sound, SessionStates, LinkType, SessionFlags
  <2> QED BY <2>2, <2>3, <2>4, <2>5, <2>6, <2>7
<1> QED BY <1>3, <1>4, <1>5, <1>6, <1>8, <1>9

(* The connection: nothing is Sound after it is lost.                      *)
LEMMA CutKeeps ==
  ASSUME SessionIInv, LoseConnection \/ Fence \/ Cut
  PROVE  SessionIInv'
<1> USE DEF SessionIInv, LoseConnection, Fence, Cut, BeginDisconnect, sessionVars,
            lockVars, stateVars, shutVars
<1>1. link' # "up"
  BY DEF SessionStates, LinkType
<1>2. SessionStates' /\ SessionFlags'
  <2>1. SessionStates'
    BY DEF SessionStates, LinkType
  <2>2. SessionFlags'
    BY DEF SessionFlags
  <2> QED BY <2>1, <2>2
<1>3. LifecycleOrdered' /\ SessionOrdered'
  BY DEF LifecycleOrdered, SessionOrdered, Holds, HoldsSession
<1>4. ASSUME NEW u \in Threads PROVE SessionUsed(u)' /\ ThreadKept(u)'
  BY <1>1 DEF SessionUsed, ThreadKept, Sound
<1>5. ShutdownVisits'
  BY <1>1 DEF ShutdownVisits, Sound
<1> QED BY <1>2, <1>3, <1>4, <1>5

(* The deadline: what needs it not to have passed is given up.             *)
LEMMA DeadlineKeeps ==
  ASSUME SessionIInv, DeadlinePasses
  PROVE  SessionIInv'
<1> USE DEF SessionIInv, DeadlinePasses, lockVars, stateVars, shutVars
<1>1. SessionStates' /\ SessionFlags'
  <2>1. SessionStates'
    BY DEF SessionStates, LinkType
  <2>2. SessionFlags'
    BY DEF SessionFlags
  <2> QED BY <2>1, <2>2
<1>2. LifecycleOrdered' /\ SessionOrdered'
  BY DEF LifecycleOrdered, SessionOrdered, Holds, HoldsSession
<1>3. ASSUME NEW u \in Threads PROVE SessionUsed(u)' /\ ThreadKept(u)'
  BY DEF SessionUsed, ThreadKept, Sound
<1>4. ShutdownVisits'
  BY DEF ShutdownVisits, Sound
<1> QED BY <1>1, <1>2, <1>3, <1>4

LEMMA SessionStarts == LinkInit /\ SessionInit => SessionIInv
<1> SUFFICES ASSUME LinkInit, SessionInit PROVE SessionIInv
  OBVIOUS
<1> USE DEF LinkInit, SessionInit
<1>1. SessionStates /\ SessionFlags
  <2>1. SessionStates
    BY DEF SessionStates, LinkType
  <2>2. SessionFlags
    BY DEF SessionFlags
  <2> QED BY <2>1, <2>2
<1>2. lifecycle \in Seq(Tasks) /\ Once(lifecycle) /\ \A y : ~Queued(lifecycle, y)
  BY DEF Once, Queued
<1>3. /\ sessionLock \in [Threads -> Seq({"start", "close"})]
      /\ \A t \in Threads : /\ Once(sessionLock[t])
                            /\ \A y : ~Queued(sessionLock[t], y)
  BY DEF Once, Queued
<1>4. LifecycleOrdered /\ SessionOrdered
  BY <1>2, <1>3 DEF LifecycleOrdered, SessionOrdered
<1>5. ASSUME NEW t \in Threads PROVE SessionUsed(t) /\ ThreadKept(t)
  BY DEF SessionUsed, ThreadKept
<1>6. ShutdownVisits
  BY DEF ShutdownVisits
<1> QED BY <1>1, <1>4, <1>5, <1>6 DEF SessionIInv

LEMMA SessionKept ==
  SessionIInv /\ [SessionNext]_<<link, sessionVars>> => SessionIInv'
<1> SUFFICES ASSUME SessionIInv, [SessionNext]_<<link, sessionVars>>
             PROVE  SessionIInv'
  OBVIOUS
<1>1. CASE UNCHANGED <<link, sessionVars>>
  <2> USE <1>1 DEF sessionVars, lockVars, stateVars, shutVars, SessionIInv
  <2>1. SessionStates' /\ SessionFlags'
    BY DEF SessionStates, LinkType, SessionFlags
  <2>2. LifecycleOrdered' /\ SessionOrdered'
    BY DEF LifecycleOrdered, SessionOrdered, Holds, HoldsSession
  <2>3. \A t \in Threads : SessionUsed(t)' /\ ThreadKept(t)'
    BY DEF SessionUsed, ThreadKept, Sound
  <2>4. ShutdownVisits'
    BY DEF ShutdownVisits, Sound
  <2> QED BY <2>1, <2>2, <2>3, <2>4
<1> QED
  BY <1>1, CreateKeeps, StartKeeps, CloseKeeps, CleanKeeps, ShutdownKeeps, CutKeeps,
     DeadlineKeeps
     DEF SessionNext

LEMMA SessionMeans == SessionIInv => SessionInvariant /\ ShutdownLeavesNothing
<1> SUFFICES ASSUME SessionIInv PROVE SessionInvariant /\ ShutdownLeavesNothing
  OBVIOUS
<1> USE DEF SessionIInv
<1>1. ASSUME NEW task \in Tasks
      PROVE  Queued(lifecycle, task) <=>
               \/ task[1] = "create" /\ create[task[2]] \notin {"idle", "done"}
               \/ task[1] = "start" /\ start[task[2]] \notin {"idle", "queued"}
               \/ task[1] = "close" /\ close[task[2]] \notin {"idle", "queued"}
               \/ task[1] = "clean" /\ clean[task[2]] \notin {"idle", "done"}
               \/ task = Shutter /\ shutdown \notin {"idle", "stopping", "done"}
  <2>1. CASE task = Shutter
    BY <2>1 DEF LifecycleOrdered, Shutter
  <2>2. CASE task \in {"create", "start", "close", "clean"} \X Threads
    <3> PICK kind \in {"create", "start", "close", "clean"}, t \in Threads :
          task = <<kind, t>>
      BY <2>2
    <3> task # Shutter /\ task[1] = kind /\ task[2] = t
      BY DEF Shutter
    <3> QED BY DEF LifecycleOrdered
  <2> QED BY <2>1, <2>2 DEF Tasks
<1>2. SessionTypeOK
  BY <1>1 DEF SessionTypeOK, SessionStates, SessionFlags, LifecycleOrdered, SessionOrdered
<1>3. LoadedIsOwned /\ TurnKeepsThread
  BY DEF LoadedIsOwned, TurnKeepsThread, ThreadKept, Sound
<1>4. ShutdownLeavesNothing
  BY DEF ShutdownLeavesNothing, ShutdownVisits, Sound
<1> QED BY <1>2, <1>3, <1>4 DEF SessionInvariant

(* In every interleaving of create, resume, start, close, dropped callers, *)
(* clean-ups and shutdown, no thread is unsubscribed under its turn, and a *)
(* loaded thread is in the registry as long as no absolute deadline of the *)
(* operation has passed.                                                   *)
THEOREM SessionsAreOwned == SessionSpec => []SessionInvariant
BY SessionStarts, SessionKept, SessionMeans, PTL DEF SessionSpec

(* A shutdown without failures, and without an absolute deadline that has  *)
(* passed, leaves no thread loaded: who creates one either had the         *)
(* lifecycle lock before it or is refused after it.                        *)
THEOREM ShutdownForgetsNoThread == SessionSpec => []ShutdownLeavesNothing
BY SessionStarts, SessionKept, SessionMeans, PTL DEF SessionSpec
=============================================================================
