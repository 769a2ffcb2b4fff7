-------------------------- MODULE RedisClientProofs -------------------------
(* Proofs about RedisClient, for any number of requests and scripts, any    *)
(* size of the queue and any intervals.                                     *)
EXTENDS RedisClient, FiniteSetTheorems, FunctionTheorems, SequenceTheorems,
        WellFoundedInduction, TLAPS

\* What is known of the scripts, and what _stat tells about _context.  A
\* connection begins in WaitConn, and only close leads there: nothing stale
\* is left by then.
Known ==
    /\ sha1 \in [Scripts -> {"none", "current", "stale"}]
    /\ context = "connecting" => stat = "WaitConn"
    /\ context = "connected" => stat \in {"WaitAuth", "Working"}
    /\ ScriptsAreCurrent

\* close and a connect, after the flush of what was pending: either the
\* process is gone, or the scripts are forgotten.
LEMMA CloseKeepsKnown ==
  ASSUME Known, NEW again \in BOOLEAN, CloseContext(again)
  PROVE  Known'
<1>1. CASE crashed'
  BY <1>1, Zenon DEF CloseContext, Known, ScriptsAreCurrent
<1>2. CASE ~crashed'
  <2>1. sha1' = ClearSha1(Outdated)
    BY <1>2, Zenon DEF CloseContext
  <2>2. sha1' = [s \in Scripts |-> "none"]
    BY <2>1, Zenon DEF ClearSha1, Outdated
  <2>3. (context' = "connecting" => stat' = "WaitConn") /\ context' # "connected"
    BY <1>2, Zenon DEF CloseContext
  <2>4. QED
    BY <2>2, <2>3, Zenon DEF Known, ScriptsAreCurrent
<1>3. QED
  BY <1>1, <1>2, Zenon

\* A step that only changes other things.
LEMMA OtherKeepsKnown ==
  ASSUME Known, UNCHANGED <<stat, context, sha1>>
  PROVE  Known'
BY Zenon DEF Known, ScriptsAreCurrent

\* Every step keeps it: a reply makes a script current, the end of a
\* connection makes scripts stale and resets _stat in the same step.
LEMMA KnownStep == Known /\ [Next]_vars => Known'
<1> SUFFICES ASSUME Known, [Next]_vars PROVE Known'
  BY Zenon
<1>1. CASE UNCHANGED vars
  BY <1>1, OtherKeepsKnown, Zenon DEF vars
<1>2. ASSUME NEW r \in Requests, Send(r) PROVE Known'
  BY <1>2, OtherKeepsKnown, Zenon DEF Send
<1>3. CASE Connected
  <2>1. stat = "WaitConn" /\ stat' = "WaitAuth" /\ context' = "connected" /\ sha1' = sha1
    BY <1>3, Zenon DEF Connected, Known
  <2>2. QED
    BY <2>1, Zenon DEF Known, ScriptsAreCurrent
<1>4. CASE ConnectFailed
  BY <1>4, Zenon DEF ConnectFailed, Known, ScriptsAreCurrent
<1>5. CASE Disconnected
  <2>1. CASE crashed'
    BY <1>5, <2>1, OtherKeepsKnown, Zenon DEF Disconnected
  <2>2. CASE ~crashed'
    <3>1. stat' = "NullStat" /\ context' = "null" /\ sha1' = Outdated
      BY <1>5, <2>2, Zenon DEF Disconnected
    <3>2. QED
      BY <3>1, Zenon DEF Known, ScriptsAreCurrent, Outdated
  <2>3. QED
    BY <2>1, <2>2, Zenon
<1>6. ASSUME NEW ok \in BOOLEAN, Reply(ok) PROVE Known'
  <2>1. context = "connected" /\ context' = context /\ stat \in {"WaitAuth", "Working"}
    BY <1>6, Zenon DEF Reply, Known
  <2>2. stat' \in {"WaitAuth", "Working"}
    BY <1>6, <2>1, Zenon DEF Reply, ReplyAuth, ReplyPing, ReplyScript, ReplyUser
  <2>3. sha1' = sha1 \/ \E s : sha1' = [sha1 EXCEPT ![s] = "current"]
    BY <1>6, Zenon DEF Reply, ReplyAuth, ReplyPing, ReplyScript, ReplyUser
  <2>4. /\ sha1' \in [Scripts -> {"none", "current", "stale"}]
        /\ \A s \in Scripts : sha1[s] # "stale" => sha1'[s] # "stale"
    BY <2>3, Zenon DEF Known
  <2>5. QED
    BY <2>1, <2>2, <2>4, Zenon DEF Known, ScriptsAreCurrent
<1>7. CASE Timer
  <2>1. ASSUME NEW late \in Lates, TimerPingTimeout(late) PROVE Known'
    BY <2>1, CloseKeepsKnown, Zenon DEF TimerPingTimeout
  <2>2. ASSUME NEW late \in Lates, TimerPing(late) PROVE Known'
    BY <2>2, OtherKeepsKnown, Zenon DEF TimerPing
  <2>3. ASSUME NEW late \in Lates, TimerWait(late) PROVE Known'
    BY <2>3, OtherKeepsKnown, Zenon DEF TimerWait
  <2>4. ASSUME NEW late \in Lates, NEW again \in BOOLEAN, TimerReconnect(late, again) PROVE Known'
    BY <2>4, CloseKeepsKnown, Zenon DEF TimerReconnect
  <2>5. QED
    BY <1>7, <2>1, <2>2, <2>3, <2>4 DEF Timer
<1>8. CASE TimerMs \/ Elapse
  BY <1>8, OtherKeepsKnown, Zenon DEF TimerMs, Elapse
<1>9. QED
  BY <1>1, <1>2, <1>3, <1>4, <1>5, <1>6, <1>7, <1>8 DEF Next

\* Whatever ends a connection and whatever is retried, no connection works
\* with the SHA1 of a script that only an earlier one has loaded: clearSha1 is
\* called on every way from one connection to the next.
THEOREM ScriptsStayCurrent == Spec => []ScriptsAreCurrent
<1>1. Init => Known
  BY Zenon DEF Init, Known, ScriptsAreCurrent
<1>2. Known => ScriptsAreCurrent
  BY Zenon DEF Known
<1>3. QED
  BY <1>1, <1>2, KnownStep, PTL DEF Spec
-----------------------------------------------------------------------------
\* The members of a set in order.

\* A set of numbers has a least one.
LEMMA Smallest ==
  ASSUME NEW S \in SUBSET Nat, S # {}
  PROVE  \E m \in S : \A k \in S : m <= k
<1> DEFINE R == OpToRel(<, Nat)
<1>1. IsWellFoundedOn(R, Nat)
  BY NatLessThanWellFounded, Zenon
<1>2. PICK m \in S : \A k \in S : ~(<<k, m>> \in R)
  <2> HIDE DEF R
  <2>1. QED
    BY <1>1, WFMin, Zenon
<1>3. ASSUME NEW k \in S PROVE m <= k
  <2>1. k < m => <<k, m>> \in R
    BY Zenon DEF OpToRel
  <2>2. ~(k < m)
    BY <1>2, <2>1, Zenon
  <2>3. QED
    BY <2>2
<1>4. QED
  BY <1>3, Zenon

\* How many members of S come before i.
Rank(S, i) == Cardinality({j \in S : j < i})

\* The rank of a member is a number below the size of the set.
LEMMA RankBound ==
  ASSUME NEW S \in SUBSET Nat, IsFiniteSet(S), NEW i \in S
  PROVE  Rank(S, i) \in Nat /\ Rank(S, i) < Cardinality(S)
<1> DEFINE B == {j \in S : j < i}
<1>1. B \in SUBSET S /\ i \notin B
  OBVIOUS
<1>2. IsFiniteSet(B) /\ Cardinality(B) <= Cardinality(S) /\ Cardinality(S) # Cardinality(B)
  BY <1>1, FS_Subset, Zenon
<1>3. Cardinality(S) \in Nat /\ Cardinality(B) \in Nat
  BY <1>2, FS_CardinalityType, Zenon
<1>4. QED
  BY <1>2, <1>3 DEF Rank

\* Of two members the greater has the greater rank.
LEMMA RankGrows ==
  ASSUME NEW S \in SUBSET Nat, IsFiniteSet(S), NEW i \in S, NEW k \in S, i < k
  PROVE  Rank(S, i) < Rank(S, k)
<1> DEFINE B == {j \in S : j < k}
<1>1. B \in SUBSET Nat /\ B \in SUBSET S /\ i \in B
  BY Zenon
<1>2. IsFiniteSet(B)
  BY <1>1, FS_Subset, Zenon
<1>3. Rank(B, i) < Cardinality(B)
  BY <1>1, <1>2, RankBound, Zenon
<1>4. {j \in B : j < i} = {j \in S : j < i}
  <2>1. \A j \in S : j < i => j < k
    OBVIOUS
  <2>2. QED
    BY <2>1, Zenon
<1>5. QED
  BY <1>3, <1>4, Zenon DEF Rank

\* Every number below the size of the set is the rank of exactly one member.
LEMMA RankOnto ==
  ASSUME NEW S \in SUBSET Nat, IsFiniteSet(S), NEW k \in 1 .. Cardinality(S)
  PROVE  \E i \in S : Rank(S, i) = k - 1
<1> DEFINE n == Cardinality(S)
           f == [i \in S |-> Rank(S, i) + 1]
<1>1. n \in Nat
  BY FS_CardinalityType, Zenon
<1>2. f \in [S -> 1 .. n]
  BY <1>1, RankBound
<1>3. ASSUME NEW a \in S, NEW b \in S, f[a] = f[b] PROVE a = b
  <2>1. Rank(S, a) \in Nat /\ Rank(S, b) \in Nat
    BY RankBound, Zenon
  <2>2. Rank(S, a) = Rank(S, b)
    BY <1>3, <2>1
  <2>3. ~(a < b) /\ ~(b < a)
    BY <2>1, <2>2, RankGrows
  <2>4. QED
    BY <2>3
<1>4. f \in Injection(S, 1 .. n)
  <2> HIDE DEF f, n
  <2>1. QED
    BY <1>2, <1>3, Zenon DEF Injection, IsInjective
<1>5. IsFiniteSet(1 .. n) /\ Cardinality(1 .. n) = n
  BY <1>1, FS_Interval
<1>6. f \in Surjection(S, 1 .. n)
  BY <1>4, <1>5, FS_Injection, Zenon
<1>7. PICK i \in S : f[i] = k
  BY <1>6, Zenon DEF Surjection
<1>8. Rank(S, i) + 1 = k /\ Rank(S, i) \in Nat
  BY <1>7, RankBound, Zenon
<1>9. QED
  BY <1>8

\* InOrder lists the members of a set, each at its rank.
LEMMA InOrderLists ==
  ASSUME NEW S \in SUBSET Nat, IsFiniteSet(S)
  PROVE  /\ InOrder(S) \in Seq(S)
         /\ Len(InOrder(S)) = Cardinality(S)
         /\ \A k \in 1 .. Cardinality(S) : InOrder(S)[k] \in S /\ Rank(S, InOrder(S)[k]) = k - 1
         /\ \A i \in S : \A k \in 1 .. Cardinality(S) : Rank(S, i) = k - 1 => InOrder(S)[k] = i
<1> DEFINE n == Cardinality(S)
<1>1. n \in Nat
  BY FS_CardinalityType, Zenon
<1>2. ASSUME NEW k \in 1 .. n PROVE InOrder(S)[k] \in S /\ Rank(S, InOrder(S)[k]) = k - 1
  <2>1. \E i \in S : Cardinality({j \in S : j < i}) = k - 1
    BY RankOnto, Zenon DEF Rank
  <2>2. InOrder(S)[k] = CHOOSE i \in S : Cardinality({j \in S : j < i}) = k - 1
    BY Zenon DEF InOrder
  <2>3. QED
    BY <2>1, <2>2, Zenon DEF Rank
<1>3. ASSUME NEW i \in S, NEW k \in 1 .. n, Rank(S, i) = k - 1 PROVE InOrder(S)[k] = i
  <2> DEFINE l == InOrder(S)[k]
  <2>1. l \in S /\ Rank(S, l) = Rank(S, i) /\ Rank(S, i) \in Nat
    BY <1>2, <1>3, RankBound, Zenon
  <2> HIDE DEF l
  <2>2. ~(l < i) /\ ~(i < l)
    BY <2>1, RankGrows
  <2>3. l = i
    BY <2>1, <2>2
  <2>4. QED
    BY <2>3, Zenon DEF l
<1>4. InOrder(S) \in [1 .. n -> S]
  BY <1>2, Zenon DEF InOrder
<1>5. InOrder(S) \in Seq(S) /\ Len(InOrder(S)) = n
  BY <1>1, <1>4
<1>6. QED
  BY <1>2, <1>3, <1>5, Zenon
-----------------------------------------------------------------------------
\* The requests among the commands.

Commands == {Auth, Ping} \cup {ScriptLoad(s) : s \in Scripts} \cup {User(r) : r \in Requests}

\* Where the requests are.
At(c) == {i \in 1 .. Len(c) : c[i].kind = "user"}

\* UsersOf has the request of every user command, in the order of the commands.
LEMMA UsersAt ==
  ASSUME NEW c \in Seq(Commands)
  PROVE  /\ At(c) \in SUBSET Nat /\ IsFiniteSet(At(c)) /\ Cardinality(At(c)) \in Nat
         /\ UsersOf(c) = [k \in 1 .. Cardinality(At(c)) |-> c[InOrder(At(c))[k]].of]
         /\ UsersOf(c) \in Seq(Requests)
         /\ Len(UsersOf(c)) = Cardinality(At(c))
<1>1. Len(c) \in Nat /\ At(c) \in SUBSET (1 .. Len(c))
  BY DEF At
<1>2. IsFiniteSet(1 .. Len(c))
  BY <1>1, FS_Interval
<1>3. IsFiniteSet(At(c)) /\ Cardinality(At(c)) \in Nat /\ At(c) \in SUBSET Nat
  BY <1>1, <1>2, FS_Subset, FS_CardinalityType
<1> DEFINE n == Cardinality(At(c))
<1>4. Len(InOrder(At(c))) = n /\ \A k \in 1 .. n : InOrder(At(c))[k] \in At(c)
  BY <1>3, InOrderLists, Zenon
<1>5. UsersOf(c) = [k \in 1 .. n |-> c[InOrder(At(c))[k]].of]
  BY <1>4, Zenon DEF UsersOf, At
<1>6. ASSUME NEW i \in At(c) PROVE c[i].of \in Requests
  <2>1. c[i] \in Commands /\ c[i].kind = "user"
    BY DEF At
  <2>2. QED
    BY <2>1 DEF Commands, Auth, Ping, ScriptLoad, User
<1>7. UsersOf(c) \in [1 .. n -> Requests]
  BY <1>4, <1>5, <1>6, Zenon
<1>8. UsersOf(c) \in Seq(Requests) /\ Len(UsersOf(c)) = n
  BY <1>3, <1>7
<1>9. QED
  BY <1>3, <1>5, <1>8

\* What a concatenation has where.
LEMMA ConcatIs ==
  ASSUME NEW T, NEW a \in Seq(T), NEW b \in Seq(T)
  PROVE  /\ a \o b \in Seq(T) /\ Len(a \o b) = Len(a) + Len(b)
         /\ \A k \in 1 .. Len(a) : (a \o b)[k] = a[k]
         /\ \A k \in 1 .. Len(b) : (a \o b)[Len(a) + k] = b[k]
OBVIOUS

\* Concatenations may be regrouped.
LEMMA Regroup ==
  ASSUME NEW T, NEW a \in Seq(T), NEW b \in Seq(T), NEW c \in Seq(T)
  PROVE  a \o (b \o c) = (a \o b) \o c
BY ConcatAssociative, SMTT(30)

\* The requests in a concatenation: those of the one, then those of the other.
LEMMA UsersConcat ==
  ASSUME NEW c \in Seq(Commands), NEW d \in Seq(Commands)
  PROVE  UsersOf(c \o d) = UsersOf(c) \o UsersOf(d)
<1> DEFINE e == c \o d
           n == Len(c)
           C == At(c)
           D == At(d)
           E == At(e)
           F == {n + i : i \in D}
<1>1. e \in Seq(Commands) /\ n \in Nat /\ Len(d) \in Nat /\ Len(e) = n + Len(d)
  OBVIOUS
<1>2. /\ \A i \in 1 .. n : e[i] = c[i]
      /\ \A i \in 1 .. Len(d) : e[n + i] = d[i]
  OBVIOUS
<1> HIDE DEF e
<1>3. /\ C \in SUBSET Nat /\ IsFiniteSet(C) /\ Cardinality(C) \in Nat
      /\ D \in SUBSET Nat /\ IsFiniteSet(D) /\ Cardinality(D) \in Nat
      /\ E \in SUBSET Nat /\ IsFiniteSet(E) /\ Cardinality(E) \in Nat
  BY <1>1, UsersAt
<1>4. E = C \cup F
  <2>1. ASSUME NEW i \in E PROVE i \in C \cup F
    <3>1. i \in 1 .. n + Len(d) /\ e[i].kind = "user"
      BY <1>1, Zenon DEF At
    <3>2. CASE i <= n
      BY <1>1, <1>2, <3>1, <3>2 DEF At
    <3>3. CASE i > n
      <4>1. i - n \in 1 .. Len(d) /\ n + (i - n) = i
        BY <1>1, <3>1, <3>3
      <4>2. d[i - n].kind = "user"
        BY <1>2, <3>1, <4>1, Zenon
      <4>3. i - n \in D
        BY <4>1, <4>2, Zenon DEF At
      <4>4. QED
        BY <4>1, <4>3, Zenon
    <3>4. QED
      BY <1>1, <3>1, <3>2, <3>3
  <2>2. ASSUME NEW i \in C PROVE i \in E
    BY <1>1, <1>2 DEF At
  <2>3. ASSUME NEW i \in D PROVE n + i \in E
    BY <1>1, <1>2 DEF At
  <2>4. QED
    BY <2>1, <2>2, <2>3
<1>5. /\ \A i \in C : i \in 1 .. n
      /\ \A i \in D : i \in 1 .. Len(d)
  BY Zenon DEF At
<1> HIDE DEF C, D, E, F
<1>6. ASSUME NEW i \in C PROVE Rank(E, i) = Rank(C, i)
  <2>1. ASSUME NEW j \in E, j < i PROVE j \in C
    BY <1>1, <1>3, <1>4, <1>5, <2>1 DEF F
  <2>2. {j \in E : j < i} = {j \in C : j < i}
    BY <1>4, <2>1, Zenon
  <2>3. QED
    BY <2>2, Zenon DEF Rank
<1>7. ASSUME NEW G \in SUBSET D
      PROVE  /\ IsFiniteSet({n + i : i \in G})
             /\ Cardinality({n + i : i \in G}) = Cardinality(G)
  <2> DEFINE H == {n + i : i \in G}
             f == [i \in G |-> n + i]
  <2>1. \A i \in G : i \in Nat
    BY <1>3, Zenon
  <2>2. f \in [G -> H]
    BY Zenon
  <2>3. \A a, b \in G : f[a] = f[b] => a = b
    BY <1>1, <2>1
  <2>4. \A t \in H : \E i \in G : f[i] = t
    BY Zenon
  <2>5. IsFiniteSet(G)
    BY <1>3, FS_Subset, Zenon
  <2> HIDE DEF f, H
  <2>6. f \in Bijection(G, H)
    BY <2>2, <2>3, <2>4, Fun_IsBij, Zenon
  <2>7. IsFiniteSet(H) /\ Cardinality(H) = Cardinality(G)
    BY <2>5, <2>6, FS_Bijection, Zenon DEF ExistsBijection
  <2>8. QED
    BY <2>7, Zenon DEF H
<1>8. ASSUME NEW G \in SUBSET D
      PROVE  Cardinality(C \cup {n + i : i \in G}) = Cardinality(C) + Cardinality(G)
  <2> DEFINE H == {n + i : i \in G}
  <2>1. IsFiniteSet(H) /\ Cardinality(H) = Cardinality(G)
    BY <1>7, Zenon
  <2>2. C \cap H = {}
    BY <1>1, <1>5
  <2>3. IsFiniteSet(G) /\ Cardinality(G) \in Nat
    BY <1>3, FS_Subset, FS_CardinalityType, Zenon
  <2> HIDE DEF H
  <2>4. Cardinality(C \cup H) = Cardinality(C) + Cardinality(H) - Cardinality({})
    BY <1>3, <2>1, <2>2, FS_Union
  <2>5. Cardinality({}) = 0
    BY FS_EmptySet, Zenon
  <2>6. Cardinality(C \cup H) = Cardinality(C) + Cardinality(G)
    BY <1>3, <2>1, <2>3, <2>4, <2>5
  <2>7. QED
    BY <2>6, Zenon DEF H
<1>9. Cardinality(E) = Cardinality(C) + Cardinality(D)
  BY <1>4, <1>8, Zenon DEF F
<1>10. ASSUME NEW i \in D PROVE Rank(E, n + i) = Cardinality(C) + Rank(D, i)
  <2> DEFINE G == {j \in D : j < i}
             B == {j \in E : j < n + i}
  <2>1. ASSUME NEW j \in B PROVE j \in C \cup {n + k : k \in G}
    <3>1. CASE j \in C
      BY <3>1, Zenon
    <3>2. CASE j \in F
      <4>1. PICK k \in D : j = n + k
        BY <3>2 DEF F
      <4>2. k < i
        BY <1>1, <1>3, <4>1
      <4>3. QED
        BY <4>1, <4>2
    <3>3. QED
      BY <1>4, <3>1, <3>2, Zenon
  <2>2. ASSUME NEW j \in C PROVE j \in B
    BY <1>1, <1>4, <1>5
  <2>3. ASSUME NEW k \in G PROVE n + k \in B
    <3>1. n + k \in E
      BY <1>4, Zenon DEF F
    <3>2. n + k < n + i
      BY <1>1, <1>3
    <3>3. QED
      BY <3>1, <3>2, Zenon
  <2>4. B = C \cup {n + k : k \in G}
    <3> HIDE DEF B, G
    <3>1. QED
      BY <2>1, <2>2, <2>3
  <2>5. G \in SUBSET D
    BY Zenon
  <2>6. Cardinality(B) = Cardinality(C) + Cardinality(G)
    <3> HIDE DEF B, G
    <3>1. QED
      BY <1>8, <2>4, <2>5
  <2>7. QED
    BY <2>6, Zenon DEF Rank
<1>11. ASSUME NEW k \in 1 .. Cardinality(C) PROVE UsersOf(e)[k] = UsersOf(c)[k]
  <2>1. PICK i \in C : i = InOrder(C)[k] /\ Rank(C, i) = k - 1
    BY <1>3, InOrderLists, Zenon
  <2>2. k \in 1 .. Cardinality(E) /\ i \in E /\ Rank(E, i) = k - 1
    <3>1. k \in 1 .. Cardinality(E)
      BY <1>3, <1>9
    <3>2. i \in E
      BY <1>4, Zenon
    <3>3. Rank(E, i) = k - 1
      BY <1>6, <2>1, Zenon
    <3>4. QED
      BY <3>1, <3>2, <3>3
  <2>3. InOrder(E)[k] = i
    BY <1>3, <2>2, InOrderLists
  <2>4. UsersOf(e)[k] = e[i].of
    BY <1>1, <2>2, <2>3, UsersAt DEF E
  <2>5. UsersOf(c)[k] = c[i].of
    BY <2>1, UsersAt DEF C
  <2>6. e[i] = c[i]
    BY <1>2, <1>5, Zenon
  <2>7. QED
    BY <2>4, <2>5, <2>6
<1>12. ASSUME NEW k \in 1 .. Cardinality(D) PROVE UsersOf(e)[Cardinality(C) + k] = UsersOf(d)[k]
  <2>1. PICK i \in D : i = InOrder(D)[k] /\ Rank(D, i) = k - 1
    BY <1>3, InOrderLists, Zenon
  <2>2. Rank(E, n + i) = (Cardinality(C) + k) - 1
    BY <1>3, <1>10, <2>1
  <2>3. Cardinality(C) + k \in 1 .. Cardinality(E) /\ n + i \in E
    BY <1>3, <1>4, <1>9 DEF F
  <2>4. InOrder(E)[Cardinality(C) + k] = n + i
    BY <1>3, <2>2, <2>3, InOrderLists
  <2>5. UsersOf(e)[Cardinality(C) + k] = e[n + i].of
    BY <1>1, <2>3, <2>4, UsersAt, SMTT(30) DEF E
  <2>6. UsersOf(d)[k] = d[i].of
    BY <2>1, UsersAt, Zenon DEF D
  <2>7. QED
    BY <1>2, <1>5, <2>5, <2>6, Zenon
<1>13. /\ UsersOf(e) \in Seq(Requests) /\ Len(UsersOf(e)) = Cardinality(E)
       /\ UsersOf(c) \in Seq(Requests) /\ Len(UsersOf(c)) = Cardinality(C)
       /\ UsersOf(d) \in Seq(Requests) /\ Len(UsersOf(d)) = Cardinality(D)
  BY <1>1, UsersAt, Zenon DEF C, D, E
<1>14. UsersOf(e) = UsersOf(c) \o UsersOf(d)
  <2> DEFINE u == UsersOf(c) \o UsersOf(d)
  <2>1. /\ u \in Seq(Requests) /\ Len(u) = Cardinality(C) + Cardinality(D)
        /\ \A k \in 1 .. Cardinality(C) : u[k] = UsersOf(c)[k]
        /\ \A k \in 1 .. Cardinality(D) : u[Cardinality(C) + k] = UsersOf(d)[k]
    <3>1. UsersOf(c) \in Seq(Requests) /\ UsersOf(d) \in Seq(Requests)
      BY <1>13, Zenon
    <3>2. /\ u \in Seq(Requests) /\ Len(u) = Len(UsersOf(c)) + Len(UsersOf(d))
          /\ \A k \in 1 .. Len(UsersOf(c)) : u[k] = UsersOf(c)[k]
          /\ \A k \in 1 .. Len(UsersOf(d)) : u[Len(UsersOf(c)) + k] = UsersOf(d)[k]
      BY <3>1, ConcatIs
    <3> HIDE DEF u
    <3>3. Len(UsersOf(c)) = Cardinality(C) /\ Len(UsersOf(d)) = Cardinality(D)
      BY <1>13, Zenon
    <3>4. QED
      BY <3>2, <3>3, Zenon
  <2> HIDE DEF u
  <2>2. ASSUME NEW k \in 1 .. Cardinality(E) PROVE UsersOf(e)[k] = u[k]
    <3>1. CASE k <= Cardinality(C)
      <4>1. k \in 1 .. Cardinality(C)
        BY <1>3, <3>1
      <4>2. QED
        BY <1>11, <2>1, <4>1, Zenon
    <3>2. CASE k > Cardinality(C)
      <4>1. k - Cardinality(C) \in 1 .. Cardinality(D) /\ Cardinality(C) + (k - Cardinality(C)) = k
        BY <1>3, <1>9, <3>2
      <4>2. QED
        BY <1>12, <2>1, <4>1
    <3>3. QED
      BY <1>3, <3>1, <3>2
  <2>3. UsersOf(e) = u
    BY <1>9, <1>13, <2>1, <2>2, SeqEqual
  <2>4. QED
    BY <2>3, Zenon DEF u
<1>15. QED
  BY <1>14, Zenon DEF e
\* Commands of the redis thread only have no requests among them.
LEMMA UsersNone ==
  ASSUME NEW c \in Seq(Commands), \A i \in 1 .. Len(c) : c[i].kind # "user"
  PROVE  UsersOf(c) = <<>>
<1>1. At(c) = {}
  BY Zenon DEF At
<1>2. Cardinality(At(c)) = 0
  BY <1>1, FS_EmptySet, Zenon
<1>3. UsersOf(c) \in Seq(Requests) /\ Len(UsersOf(c)) = 0
  BY <1>2, UsersAt, Zenon
<1>4. QED
  BY <1>3

\* No commands, no requests.
LEMMA UsersEmpty == <<>> \in Seq(Commands) /\ UsersOf(<<>>) = <<>>
<1>1. <<>> \in Seq(Commands) /\ \A i \in 1 .. Len(<<>>) : <<>>[i].kind # "user"
  OBVIOUS
<1>2. QED
  BY <1>1, UsersNone, Zenon

\* A command of a caller is its request.
LEMMA UsersOne ==
  ASSUME NEW r \in Requests
  PROVE  <<User(r)>> \in Seq(Commands) /\ UsersOf(<<User(r)>>) = <<r>>
<1> DEFINE c == <<User(r)>>
<1>1. c \in Seq(Commands) /\ Len(c) = 1 /\ c[1] = User(r)
  BY DEF Commands
<1>2. User(r).kind = "user" /\ User(r).of = r
  BY Zenon DEF User
<1> HIDE DEF c
<1>3. At(c) = {1}
  BY <1>1, <1>2 DEF At
<1>4. Cardinality(At(c)) = 1
  BY <1>3, FS_Singleton, Zenon
<1>5. \A k \in 1 .. Cardinality(At(c)) : InOrder(At(c))[k] \in At(c)
  BY <1>1, UsersAt, InOrderLists
<1>6. InOrder(At(c))[1] = 1
  BY <1>3, <1>4, <1>5
<1>7. UsersOf(c) \in Seq(Requests) /\ Len(UsersOf(c)) = 1 /\ UsersOf(c)[1] = r
  BY <1>1, <1>2, <1>4, <1>6, UsersAt
<1>8. UsersOf(c) = <<r>>
  BY <1>7
<1>9. QED
  BY <1>1, <1>8, Zenon DEF c

\* FirstInternal finds the first internal command, if there is one.
LEMMA FirstInternalFound ==
  ASSUME NEW c \in Seq(Commands)
  PROVE  /\ FirstInternal(c) \in 1 .. Len(c) + 1
         /\ FirstInternal(c) <= Len(c) => Internal(c[FirstInternal(c)])
<1> DEFINE at == {i \in 1 .. Len(c) : Internal(c[i])}
<1>1. Len(c) \in Nat
  OBVIOUS
<1>2. CASE at = {}
  <2>1. FirstInternal(c) = Len(c) + 1
    BY <1>2, Zenon DEF FirstInternal
  <2>2. QED
    BY <1>1, <2>1
<1>3. CASE at # {}
  <2>1. at \in SUBSET Nat
    BY <1>1
  <2>2. \E i \in at : \A j \in at : i <= j
    <3> HIDE DEF at
    <3>1. QED
      BY <1>3, <2>1, Smallest, Zenon
  <2>3. FirstInternal(c) = CHOOSE i \in at : \A j \in at : i <= j
    BY <1>3, Zenon DEF FirstInternal
  <2>4. FirstInternal(c) \in at
    <3> HIDE DEF at
    <3>1. QED
      BY <2>2, <2>3, Zenon
  <2>5. QED
    BY <1>1, <2>4
<1>4. QED
  BY <1>2, <1>3, Zenon
\* The flush answers the requests that are pending up to where it stops: at
\* the end, or at an internal command, which is no request.
LEMMA FlushAnswers ==
  ASSUME pending \in Seq(Commands), FlushPending
  PROVE  /\ pending' \in Seq(Commands)
         /\ ~crashed' => pending' = <<>>
         /\ pending = <<>> => ~crashed'
         /\ \E u \in Seq(Requests) :
                answered' = answered \o u /\ UsersOf(pending) = u \o UsersOf(pending')
<1> DEFINE f == FirstInternal(pending)
           n == Len(pending)
           a == SubSeq(pending, 1, f - 1)
           z == SubSeq(pending, f + 1, n)
<1>1. n \in Nat /\ f \in 1 .. n + 1 /\ (f <= n => Internal(pending[f]))
  BY FirstInternalFound
<1>2. answered' = answered \o UsersOf(a) /\ crashed' = (f <= n) /\ pending' = z
  BY Zenon DEF FlushPending
<1> HIDE DEF f
<1>3. a \in Seq(Commands) /\ z \in Seq(Commands)
  <2>1. \A i \in 1 .. f - 1 : pending[i] \in Commands
    BY <1>1
  <2>2. \A i \in f + 1 .. n : pending[i] \in Commands
    BY <1>1
  <2>3. f - 1 \in Int /\ f + 1 \in Int /\ 1 \in Int /\ n \in Int
    BY <1>1
  <2> HIDE DEF n
  <2>4. QED
    BY <2>1, <2>2, <2>3, SubSeqProperties, Zenon
<1>4. UsersOf(pending) = UsersOf(a) \o UsersOf(z)
  <2>1. CASE f <= n
    <3> DEFINE x == <<pending[f]>>
    <3>1. pending[f] \in Commands /\ pending[f].kind # "user"
      BY <1>1, <2>1 DEF Internal
    <3>2. x \in Seq(Commands) /\ \A i \in 1 .. Len(x) : x[i].kind # "user"
      BY <3>1
    <3>3. pending = a \o (x \o z)
      <4>1. SubSeq(pending, f, n) = x \o z
        <5>1. f \in 1 .. Len(pending) /\ n \in f .. Len(pending)
          BY <1>1, <2>1
        <5>2. QED
          BY <5>1, SubSeqRecursiveFirst
      <4>2. SubSeq(pending, 1, n) = a \o SubSeq(pending, f, n)
        <5>1. 1 \in 1 .. Len(pending) + 1 /\ f - 1 \in 1 - 1 .. Len(pending) /\ n \in f - 1 .. Len(pending)
          BY <1>1, <2>1
        <5>2. (f - 1) + 1 = f
          BY <1>1
        <5>3. SubSeq(pending, 1, n) = SubSeq(pending, 1, f - 1) \o SubSeq(pending, (f - 1) + 1, n)
          BY <5>1, ConcatAdjacentSubSeq, Zenon
        <5>4. QED
          BY <5>2, <5>3, Zenon
      <4>3. SubSeq(pending, 1, n) = pending
        BY SubSeqFull, Zenon
      <4>4. QED
        BY <4>1, <4>2, <4>3, Zenon
    <3> HIDE DEF a, x, z
    <3>4. UsersOf(x) = <<>>
      BY <3>2, UsersNone
    <3>5. x \o z \in Seq(Commands)
      BY <1>3, <3>2, ConcatIs
    <3>6. UsersOf(pending) = UsersOf(a) \o UsersOf(x \o z)
      BY <1>3, <3>3, <3>5, UsersConcat, Zenon
    <3>7. UsersOf(x \o z) = <<>> \o UsersOf(z)
      BY <1>3, <3>2, <3>4, UsersConcat, Zenon
    <3>8. <<>> \o UsersOf(z) = UsersOf(z)
      BY <1>3, UsersAt, ConcatEmptySeq, Zenon
    <3>9. QED
      BY <3>6, <3>7, <3>8
  <2>2. CASE ~(f <= n)
    <3>1. f = n + 1
      BY <1>1, <2>2
    <3>2. a = pending
      <4>1. f - 1 = n
        BY <1>1, <3>1
      <4>2. QED
        BY <4>1, SubSeqFull, Zenon
    <3>3. z = <<>>
      <4>1. n < f + 1 /\ f + 1 \in Int /\ n \in Int
        BY <1>1, <3>1
      <4>2. QED
        BY <4>1, SubSeqEmpty, Zenon
    <3>4. UsersOf(z) = <<>>
      BY <3>3, UsersEmpty, Zenon
    <3> HIDE DEF a, z
    <3>5. UsersOf(pending) \o <<>> = UsersOf(pending)
      BY UsersAt, ConcatEmptySeq, Zenon
    <3>6. QED
      BY <3>2, <3>4, <3>5, Zenon
  <2>3. QED
    BY <2>1, <2>2
<1>5. ~(f <= n) => z = <<>>
  <2>1. ~(f <= n) => n < f + 1 /\ f + 1 \in Int /\ n \in Int
    BY <1>1
  <2>2. QED
    BY <2>1, SubSeqEmpty, Zenon
<1>6. pending = <<>> => ~(f <= n)
  BY <1>1
<1>7. UsersOf(a) \in Seq(Requests)
  BY <1>3, UsersAt, Zenon
<1> HIDE DEF a, z, n
<1>8. QED
  BY <1>2, <1>3, <1>4, <1>5, <1>6, <1>7, Zenon

\* load() queues no requests, and what does not fit is dropped.
LEMMA LoadKeepsUsers ==
  ASSUME queue \in Seq(Commands), Len(queue) <= QueueSize
  PROVE  /\ Loaded \in Seq(Commands)
         /\ Len(Loaded) <= QueueSize
         /\ UsersOf(Loaded) = UsersOf(queue)
<1> DEFINE S == {s \in Scripts : sha1[s] = "none" /\ s \notin recent}
           n == Cardinality(S)
           wanted == [i \in 1 .. Len(ToLoad) |-> ScriptLoad(ToLoad[i])]
           room == QueueSize - Len(queue)
           m == IF Len(wanted) < room THEN Len(wanted) ELSE room
           w == SubSeq(wanted, 1, m)
<1>1. S \in SUBSET Nat /\ IsFiniteSet(S) /\ n \in Nat
  <2>1. NScripts \in Nat /\ S \in SUBSET (1 .. NScripts)
    BY SizeAssumption, Zenon DEF Scripts
  <2>2. IsFiniteSet(1 .. NScripts)
    BY <2>1, FS_Interval
  <2>3. IsFiniteSet(S)
    BY <2>1, <2>2, FS_Subset, Zenon
  <2>4. QED
    BY <2>1, <2>3, FS_CardinalityType
<1>2. Len(ToLoad) = n /\ \A i \in 1 .. n : ToLoad[i] \in Scripts
  <2>1. Len(InOrder(S)) = n /\ \A i \in 1 .. n : InOrder(S)[i] \in S
    <3> HIDE DEF S
    <3>1. QED
      BY <1>1, InOrderLists, Zenon
  <2>2. QED
    BY <2>1, Zenon DEF ToLoad
<1>3. \A i \in 1 .. n : wanted[i] \in Commands /\ wanted[i].kind # "user"
  BY <1>2, Zenon DEF Commands, ScriptLoad
<1>4. wanted \in [1 .. n -> Commands] /\ Len(wanted) = n
  BY <1>1, <1>2, <1>3
<1>5. room \in Nat
  BY SizeAssumption
<1> HIDE DEF n, wanted
<1>6. m \in Nat /\ m <= n /\ m <= room
  BY <1>1, <1>4, <1>5
<1> HIDE DEF m
<1>7. /\ w \in Seq(Commands) /\ Len(w) = m
      /\ \A i \in 1 .. Len(w) : w[i].kind # "user"
  <2>1. m \in Int /\ 1 \in Int /\ \A i \in 1 .. m : wanted[i] \in Commands
    BY <1>1, <1>3, <1>6
  <2>2. /\ w \in Seq(Commands) /\ Len(w) = (IF 1 <= m THEN m - 1 + 1 ELSE 0)
        /\ \A i \in 1 .. m - 1 + 1 : w[i] = wanted[1 + i - 1]
    BY <2>1, SubSeqProperties
  <2>3. Len(w) = m
    BY <1>6, <2>2
  <2>4. \A i \in 1 .. m : w[i] = wanted[i]
    <3> HIDE DEF w
    <3>1. ASSUME NEW i \in 1 .. m PROVE i \in 1 .. m - 1 + 1 /\ 1 + i - 1 = i
      BY <1>6
    <3>2. QED
      BY <2>2, <3>1, Zenon
  <2>5. \A i \in 1 .. m : i \in 1 .. n
    BY <1>1, <1>6
  <2>6. QED
    BY <1>3, <2>2, <2>3, <2>4, <2>5
<1>8. Loaded = queue \o w
  BY Zenon DEF Loaded, w, m, wanted, room
<1> HIDE DEF w
<1>9. Loaded \in Seq(Commands) /\ Len(Loaded) <= QueueSize
  <2>1. queue \o w \in Seq(Commands) /\ Len(queue \o w) = Len(queue) + m
    BY <1>7, ConcatIs, Zenon
  <2>2. Len(queue) + m <= QueueSize
    BY <1>6, SizeAssumption
  <2>3. QED
    BY <1>8, <2>1, <2>2, Zenon
<1>10. UsersOf(w) = <<>>
  BY <1>7, UsersNone, Zenon
<1>11. UsersOf(Loaded) = UsersOf(queue) \o <<>>
  BY <1>7, <1>8, <1>10, UsersConcat, Zenon
<1>12. UsersOf(queue) \o <<>> = UsersOf(queue)
  BY UsersAt, ConcatEmptySeq, Zenon
<1>13. QED
  BY <1>9, <1>11, <1>12, Zenon
-----------------------------------------------------------------------------
\* What is accepted is somewhere on its way, and _stat tells the truth.
Kept ==
    /\ pending \in Seq(Commands) /\ queue \in Seq(Commands)
    /\ answered \in Seq(Requests)
    /\ pingAge \in Nat
    /\ AnsweredInOrder
    /\ StatTellsContext

\* The requests on their way after a flush, which moves some from the front of
\* those that are pending to the end of those that are answered.
LEMMA FlushKeepsOrder ==
  ASSUME Kept, FlushPending, UNCHANGED <<queue, accepted>>
  PROVE  /\ pending' \in Seq(Commands) /\ queue' \in Seq(Commands)
         /\ answered' \in Seq(Requests)
         /\ AnsweredInOrder'
<1>1. pending \in Seq(Commands) /\ queue \in Seq(Commands) /\ answered \in Seq(Requests)
  BY Zenon DEF Kept
<1>2. PICK u \in Seq(Requests) : answered' = answered \o u /\ UsersOf(pending) = u \o UsersOf(pending')
  BY <1>1, FlushAnswers, Zenon
<1>3. pending' \in Seq(Commands)
  BY <1>1, FlushAnswers, Zenon
<1> DEFINE p == UsersOf(pending')
           q == UsersOf(queue)
<1>4. p \in Seq(Requests) /\ q \in Seq(Requests)
  BY <1>1, <1>3, UsersAt, Zenon
<1>5. accepted = answered \o (u \o p) \o q
  BY <1>2, Zenon DEF Kept, AnsweredInOrder
<1> HIDE DEF p, q
<1>6. answered \o (u \o p) = (answered \o u) \o p
  BY <1>1, <1>4, Regroup, SMTT(30)
<1>7. accepted' = answered' \o p \o q
  BY <1>2, <1>5, <1>6, Zenon
<1>8. answered' \in Seq(Requests)
  BY <1>1, <1>2, ConcatIs, Zenon
<1>9. accepted' = answered' \o UsersOf(pending') \o UsersOf(queue')
  BY <1>7, Zenon DEF p, q
<1>10. Len(queue') <= QueueSize
  BY Zenon DEF Kept, AnsweredInOrder
<1>11. QED
  BY <1>1, <1>3, <1>8, <1>9, <1>10 DEF AnsweredInOrder

\* close and a connect keep it.
LEMMA CloseKeeps ==
  ASSUME Kept, NEW again \in BOOLEAN, CloseContext(again), UNCHANGED <<queue, accepted>>,
         pingAge' \in Nat
  PROVE  Kept'
<1>1. FlushPending
  BY Zenon DEF CloseContext
<1>2. pending' \in Seq(Commands) /\ queue' \in Seq(Commands) /\ answered' \in Seq(Requests) /\ AnsweredInOrder'
  BY <1>1, FlushKeepsOrder, Zenon
<1>3. (~crashed' => pending' = <<>>) /\ (pending = <<>> => ~crashed')
  BY <1>1, FlushAnswers, Zenon DEF Kept
<1>4. StatTellsContext'
  <2>1. CASE crashed'
    <3>1. stat' = stat /\ context' = context /\ pending # <<>>
      BY <1>3, <2>1, Zenon DEF CloseContext
    <3>2. QED
      BY <2>1, <3>1, Zenon DEF Kept, StatTellsContext
  <2>2. CASE ~crashed'
    <3>1. \/ stat' = "WaitConn" /\ context' = "connecting"
          \/ stat' = "NullStat" /\ context' = "null"
      BY <2>2, Zenon DEF CloseContext
    <3>2. QED
      BY <1>3, <2>2, <3>1 DEF StatTellsContext
  <2>3. QED
    BY <2>1, <2>2, Zenon
<1>5. QED
  BY <1>2, <1>4, Zenon DEF Kept
\* Adding a command at the end.
LEMMA UsersAppend ==
  ASSUME NEW c \in Seq(Commands), NEW x \in Commands
  PROVE  /\ Append(c, x) \in Seq(Commands)
         /\ x.kind # "user" => UsersOf(Append(c, x)) = UsersOf(c)
         /\ \A r \in Requests : x = User(r) => UsersOf(Append(c, x)) = UsersOf(c) \o <<r>>
<1>1. Append(c, x) \in Seq(Commands) /\ Append(c, x) = c \o <<x>> /\ <<x>> \in Seq(Commands)
  BY AppendIsConcat
<1>2. UsersOf(Append(c, x)) = UsersOf(c) \o UsersOf(<<x>>)
  BY <1>1, UsersConcat, Zenon
<1>3. ASSUME x.kind # "user" PROVE UsersOf(Append(c, x)) = UsersOf(c)
  <2> DEFINE y == <<x>>
  <2>1. y \in Seq(Commands) /\ \A i \in 1 .. Len(y) : y[i].kind # "user"
    BY <1>3
  <2>2. UsersOf(y) = <<>>
    <3> HIDE DEF y
    <3>1. QED
      BY <2>1, UsersNone, Zenon
  <2>3. UsersOf(c) \o <<>> = UsersOf(c)
    BY UsersAt, ConcatEmptySeq, Zenon
  <2>4. QED
    BY <1>2, <2>2, <2>3, Zenon
<1>4. ASSUME NEW r \in Requests, x = User(r) PROVE UsersOf(Append(c, x)) = UsersOf(c) \o <<r>>
  BY <1>2, <1>4, UsersOne, Zenon
<1>5. QED
  BY <1>1, <1>3, <1>4

\* Taking the first command away.
LEMMA UsersTail ==
  ASSUME NEW c \in Seq(Commands), c # <<>>
  PROVE  /\ Tail(c) \in Seq(Commands) /\ Head(c) \in Commands
         /\ Head(c).kind # "user" => UsersOf(c) = UsersOf(Tail(c))
         /\ Head(c).kind = "user" => /\ Head(c).of \in Requests
                                     /\ UsersOf(c) = <<Head(c).of>> \o UsersOf(Tail(c))
<1> DEFINE x == <<Head(c)>>
           t == Tail(c)
<1>1. Head(c) \in Commands /\ t \in Seq(Commands) /\ x \in Seq(Commands)
  BY HeadTailProperties
<1>2. c = x \o t
  <2>1. 1 \in 1 .. Len(c) /\ Len(c) \in 1 .. Len(c)
    BY EmptySeq
  <2>2. SubSeq(c, 1, Len(c)) = <<c[1]>> \o SubSeq(c, 1 + 1, Len(c))
    BY <2>1, SubSeqRecursiveFirst, Zenon
  <2>3. SubSeq(c, 1, Len(c)) = c /\ t = SubSeq(c, 2, Len(c)) /\ Head(c) = c[1]
    BY <2>1, SubSeqFull, TailIsSubSeq
  <2>4. QED
    BY <2>2, <2>3
<1>3. ASSUME Head(c).kind # "user" PROVE UsersOf(x) = <<>>
  <2>1. \A i \in 1 .. Len(x) : x[i].kind # "user"
    BY <1>3
  <2> HIDE DEF x
  <2>2. QED
    BY <1>1, <2>1, UsersNone, Zenon
<1>4. ASSUME Head(c).kind = "user"
      PROVE  Head(c).of \in Requests /\ UsersOf(x) = <<Head(c).of>>
  <2>1. PICK r \in Requests : Head(c) = User(r)
    BY <1>1, <1>4 DEF Commands, Auth, Ping, ScriptLoad
  <2>2. Head(c).of = r
    BY <2>1 DEF User
  <2>3. QED
    BY <2>1, <2>2, UsersOne, Zenon
<1> HIDE DEF x, t
<1>5. UsersOf(c) = UsersOf(x) \o UsersOf(t)
  BY <1>1, <1>2, UsersConcat
<1>6. <<>> \o UsersOf(t) = UsersOf(t)
  BY <1>1, UsersAt, ConcatEmptySeq
<1>7. QED
  BY <1>1, <1>3, <1>4, <1>5, <1>6, Zenon DEF t

\* The time since the last answer is a number.
LEMMA AgeIsNat ==
  ASSUME NEW late \in Lates, Kept
  PROVE  Aged(pingAge, late, PingTimeout) \in Nat
BY TimeAssumption DEF Kept, Aged, Lates

\* A step that only changes other things keeps it.
LEMMA OtherKeeps ==
  ASSUME Kept, UNCHANGED <<stat, context, pending, queue, accepted, answered, crashed>>,
         pingAge' \in Nat, stat = "Working" => pingAge' <= PingTimeout
  PROVE  Kept'
BY Zenon DEF Kept, AnsweredInOrder, StatTellsContext

\* send() puts a request at the end of the queue.
LEMMA SendKeeps ==
  ASSUME Kept, NEW r \in Requests, Send(r)
  PROVE  Kept'
<1>1. CASE Len(queue) < QueueSize
  <2> DEFINE p == UsersOf(pending)
             q == UsersOf(queue)
  <2>1. /\ queue' = Append(queue, User(r)) /\ accepted' = Append(accepted, r)
        /\ UNCHANGED <<stat, context, pending, pingAge, answered, crashed>>
    BY <1>1, Zenon DEF Send, clock
  <2>2. User(r) \in Commands
    BY Zenon DEF Commands
  <2>3. queue' \in Seq(Commands) /\ UsersOf(queue') = q \o <<r>>
    BY <2>1, <2>2, UsersAppend DEF Kept
  <2>4. Len(queue') <= QueueSize
    BY <1>1, <2>1, SizeAssumption DEF Kept
  <2>5. p \in Seq(Requests) /\ q \in Seq(Requests) /\ answered \in Seq(Requests) /\ <<r>> \in Seq(Requests)
    BY UsersAt DEF Kept
  <2>6. accepted = answered \o p \o q
    BY Zenon DEF Kept, AnsweredInOrder
  <2> HIDE DEF p, q
  <2>7. answered \o p \in Seq(Requests) /\ answered \o p \o q \in Seq(Requests)
    BY <2>5, ConcatIs, Zenon
  <2>8. accepted' = (answered \o p \o q) \o <<r>>
    BY <2>1, <2>6, <2>7, AppendIsConcat, Zenon
  <2>9. accepted' = (answered \o p) \o (q \o <<r>>)
    BY <2>5, <2>7, <2>8, Regroup, SMTT(30)
  <2>10. AnsweredInOrder'
    BY <2>1, <2>3, <2>4, <2>9, Zenon DEF AnsweredInOrder, p
  <2>11. QED
    BY <2>1, <2>3, <2>10, Zenon DEF Kept, StatTellsContext
<1>2. CASE ~(Len(queue) < QueueSize)
  BY <1>2, Zenon DEF Send, Kept, AnsweredInOrder, StatTellsContext, clock
<1>3. QED
  BY <1>1, <1>2, Zenon

\* A reply answers the first command that is pending.
LEMMA ReplyKeeps ==
  ASSUME Kept, NEW ok \in BOOLEAN, Reply(ok)
  PROVE  Kept'
<1> DEFINE x == Head(pending)
           p == UsersOf(Tail(pending))
           q == UsersOf(queue)
<1>1. /\ pending # <<>> /\ pending' = Tail(pending) /\ ~crashed /\ context = "connected"
      /\ UNCHANGED <<context, queue, accepted, crashed>>
  BY Zenon DEF Reply
<1>2. pending \in Seq(Commands) /\ queue \in Seq(Commands) /\ answered \in Seq(Requests)
  BY Zenon DEF Kept
<1>3. /\ Tail(pending) \in Seq(Commands)
      /\ x.kind # "user" => UsersOf(pending) = p
      /\ x.kind = "user" => x.of \in Requests /\ UsersOf(pending) = <<x.of>> \o p
  BY <1>1, <1>2, UsersTail, Zenon
<1>4. StatTellsContext'
  <2>1. stat # "NullStat" /\ stat # "WaitConn"
    BY <1>1, Zenon DEF Kept, StatTellsContext
  <2>2. stat' # "NullStat" /\ stat' # "WaitConn"
    BY <2>1, Zenon DEF Reply, ReplyAuth, ReplyPing, ReplyScript, ReplyUser
  <2>3. stat' = "Working" => pingAge' <= PingTimeout
    <3>1. pingAge' = 0 \/ (stat' = stat /\ pingAge' = pingAge)
      BY Zenon DEF Reply, ReplyAuth, ReplyPing, ReplyScript, ReplyUser
    <3>2. QED
      BY <1>1, <3>1, TimeAssumption DEF Kept, StatTellsContext
  <2>4. QED
    BY <1>1, <2>2, <2>3, Zenon DEF StatTellsContext
<1>5. p \in Seq(Requests) /\ q \in Seq(Requests)
  BY <1>2, <1>3, UsersAt, Zenon
<1>6. /\ answered' \in Seq(Requests)
      /\ accepted = answered' \o p \o q
  <2>1. CASE x.kind = "user"
    <3>1. answered' = Append(answered, x.of)
      BY <2>1, Zenon DEF Reply, ReplyUser
    <3>2. accepted = answered \o (<<x.of>> \o p) \o q
      BY <1>3, <2>1, Zenon DEF Kept, AnsweredInOrder
    <3>3. x.of \in Requests
      BY <1>3, <2>1, Zenon
    <3> HIDE DEF p, q, x
    <3>4. <<x.of>> \in Seq(Requests)
      BY <3>3
    <3>5. answered \o (<<x.of>> \o p) = (answered \o <<x.of>>) \o p
      BY <1>2, <1>5, <3>4, Regroup, SMTT(30)
    <3>6. answered' = answered \o <<x.of>> /\ answered' \in Seq(Requests)
      BY <1>2, <3>1, <3>3, AppendIsConcat
    <3>7. QED
      BY <3>2, <3>5, <3>6
  <2>2. CASE x.kind # "user"
    <3>1. answered' = answered
      BY <2>2, Zenon DEF Reply, ReplyAuth, ReplyPing, ReplyScript
    <3>2. QED
      BY <1>2, <1>3, <2>2, <3>1, Zenon DEF Kept, AnsweredInOrder
  <2>3. QED
    BY <2>1, <2>2, Zenon
<1>7. AnsweredInOrder'
  BY <1>1, <1>6, Zenon DEF AnsweredInOrder, Kept
<1>8. pingAge' \in Nat
  BY DEF Reply, ReplyAuth, ReplyPing, ReplyScript, ReplyUser, Kept
<1>9. QED
  BY <1>1, <1>2, <1>3, <1>4, <1>6, <1>7, <1>8 DEF Kept
\* A connection begins with an authentication and with the scripts.
LEMMA ConnectedKeeps ==
  ASSUME Kept, Connected
  PROVE  Kept'
<1>1. /\ pending' = Append(pending, Auth) /\ queue' = Loaded
      /\ stat' = "WaitAuth" /\ context' = "connected"
      /\ UNCHANGED <<pingAge, accepted, answered, crashed>>
  BY Zenon DEF Connected, history, clock
<1>2. Auth \in Commands /\ Auth.kind # "user"
  BY Zenon DEF Commands, Auth
<1>3. pending' \in Seq(Commands) /\ UsersOf(pending') = UsersOf(pending)
  BY <1>1, <1>2, UsersAppend, Zenon DEF Kept
<1>4. queue' \in Seq(Commands) /\ Len(queue') <= QueueSize /\ UsersOf(queue') = UsersOf(queue)
  BY <1>1, LoadKeepsUsers, Zenon DEF Kept, AnsweredInOrder
<1>5. AnsweredInOrder'
  BY <1>1, <1>3, <1>4, Zenon DEF AnsweredInOrder, Kept
<1>6. QED
  BY <1>1, <1>3, <1>4, <1>5, Zenon DEF Kept, StatTellsContext

\* timer_ms moves what is queued behind what is pending.
LEMMA TimerMsKeeps ==
  ASSUME Kept, TimerMs
  PROVE  Kept'
<1> DEFINE p == UsersOf(pending)
           q == UsersOf(queue)
<1>1. /\ pending' = pending \o Loaded /\ queue' = <<>> /\ stat = "Working"
      /\ UNCHANGED <<stat, context, pingAge, accepted, answered, crashed>>
  BY Zenon DEF TimerMs, history, clock
<1>2. pending \in Seq(Commands) /\ queue \in Seq(Commands) /\ answered \in Seq(Requests)
  BY Zenon DEF Kept
<1>3. Loaded \in Seq(Commands) /\ UsersOf(Loaded) = q
  BY LoadKeepsUsers, Zenon DEF Kept, AnsweredInOrder
<1>4. pending' \in Seq(Commands) /\ UsersOf(pending') = p \o q
  <2>1. pending \o Loaded \in Seq(Commands)
    BY <1>2, <1>3, ConcatIs, Zenon
  <2>2. UsersOf(pending \o Loaded) = p \o UsersOf(Loaded)
    BY <1>2, <1>3, UsersConcat, Zenon
  <2>3. QED
    BY <1>1, <1>3, <2>1, <2>2
<1>5. queue' \in Seq(Commands) /\ UsersOf(queue') = <<>> /\ Len(queue') <= QueueSize
  BY <1>1, UsersEmpty, SizeAssumption
<1>6. p \in Seq(Requests) /\ q \in Seq(Requests)
  BY <1>2, UsersAt, Zenon
<1>7. accepted = answered \o p \o q
  BY Zenon DEF Kept, AnsweredInOrder
<1> HIDE DEF p, q
<1>8. answered \o p \o q = answered \o (p \o q)
  BY <1>2, <1>6, Regroup, SMTT(30)
<1>9. p \o q \in Seq(Requests)
  BY <1>6, ConcatIs, Zenon
<1>10. answered \o (p \o q) \in Seq(Requests)
  BY <1>2, <1>9, ConcatIs, Zenon
<1>11. accepted = answered \o (p \o q) \o <<>>
  BY <1>7, <1>8, <1>10, ConcatEmptySeq, Zenon
<1>12. AnsweredInOrder'
  BY <1>1, <1>4, <1>5, <1>11, Zenon DEF AnsweredInOrder
<1>13. StatTellsContext'
  BY <1>1, Zenon DEF Kept, StatTellsContext
<1>14. QED
  BY <1>1, <1>2, <1>4, <1>5, <1>12, <1>13 DEF Kept

\* Every step keeps it.
LEMMA KeptStep == Kept /\ [Next]_vars => Kept'
<1> SUFFICES ASSUME Kept, [Next]_vars PROVE Kept'
  BY Zenon
<1>1. CASE UNCHANGED vars
  BY <1>1, Zenon DEF vars, history, clock, Kept, AnsweredInOrder, StatTellsContext
<1>2. ASSUME NEW r \in Requests, Send(r) PROVE Kept'
  BY <1>2, SendKeeps, Zenon
<1>3. CASE Connected
  BY <1>3, ConnectedKeeps, Zenon
<1>4. CASE ConnectFailed
  <2>1. /\ pending = <<>> /\ stat' = "NullStat" /\ context' = "null"
        /\ UNCHANGED <<pending, queue, pingAge, accepted, answered>>
    BY <1>4, Zenon DEF ConnectFailed, Kept, StatTellsContext, history, clock
  <2>2. QED
    BY <2>1, Zenon DEF Kept, AnsweredInOrder, StatTellsContext
<1>5. CASE Disconnected
  <2>1. FlushPending /\ UNCHANGED <<queue, pingAge, accepted>>
    BY <1>5, Zenon DEF Disconnected, clock
  <2>2. pending' \in Seq(Commands) /\ queue' \in Seq(Commands) /\ answered' \in Seq(Requests) /\ AnsweredInOrder'
    BY <2>1, FlushKeepsOrder, Zenon
  <2>3. (~crashed' => pending' = <<>>) /\ (pending = <<>> => ~crashed')
    BY <2>1, FlushAnswers, Zenon DEF Kept
  <2>4. StatTellsContext'
    <3>1. CASE crashed'
      BY <1>5, <2>3, <3>1, Zenon DEF Disconnected, Kept, StatTellsContext
    <3>2. CASE ~crashed'
      BY <1>5, <2>3, <3>2, Zenon DEF Disconnected, StatTellsContext
    <3>3. QED
      BY <3>1, <3>2, Zenon
  <2>5. QED
    BY <2>1, <2>2, <2>4, Zenon DEF Kept
<1>6. ASSUME NEW ok \in BOOLEAN, Reply(ok) PROVE Kept'
  BY <1>6, ReplyKeeps, Zenon
<1>7. CASE Timer
  <2>1. ASSUME NEW late \in Lates, TimerPingTimeout(late) PROVE Kept'
    BY <2>1, AgeIsNat, CloseKeeps, Zenon DEF TimerPingTimeout
  <2>2. ASSUME NEW late \in Lates, TimerPing(late) PROVE Kept'
    <3>1. /\ stat = "Working" /\ pingAge' <= PingTimeout
          /\ UNCHANGED <<stat, context, queue, accepted, answered, crashed>> /\ pingAge' \in Nat
          /\ pending' = pending \/ pending' = Append(pending, Ping)
      <4>1. pingAge' = Aged(pingAge, late, PingTimeout) /\ ~(pingAge' > PingTimeout)
        BY <2>2, Zenon DEF TimerPing, TimePasses, PingLost
      <4>2. pingAge' \in Nat
        BY <4>1, AgeIsNat, Zenon DEF Kept
      <4>3. QED
        BY <2>2, <4>1, <4>2, TimeAssumption DEF TimerPing, history
    <3>2. Ping \in Commands /\ Ping.kind # "user"
      BY Zenon DEF Commands, Ping
    <3>3. pending' \in Seq(Commands) /\ UsersOf(pending') = UsersOf(pending)
      BY <3>1, <3>2, UsersAppend, Zenon DEF Kept
    <3>4. QED
      BY <3>1, <3>3, Zenon DEF Kept, AnsweredInOrder, StatTellsContext
  <2>3. ASSUME NEW late \in Lates, TimerWait(late) PROVE Kept'
    BY <2>3, AgeIsNat, OtherKeeps, Zenon DEF TimerWait, TimePasses, history
  <2>4. ASSUME NEW late \in Lates, NEW again \in BOOLEAN, TimerReconnect(late, again) PROVE Kept'
    BY <2>4, AgeIsNat, CloseKeeps, Zenon DEF TimerReconnect
  <2>5. QED
    BY <1>7, <2>1, <2>2, <2>3, <2>4 DEF Timer
<1>8. CASE TimerMs
  BY <1>8, TimerMsKeeps, Zenon
<1>9. CASE Elapse
  BY <1>9, Zenon DEF Elapse, history, clock, Kept, AnsweredInOrder, StatTellsContext
<1>10. QED
  BY <1>1, <1>2, <1>3, <1>4, <1>5, <1>6, <1>7, <1>8, <1>9 DEF Next

\* Mainloop starts with it.
LEMMA KeptInit == Init => Kept
<1> SUFFICES ASSUME Init PROVE Kept
  BY Zenon
<1>1. /\ pending = <<>> /\ queue = <<>> /\ answered = <<>> /\ accepted = <<>>
      /\ stat = "WaitConn" /\ context = "connecting" /\ pingAge = PingTimeout + 1
  BY Zenon DEF Init
<1>2. UsersOf(<<>>) = <<>> /\ <<>> \in Seq(Commands) /\ <<>> \in Seq(Requests)
  BY UsersEmpty
<1>3. <<>> \o <<>> \o <<>> = <<>> /\ Len(<<>>) <= QueueSize
  BY SizeAssumption
<1>4. AnsweredInOrder
  BY <1>1, <1>2, <1>3, Zenon DEF AnsweredInOrder
<1>5. QED
  BY <1>1, <1>2, <1>4, TimeAssumption DEF Kept, StatTellsContext

\* _stat never lies about _context, whatever order replies, ends of the
\* connection and the timers come in: the callbacks' assertions hold.
THEOREM StatIsTrue == Spec => []StatTellsContext
<1>1. Kept => StatTellsContext
  BY DEF Kept
<1>2. QED
  BY <1>1, KeptInit, KeptStep, PTL DEF Spec

\* Every request send() has accepted is answered once, in order, or still on
\* its way, through any number of disconnections, reconnections and reloads of
\* the scripts, and the queue never exceeds its bound.
THEOREM AllAnsweredInOrder == Spec => []AnsweredInOrder
<1>1. Kept => AnsweredInOrder
  BY Zenon DEF Kept
<1>2. QED
  BY <1>1, KeptInit, KeptStep, PTL DEF Spec
=============================================================================
