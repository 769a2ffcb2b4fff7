--------------------------- MODULE LruCacheProofs ---------------------------
(* Proofs about LruCache for every set of keys and every capacity: the map's *)
(* iterators stay valid, and the cache keeps the keys used last.             *)
EXTENDS LruCache, FiniteSetTheorems, SequenceTheorems, WellFoundedInduction, TLAPS

Distinct(s) == \A i, j \in 1 .. Len(s) : s[i] = s[j] => i = j

\* Removing an element that occurs once closes the gap it leaves.
LEMMA RemovedOnce ==
  ASSUME NEW S, NEW s \in Seq(S), Distinct(s), NEW p \in 1 .. Len(s), NEW e, e = s[p]
  PROVE  /\ RemoveFirst(s, e) \in Seq(S)
         /\ Len(RemoveFirst(s, e)) = Len(s) - 1
         /\ \A i \in 1 .. Len(s) - 1 : RemoveFirst(s, e)[i] = IF i < p THEN s[i] ELSE s[i + 1]
<1>1. {i \in 1 .. Len(s) : s[i] = e} = {p}
  BY Zenon DEF Distinct
<1>2. Min({p}) = p
  BY DEF Min
<1>3. SelectInSeq(s, LAMBDA v : v = e) = p
  BY <1>1, <1>2, Zenon DEF SelectInSeq
<1>4. RemoveFirst(s, e) = SubSeq(s, 1, p - 1) \o SubSeq(s, p + 1, Len(s))
  BY <1>3, Zenon DEF RemoveFirst, RemoveAt
<1>5. Len(s) \in Nat /\ p \in Nat
  OBVIOUS
<1>6. /\ SubSeq(s, 1, p - 1) \in Seq(S) /\ Len(SubSeq(s, 1, p - 1)) = p - 1
      /\ \A i \in 1 .. p - 1 : SubSeq(s, 1, p - 1)[i] = s[i]
  BY <1>5
<1>7. /\ SubSeq(s, p + 1, Len(s)) \in Seq(S) /\ Len(SubSeq(s, p + 1, Len(s))) = Len(s) - p
      /\ \A i \in 1 .. Len(s) - p : SubSeq(s, p + 1, Len(s))[i] = s[p + i]
  BY <1>5
<1> DEFINE x == SubSeq(s, 1, p - 1)
           y == SubSeq(s, p + 1, Len(s))
<1>8. /\ x \o y \in Seq(S) /\ Len(x \o y) = Len(x) + Len(y)
      /\ \A i \in 1 .. Len(x) + Len(y) : (x \o y)[i] = IF i <= Len(x) THEN x[i] ELSE y[i - Len(x)]
  BY <1>6, <1>7, ConcatProperties, Zenon
<1> HIDE DEF x, y
<1>9. Len(x) = p - 1 /\ Len(y) = Len(s) - p /\ RemoveFirst(s, e) = x \o y
  BY <1>4, <1>6, <1>7 DEF x, y
<1>10. ASSUME NEW i \in 1 .. Len(s) - 1 PROVE (x \o y)[i] = IF i < p THEN s[i] ELSE s[i + 1]
  <2>1. CASE i < p
    <3>1. i \in 1 .. p - 1 /\ i \in 1 .. Len(x) + Len(y) /\ i <= Len(x)
      BY <1>5, <1>9, <2>1
    <3>2. x[i] = s[i]
      BY <1>6, <3>1, Zenon DEF x
    <3>3. QED
      BY <1>8, <2>1, <3>1, <3>2
  <2>2. CASE ~(i < p)
    <3>1. i - (p - 1) \in 1 .. Len(s) - p /\ i \in 1 .. Len(x) + Len(y) /\ ~(i <= Len(x)) /\ p + (i - (p - 1)) = i + 1
      BY <1>5, <1>9, <2>2
    <3>2. y[i - (p - 1)] = s[i + 1]
      BY <1>7, <3>1, Zenon DEF y
    <3>3. QED
      BY <1>8, <1>9, <2>2, <3>1, <3>2
  <2>3. QED
    BY <2>1, <2>2, Zenon
<1>11. Len(x \o y) = Len(s) - 1
  BY <1>5, <1>8, <1>9
<1>12. PICK r : r = x \o y
  BY Zenon
<1>13. r \in Seq(S) /\ Len(r) = Len(s) - 1 /\ \A i \in 1 .. Len(s) - 1 : r[i] = IF i < p THEN s[i] ELSE s[i + 1]
  BY <1>8, <1>10, <1>11, <1>12, Zenon
<1>14. QED
  BY <1>9, <1>12, <1>13

\* Removing what is not there changes nothing.
LEMMA RemovedNone ==
  ASSUME NEW s, NEW e, \A i \in 1 .. Len(s) : s[i] # e
  PROVE  RemoveFirst(s, e) = s
BY Zenon DEF RemoveFirst

\* A new head, and the other elements one place on.
LEMMA Headed ==
  ASSUME NEW S, NEW s \in Seq(S), NEW e \in S
  PROVE  /\ <<e>> \o s \in Seq(S) /\ Len(<<e>> \o s) = Len(s) + 1
         /\ (<<e>> \o s)[1] = e
         /\ \A i \in 2 .. Len(s) + 1 : (<<e>> \o s)[i] = s[i - 1]
<1>1. <<e>> \in Seq(S) /\ Len(<<e>>) = 1 /\ <<e>>[1] = e
  OBVIOUS
<1>2. /\ <<e>> \o s \in Seq(S) /\ Len(<<e>> \o s) = 1 + Len(s)
      /\ \A i \in 1 .. 1 + Len(s) : (<<e>> \o s)[i] = IF i <= 1 THEN <<e>>[i] ELSE s[i - 1]
  BY <1>1, ConcatProperties, Zenon
<1>3. Len(s) \in Nat
  OBVIOUS
<1>4. QED
  BY <1>1, <1>2, <1>3

-----------------------------------------------------------------------------
\* A cache of list l, nodes nd and map m in which u and w are true of the last
\* uses and the last values: the list is the map of the first keys of u.
Good(l, nd, m, u, w) ==
    /\ l \in Seq(Addresses) /\ nd \in [Addresses -> Node]
    /\ m \in [Keys -> Addresses \cup {NoNode}]
    /\ u \in Seq(Keys) /\ w \in [Keys -> Values]
    /\ Distinct(u) /\ Len(l) <= Len(u)
    /\ \A i \in 1 .. Len(l) : m[u[i]] = l[i]
    /\ \A k \in Keys : m[k] # NoNode => /\ nd[m[k]] = [key |-> k, value |-> w[k]]
                                        /\ \E i \in 1 .. Len(l) : u[i] = k

\* Addresses are numbers, so NoNode is none.
LEMMA AddressesAre ==
  Addresses \subseteq Nat /\ NoNode \notin Addresses /\ Cardinality(Keys) \in Nat
<1>1. Cardinality(Keys) \in Nat
  BY KeysAssumption, FS_CardinalityType, Zenon
<1>2. QED
  BY <1>1, NodeAssumption DEF Addresses

\* The node of every listed key is its own, and no two share an address.
LEMMA GoodNodes ==
  ASSUME NEW l, NEW nd, NEW m, NEW u, NEW w, Good(l, nd, m, u, w)
  PROVE  /\ Len(l) \in Nat /\ Len(u) \in Nat
         /\ \A i \in 1 .. Len(l) : /\ i \in 1 .. Len(u) /\ u[i] \in Keys /\ l[i] \in Addresses
                                   /\ m[u[i]] # NoNode /\ nd[l[i]] = [key |-> u[i], value |-> w[u[i]]]
         /\ Distinct(l)
<1>1. Len(l) \in Nat /\ Len(u) \in Nat
  BY DEF Good
<1>2. ASSUME NEW i \in 1 .. Len(l)
      PROVE  /\ i \in 1 .. Len(u) /\ u[i] \in Keys /\ l[i] \in Addresses
             /\ m[u[i]] # NoNode /\ nd[l[i]] = [key |-> u[i], value |-> w[u[i]]]
  <2>1. i \in 1 .. Len(u)
    BY <1>1 DEF Good
  <2>2. u[i] \in Keys /\ l[i] \in Addresses
    BY <2>1 DEF Good
  <2>3. m[u[i]] # NoNode
    BY <2>2, AddressesAre, Zenon DEF Good
  <2>4. QED
    BY <2>1, <2>2, <2>3, Zenon DEF Good
<1>3. Distinct(l)
  <2> SUFFICES ASSUME NEW i \in 1 .. Len(l), NEW j \in 1 .. Len(l), l[i] = l[j] PROVE i = j
    BY Zenon DEF Distinct
  <2>1. [key |-> u[i], value |-> w[u[i]]] = [key |-> u[j], value |-> w[u[j]]]
    BY <1>2, Zenon
  <2>2. u[i] = u[j]
    BY <2>1, Zenon
  <2>3. QED
    BY <1>2, <2>2, Zenon DEF Good, Distinct
<1>4. QED
  BY <1>1, <1>2, <1>3

\* What put, get and erase take a key away by: its node, its entry, its use.
Drops(l, m, u, k, l0, m0, u0) ==
    /\ l0 = IF m[k] # NoNode THEN RemoveFirst(l, m[k]) ELSE l
    /\ m0 = [m EXCEPT ![k] = NoNode]
    /\ u0 = RemoveFirst(u, k)

\* The key is gone then, and nothing else is.
Gone(l, m, k, l0, u0) ==
    /\ Len(l0) = IF m[k] # NoNode THEN Len(l) - 1 ELSE Len(l)
    /\ \A i \in 1 .. Len(u0) : u0[i] # k
    /\ \A i \in 1 .. Len(l0) : l0[i] # m[k] /\ \E j \in 1 .. Len(l) : l0[i] = l[j]

\* Taking key k out, whether it is mapped or not, leaves a good cache.
LEMMA GoodDrop ==
  ASSUME NEW l, NEW nd, NEW m, NEW u, NEW w, Good(l, nd, m, u, w), NEW k \in Keys,
         NEW l0, NEW m0, NEW u0, Drops(l, m, u, k, l0, m0, u0)
  PROVE  Good(l0, nd, m0, u0, w) /\ Gone(l, m, k, l0, u0)
<1> SUFFICES ASSUME l0 = IF m[k] # NoNode THEN RemoveFirst(l, m[k]) ELSE l,
                    m0 = [m EXCEPT ![k] = NoNode],
                    u0 = RemoveFirst(u, k)
             PROVE  /\ Good(l0, nd, m0, u0, w)
                    /\ Len(l0) = IF m[k] # NoNode THEN Len(l) - 1 ELSE Len(l)
                    /\ \A i \in 1 .. Len(u0) : u0[i] # k
                    /\ \A i \in 1 .. Len(l0) : l0[i] # m[k] /\ \E j \in 1 .. Len(l) : l0[i] = l[j]
  BY Zenon DEF Drops, Gone
<1>0. /\ l \in Seq(Addresses) /\ nd \in [Addresses -> Node]
      /\ m \in [Keys -> Addresses \cup {NoNode}]
      /\ u \in Seq(Keys) /\ w \in [Keys -> Values]
      /\ Distinct(u) /\ Len(l) <= Len(u) /\ \A i \in 1 .. Len(l) : m[u[i]] = l[i]
  BY Zenon DEF Good
<1>1. /\ Len(l) \in Nat /\ Len(u) \in Nat /\ Distinct(l)
      /\ \A i \in 1 .. Len(l) : i \in 1 .. Len(u) /\ u[i] \in Keys /\ m[u[i]] # NoNode /\ l[i] \in Addresses
  <2>1. /\ Len(l) \in Nat /\ Len(u) \in Nat
        /\ \A i \in 1 .. Len(l) : /\ i \in 1 .. Len(u) /\ u[i] \in Keys /\ l[i] \in Addresses
                                  /\ m[u[i]] # NoNode /\ nd[l[i]] = [key |-> u[i], value |-> w[u[i]]]
        /\ Distinct(l)
    BY GoodNodes, Zenon
  <2>2. QED
    BY <2>1, Zenon
<1>2. m0 \in [Keys -> Addresses \cup {NoNode}] /\ m0[k] = NoNode /\ \A x \in Keys \ {k} : m0[x] = m[x]
  BY <1>0, Zenon
<1>3. CASE \A i \in 1 .. Len(u) : u[i] # k
  <2>1. u0 = u
    BY <1>3, RemovedNone, Zenon
  <2>2. m[k] = NoNode
    BY <1>1, <1>3, Zenon DEF Good
  <2>3. l0 = l
    BY <2>2, Zenon
  <2>4. \A i \in 1 .. Len(l0) : m0[u0[i]] = l0[i]
    BY <1>0, <1>1, <1>2, <1>3, <2>1, <2>3
  <2>5. \A x \in Keys : m0[x] # NoNode => /\ nd[m0[x]] = [key |-> x, value |-> w[x]]
                                          /\ \E i \in 1 .. Len(l0) : u0[i] = x
    BY <1>2, <2>1, <2>3 DEF Good
  <2>6. Good(l0, nd, m0, u0, w)
    BY <1>0, <1>2, <2>1, <2>3, <2>4, <2>5, Zenon DEF Good
  <2>7. \A i \in 1 .. Len(l0) : l0[i] # m[k] /\ \E j \in 1 .. Len(l) : l0[i] = l[j]
    BY <1>0, <1>1, <2>2, <2>3
  <2>8. QED
    BY <1>3, <2>1, <2>2, <2>3, <2>6, <2>7
<1>4. ASSUME NEW p \in 1 .. Len(u), u[p] = k
      PROVE  /\ Good(l0, nd, m0, u0, w)
             /\ Len(l0) = IF m[k] # NoNode THEN Len(l) - 1 ELSE Len(l)
             /\ \A i \in 1 .. Len(u0) : u0[i] # k
             /\ \A i \in 1 .. Len(l0) : l0[i] # m[k] /\ \E j \in 1 .. Len(l) : l0[i] = l[j]
  <2>1. /\ u0 \in Seq(Keys) /\ Len(u0) = Len(u) - 1
        /\ \A i \in 1 .. Len(u) - 1 : u0[i] = IF i < p THEN u[i] ELSE u[i + 1]
    <3>1. k = u[p]
      BY <1>4, Zenon
    <3>2. /\ RemoveFirst(u, k) \in Seq(Keys)
          /\ Len(RemoveFirst(u, k)) = Len(u) - 1
          /\ \A i \in 1 .. Len(u) - 1 : RemoveFirst(u, k)[i] = IF i < p THEN u[i] ELSE u[i + 1]
      BY <1>0, <3>1, RemovedOnce
    <3>3. QED
      BY <3>2, Zenon
  <2>2. \A i \in 1 .. Len(u) - 1 : i \in 1 .. Len(u) /\ i + 1 \in 1 .. Len(u)
    BY <1>1
  <2>3. \A i \in 1 .. Len(u) : u[i] = k => i = p
    BY <1>0, <1>4, Zenon DEF Distinct
  <2>4. \A i \in 1 .. Len(u) - 1 : u0[i] # k
    BY <1>1, <2>1, <2>2, <2>3
  <2>5. Distinct(u0)
    <3> SUFFICES ASSUME NEW i \in 1 .. Len(u) - 1, NEW j \in 1 .. Len(u) - 1, u0[i] = u0[j] PROVE i = j
      BY <2>1, Zenon DEF Distinct
    <3>1. PICK a \in 1 .. Len(u) : a = (IF i < p THEN i ELSE i + 1) /\ u0[i] = u[a]
      BY <2>1, <2>2, Zenon
    <3>2. PICK b \in 1 .. Len(u) : b = (IF j < p THEN j ELSE j + 1) /\ u0[j] = u[b]
      BY <2>1, <2>2, Zenon
    <3>3. a = b
      BY <1>0, <3>1, <3>2, Zenon DEF Distinct
    <3>4. QED
      BY <1>1, <3>1, <3>2, <3>3
  <2>6. CASE m[k] = NoNode
    <3>1. ~(p <= Len(l))
      BY <1>1, <1>4, <2>6
    <3>2. l0 = l /\ Len(l) <= Len(u) - 1
      BY <1>1, <2>6, <3>1
    <3>3. \A i \in 1 .. Len(l) : u0[i] = u[i] /\ u[i] # k
      BY <1>1, <1>4, <2>1, <2>3, <3>1, <3>2
    <3>4. \A i \in 1 .. Len(l0) : m0[u0[i]] = l0[i]
      BY <1>0, <1>1, <1>2, <3>2, <3>3
    <3>5. ASSUME NEW x \in Keys, m0[x] # NoNode
          PROVE  nd[m0[x]] = [key |-> x, value |-> w[x]] /\ \E i \in 1 .. Len(l0) : u0[i] = x
      <4>1. m0[x] = m[x]
        BY <1>2, <3>5, Zenon
      <4>2. nd[m[x]] = [key |-> x, value |-> w[x]] /\ \E i \in 1 .. Len(l) : u[i] = x
        BY <3>5, <4>1, Zenon DEF Good
      <4>3. QED
        BY <3>2, <3>3, <4>1, <4>2, Zenon
    <3>6. Good(l0, nd, m0, u0, w)
      BY <1>0, <1>2, <2>1, <2>5, <3>2, <3>4, <3>5, Zenon DEF Good
    <3>7. QED
      BY <1>0, <1>1, <2>1, <2>4, <2>6, <3>2, <3>6
  <2>7. CASE m[k] # NoNode
    <3>1. p \in 1 .. Len(l) /\ l[p] = m[k]
      <4>1. PICK i \in 1 .. Len(l) : u[i] = k
        BY <2>7, Zenon DEF Good
      <4>2. i = p
        BY <1>1, <2>3, <4>1
      <4>3. QED
        BY <1>0, <1>4, <4>1, <4>2
    <3>2. /\ l0 \in Seq(Addresses) /\ Len(l0) = Len(l) - 1
          /\ \A i \in 1 .. Len(l) - 1 : l0[i] = IF i < p THEN l[i] ELSE l[i + 1]
      <4>1. l \in Seq(Addresses) /\ Distinct(l)
        BY <1>0, <1>1
      <4>0. PICK q \in 1 .. Len(l) : q = p
        BY <3>1, Zenon
      <4>2. PICK e : e = m[k] /\ e = l[q]
        BY <3>1, <4>0, Zenon
      <4>3. l0 = RemoveFirst(l, e)
        BY <2>7, <4>2, Zenon
      <4>4. /\ RemoveFirst(l, e) \in Seq(Addresses) /\ Len(RemoveFirst(l, e)) = Len(l) - 1
            /\ \A i \in 1 .. Len(l) - 1 : RemoveFirst(l, e)[i] = IF i < q THEN l[i] ELSE l[i + 1]
        BY <4>1, <4>2, RemovedOnce
      <4>5. QED
        BY <4>0, <4>3, <4>4
    <3>3. \A i \in 1 .. Len(l) - 1 : i \in 1 .. Len(l) /\ i + 1 \in 1 .. Len(l) /\ i \in 1 .. Len(u) - 1
      BY <1>0, <1>1
    <3>4. \A i \in 1 .. Len(l0) : m0[u0[i]] = l0[i]
      <4> SUFFICES ASSUME NEW i \in 1 .. Len(l) - 1 PROVE m0[u0[i]] = l0[i]
        BY <3>2, Zenon
      <4>1. u0[i] \in Keys /\ u0[i] # k
        BY <2>1, <2>4, <3>3
      <4>2. PICK j \in 1 .. Len(l) : u0[i] = u[j] /\ l0[i] = l[j]
        BY <2>1, <3>2, <3>3, Zenon
      <4>3. QED
        BY <1>0, <1>2, <4>1, <4>2, Zenon
    <3>5. ASSUME NEW x \in Keys, m0[x] # NoNode
          PROVE  nd[m0[x]] = [key |-> x, value |-> w[x]] /\ \E i \in 1 .. Len(l0) : u0[i] = x
      <4>1. x # k /\ m0[x] = m[x]
        BY <1>2, <3>5
      <4>2. nd[m[x]] = [key |-> x, value |-> w[x]]
        BY <3>5, <4>1, Zenon DEF Good
      <4>3. PICK j \in 1 .. Len(l) : u[j] = x
        BY <3>5, <4>1, Zenon DEF Good
      <4>4. j # p /\ j \in Nat /\ p \in Nat
        BY <1>4, <4>1, <4>3
      <4>5. CASE j < p
        <5>1. j \in 1 .. Len(l) - 1
          BY <1>1, <3>1, <4>5
        <5>2. u0[j] = x
          BY <2>1, <3>3, <4>3, <4>5, <5>1
        <5>3. QED
          BY <3>2, <4>1, <4>2, <5>1, <5>2
      <4>6. CASE j > p
        <5>1. j - 1 \in 1 .. Len(l) - 1 /\ ~(j - 1 < p) /\ (j - 1) + 1 = j
          BY <1>1, <3>1, <4>4, <4>6
        <5>2. u0[j - 1] = x
          BY <2>1, <3>3, <4>3, <5>1
        <5>3. QED
          BY <3>2, <4>1, <4>2, <5>1, <5>2
      <4>7. QED
        BY <4>4, <4>5, <4>6
    <3>6. Len(l0) <= Len(u0)
      BY <1>0, <1>1, <2>1, <3>2
    <3>7. Good(l0, nd, m0, u0, w)
      BY <1>0, <1>2, <2>1, <2>5, <3>2, <3>4, <3>5, <3>6, Zenon DEF Good
    <3>8. ASSUME NEW i \in 1 .. Len(l0) PROVE l0[i] # m[k] /\ \E j \in 1 .. Len(l) : l0[i] = l[j]
      <4>1. PICK j \in 1 .. Len(l) : j = (IF i < p THEN i ELSE i + 1) /\ l0[i] = l[j]
        BY <3>2, <3>3
      <4>2. j # p
        BY <1>1, <4>1
      <4>3. QED
        BY <1>1, <3>1, <4>1, <4>2 DEF Distinct
    <3>9. QED
      BY <2>1, <2>4, <2>7, <3>2, <3>7, <3>8
  <2>8. QED
    BY <2>6, <2>7, Zenon
<1>5. QED
  BY <1>3, <1>4, Zenon

\* Key k is not in the cache and address a is of no node in the list.
Fresh(l, m, u, k, a) ==
    m[k] = NoNode /\ (\A i \in 1 .. Len(u) : u[i] # k) /\ (\A i \in 1 .. Len(l) : l[i] # a)

\* l1, nd1, m1, u1 and w1 are a good state after such a k, with value v in node a, is put in front.
Adds(l, nd, m, u, w, k, v, a, l1, nd1, m1, u1, w1) ==
    /\ Good(l, nd, m, u, w) /\ Fresh(l, m, u, k, a)
    /\ k \in Keys /\ v \in Values /\ a \in Addresses
    /\ l1 = <<a>> \o l
    /\ u1 = <<k>> \o u
    /\ nd1 = [nd EXCEPT ![a] = [key |-> k, value |-> v]]
    /\ m1 = [m EXCEPT ![k] = a]
    /\ w1 = [w EXCEPT ![k] = v]

\* The list has one node more.
Longer(l, l1) == Len(l1) = Len(l) + 1

\* Putting such a key in front.
LEMMA GoodAdd ==
  ASSUME NEW l, NEW nd, NEW m, NEW u, NEW w, NEW k, NEW v, NEW a,
         NEW l1, NEW nd1, NEW m1, NEW u1, NEW w1,
         Adds(l, nd, m, u, w, k, v, a, l1, nd1, m1, u1, w1)
  PROVE  Good(l1, nd1, m1, u1, w1) /\ Longer(l, l1)
<1> SUFFICES ASSUME Good(l, nd, m, u, w), k \in Keys, v \in Values, a \in Addresses, m[k] = NoNode,
                    \A i \in 1 .. Len(u) : u[i] # k, \A i \in 1 .. Len(l) : l[i] # a
             PROVE  Good(l1, nd1, m1, u1, w1) /\ Len(l1) = Len(l) + 1
  BY Zenon DEF Adds, Fresh, Longer
<1>0. /\ l \in Seq(Addresses) /\ nd \in [Addresses -> Node]
      /\ m \in [Keys -> Addresses \cup {NoNode}]
      /\ u \in Seq(Keys) /\ w \in [Keys -> Values]
      /\ Distinct(u) /\ Len(l) <= Len(u) /\ \A i \in 1 .. Len(l) : m[u[i]] = l[i]
      /\ Len(l) \in Nat /\ Len(u) \in Nat
  BY DEF Good
<1>1. l1 = <<a>> \o l
  BY Zenon DEF Adds
<1>2. u1 = <<k>> \o u
  BY Zenon DEF Adds
<1>3. nd1 = [nd EXCEPT ![a] = [key |-> k, value |-> v]]
  BY Zenon DEF Adds
<1>4. m1 = [m EXCEPT ![k] = a]
  BY Zenon DEF Adds
<1>5. w1 = [w EXCEPT ![k] = v]
  BY Zenon DEF Adds
<1>6. /\ l1 \in Seq(Addresses) /\ Len(l1) = Len(l) + 1 /\ l1[1] = a
      /\ \A i \in 2 .. Len(l) + 1 : l1[i] = l[i - 1]
  BY <1>0, <1>1, Headed
<1>7. /\ u1 \in Seq(Keys) /\ Len(u1) = Len(u) + 1 /\ u1[1] = k
      /\ \A i \in 2 .. Len(u) + 1 : u1[i] = u[i - 1]
  BY <1>0, <1>2, Headed
<1>8. nd1 \in [Addresses -> Node] /\ nd1[a] = [key |-> k, value |-> v] /\ \A b \in Addresses \ {a} : nd1[b] = nd[b]
  <2>1. [key |-> k, value |-> v] \in Node
    BY Zenon DEF Node
  <2>2. QED
    BY <1>0, <1>3, <2>1, Zenon
<1>9. m1 \in [Keys -> Addresses \cup {NoNode}] /\ m1[k] = a /\ \A x \in Keys \ {k} : m1[x] = m[x]
  BY <1>0, <1>4, Zenon
<1>10. w1 \in [Keys -> Values] /\ w1[k] = v /\ \A x \in Keys \ {k} : w1[x] = w[x]
  BY <1>0, <1>5, Zenon
<1>11. Distinct(u1)
  <2> SUFFICES ASSUME NEW i \in 1 .. Len(u) + 1, NEW j \in 1 .. Len(u) + 1, u1[i] = u1[j] PROVE i = j
    BY <1>7, Zenon DEF Distinct
  <2>1. ASSUME NEW x \in 2 .. Len(u) + 1 PROVE x - 1 \in 1 .. Len(u) /\ u1[x] # k
    <3>1. x - 1 \in 1 .. Len(u) /\ u1[x] = u[x - 1]
      BY <1>0, <1>7
    <3>2. QED
      BY <3>1, Zenon
  <2>2. CASE i = 1 \/ j = 1
    BY <1>0, <1>7, <2>1, <2>2
  <2>3. CASE i # 1 /\ j # 1
    <3>1. i \in 2 .. Len(u) + 1 /\ j \in 2 .. Len(u) + 1
      BY <1>0, <2>3
    <3>2. u[i - 1] = u[j - 1] /\ i - 1 \in 1 .. Len(u) /\ j - 1 \in 1 .. Len(u)
      BY <1>7, <2>1, <3>1, Zenon
    <3>3. i - 1 = j - 1
      BY <1>0, <3>2, Zenon DEF Distinct
    <3>4. QED
      BY <3>3
  <2>4. QED
    BY <2>2, <2>3, Zenon
<1>12. Len(l1) <= Len(u1)
  BY <1>0, <1>6, <1>7
<1>13. ASSUME NEW i \in 1 .. Len(l1) PROVE m1[u1[i]] = l1[i]
  <2>1. CASE i = 1
    BY <1>6, <1>7, <1>9, <2>1, Zenon
  <2>2. CASE i # 1
    <3>1. /\ i \in 2 .. Len(l) + 1 /\ i \in 2 .. Len(u) + 1
          /\ i - 1 \in 1 .. Len(l) /\ i - 1 \in 1 .. Len(u)
      BY <1>0, <1>6, <2>2
    <3>2. u1[i] = u[i - 1] /\ l1[i] = l[i - 1] /\ u[i - 1] \in Keys /\ u[i - 1] # k
      BY <1>0, <1>6, <1>7, <3>1
    <3>3. QED
      BY <1>0, <1>9, <3>1, <3>2
  <2>3. QED
    BY <2>1, <2>2, Zenon
<1>14. ASSUME NEW x \in Keys, m1[x] # NoNode
       PROVE  nd1[m1[x]] = [key |-> x, value |-> w1[x]] /\ \E i \in 1 .. Len(l1) : u1[i] = x
  <2>0. 1 \in 1 .. Len(l1)
    BY <1>0, <1>6
  <2>1. CASE x = k
    BY <1>7, <1>8, <1>9, <1>10, <2>0, <2>1, Zenon
  <2>2. CASE x # k
    <3>1. m1[x] = m[x] /\ w1[x] = w[x] /\ m[x] \in Addresses
      BY <1>0, <1>9, <1>10, <1>14, <2>2
    <3>2. PICK i \in 1 .. Len(l) : u[i] = x
      BY <1>14, <3>1, Zenon DEF Good
    <3>3. m[x] # a
      BY <1>0, <3>2, Zenon
    <3>4. nd1[m1[x]] = [key |-> x, value |-> w1[x]]
      <4>1. nd[m[x]] = [key |-> x, value |-> w[x]]
        BY <1>14, <3>1, Zenon DEF Good
      <4>2. nd1[m[x]] = nd[m[x]]
        BY <1>8, <3>1, <3>3
      <4>3. QED
        BY <3>1, <4>1, <4>2
    <3>5. i + 1 \in 1 .. Len(l1) /\ i + 1 \in 2 .. Len(u) + 1 /\ (i + 1) - 1 = i
      BY <1>0, <1>6
    <3>6. u1[i + 1] = x
      BY <1>7, <3>2, <3>5, Zenon
    <3>7. QED
      BY <3>4, <3>5, <3>6
  <2>3. QED
    BY <2>1, <2>2, Zenon
<1>15. Good(l1, nd1, m1, u1, w1)
  BY <1>6, <1>7, <1>8, <1>9, <1>10, <1>11, <1>12, <1>13, <1>14, SMTT(30) DEF Good
<1>16. QED
  BY <1>6, <1>15, Zenon

\* Evicting the last node of the list.
LEMMA GoodEvict ==
  ASSUME NEW l, NEW nd, NEW m, NEW u, NEW w, Good(l, nd, m, u, w), Len(l) >= 1
  PROVE  /\ Good(Front(l), nd, [m EXCEPT ![nd[Last(l)].key] = NoNode], u, w)
         /\ Len(Front(l)) = Len(l) - 1
<1>0. /\ l \in Seq(Addresses) /\ nd \in [Addresses -> Node]
      /\ m \in [Keys -> Addresses \cup {NoNode}]
      /\ u \in Seq(Keys) /\ w \in [Keys -> Values]
      /\ Distinct(u) /\ Len(l) <= Len(u) /\ \A i \in 1 .. Len(l) : m[u[i]] = l[i]
      /\ Len(l) \in Nat /\ Len(u) \in Nat
  BY DEF Good
<1>1. PICK n \in Nat : n = Len(l) /\ n \in 1 .. Len(l) /\ n \in 1 .. Len(u)
  BY <1>0
<1>2. PICK z \in Keys : z = u[n]
  BY <1>0, <1>1
<1>3. nd[Last(l)].key = z
  <2>1. /\ Len(l) \in Nat /\ Len(u) \in Nat
        /\ \A i \in 1 .. Len(l) : /\ i \in 1 .. Len(u) /\ u[i] \in Keys /\ l[i] \in Addresses
                                  /\ m[u[i]] # NoNode /\ nd[l[i]] = [key |-> u[i], value |-> w[u[i]]]
        /\ Distinct(l)
    BY GoodNodes, Zenon
  <2>2. nd[l[n]] = [key |-> u[n], value |-> w[u[n]]]
    BY <1>1, <2>1, Zenon
  <2>3. nd[l[n]].key = u[n]
    BY <2>2
  <2>4. QED
    BY <1>1, <1>2, <2>3, Zenon DEF Last
<1>4. PICK f : f = Front(l)
  BY Zenon
<1>5. f \in Seq(Addresses) /\ Len(f) = n - 1 /\ \A i \in 1 .. n - 1 : f[i] = l[i]
  BY <1>0, <1>1, <1>4 DEF Front
<1>6. PICK m1 : m1 = [m EXCEPT ![z] = NoNode]
  BY Zenon
<1>7. m1 \in [Keys -> Addresses \cup {NoNode}] /\ m1[z] = NoNode /\ \A x \in Keys \ {z} : m1[x] = m[x]
  BY <1>0, <1>6, Zenon
<1>8. \A i \in 1 .. n - 1 : i \in 1 .. Len(l) /\ i \in 1 .. Len(u) /\ i # n
  BY <1>0, <1>1
<1>9. \A i \in 1 .. n - 1 : u[i] \in Keys /\ u[i] # z
  <2> SUFFICES ASSUME NEW i \in 1 .. n - 1 PROVE u[i] \in Keys /\ u[i] # z
    BY Zenon
  <2>1. i \in 1 .. Len(u) /\ i # n /\ n \in 1 .. Len(u)
    BY <1>1, <1>8
  <2>2. u[i] \in Keys
    BY <1>0, <2>1
  <2>3. QED
    BY <1>0, <1>2, <2>1, <2>2 DEF Distinct
<1>10. \A i \in 1 .. Len(f) : m1[u[i]] = f[i]
  BY <1>0, <1>5, <1>7, <1>8, <1>9, Zenon
<1>11. ASSUME NEW x \in Keys, m1[x] # NoNode
       PROVE  nd[m1[x]] = [key |-> x, value |-> w[x]] /\ \E i \in 1 .. Len(f) : u[i] = x
  <2>1. x # z /\ m1[x] = m[x]
    BY <1>7, <1>11, Zenon
  <2>2. nd[m[x]] = [key |-> x, value |-> w[x]]
    BY <1>11, <2>1, Zenon DEF Good
  <2>3. PICK i \in 1 .. Len(l) : u[i] = x
    BY <1>11, <2>1, Zenon DEF Good
  <2>4. i \in 1 .. n - 1
    BY <1>1, <1>2, <2>1, <2>3
  <2>5. QED
    BY <1>5, <2>1, <2>2, <2>3, <2>4
<1>12. Len(f) <= Len(u)
  BY <1>0, <1>1, <1>5
<1>13. Good(f, nd, m1, u, w)
  BY <1>0, <1>5, <1>7, <1>10, <1>11, <1>12 DEF Good
<1>14. QED
  BY <1>1, <1>3, <1>4, <1>5, <1>6, <1>13

\* The map has as many keys as the list has nodes.
LEMMA GoodSize ==
  ASSUME NEW l, NEW nd, NEW m, NEW u, NEW w, Good(l, nd, m, u, w)
  PROVE  /\ Cardinality({k \in Keys : m[k] # NoNode}) = Len(l)
         /\ Cardinality({l[i] : i \in 1 .. Len(l)}) = Len(l)
         /\ Len(l) <= Cardinality(Keys)
<1>1. /\ Len(l) \in Nat /\ Len(u) \in Nat
      /\ \A i \in 1 .. Len(l) : /\ i \in 1 .. Len(u) /\ u[i] \in Keys /\ l[i] \in Addresses
                                /\ m[u[i]] # NoNode /\ nd[l[i]] = [key |-> u[i], value |-> w[u[i]]]
      /\ Distinct(l)
  BY GoodNodes, Zenon
<1> DEFINE I == 1 .. Len(l)
           M == {k \in Keys : m[k] # NoNode}
           A == {l[i] : i \in I}
           f == [i \in I |-> u[i]]
           g == [i \in I |-> l[i]]
<1>2. IsFiniteSet(I) /\ Cardinality(I) = Len(l)
  <2>1. PICK n \in Int : n = Len(l) /\ n >= 0
    BY <1>1
  <2>2. IsFiniteSet(1 .. n) /\ Cardinality(1 .. n) = IF 1 > n THEN 0 ELSE n - 1 + 1
    BY FS_Interval
  <2>3. QED
    BY <2>1, <2>2
<1>3. f \in Bijection(I, M)
  <2>1. f \in [I -> M]
    BY <1>1, Zenon
  <2>2. \A i, j \in I : f[i] = f[j] => i = j
    BY <1>1, Zenon DEF Good, Distinct
  <2>3. \A k \in M : \E i \in I : f[i] = k
    BY Zenon DEF Good
  <2>4. QED
    BY <2>1, <2>2, <2>3, Zenon DEF Bijection, Injection, Surjection, IsInjective
<1>4. g \in Bijection(I, A)
  BY <1>1, Zenon DEF Bijection, Injection, Surjection, IsInjective, Distinct
<1> HIDE DEF I, M, A, f, g
<1>5. ExistsBijection(I, M) /\ ExistsBijection(I, A)
  BY <1>3, <1>4, Zenon DEF ExistsBijection
<1>6. Cardinality(M) = Len(l) /\ Cardinality(A) = Len(l)
  BY <1>2, <1>5, FS_Bijection
<1>7. Cardinality(M) <= Cardinality(Keys)
  <2>1. M \in SUBSET Keys
    BY Zenon DEF M
  <2>2. QED
    BY <2>1, KeysAssumption, FS_Subset, Zenon
<1>8. QED
  BY <1>6, <1>7, Zenon DEF M, A, I

-----------------------------------------------------------------------------
Cached == Good(list, node, map, used, written) /\ Len(list) <= Capacity

\* A set of numbers has a least one.
LEMMA LeastExists ==
  ASSUME NEW S \in SUBSET Nat, S # {}
  PROVE  \E x \in S : \A y \in S : x <= y
<1> DEFINE Less == OpToRel(<, Nat)
<1>1. PICK x \in S : \A y \in S : ~(<<y, x>> \in Less)
  <2>1. IsWellFoundedOn(Less, Nat)
    BY NatLessThanWellFounded, Zenon
  <2> HIDE DEF Less
  <2>2. QED
    BY <2>1, WFMin, Zenon
<1>2. ASSUME NEW y \in S, y < x PROVE FALSE
  <2>1. <<y, x>> \in Less
    BY <1>2, Zenon DEF OpToRel
  <2>2. QED
    BY <1>1, <2>1, Zenon
<1>3. QED
  BY <1>2

\* There is always an address for a new node: the list has at most as many
\* nodes as there are keys.
LEMMA FreeIs ==
  ASSUME Cached
  PROVE  Free \in Addresses /\ \A i \in 1 .. Len(list) : list[i] # Free
<1> DEFINE R == {list[i] : i \in 1 .. Len(list)}
           S == Addresses \ R
<1>1. list \in Seq(Addresses) /\ Good(list, node, map, used, written)
  BY Zenon DEF Cached, Good
<1>2. Range(list) = R
  BY <1>1 DEF Range
<1>3. Cardinality(R) = Len(list) /\ Len(list) <= Cardinality(Keys)
  BY <1>1, GoodSize, Zenon
<1>4. Cardinality(Keys) \in Nat /\ Addresses \subseteq Nat
  BY AddressesAre, Zenon
<1>5. IsFiniteSet(Addresses) /\ Cardinality(Addresses) = Cardinality(Keys) + 1
  <2>1. PICK n \in Int : n = Cardinality(Keys) + 1 /\ n >= 1
    BY <1>4
  <2>2. IsFiniteSet(1 .. n) /\ Cardinality(1 .. n) = IF 1 > n THEN 0 ELSE n - 1 + 1
    BY FS_Interval
  <2>3. QED
    BY <2>1, <2>2 DEF Addresses
<1>6. R \subseteq Addresses
  BY <1>1
<1>7. Len(list) \in Nat
  BY <1>1
<1> HIDE DEF R
<1>8. S # {}
  <2>1. SUFFICES ASSUME S = {} PROVE FALSE
    BY Zenon
  <2>2. R = Addresses
    BY <1>6, <2>1, Zenon
  <2>3. QED
    BY <1>3, <1>4, <1>5, <1>7, <2>2
<1>9. PICK x \in S : \A y \in S : x <= y
  <2>1. S \in SUBSET Nat
    BY <1>4, Zenon
  <2>2. QED
    BY <1>8, <2>1, LeastExists, Zenon
<1>10. \A b \in 1 .. x - 1 : b \in R
  <2>0. Addresses = 1 .. Cardinality(Keys) + 1
    BY Zenon DEF Addresses
  <2>1. x \in 1 .. Cardinality(Keys) + 1
    BY <2>0, Zenon
  <2>2. \A b \in 1 .. x - 1 : b \in 1 .. Cardinality(Keys) + 1 /\ ~(x <= b)
    BY <1>4, <2>1
  <2>3. QED
    BY <1>9, <2>0, <2>2
<1>11. Free \in Addresses /\ Free \notin R
  BY <1>2, <1>9, <1>10, Zenon DEF Free
<1>12. QED
  BY <1>11, Zenon DEF R

\* put drops the key, adds it in front and evicts the last one.
LEMMA CachedPut ==
  ASSUME Cached, NEW k \in Keys, NEW v \in Values, put(k, v)
  PROVE  Cached'
<1>0. Good(list, node, map, used, written) /\ Len(list) <= Capacity /\ Capacity \in Nat /\ Len(list) \in Nat
  BY CapacityAssumption DEF Cached, Good
<1>1. PICK a \in Addresses : a = Free /\ \A i \in 1 .. Len(list) : list[i] # a
  BY FreeIs, Zenon
<1>2. PICK l0, m0, u0 : Drops(list, map, used, k, l0, m0, u0)
  BY Zenon DEF Drops
<1>3. l0 = IF map[k] # NoNode THEN RemoveFirst(list, map[k]) ELSE list
  BY <1>2, Zenon DEF Drops
<1>4. u0 = RemoveFirst(used, k) /\ m0 = [map EXCEPT ![k] = NoNode]
  BY <1>2, Zenon DEF Drops
<1>5. /\ Good(l0, node, m0, u0, written)
      /\ Len(l0) = IF map[k] # NoNode THEN Len(list) - 1 ELSE Len(list)
      /\ \A i \in 1 .. Len(u0) : u0[i] # k
      /\ \A i \in 1 .. Len(l0) : l0[i] # map[k] /\ \E j \in 1 .. Len(list) : l0[i] = list[j]
  <2>1. Good(l0, node, m0, u0, written) /\ Gone(list, map, k, l0, u0)
    BY <1>0, <1>2, GoodDrop, Zenon
  <2>2. QED
    BY <2>1, Zenon DEF Gone
<1>6. \A i \in 1 .. Len(l0) : l0[i] # a
  BY <1>1, <1>5, Zenon
<1>7. map \in [Keys -> Addresses \cup {NoNode}] /\ m0[k] = NoNode
  BY <1>0, <1>4 DEF Good
<1>8. PICK pushed : pushed = <<a>> \o l0
  BY Zenon
<1>9. PICK kv : kv = [node EXCEPT ![a] = [key |-> k, value |-> v]]
  BY Zenon
<1>10. PICK new : new = [map EXCEPT ![k] = a]
  BY Zenon
<1>11. new = [m0 EXCEPT ![k] = a]
  BY <1>4, <1>7, <1>10, Zenon
<1>12. /\ node' = kv
       /\ IF Full(new)
          THEN /\ map' = [new EXCEPT ![kv[Last(pushed)].key] = NoNode]
               /\ list' = Front(pushed)
          ELSE map' = new /\ list' = pushed
       /\ used' = <<k>> \o u0 /\ written' = [written EXCEPT ![k] = v]
  BY <1>1, <1>3, <1>4, <1>8, <1>9, <1>10 DEF put, Dropped, Touched
<1>13. Good(pushed, kv, new, used', written') /\ Len(pushed) = Len(l0) + 1
  <2>1. Good(l0, node, m0, u0, written) /\ Fresh(l0, m0, u0, k, a) /\ a \in Addresses
    BY <1>1, <1>5, <1>6, <1>7, Zenon DEF Fresh
  <2>2. used' = <<k>> \o u0 /\ written' = [written EXCEPT ![k] = v]
    BY <1>12, Zenon
  <2>3. Adds(l0, node, m0, u0, written, k, v, a, pushed, kv, new, used', written')
    BY <1>8, <1>9, <1>11, <2>1, <2>2, Zenon DEF Adds
  <2>4. PICK u1, w1 : u1 = used' /\ w1 = written'
    BY Zenon
  <2>5. Adds(l0, node, m0, u0, written, k, v, a, pushed, kv, new, u1, w1)
    BY <2>3, <2>4, Zenon
  <2>6. Good(pushed, kv, new, u1, w1) /\ Longer(l0, pushed)
    BY <2>5, GoodAdd, Zenon
  <2>7. QED
    BY <2>4, <2>6, Zenon DEF Longer
<1>14. Full(new) <=> Len(pushed) > Capacity
  <2>1. Cardinality({x \in Keys : new[x] # NoNode}) = Len(pushed)
    BY <1>13, GoodSize, Zenon
  <2>2. QED
    BY <2>1, Zenon DEF Full
<1>15. CASE Full(new)
  <2>1. Len(pushed) >= 1 /\ Len(pushed) <= Capacity + 1 /\ Len(pushed) \in Nat
    BY <1>0, <1>5, <1>13
  <2>2. /\ Good(Front(pushed), kv, [new EXCEPT ![kv[Last(pushed)].key] = NoNode], used', written')
        /\ Len(Front(pushed)) = Len(pushed) - 1
    BY <1>13, <2>1, GoodEvict, Zenon
  <2>3. QED
    <3>1. Good(list', node', map', used', written')
      BY <1>12, <1>15, <2>2, Zenon
    <3>2. Len(list') <= Capacity
      BY <1>0, <1>12, <1>15, <2>1, <2>2
    <3>3. QED
      BY <3>1, <3>2 DEF Cached
<1>16. CASE ~Full(new)
  <2>1. Len(pushed) <= Capacity
    BY <1>0, <1>5, <1>13, <1>14, <1>16
  <2>2. QED
    BY <1>12, <1>13, <1>16, <2>1 DEF Cached
<1>17. QED
  BY <1>15, <1>16, Zenon

\* get drops the key and adds it in front again, with the node it has.
LEMMA CachedGet ==
  ASSUME Cached, NEW k \in Keys, get(k)
  PROVE  Cached'
<1>0. /\ Good(list, node, map, used, written) /\ Len(list) <= Capacity /\ Len(list) \in Nat
      /\ map \in [Keys -> Addresses \cup {NoNode}] /\ node \in [Addresses -> Node]
      /\ written \in [Keys -> Values]
  BY DEF Cached, Good
<1>1. PICK a \in Addresses : a = map[k] /\ map[k] # NoNode
  BY <1>0, Zenon DEF get
<1>2. PICK l0, m0, u0 : Drops(list, map, used, k, l0, m0, u0)
  BY Zenon DEF Drops
<1>3. l0 = IF map[k] # NoNode THEN RemoveFirst(list, map[k]) ELSE list
  BY <1>2, Zenon DEF Drops
<1>4. u0 = RemoveFirst(used, k) /\ m0 = [map EXCEPT ![k] = NoNode]
  BY <1>2, Zenon DEF Drops
<1>5. /\ Good(l0, node, m0, u0, written)
      /\ Len(l0) = IF map[k] # NoNode THEN Len(list) - 1 ELSE Len(list)
      /\ \A i \in 1 .. Len(u0) : u0[i] # k
      /\ \A i \in 1 .. Len(l0) : l0[i] # map[k] /\ \E j \in 1 .. Len(list) : l0[i] = list[j]
  <2>1. Good(l0, node, m0, u0, written) /\ Gone(list, map, k, l0, u0)
    BY <1>0, <1>2, GoodDrop, Zenon
  <2>2. QED
    BY <2>1, Zenon DEF Gone
<1>6. /\ list' = <<a>> \o l0 /\ used' = <<k>> \o u0
      /\ node' = node /\ map' = map /\ written' = written
  BY <1>1, <1>3, <1>4 DEF get, Moved, Touched
<1>7. PICK v \in Values : v = written[k]
  BY <1>0, Zenon
<1>8. node[a] = [key |-> k, value |-> v]
  BY <1>0, <1>1, <1>7, Zenon DEF Good
<1>9. /\ [node EXCEPT ![a] = [key |-> k, value |-> v]] = node
      /\ [m0 EXCEPT ![k] = a] = map
      /\ [written EXCEPT ![k] = v] = written
  <2>1. [node EXCEPT ![a] = [key |-> k, value |-> v]] = node
    BY <1>0, <1>8, Zenon
  <2>2. [m0 EXCEPT ![k] = a] = map /\ [written EXCEPT ![k] = v] = written
    BY <1>0, <1>1, <1>4, <1>7, Zenon
  <2>3. QED
    BY <2>1, <2>2, Zenon
<1>10. m0[k] = NoNode /\ \A i \in 1 .. Len(l0) : l0[i] # a
  <2>1. m0[k] = NoNode
    BY <1>0, <1>4, Zenon
  <2>2. QED
    BY <1>1, <1>5, <2>1, Zenon
<1>11. /\ Good(<<a>> \o l0, [node EXCEPT ![a] = [key |-> k, value |-> v]], [m0 EXCEPT ![k] = a],
               <<k>> \o u0, [written EXCEPT ![k] = v])
       /\ Len(<<a>> \o l0) = Len(l0) + 1
  <2>1. /\ Good(l0, node, m0, u0, written) /\ Fresh(l0, m0, u0, k, a)
        /\ a \in Addresses /\ v \in Values
    BY <1>1, <1>5, <1>7, <1>10, Zenon DEF Fresh
  <2>2. PICK l1, nd1, m1, u1, w1 : Adds(l0, node, m0, u0, written, k, v, a, l1, nd1, m1, u1, w1)
    BY <2>1, Zenon DEF Adds
  <2>3. Good(l1, nd1, m1, u1, w1) /\ Longer(l0, l1)
    BY <2>2, GoodAdd, Zenon
  <2>4. QED
    BY <2>2, <2>3, Zenon DEF Adds, Longer
<1>12. Good(list', node', map', used', written')
  BY <1>6, <1>9, <1>11, Zenon
<1>13. Len(list') <= Capacity
  BY <1>0, <1>1, <1>5, <1>6, <1>11
<1>14. QED
  BY <1>12, <1>13 DEF Cached

\* erase drops the key.
LEMMA CachedErase ==
  ASSUME Cached, NEW k \in Keys, erase(k)
  PROVE  Cached'
<1>0. Good(list, node, map, used, written) /\ Len(list) <= Capacity /\ Capacity \in Nat /\ Len(list) \in Nat
  BY CapacityAssumption DEF Cached, Good
<1>1. /\ map[k] # NoNode /\ map' = [map EXCEPT ![k] = NoNode] /\ used' = RemoveFirst(used, k)
      /\ list' = IF map[k] # NoNode THEN RemoveFirst(list, map[k]) ELSE list
      /\ node' = node /\ written' = written
  BY Zenon DEF erase, Dropped
<1>2. /\ Good(list', node, [map EXCEPT ![k] = NoNode], used', written)
      /\ Len(list') = IF map[k] # NoNode THEN Len(list) - 1 ELSE Len(list)
  <2>1. PICK l0, m0, u0 : /\ Drops(list, map, used, k, l0, m0, u0)
                          /\ l0 = list' /\ m0 = [map EXCEPT ![k] = NoNode] /\ u0 = used'
    BY <1>1, Zenon DEF Drops
  <2>2. Good(l0, node, m0, u0, written) /\ Gone(list, map, k, l0, u0)
    BY <1>0, <2>1, GoodDrop, Zenon
  <2>3. QED
    BY <2>1, <2>2, Zenon DEF Gone
<1>3. QED
  BY <1>0, <1>1, <1>2 DEF Cached

\* An empty cache is good.
LEMMA CachedEmpty ==
  ASSUME NEW nd \in [Addresses -> Node], NEW w \in [Keys -> Values]
  PROVE  Good(<<>>, nd, [k \in Keys |-> NoNode], <<>>, w) /\ Len(<<>>) = 0
BY DEF Good, Distinct

\* Every operation keeps the cache good.
LEMMA CachedStep ==
  ASSUME Cached, [Next]_vars
  PROVE  Cached'
<1>1. ASSUME NEW k \in Keys, NEW v \in Values, put(k, v) PROVE Cached'
  BY <1>1, CachedPut, Zenon
<1>2. ASSUME NEW k \in Keys, get(k) PROVE Cached'
  BY <1>2, CachedGet, Zenon
<1>3. ASSUME NEW k \in Keys, erase(k) PROVE Cached'
  BY <1>3, CachedErase, Zenon
<1>4. CASE clear
  <2>1. map' = [k \in Keys |-> NoNode] /\ list' = <<>> /\ used' = <<>> /\ node' = node /\ written' = written
    BY <1>4, Zenon DEF clear
  <2>2. node \in [Addresses -> Node] /\ written \in [Keys -> Values] /\ Capacity \in Nat
    BY CapacityAssumption, KeysAssumption, Zenon DEF Cached, Good
  <2>3. QED
    BY <2>1, <2>2, CachedEmpty DEF Cached
<1>5. CASE UNCHANGED vars
  BY <1>5, Zenon DEF vars, Cached
<1>6. QED
  BY <1>1, <1>2, <1>3, <1>4, <1>5 DEF Next

\* A cache that was just constructed is good.
LEMMA CachedInit == Init => Cached
<1> SUFFICES ASSUME Init PROVE Cached
  BY Zenon
<1>1. (CHOOSE v \in Values : TRUE) \in Values
  BY KeysAssumption, CapacityAssumption, Zenon
<1>2. (CHOOSE n \in Node : TRUE) \in Node
  <2>1. PICK k \in Keys, v \in Values : TRUE
    BY KeysAssumption, CapacityAssumption, Zenon
  <2>2. [key |-> k, value |-> v] \in Node
    BY Zenon DEF Node
  <2>3. QED
    BY <2>2, Zenon
<1>3. node \in [Addresses -> Node] /\ written \in [Keys -> Values]
  BY <1>1, <1>2 DEF Init
<1>4. list = <<>> /\ map = [k \in Keys |-> NoNode] /\ used = <<>> /\ Capacity \in Nat
  BY CapacityAssumption, Zenon DEF Init
<1>5. Good(<<>>, node, [k \in Keys |-> NoNode], <<>>, written) /\ Len(<<>>) = 0
  BY <1>3, CachedEmpty, Zenon
<1>6. Good(list, node, map, used, written) /\ Len(list) = 0
  BY <1>4, <1>5, Zenon
<1>7. QED
  BY <1>4, <1>6 DEF Cached

\* A good cache has valid iterators and keeps the keys used last.
LEMMA CachedSound == Cached => IteratorsValid /\ MostRecentKept
<1> SUFFICES ASSUME Cached PROVE IteratorsValid /\ MostRecentKept
  BY Zenon
<1>0. /\ Good(list, node, map, used, written) /\ Len(list) <= Capacity
      /\ list \in Seq(Addresses) /\ used \in Seq(Keys) /\ Len(list) <= Len(used)
  BY Zenon DEF Cached, Good
<1>1. /\ Len(list) \in Nat /\ Len(used) \in Nat
      /\ \A i \in 1 .. Len(list) : /\ i \in 1 .. Len(used) /\ used[i] \in Keys /\ list[i] \in Addresses
                                   /\ map[used[i]] # NoNode
                                   /\ node[list[i]] = [key |-> used[i], value |-> written[used[i]]]
      /\ Distinct(list)
  BY <1>0, GoodNodes, Zenon
<1>2. ASSUME NEW i \in 1 .. Len(list) PROVE node[list[i]].key = used[i]
  <2>1. node[list[i]] = [key |-> used[i], value |-> written[used[i]]]
    BY <1>1, Zenon
  <2>2. QED
    BY <2>1
<1>3. Range(list) = {list[i] : i \in 1 .. Len(list)}
  BY <1>0 DEF Range
<1>4. Cardinality(Range(list)) = Len(list)
  BY <1>0, <1>3, GoodSize, Zenon
<1>5. \A k \in Mapped : /\ \E i \in 1 .. Len(list) : used[i] = k /\ list[i] = map[k]
                            /\ node[map[k]] = [key |-> k, value |-> written[k]]
  BY <1>0 DEF Good, Mapped
<1>6. {node[a].key : a \in Range(list)} = Mapped
  <2>1. ASSUME NEW a \in Range(list) PROVE node[a].key \in Mapped
    <3>1. PICK i \in 1 .. Len(list) : a = list[i]
      BY <1>3, Zenon
    <3>2. node[a].key = used[i]
      BY <1>2, <3>1
    <3>3. QED
      BY <1>1, <3>2, Zenon DEF Mapped
  <2>2. ASSUME NEW k \in Mapped PROVE \E a \in Range(list) : node[a].key = k
    <3>1. PICK i \in 1 .. Len(list) : used[i] = k
      BY <1>5, Zenon
    <3>2. node[list[i]].key = k /\ list[i] \in Range(list)
      BY <1>2, <1>3, <3>1
    <3>3. QED
      BY <3>2, Zenon
  <2>3. QED
    BY <2>1, <2>2, Zenon
<1>7. \A k \in Mapped : map[k] \in Range(list)
  BY <1>3, <1>5, Zenon
<1>8. IteratorsValid
  BY <1>4, <1>5, <1>6, <1>7, Zenon DEF IteratorsValid
<1>9. [i \in 1 .. Len(list) |-> node[list[i]].key] = SubSeq(used, 1, Len(list))
  BY <1>0, <1>1, <1>2
<1>10. QED
  BY <1>0, <1>8, <1>9 DEF MostRecentKept

\* For every set of keys, capacity (zero included) and order of operations, no
\* iterator in the map is left to a node that was erased, evicted or used
\* again, and a key that is found has the value last put.
THEOREM CacheIterators == Spec => []IteratorsValid
<1>1. Init => Cached
  BY CachedInit, Zenon
<1>2. Cached /\ [Next]_vars => Cached'
  BY CachedStep, Zenon
<1>3. Cached => IteratorsValid
  BY CachedSound, SMTT(30)
<1>4. QED
  BY <1>1, <1>2, <1>3, PTL DEF Spec

\* The cache never exceeds its capacity and evicts only the key whose last use
\* is the longest ago.
THEOREM CacheKeepsRecent == Spec => []MostRecentKept
<1>1. Init => Cached
  BY CachedInit, Zenon
<1>2. Cached /\ [Next]_vars => Cached'
  BY CachedStep, Zenon
<1>3. Cached => MostRecentKept
  BY CachedSound, Zenon
<1>4. QED
  BY <1>1, <1>2, <1>3, PTL DEF Spec
=============================================================================
