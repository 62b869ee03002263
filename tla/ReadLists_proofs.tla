--------------------------- MODULE ReadLists_proofs ----------------------------
(***************************************************************************)
(* The links of the lists of kern/slist.h and kern/hlist.h, and a reader   *)
(* that goes along one of them while it changes, for any lists and nodes.  *)
(***************************************************************************)
EXTENDS ReadLists, TLAPS, SequenceTheorems

(* The cells of a list: the list itself, and its nodes. *)
At(h, i) == IF i = 0 THEN h ELSE members[h][i]

Types ==
    /\ link \in [List \cup Node -> Node \cup {Null}]
    /\ last \in [Slist -> Node \cup {Null}]
    /\ pprev \in [Node -> List \cup Node \cup {Null}]
    /\ members \in [List -> Seq(Node) \cup {Stale}]
    /\ reader \in [at : Node \cup {Null, "idle"}, seen : Seq(Node)]
    /\ during \in [stays : SUBSET Node, removed : SUBSET Node]

Chain(h) ==
    LET n == Len(members[h]) IN
    /\ IsInjective(members[h])
    /\ \A i \in 0..n : link[At(h, i)] = IF i = n THEN Null ELSE At(h, i + 1)
    /\ h \in Slist => last[h] = IF n = 0 THEN Null ELSE At(h, n)
    /\ h \in Hlist => \A i \in 1..n : pprev[At(h, i)] = At(h, i - 1)

Apart == \A g, h \in Live : g /= h => Nodes(g) \cap Nodes(h) = {}

LinksInv == Types /\ Apart /\ \A h \in Live : Chain(h)

--------------------------------------------------------------------------------
(* Sequences with an element more, or less. *)

(* A part of a sequence. *)
LEMMA PartSound ==
    ASSUME NEW s \in Seq(Node), NEW m \in Nat, NEW n \in Nat, n <= Len(s)
    PROVE  /\ SubSeq(s, m + 1, n) \in Seq(Node)
           /\ Len(SubSeq(s, m + 1, n)) = IF m <= n THEN n - m ELSE 0
           /\ \A i \in 1..(n - m) : SubSeq(s, m + 1, n)[i] = s[m + i]
<1> DEFINE r == SubSeq(s, m + 1, n)
<1>1. \A i \in (m + 1)..n : s[i] \in Node
  OBVIOUS
<1>2. m + 1 \in Int /\ n \in Int
  OBVIOUS
<1>3. /\ r \in Seq(Node) /\ Len(r) = IF m + 1 <= n THEN n - (m + 1) + 1 ELSE 0
      /\ \A i \in 1..(n - (m + 1) + 1) : r[i] = s[m + 1 + i - 1]
  BY <1>1, <1>2, SubSeqProperties
<1> HIDE DEF r
<1>4. n - (m + 1) + 1 = n - m
  OBVIOUS
<1>5. ASSUME NEW i \in 1..(n - m) PROVE r[i] = s[m + i]
  <2>1. m + 1 + i - 1 = m + i /\ i \in 1..(n - (m + 1) + 1)
    BY <1>4
  <2>2. r[i] = s[m + 1 + i - 1]
    BY <1>3, <2>1
  <2> QED BY <2>1, <2>2
<1>6. Len(r) = IF m <= n THEN n - m ELSE 0
  <2>1. Len(r) = IF m + 1 <= n THEN n - (m + 1) + 1 ELSE 0
    BY <1>3
  <2> QED BY <2>1
<1>7. r \in Seq(Node)
  BY <1>3
<1> QED BY <1>5, <1>6, <1>7 DEF r

LEMMA InsertAtSound ==
    ASSUME NEW s \in Seq(Node), IsInjective(s), NEW k \in 0..Len(s),
           NEW x \in Node, x \notin ToSet(s), NEW t, t = InsertAt(s, k + 1, x)
    PROVE  /\ t \in Seq(Node) /\ Len(t) = Len(s) + 1
           /\ \A i \in 1..Len(t) :
                 t[i] = IF i <= k THEN s[i] ELSE IF i = k + 1 THEN x ELSE s[i - 1]
           /\ IsInjective(t) /\ ToSet(t) = ToSet(s) \cup {x}
<1> DEFINE n == Len(s)
           a == SubSeq(s, 1, k)
           b == SubSeq(s, k + 1, n)
<1>1. n \in Nat /\ k \in Nat /\ k <= n /\ DOMAIN s = 1..n
  OBVIOUS
<1>2. a \in Seq(Node) /\ Len(a) = k /\ \A i \in 1..k : a[i] = s[i]
  <2>1. /\ SubSeq(s, 0 + 1, k) \in Seq(Node)
        /\ Len(SubSeq(s, 0 + 1, k)) = IF 0 <= k THEN k - 0 ELSE 0
        /\ \A i \in 1..(k - 0) : SubSeq(s, 0 + 1, k)[i] = s[0 + i]
    BY <1>1, PartSound, 0 \in Nat
  <2>2. SubSeq(s, 0 + 1, k) = a
    OBVIOUS
  <2> HIDE DEF a
  <2> QED BY <1>1, <2>1, <2>2
<1>3. b \in Seq(Node) /\ Len(b) = n - k /\ \A i \in 1..(n - k) : b[i] = s[k + i]
  <2>1. /\ SubSeq(s, k + 1, n) \in Seq(Node)
        /\ Len(SubSeq(s, k + 1, n)) = IF k <= n THEN n - k ELSE 0
        /\ \A i \in 1..(n - k) : SubSeq(s, k + 1, n)[i] = s[k + i]
    BY <1>1, PartSound, n <= Len(s)
  <2> QED BY <1>1, <2>1
<1>4. t = (a \o <<x>>) \o b
  <2>1. t = SubSeq(s, 1, (k + 1) - 1) \o <<x>> \o SubSeq(s, k + 1, n)
    BY Zenon DEF InsertAt
  <2>2. (k + 1) - 1 = k
    BY <1>1
  <2> QED BY <2>1, <2>2
<1> HIDE DEF a, b
<1>5. /\ t \in Seq(Node) /\ Len(t) = n + 1
      /\ \A i \in 1..(n + 1) :
            t[i] = IF i <= k THEN s[i] ELSE IF i = k + 1 THEN x ELSE s[i - 1]
  <2> DEFINE left == a \o <<x>>
  <2>1. /\ left \in Seq(Node) /\ Len(left) = k + 1
        /\ \A i \in 1..(k + 1) : left[i] = IF i <= k THEN s[i] ELSE x
    BY <1>1, <1>2
  <2> HIDE DEF left
  <2>2. /\ t \in Seq(Node) /\ Len(t) = Len(left) + Len(b)
        /\ \A i \in 1..(Len(left) + Len(b)) :
              t[i] = IF i <= Len(left) THEN left[i] ELSE b[i - Len(left)]
    <3>1. t = left \o b
      BY <1>4 DEF left
    <3>2. left \in Seq(Node) /\ b \in Seq(Node)
      BY <1>3, <2>1
    <3> QED BY <3>1, <3>2, ConcatProperties, Zenon
  <2>3. Len(left) + Len(b) = n + 1
    BY <1>1, <1>3, <2>1
  <2>4. ASSUME NEW i \in 1..(n + 1)
        PROVE  t[i] = IF i <= k THEN s[i] ELSE IF i = k + 1 THEN x ELSE s[i - 1]
    <3>1. t[i] = IF i <= k + 1 THEN left[i] ELSE b[i - (k + 1)]
      BY <2>1, <2>2, <2>3
    <3>2. CASE i <= k + 1
      BY <1>1, <2>1, <3>1, <3>2
    <3>3. CASE i > k + 1
      <4>1. i - (k + 1) \in 1..(n - k) /\ k + (i - (k + 1)) = i - 1
        BY <1>1, <3>3
      <4>2. b[i - (k + 1)] = s[i - 1]
        BY <1>3, <4>1
      <4> QED BY <1>1, <3>1, <3>3, <4>2
    <3> QED BY <1>1, <3>2, <3>3
  <2> QED BY <2>2, <2>3, <2>4
<1>6. DOMAIN t = 1..(n + 1)
  BY <1>1, <1>5
<1>7. \A i \in 1..n : s[i] /= x
  BY <1>1 DEF ToSet
<1>8. IsInjective(t)
  <2> SUFFICES ASSUME NEW i \in 1..(n + 1), NEW j \in 1..(n + 1), t[i] = t[j]
               PROVE  i = j
    BY <1>6 DEF IsInjective
  <2>1. \A p, q \in 1..n : s[p] = s[q] => p = q
    BY <1>1 DEF IsInjective
  <2> QED BY <1>1, <1>5, <1>7, <2>1
<1>9. ToSet(t) = ToSet(s) \cup {x}
  <2>1. ASSUME NEW y \in ToSet(t) PROVE y \in ToSet(s) \cup {x}
    <3>1. PICK i \in 1..(n + 1) : y = t[i]
      BY <1>6, <2>1 DEF ToSet
    <3>2. y = x \/ \E j \in 1..n : y = s[j]
      <4>1. CASE i <= k
        BY <1>1, <1>5, <3>1, <4>1
      <4>2. CASE i > k + 1
        <5>1. i - 1 \in 1..n /\ t[i] = s[i - 1]
          BY <1>1, <1>5, <4>2
        <5> QED BY <3>1, <5>1
      <4>3. CASE i = k + 1
        BY <1>1, <1>5, <3>1, <4>3
      <4> QED BY <1>1, <4>1, <4>2, <4>3
    <3> QED BY <1>1, <3>2 DEF ToSet
  <2>2. ASSUME NEW y \in ToSet(s) PROVE y \in ToSet(t)
    <3>1. PICK i \in 1..n : y = s[i]
      BY <1>1, <2>2 DEF ToSet
    <3>2. PICK j \in 1..(n + 1) : y = t[j]
      <4>1. CASE i <= k
        BY <1>1, <1>5, <3>1, <4>1
      <4>2. CASE i > k
        <5>1. i + 1 \in 1..(n + 1) /\ ~(i + 1 <= k) /\ i + 1 /= k + 1 /\ (i + 1) - 1 = i
          BY <1>1, <4>2
        <5> QED BY <1>5, <3>1, <5>1
      <4> QED BY <1>1, <4>1, <4>2
    <3> QED BY <1>6, <3>2 DEF ToSet
  <2>3. x \in ToSet(t)
    <3>1. x = t[k + 1]
      BY <1>1, <1>5
    <3> QED BY <1>1, <1>6, <3>1 DEF ToSet
  <2> QED BY <2>1, <2>2, <2>3
<1> QED BY <1>5, <1>8, <1>9

LEMMA RemoveAtSound ==
    ASSUME NEW s \in Seq(Node), IsInjective(s), NEW k \in 1..Len(s)
    PROVE  /\ RemoveAt(s, k) \in Seq(Node) /\ Len(RemoveAt(s, k)) = Len(s) - 1
           /\ \A i \in 1..(Len(s) - 1) :
                 RemoveAt(s, k)[i] = IF i < k THEN s[i] ELSE s[i + 1]
           /\ IsInjective(RemoveAt(s, k)) /\ ToSet(RemoveAt(s, k)) = ToSet(s) \ {s[k]}
<1> DEFINE n == Len(s)
           t == RemoveAt(s, k)
           a == SubSeq(s, 1, k - 1)
           b == SubSeq(s, k + 1, n)
<1>1. n \in Nat /\ k \in Nat /\ 1 <= k /\ k <= n /\ DOMAIN s = 1..n
  OBVIOUS
<1>2. a \in Seq(Node) /\ Len(a) = k - 1 /\ \A i \in 1..(k - 1) : a[i] = s[i]
  <2>1. k - 1 \in Nat /\ k - 1 <= n /\ 0 <= k - 1 /\ (k - 1) - 0 = k - 1
    BY <1>1
  <2>2. /\ SubSeq(s, 0 + 1, k - 1) \in Seq(Node)
        /\ Len(SubSeq(s, 0 + 1, k - 1)) = IF 0 <= k - 1 THEN (k - 1) - 0 ELSE 0
        /\ \A i \in 1..((k - 1) - 0) : SubSeq(s, 0 + 1, k - 1)[i] = s[0 + i]
    BY <2>1, PartSound, 0 \in Nat
  <2>3. SubSeq(s, 0 + 1, k - 1) = a
    OBVIOUS
  <2> HIDE DEF a
  <2> QED BY <1>1, <2>1, <2>2, <2>3
<1>3. b \in Seq(Node) /\ Len(b) = n - k /\ \A i \in 1..(n - k) : b[i] = s[k + i]
  <2>1. /\ SubSeq(s, k + 1, n) \in Seq(Node)
        /\ Len(SubSeq(s, k + 1, n)) = IF k <= n THEN n - k ELSE 0
        /\ \A i \in 1..(n - k) : SubSeq(s, k + 1, n)[i] = s[k + i]
    BY <1>1, PartSound, n <= Len(s)
  <2> QED BY <1>1, <2>1
<1>4. t = a \o b
  BY DEF RemoveAt
<1> HIDE DEF a, b, t
<1>5. /\ t \in Seq(Node) /\ Len(t) = n - 1
      /\ \A i \in 1..(n - 1) : t[i] = IF i < k THEN s[i] ELSE s[i + 1]
  <2>1. /\ t \in Seq(Node) /\ Len(t) = Len(a) + Len(b)
        /\ \A i \in 1..(Len(a) + Len(b)) :
              t[i] = IF i <= Len(a) THEN a[i] ELSE b[i - Len(a)]
    <3>1. a \in Seq(Node) /\ b \in Seq(Node)
      BY <1>2, <1>3
    <3>2. /\ a \o b \in Seq(Node) /\ Len(a \o b) = Len(a) + Len(b)
          /\ \A i \in 1..(Len(a) + Len(b)) :
                (a \o b)[i] = IF i <= Len(a) THEN a[i] ELSE b[i - Len(a)]
      BY <3>1, ConcatProperties, Zenon
    <3> QED BY <1>4, <3>2
  <2>2. Len(a) + Len(b) = n - 1
    BY <1>1, <1>2, <1>3
  <2>3. ASSUME NEW i \in 1..(n - 1) PROVE t[i] = IF i < k THEN s[i] ELSE s[i + 1]
    <3>1. t[i] = IF i <= k - 1 THEN a[i] ELSE b[i - (k - 1)]
      BY <1>2, <2>1, <2>2
    <3>2. CASE i < k
      BY <1>1, <1>2, <3>1, <3>2
    <3>3. CASE i >= k
      <4>1. i - (k - 1) \in 1..(n - k) /\ k + (i - (k - 1)) = i + 1
        BY <1>1, <3>3
      <4>2. b[i - (k - 1)] = s[i + 1]
        BY <1>3, <4>1
      <4> QED BY <1>1, <3>1, <3>3, <4>2
    <3> QED BY <1>1, <3>2, <3>3
  <2> QED BY <2>1, <2>2, <2>3
<1>6. DOMAIN t = 1..(n - 1)
  BY <1>1, <1>5
<1>7. \A p, q \in 1..n : s[p] = s[q] => p = q
  BY <1>1 DEF IsInjective
<1>8. IsInjective(t)
  <2> SUFFICES ASSUME NEW i \in 1..(n - 1), NEW j \in 1..(n - 1), t[i] = t[j]
               PROVE  i = j
    BY <1>6 DEF IsInjective
  <2> QED BY <1>1, <1>5, <1>7
<1>9. ToSet(t) = ToSet(s) \ {s[k]}
  <2>1. ASSUME NEW y \in ToSet(t) PROVE y \in ToSet(s) \ {s[k]}
    <3>1. PICK i \in 1..(n - 1) : y = t[i]
      BY <1>6, <2>1 DEF ToSet
    <3>2. PICK j \in 1..n : j /= k /\ y = s[j]
      BY <1>1, <1>5, <3>1
    <3>3. y /= s[k]
      BY <1>1, <1>7, <3>2
    <3> QED BY <1>1, <3>2, <3>3 DEF ToSet
  <2>2. ASSUME NEW y \in ToSet(s) \ {s[k]} PROVE y \in ToSet(t)
    <3>1. PICK i \in 1..n : y = s[i]
      BY <1>1, <2>2 DEF ToSet
    <3>2. i /= k
      BY <2>2, <3>1
    <3>3. PICK j \in 1..(n - 1) : y = t[j]
      <4>1. CASE i < k
        BY <1>1, <1>5, <3>1, <4>1
      <4>2. CASE i > k
        <5>1. i - 1 \in 1..(n - 1) /\ ~(i - 1 < k) /\ (i - 1) + 1 = i
          BY <1>1, <4>2
        <5> QED BY <1>5, <3>1, <5>1
      <4> QED BY <1>1, <3>2, <4>1, <4>2
    <3> QED BY <1>6, <3>3 DEF ToSet
  <2> QED BY <2>1, <2>2
<1> QED BY <1>5, <1>8, <1>9 DEF t
--------------------------------------------------------------------------------
(* The cells of the lists. *)

(* The nodes of a list are its cells from the first on. *)
LEMMA Places ==
    ASSUME ListsAssumption, LinksInv, NEW h \in Live, NEW n, n = Len(members[h])
    PROVE  /\ h \in List /\ n \in Nat /\ members[h] \in Seq(Node)
           /\ DOMAIN members[h] = 1..n
           /\ Nodes(h) \subseteq Node /\ Nodes(h) \subseteq Used
           /\ \A i \in 1..n : At(h, i) = members[h][i] /\ At(h, i) \in Nodes(h)
           /\ \A x \in Nodes(h) : \E i \in 1..n : x = At(h, i)
           /\ \A i, j \in 0..n : At(h, i) = At(h, j) => i = j
           /\ \A i \in 0..n : At(h, i) \in List \cup Node
<1>1. h \in List /\ members[h] \in Seq(Node)
  BY DEF Live, LinksInv, Types
<1>2. n \in Nat /\ DOMAIN members[h] = 1..n
  BY <1>1
<1>3. Nodes(h) \subseteq Node /\ Nodes(h) \subseteq Used
  BY <1>1 DEF Nodes, ToSet, Used
<1>4. \A i \in 1..n : At(h, i) = members[h][i] /\ At(h, i) \in Nodes(h)
  BY <1>2 DEF At, Nodes, ToSet
<1>5. \A x \in Nodes(h) : \E i \in 1..n : x = At(h, i)
  BY <1>2 DEF At, Nodes, ToSet
<1>6. ASSUME NEW i \in 0..n, NEW j \in 0..n, At(h, i) = At(h, j) PROVE i = j
  <2>1. IsInjective(members[h])
    BY DEF LinksInv, Chain
  <2>2. \A p, q \in 1..n : members[h][p] = members[h][q] => p = q
    BY <1>2, <2>1 DEF IsInjective
  <2>3. \A p \in 1..n : At(h, p) /= h
    BY <1>1, <1>3, <1>4 DEF ListsAssumption
  <2>4. CASE i = 0 \/ j = 0
    BY <1>2, <1>6, <2>3, <2>4 DEF At
  <2>5. CASE i \in 1..n /\ j \in 1..n
    BY <1>4, <1>6, <2>2, <2>5
  <2> QED BY <1>2, <2>4, <2>5
<1>7. \A i \in 0..n : At(h, i) \in List \cup Node
  <2>1. At(h, 0) = h
    BY DEF At
  <2>2. \A i \in 1..n : At(h, i) \in Node
    BY <1>3, <1>4
  <2> QED BY <1>1, <1>2, <2>1, <2>2
<1> QED BY <1>1, <1>2, <1>3, <1>4, <1>5, <1>6, <1>7

(* A cell is in one list. *)
LEMMA Elsewhere ==
    ASSUME ListsAssumption, LinksInv, NEW g \in Live, NEW h \in Live, g /= h,
           NEW i \in 0..Len(members[g]), NEW j \in 0..Len(members[h])
    PROVE  At(g, i) /= At(h, j)
<1>1. /\ g \in List /\ h \in List /\ Nodes(g) \cap Nodes(h) = {}
      /\ Nodes(g) \subseteq Node /\ Nodes(h) \subseteq Node
  BY Places DEF LinksInv, Apart
<1>2. (i = 0 /\ At(g, i) = g) \/ At(g, i) \in Nodes(g)
  BY Places DEF At
<1>3. (j = 0 /\ At(h, j) = h) \/ At(h, j) \in Nodes(h)
  BY Places DEF At
<1> QED BY <1>1, <1>2, <1>3 DEF ListsAssumption

(* Where a node is. *)
LEMMA Position ==
    ASSUME ListsAssumption, LinksInv, NEW h \in Live, NEW x \in Nodes(h)
    PROVE  /\ ListOf(x) = h /\ Place(x) \in 1..Len(members[h])
           /\ members[h][Place(x)] = x /\ At(h, Place(x)) = x
<1>1. ListOf(x) = h
  BY DEF ListOf, LinksInv, Apart
<1>2. \E i \in DOMAIN members[h] : members[h][i] = x
  BY DEF Nodes, ToSet
<1>3. Place(x) \in DOMAIN members[h] /\ members[h][Place(x)] = x
  BY <1>1, <1>2 DEF Place
<1>4. DOMAIN members[h] = 1..Len(members[h]) /\ Len(members[h]) \in Nat
  BY Places
<1> QED BY <1>1, <1>3, <1>4 DEF At

(* A list whose cells are not written stays as it is. *)
LEMMA Untouched ==
    ASSUME ListsAssumption, LinksInv, NEW g \in Live, members'[g] = members[g],
           \A i \in 0..Len(members[g]) : link'[At(g, i)] = link[At(g, i)],
           g \in Slist => last'[g] = last[g],
           g \in Hlist => \A i \in 1..Len(members[g]) : pprev'[At(g, i)] = pprev[At(g, i)]
    PROVE  Chain(g)'
<1>1. \A i : At(g, i)' = At(g, i)
  BY DEF At
<1>2. Chain(g)
  BY DEF LinksInv
<1>3. Len(members[g]) \in Nat
  BY Places
<1> QED BY <1>1, <1>2, <1>3 DEF Chain

--------------------------------------------------------------------------------
(* Insertion of x behind the cell k of h: what all the ways to insert a    *)
(* node come to.                                                           *)

InsertsAt(h, k, x) ==
    LET n == Len(members[h])
        l == At(h, k)
    IN  /\ h \in Live /\ x \in Free /\ k \in 0..n
        /\ members' = [members EXCEPT ![h] = InsertAt(@, k + 1, x)]
        /\ link' = [c \in List \cup Node |->
                       IF c = x THEN link[l] ELSE IF c = l THEN x ELSE link[c]]
        /\ IF h \in Slist
           THEN /\ last' = [last EXCEPT ![h] = IF k = n THEN x ELSE @]
                /\ UNCHANGED pprev
           ELSE /\ pprev' = [y \in Node |-> IF y = x THEN l
                                            ELSE IF y = link[l] THEN x ELSE pprev[y]]
                /\ UNCHANGED last
        /\ UNCHANGED <<reader, during>>

(* Where the cells are once the node is inserted. *)
LEMMA InsertPlaces ==
    ASSUME ListsAssumption, LinksInv, NEW h, NEW k, NEW x, InsertsAt(h, k, x),
           NEW n, n = Len(members[h])
    PROVE  /\ members'[h] \in Seq(Node) /\ Len(members'[h]) = n + 1
           /\ IsInjective(members'[h]) /\ Nodes(h)' = Nodes(h) \cup {x}
           /\ \A i \in 0..(n + 1) :
                 At(h, i)' = IF i <= k THEN At(h, i)
                             ELSE IF i = k + 1 THEN x ELSE At(h, i - 1)
           /\ x \in Node /\ x \notin Used /\ h \in Live' /\ Live' = Live
           /\ \A g \in Live : g /= h => members'[g] = members[g]
<1>1. /\ h \in Live /\ x \in Node /\ x \notin Used /\ k \in 0..n
      /\ members' = [members EXCEPT ![h] = InsertAt(@, k + 1, x)]
  BY DEF InsertsAt, Free
<1>2. /\ h \in List /\ n \in Nat /\ members[h] \in Seq(Node)
      /\ Nodes(h) \subseteq Used /\ members \in [List -> Seq(Node) \cup {Stale}]
      /\ IsInjective(members[h])
  BY <1>1, Places DEF LinksInv, Types, Chain
<1>3. members'[h] = InsertAt(members[h], k + 1, x) /\ x \notin ToSet(members[h])
  BY <1>1, <1>2 DEF Nodes
<1>4. /\ members'[h] \in Seq(Node) /\ Len(members'[h]) = n + 1
      /\ \A i \in 1..Len(members'[h]) :
            members'[h][i] = IF i <= k THEN members[h][i]
                             ELSE IF i = k + 1 THEN x ELSE members[h][i - 1]
      /\ IsInjective(members'[h]) /\ ToSet(members'[h]) = ToSet(members[h]) \cup {x}
  BY <1>1, <1>2, <1>3, InsertAtSound
<1>5. ASSUME NEW i \in 0..(n + 1)
      PROVE  At(h, i)' = IF i <= k THEN At(h, i)
                         ELSE IF i = k + 1 THEN x ELSE At(h, i - 1)
  <2>1. CASE i = 0
    BY <1>1, <1>2, <2>1 DEF At
  <2>2. CASE i \in 1..(n + 1)
    <3>1. members'[h][i] = IF i <= k THEN members[h][i]
                           ELSE IF i = k + 1 THEN x ELSE members[h][i - 1]
      BY <1>4, <2>2
    <3>2. i > k + 1 => i - 1 /= 0
      BY <1>1, <1>2, <2>2
    <3> QED BY <1>1, <1>2, <2>2, <3>1, <3>2 DEF At
  <2> QED BY <1>2, <2>1, <2>2
<1>6. \A g \in List : g /= h => members'[g] = members[g]
  BY <1>1, <1>2
<1>7. Live' = Live /\ h \in Live'
  BY <1>1, <1>2, <1>4, <1>6 DEF Live, ListsAssumption
<1> QED BY <1>1, <1>4, <1>5, <1>6, <1>7 DEF Nodes, Live

(* An insertion keeps the lists sound. *)
LEMMA InsertKeeps ==
    ASSUME ListsAssumption, LinksInv, NEW h, NEW k, NEW x, InsertsAt(h, k, x)
    PROVE  LinksInv'
<1>0. SUFFICES ASSUME NEW n, n = Len(members[h]), NEW l, l = At(h, k)
               PROVE  LinksInv'
  OBVIOUS
<1>1. /\ h \in Live /\ h \in List /\ n \in Nat /\ k \in 0..n
      /\ Types /\ Chain(h) /\ l = At(h, k) /\ l \in List \cup Node
  BY <1>0, Places DEF InsertsAt, LinksInv
<1>2. /\ members'[h] \in Seq(Node) /\ Len(members'[h]) = n + 1
      /\ IsInjective(members'[h]) /\ Nodes(h)' = Nodes(h) \cup {x}
      /\ \A i \in 0..(n + 1) :
            At(h, i)' = IF i <= k THEN At(h, i)
                        ELSE IF i = k + 1 THEN x ELSE At(h, i - 1)
      /\ x \in Node /\ x \notin Used /\ Live' = Live
      /\ \A g \in Live : g /= h => members'[g] = members[g]
  BY <1>0, InsertPlaces
<1>3. /\ \A c \in List \cup Node :
            link'[c] = IF c = x THEN link[l] ELSE IF c = l THEN x ELSE link[c]
      /\ link' \in [List \cup Node -> Node \cup {Null}]
  BY <1>0, <1>1, <1>2 DEF InsertsAt, Types
<1>4. \A g \in Live : \A i \in 0..Len(members[g]) : At(g, i) /= x
  <2> SUFFICES ASSUME NEW g \in Live, NEW i \in 0..Len(members[g]) PROVE At(g, i) /= x
    OBVIOUS
  <2>1. g \in List /\ Nodes(g) \subseteq Used
    BY Places
  <2>2. (i = 0 /\ At(g, i) = g) \/ At(g, i) \in Nodes(g)
    BY Places DEF At
  <2> QED BY <1>2, <2>1, <2>2 DEF ListsAssumption
<1>h. l /= x /\ \A i \in 0..n : At(h, i) /= x
  BY <1>0, <1>1, <1>4
<1>5. \A i, j \in 0..n : At(h, i) = At(h, j) => i = j
  BY <1>0, <1>1, Places
<1>6. \A i \in 0..n : link[At(h, i)] = IF i = n THEN Null ELSE At(h, i + 1)
  BY <1>0, <1>1 DEF Chain
<1>7. \A i \in 0..n : At(h, i) \in List \cup Node
  BY <1>0, <1>1, Places
<1>8. Types'
  <2>0. /\ last \in [Slist -> Node \cup {Null}]
        /\ pprev \in [Node -> List \cup Node \cup {Null}]
    BY <1>1 DEF Types
  <2>1. last' \in [Slist -> Node \cup {Null}]
    <3>1. last' = last \/ last' = [last EXCEPT ![h] = IF k = n THEN x ELSE @]
      BY <1>0 DEF InsertsAt
    <3> QED BY <1>2, <2>0, <3>1
  <2>2. pprev' \in [Node -> List \cup Node \cup {Null}]
    <3>1. \/ pprev' = pprev
          \/ pprev' = [y \in Node |-> IF y = x THEN l
                                     ELSE IF y = link[l] THEN x ELSE pprev[y]]
      BY <1>0 DEF InsertsAt
    <3> QED BY <1>1, <1>2, <2>0, <3>1
  <2>3. members' \in [List -> Seq(Node) \cup {Stale}]
    BY <1>0, <1>1, <1>2 DEF InsertsAt, Types
  <2>4. UNCHANGED <<reader, during>>
    BY <1>0 DEF InsertsAt
  <2> QED BY <1>1, <1>3, <2>1, <2>2, <2>3, <2>4 DEF Types
<1>9. Apart'
  <2> SUFFICES ASSUME NEW f \in Live, NEW g \in Live, f /= g
               PROVE  Nodes(f)' \cap Nodes(g)' = {}
    BY <1>2 DEF Apart
  <2>1. Nodes(f) \cap Nodes(g) = {} /\ x \notin Nodes(f) /\ x \notin Nodes(g)
    BY <1>2, Places DEF LinksInv, Apart
  <2>2. Nodes(f)' = Nodes(f) \/ (Nodes(f)' = Nodes(f) \cup {x} /\ f = h)
    BY <1>2 DEF Nodes
  <2>3. Nodes(g)' = Nodes(g) \/ (Nodes(g)' = Nodes(g) \cup {x} /\ g = h)
    BY <1>2 DEF Nodes
  <2> QED BY <2>1, <2>2, <2>3
<1>10. ASSUME NEW g \in Live, g /= h PROVE Chain(g)'
  <2>1. g \in List /\ Len(members[g]) \in Nat
    BY Places
  <2>2. \A i \in 0..Len(members[g]) : At(g, i) /= l
    BY <1>0, <1>1, <1>10, Elsewhere
  <2>3. \A i \in 0..Len(members[g]) : At(g, i) \in List \cup Node
    BY Places
  <2>4. \A i \in 0..Len(members[g]) : link'[At(g, i)] = link[At(g, i)]
    BY <1>3, <1>4, <2>2, <2>3
  <2>5. g \in Slist => last'[g] = last[g]
    BY <1>0, <1>1, <1>10 DEF InsertsAt, Types
  <2>6. ASSUME g \in Hlist, NEW i \in 1..Len(members[g])
        PROVE  pprev'[At(g, i)] = pprev[At(g, i)]
    <3>1. At(g, i) \in Node /\ At(g, i) /= x
      BY <1>4, <2>1, Places
    <3>2. At(g, i) /= link[l]
      <4>1. CASE k = n
        BY <1>1, <1>6, <3>1, <4>1 DEF ListsAssumption
      <4>2. CASE k < n
        <5>1. link[l] = At(h, k + 1) /\ k + 1 \in 0..n
          BY <1>1, <1>6, <4>2
        <5> QED BY <1>0, <1>1, <1>10, <2>1, <5>1, Elsewhere
      <4> QED BY <1>1, <4>1, <4>2
    <3> QED BY <1>0, <1>1, <3>1, <3>2 DEF InsertsAt
  <2> QED BY <1>2, <1>10, <2>4, <2>5, <2>6, Untouched
<1>11. Chain(h)'
  <2>1. ASSUME NEW i \in 0..(n + 1)
        PROVE  link'[At(h, i)'] = IF i = n + 1 THEN Null ELSE At(h, i + 1)'
    <3>1. CASE i < k
      <4>1. /\ i \in 0..n /\ i + 1 \in 0..n /\ i /= n /\ i /= n + 1 /\ i + 1 <= k
            /\ i <= k /\ i /= k /\ i + 1 \in 0..(n + 1)
        BY <1>1, <3>1
      <4>2. At(h, i)' = At(h, i) /\ At(h, i + 1)' = At(h, i + 1)
        BY <1>2, <4>1
      <4>3. link'[At(h, i)] = link[At(h, i)]
        BY <1>1, <1>3, <1>h, <1>5, <1>7, <4>1
      <4> QED BY <1>6, <4>1, <4>2, <4>3
    <3>2. CASE i = k
      <4>1. At(h, i)' = l /\ At(h, i + 1)' = x /\ i /= n + 1
        BY <1>1, <1>2, <3>2
      <4>2. link'[l] = x
        BY <1>1, <1>3, <1>h
      <4> QED BY <4>1, <4>2
    <3>3. CASE i = k + 1
      <4>1. At(h, i)' = x /\ link'[x] = link[l]
        BY <1>1, <1>2, <1>3, <3>3
      <4>2. CASE k = n
        BY <1>1, <1>6, <3>3, <4>1, <4>2
      <4>3. CASE k < n
        <5>1. link[l] = At(h, k + 1)
          BY <1>1, <1>6, <4>3
        <5>2. At(h, i + 1)' = At(h, (i + 1) - 1) /\ (i + 1) - 1 = k + 1 /\ i /= n + 1
          BY <1>1, <1>2, <3>3, <4>3
        <5> QED BY <4>1, <5>1, <5>2
      <4> QED BY <1>1, <4>2, <4>3
    <3>4. CASE i > k + 1
      <4>1. i - 1 \in 0..n /\ i - 1 /= k
        BY <1>1, <3>4
      <4>2. At(h, i)' = At(h, i - 1)
        BY <1>1, <1>2, <3>4
      <4>3. link'[At(h, i - 1)] = link[At(h, i - 1)]
        BY <1>1, <1>3, <1>h, <1>5, <1>7, <4>1
      <4>4. i /= n + 1 => At(h, i + 1)' = At(h, i)
        <5>1. i /= n + 1 => i + 1 \in 0..(n + 1) /\ ~(i + 1 <= k) /\ i + 1 /= k + 1
                            /\ (i + 1) - 1 = i
          BY <1>1, <3>4
        <5> QED BY <1>2, <5>1
      <4>5. link[At(h, i - 1)] = IF i - 1 = n THEN Null ELSE At(h, (i - 1) + 1)
        BY <1>6, <4>1
      <4>6. (i - 1) + 1 = i /\ (i - 1 = n <=> i = n + 1)
        BY <1>1
      <4> QED BY <4>2, <4>3, <4>4, <4>5, <4>6
    <3> QED BY <1>1, <3>1, <3>2, <3>3, <3>4
  <2>2. h \in Slist => last'[h] = IF n + 1 = 0 THEN Null ELSE At(h, n + 1)'
    <3> SUFFICES ASSUME h \in Slist PROVE last'[h] = At(h, n + 1)'
      BY <1>1
    <3>1. last'[h] = IF k = n THEN x ELSE last[h]
      BY <1>0, <1>1 DEF InsertsAt, Types
    <3>2. n /= 0 => last[h] = At(h, n)
      BY <1>0, <1>1 DEF Chain
    <3>3. At(h, n + 1)' = IF k = n THEN x ELSE At(h, n)
      <4>1. n + 1 \in 0..(n + 1) /\ ~(n + 1 <= k) /\ (n + 1 = k + 1 <=> k = n)
            /\ (n + 1) - 1 = n
        BY <1>1
      <4> QED BY <1>2, <4>1
    <3> QED BY <1>1, <3>1, <3>2, <3>3
  <2>3. ASSUME h \in Hlist, NEW i \in 1..(n + 1)
        PROVE  pprev'[At(h, i)'] = At(h, i - 1)'
    <3>1. \A y \in Node : pprev'[y] = IF y = x THEN l
                                      ELSE IF y = link[l] THEN x ELSE pprev[y]
      BY <1>0, <2>3 DEF InsertsAt, ListsAssumption
    <3>2. \A j \in 1..n : pprev[At(h, j)] = At(h, j - 1)
      BY <1>0, <1>1, <2>3 DEF Chain
    <3>3. \A j \in 1..n : At(h, j) \in Node /\ At(h, j) /= x
      BY <1>0, <1>1, <1>4, Places
    <3>4. \A j \in 1..n : At(h, j) = link[l] <=> j = k + 1
      <4> SUFFICES ASSUME NEW j \in 1..n PROVE At(h, j) = link[l] <=> j = k + 1
        OBVIOUS
      <4>1. CASE k = n
        BY <1>1, <1>6, <3>3, <4>1 DEF ListsAssumption
      <4>2. CASE k < n
        <5>1. link[l] = At(h, k + 1) /\ k + 1 \in 0..n
          BY <1>1, <1>6, <4>2
        <5> QED BY <1>1, <1>5, <5>1
      <4> QED BY <1>1, <4>1, <4>2
    <3>5. CASE i <= k
      <4>1. At(h, i)' = At(h, i) /\ At(h, i - 1)' = At(h, i - 1)
        BY <1>1, <1>2, <3>5
      <4>2. i \in 1..n /\ i /= k + 1
        BY <1>1, <3>5
      <4> QED BY <3>1, <3>2, <3>3, <3>4, <4>1, <4>2
    <3>6. CASE i = k + 1
      <4>1. At(h, i)' = x /\ At(h, i - 1)' = l
        BY <1>1, <1>2, <3>6
      <4> QED BY <1>2, <3>1, <4>1
    <3>7. CASE i = k + 2
      <4>1. k + 1 \in 1..n /\ i - 1 = k + 1
        BY <1>1, <3>7
      <4>2. At(h, i)' = At(h, k + 1) /\ At(h, i - 1)' = x
        BY <1>1, <1>2, <3>7, <4>1
      <4> QED BY <3>1, <3>3, <3>4, <4>1, <4>2
    <3>8. CASE i > k + 2
      <4>1. i - 1 \in 1..n /\ i - 1 /= k + 1 /\ (i - 1) - 1 = i - 2
        BY <1>1, <3>8
      <4>2. At(h, i)' = At(h, i - 1) /\ At(h, i - 1)' = At(h, (i - 1) - 1)
        BY <1>1, <1>2, <3>8
      <4> QED BY <3>1, <3>2, <3>3, <3>4, <4>1, <4>2
    <3> QED BY <1>1, <3>5, <3>6, <3>7, <3>8
  <2> QED BY <1>2, <2>1, <2>2, <2>3 DEF Chain
<1> QED BY <1>2, <1>8, <1>9, <1>10, <1>11 DEF LinksInv

(* Removal of x from behind the cell k of h: what both ways to remove a    *)
(* node come to.                                                           *)

RemovesAt(h, k, x) ==
    LET n == Len(members[h])
        l == At(h, k)
    IN  /\ h \in Live /\ k \in 0..(n - 1) /\ x = At(h, k + 1)
        /\ members' = [members EXCEPT ![h] = RemoveAt(@, k + 1)]
        /\ link' = [link EXCEPT ![l] = link[x]]
        /\ IF h \in Slist
           THEN /\ last' = [last EXCEPT ![h] = IF k + 1 < n THEN @ ELSE
                                               IF k = 0 THEN Null ELSE l]
                /\ UNCHANGED pprev
           ELSE /\ pprev' = [y \in Node |-> IF y = link[x] THEN l ELSE pprev[y]]
                /\ UNCHANGED last
        /\ during' = IF Reading /\ h = Shared
                     THEN [stays |-> during.stays \ {x}, removed |-> during.removed \cup {x}]
                     ELSE during
        /\ UNCHANGED reader

(* Where the cells are once the node is removed. *)
LEMMA RemovePlaces ==
    ASSUME ListsAssumption, LinksInv, NEW h, NEW k, NEW x, RemovesAt(h, k, x),
           NEW n, n = Len(members[h])
    PROVE  /\ members'[h] \in Seq(Node) /\ Len(members'[h]) = n - 1
           /\ IsInjective(members'[h]) /\ Nodes(h)' = Nodes(h) \ {x}
           /\ \A i \in 0..(n - 1) : At(h, i)' = IF i <= k THEN At(h, i) ELSE At(h, i + 1)
           /\ x \in Nodes(h) /\ x \in Node /\ Live' = Live
           /\ \A g \in Live : g /= h => members'[g] = members[g]
<1>1. /\ h \in Live /\ k \in 0..(n - 1) /\ x = At(h, k + 1)
      /\ members' = [members EXCEPT ![h] = RemoveAt(@, k + 1)]
  BY DEF RemovesAt
<1>2. /\ h \in List /\ n \in Nat /\ members[h] \in Seq(Node)
      /\ members \in [List -> Seq(Node) \cup {Stale}]
      /\ IsInjective(members[h])
      /\ \A i \in 1..n : At(h, i) = members[h][i] /\ At(h, i) \in Nodes(h)
      /\ Nodes(h) \subseteq Node
  BY <1>1, Places DEF LinksInv, Types, Chain
<1>3. members'[h] = RemoveAt(members[h], k + 1)
  BY <1>1, <1>2
<1>4. k + 1 \in 1..n /\ x = members[h][k + 1] /\ x \in Nodes(h) /\ x \in Node
  BY <1>1, <1>2
<1>5. /\ members'[h] \in Seq(Node) /\ Len(members'[h]) = n - 1
      /\ \A i \in 1..Len(members'[h]) :
            members'[h][i] = IF i < k + 1 THEN members[h][i] ELSE members[h][i + 1]
      /\ IsInjective(members'[h]) /\ ToSet(members'[h]) = ToSet(members[h]) \ {x}
  <2>1. k + 1 \in 1..Len(members[h])
    BY <1>4
  <2>2. LET t == RemoveAt(members[h], k + 1) IN
        /\ t \in Seq(Node) /\ Len(t) = n - 1
        /\ \A i \in 1..(n - 1) :
              t[i] = IF i < k + 1 THEN members[h][i] ELSE members[h][i + 1]
        /\ IsInjective(t) /\ ToSet(t) = ToSet(members[h]) \ {members[h][k + 1]}
    BY <1>2, <2>1, RemoveAtSound, Zenon
  <2> QED BY <1>3, <1>4, <2>2
<1>6. ASSUME NEW i \in 0..(n - 1)
      PROVE  At(h, i)' = IF i <= k THEN At(h, i) ELSE At(h, i + 1)
  <2>1. CASE i = 0
    BY <1>1, <1>2, <2>1 DEF At
  <2>2. CASE i \in 1..(n - 1)
    <3>1. members'[h][i] = IF i < k + 1 THEN members[h][i] ELSE members[h][i + 1]
      BY <1>5, <2>2
    <3> QED BY <1>1, <1>2, <2>2, <3>1 DEF At
  <2> QED BY <1>2, <2>1, <2>2
<1>7. \A g \in List : g /= h => members'[g] = members[g]
  BY <1>1, <1>2
<1>8. Live' = Live
  BY <1>1, <1>2, <1>5, <1>7 DEF Live, ListsAssumption
<1> QED BY <1>4, <1>5, <1>6, <1>7, <1>8 DEF Nodes, Live

(* The removal keeps the lists sound. *)
LEMMA RemoveKeeps ==
    ASSUME ListsAssumption, LinksInv, NEW h, NEW k, NEW x, RemovesAt(h, k, x)
    PROVE  LinksInv'
<1>0. SUFFICES ASSUME NEW n, n = Len(members[h]), NEW l, l = At(h, k)
               PROVE  LinksInv'
  OBVIOUS
<1>1. /\ h \in Live /\ h \in List /\ n \in Nat /\ k \in 0..(n - 1) /\ k \in 0..n
      /\ k + 1 \in 1..n /\ x = At(h, k + 1)
      /\ Types /\ Chain(h) /\ l = At(h, k) /\ l \in List \cup Node
  BY <1>0, Places DEF RemovesAt, LinksInv
<1>2. /\ members'[h] \in Seq(Node) /\ Len(members'[h]) = n - 1
      /\ IsInjective(members'[h]) /\ Nodes(h)' = Nodes(h) \ {x}
      /\ \A i \in 0..(n - 1) : At(h, i)' = IF i <= k THEN At(h, i) ELSE At(h, i + 1)
      /\ x \in Nodes(h) /\ x \in Node /\ Live' = Live
      /\ \A g \in Live : g /= h => members'[g] = members[g]
  BY <1>0, RemovePlaces
<1>3. /\ \A c \in List \cup Node : link'[c] = IF c = l THEN link[x] ELSE link[c]
      /\ link' \in [List \cup Node -> Node \cup {Null}]
  BY <1>0, <1>1, <1>2 DEF RemovesAt, Types
<1>5. \A i, j \in 0..n : At(h, i) = At(h, j) => i = j
  BY <1>0, <1>1, Places
<1>6. /\ \A i \in 0..n : link[At(h, i)] = IF i = n THEN Null ELSE At(h, i + 1)
      /\ link[x] = IF k + 1 = n THEN Null ELSE At(h, k + 2)
  <2>1. \A i \in 0..n : link[At(h, i)] = IF i = n THEN Null ELSE At(h, i + 1)
    BY <1>0, <1>1 DEF Chain
  <2>2. k + 1 \in 0..n /\ (k + 1) + 1 = k + 2
    BY <1>1
  <2> QED BY <1>1, <2>1, <2>2
<1>7. \A i \in 0..n : At(h, i) \in List \cup Node
  BY <1>0, <1>1, Places
<1>8. Types'
  <2>0. /\ last \in [Slist -> Node \cup {Null}]
        /\ pprev \in [Node -> List \cup Node \cup {Null}]
        /\ members \in [List -> Seq(Node) \cup {Stale}]
        /\ reader \in [at : Node \cup {Null, "idle"}, seen : Seq(Node)]
        /\ during \in [stays : SUBSET Node, removed : SUBSET Node]
    BY <1>1 DEF Types
  <2>1. last' \in [Slist -> Node \cup {Null}]
    <3>1. \/ last' = last
          \/ last' = [last EXCEPT ![h] = IF k + 1 < n THEN @ ELSE
                                         IF k = 0 THEN Null ELSE l]
      BY <1>0 DEF RemovesAt
    <3>2. k /= 0 => l \in Node
      <4>1. k /= 0 => k \in 1..n
        BY <1>1
      <4> QED BY <1>0, <1>1, <4>1, Places
    <3> QED BY <1>2, <2>0, <3>1, <3>2
  <2>2. pprev' \in [Node -> List \cup Node \cup {Null}]
    <3>1. \/ pprev' = pprev
          \/ pprev' = [y \in Node |-> IF y = link[x] THEN l ELSE pprev[y]]
      BY <1>0 DEF RemovesAt
    <3> QED BY <1>1, <1>2, <2>0, <3>1
  <2>3. members' \in [List -> Seq(Node) \cup {Stale}]
    BY <1>0, <1>1, <1>2, <2>0 DEF RemovesAt
  <2>4. reader' = reader
    BY <1>0 DEF RemovesAt
  <2>5. during' \in [stays : SUBSET Node, removed : SUBSET Node]
    <3>1. \/ during' = [stays |-> during.stays \ {x}, removed |-> during.removed \cup {x}]
          \/ during' = during
      BY <1>0 DEF RemovesAt
    <3> QED BY <1>2, <2>0, <3>1
  <2> QED BY <1>1, <1>3, <2>0, <2>1, <2>2, <2>3, <2>4, <2>5 DEF Types
<1>9. Apart'
  <2> SUFFICES ASSUME NEW f \in Live, NEW g \in Live, f /= g
               PROVE  Nodes(f)' \cap Nodes(g)' = {}
    BY <1>2 DEF Apart
  <2>1. Nodes(f) \cap Nodes(g) = {}
    BY DEF LinksInv, Apart
  <2>2. Nodes(f)' \subseteq Nodes(f) /\ Nodes(g)' \subseteq Nodes(g)
    BY <1>2 DEF Nodes
  <2> QED BY <2>1, <2>2
<1>10. ASSUME NEW g \in Live, g /= h PROVE Chain(g)'
  <2>1. g \in List /\ Len(members[g]) \in Nat
    BY Places
  <2>2. \A i \in 0..Len(members[g]) : At(g, i) /= l
    BY <1>0, <1>1, <1>10, Elsewhere
  <2>3. \A i \in 0..Len(members[g]) : At(g, i) \in List \cup Node
    BY Places
  <2>4. \A i \in 0..Len(members[g]) : link'[At(g, i)] = link[At(g, i)]
    BY <1>3, <2>2, <2>3
  <2>5. g \in Slist => last'[g] = last[g]
    BY <1>0, <1>1, <1>10 DEF RemovesAt, Types
  <2>6. ASSUME g \in Hlist, NEW i \in 1..Len(members[g])
        PROVE  pprev'[At(g, i)] = pprev[At(g, i)]
    <3>1. At(g, i) \in Node
      BY <2>1, Places
    <3>2. At(g, i) /= link[x]
      <4>1. CASE k + 1 = n
        BY <1>6, <3>1, <4>1 DEF ListsAssumption
      <4>2. CASE k + 1 /= n
        <5>1. link[x] = At(h, k + 2) /\ k + 2 \in 0..n
          BY <1>1, <1>6, <4>2
        <5> QED BY <1>0, <1>1, <1>10, <2>1, <5>1, Elsewhere
      <4> QED BY <4>1, <4>2
    <3> QED BY <1>0, <1>1, <3>1, <3>2 DEF RemovesAt
  <2> QED BY <1>2, <1>10, <2>4, <2>5, <2>6, Untouched
<1>11. Chain(h)'
  <2>1. ASSUME NEW i \in 0..(n - 1)
        PROVE  link'[At(h, i)'] = IF i = n - 1 THEN Null ELSE At(h, i + 1)'
    <3>1. CASE i < k
      <4>1. /\ i \in 0..n /\ i /= n /\ i /= n - 1 /\ i + 1 <= k
            /\ i <= k /\ i /= k /\ i + 1 \in 0..(n - 1)
        BY <1>1, <3>1
      <4>2. At(h, i)' = At(h, i) /\ At(h, i + 1)' = At(h, i + 1)
        BY <1>2, <4>1
      <4>3. link'[At(h, i)] = link[At(h, i)]
        BY <1>1, <1>3, <1>5, <1>7, <4>1
      <4> QED BY <1>6, <4>1, <4>2, <4>3
    <3>2. CASE i = k
      <4>1. At(h, i)' = l /\ link'[l] = link[x]
        BY <1>1, <1>2, <1>3, <3>2
      <4>2. i /= n - 1 => At(h, i + 1)' = At(h, k + 2)
        <5>1. i /= n - 1 => i + 1 \in 0..(n - 1) /\ ~(i + 1 <= k) /\ (i + 1) + 1 = k + 2
          BY <1>1, <3>2
        <5> QED BY <1>2, <5>1
      <4>3. k + 1 = n <=> i = n - 1
        BY <1>1, <3>2
      <4> QED BY <1>6, <4>1, <4>2, <4>3
    <3>3. CASE i > k
      <4>1. i + 1 \in 0..n /\ i + 1 /= k
        BY <1>1, <3>3
      <4>2. At(h, i)' = At(h, i + 1)
        BY <1>1, <1>2, <3>3
      <4>3. link'[At(h, i + 1)] = link[At(h, i + 1)]
        BY <1>1, <1>3, <1>5, <1>7, <4>1
      <4>4. i /= n - 1 => At(h, i + 1)' = At(h, (i + 1) + 1)
        <5>1. i /= n - 1 => i + 1 \in 0..(n - 1) /\ ~(i + 1 <= k)
          BY <1>1, <3>3
        <5> QED BY <1>2, <5>1
      <4>5. link[At(h, i + 1)] = IF i + 1 = n THEN Null ELSE At(h, (i + 1) + 1)
        BY <1>6, <4>1
      <4>6. i + 1 = n <=> i = n - 1
        BY <1>1
      <4> QED BY <4>2, <4>3, <4>4, <4>5, <4>6
    <3> QED BY <1>1, <3>1, <3>2, <3>3
  <2>2. ASSUME h \in Slist PROVE last'[h] = IF n - 1 = 0 THEN Null ELSE At(h, n - 1)'
    <3>1. last'[h] = IF k + 1 < n THEN last[h] ELSE IF k = 0 THEN Null ELSE l
      BY <1>0, <1>1, <2>2 DEF RemovesAt, Types
    <3>2. last[h] = At(h, n)
      BY <1>0, <1>1, <2>2 DEF Chain
    <3>3. At(h, n - 1)' = IF n - 1 <= k THEN At(h, n - 1) ELSE At(h, (n - 1) + 1)
      BY <1>1, <1>2
    <3>4. CASE n - 1 = 0
      <4>1. ~(k + 1 < n) /\ k = 0
        BY <1>1, <3>4
      <4> QED BY <3>1, <3>4, <4>1
    <3>5. CASE n - 1 /= 0 /\ k + 1 < n
      <4>1. ~(n - 1 <= k) /\ (n - 1) + 1 = n
        BY <1>1, <3>5
      <4> QED BY <3>1, <3>2, <3>3, <3>5, <4>1
    <3>6. CASE n - 1 /= 0 /\ k + 1 = n
      <4>1. n - 1 = k /\ n - 1 <= k /\ ~(k + 1 < n)
        BY <1>1, <3>6
      <4>2. At(h, n - 1)' = l
        BY <1>1, <3>3, <4>1
      <4>3. last'[h] = l
        BY <3>1, <3>6, <4>1
      <4> QED BY <3>6, <4>2, <4>3
    <3> QED BY <1>1, <3>4, <3>5, <3>6
  <2>3. ASSUME h \in Hlist, NEW i \in 1..(n - 1)
        PROVE  pprev'[At(h, i)'] = At(h, i - 1)'
    <3>1. \A y \in Node : pprev'[y] = IF y = link[x] THEN l ELSE pprev[y]
      BY <1>0, <2>3 DEF RemovesAt, ListsAssumption
    <3>2. \A j \in 1..n : pprev[At(h, j)] = At(h, j - 1)
      BY <1>0, <1>1, <2>3 DEF Chain
    <3>3. \A j \in 1..n : At(h, j) \in Node
      BY <1>0, <1>1, Places
    <3>4. \A j \in 1..n : At(h, j) = link[x] <=> j = k + 2
      <4> SUFFICES ASSUME NEW j \in 1..n PROVE At(h, j) = link[x] <=> j = k + 2
        OBVIOUS
      <4>1. CASE k + 1 = n
        <5>1. At(h, j) /= link[x]
          BY <1>6, <3>3, <4>1 DEF ListsAssumption
        <5> QED BY <1>1, <4>1, <5>1
      <4>2. CASE k + 1 /= n
        <5>1. link[x] = At(h, k + 2) /\ k + 2 \in 0..n
          BY <1>1, <1>6, <4>2
        <5> QED BY <1>1, <1>5, <5>1
      <4> QED BY <4>1, <4>2
    <3>5. CASE i <= k
      <4>1. At(h, i)' = At(h, i) /\ At(h, i - 1)' = At(h, i - 1)
        BY <1>1, <1>2, <3>5
      <4>2. i \in 1..n /\ i /= k + 2
        BY <1>1, <3>5
      <4> QED BY <3>1, <3>2, <3>3, <3>4, <4>1, <4>2
    <3>6. CASE i = k + 1
      <4>1. At(h, i)' = At(h, k + 2) /\ At(h, i - 1)' = l
        <5>1. i \in 0..(n - 1) /\ ~(i <= k) /\ i + 1 = k + 2
          BY <1>1, <3>6
        <5>2. i - 1 = k
          BY <1>1, <3>6
        <5> QED BY <1>1, <1>2, <5>1, <5>2
      <4>2. k + 2 \in 1..n
        BY <1>1, <3>6
      <4> QED BY <3>1, <3>3, <3>4, <4>1, <4>2
    <3>8. CASE i > k + 1
      <4>1. i + 1 \in 1..n /\ i + 1 /= k + 2 /\ (i + 1) - 1 = i
        BY <1>1, <3>8
      <4>2. At(h, i)' = At(h, i + 1) /\ At(h, i - 1)' = At(h, i)
        <5>1. /\ i \in 0..(n - 1) /\ ~(i <= k)
              /\ i - 1 \in 0..(n - 1) /\ ~(i - 1 <= k) /\ (i - 1) + 1 = i
          BY <1>1, <3>8
        <5> QED BY <1>2, <5>1
      <4> QED BY <3>1, <3>2, <3>3, <3>4, <4>1, <4>2
    <3> QED BY <1>1, <3>5, <3>6, <3>8
  <2> QED BY <1>2, <2>1, <2>2, <2>3 DEF Chain
<1> QED BY <1>2, <1>8, <1>9, <1>10, <1>11 DEF LinksInv

--------------------------------------------------------------------------------
(* What each operation comes to.                                           *)

(* What the links of a list are. *)
LEMMA Cells ==
    ASSUME ListsAssumption, LinksInv, NEW h \in Live, NEW n, n = Len(members[h])
    PROVE  /\ At(h, 0) = h /\ h \in List /\ n \in Nat /\ h \notin Node
           /\ \A i \in 1..n : At(h, i) \in Node /\ At(h, i) \in Used
           /\ \A i \in 0..n : At(h, i) \in List \cup Node
           /\ \A i \in 0..n : link[At(h, i)] = IF i = n THEN Null ELSE At(h, i + 1)
           /\ link[h] = Null <=> n = 0
           /\ h \in Slist => last[h] = IF n = 0 THEN Null ELSE At(h, n)
           /\ h \in Hlist => \A i \in 1..n : pprev[At(h, i)] = At(h, i - 1)
<1>1. /\ At(h, 0) = h /\ h \in List /\ n \in Nat
      /\ \A i \in 1..n : At(h, i) \in Node /\ At(h, i) \in Used
      /\ \A i \in 0..n : At(h, i) \in List \cup Node
  BY Places DEF At
<1>2. /\ \A i \in 0..n : link[At(h, i)] = IF i = n THEN Null ELSE At(h, i + 1)
      /\ h \in Slist => last[h] = IF n = 0 THEN Null ELSE At(h, n)
      /\ h \in Hlist => \A i \in 1..n : pprev[At(h, i)] = At(h, i - 1)
  BY DEF LinksInv, Chain
<1>3. link[h] = Null <=> n = 0
  <2>1. 0 \in 0..n /\ 0 + 1 = 1 /\ (n /= 0 => 1 \in 1..n)
    BY <1>1
  <2>2. link[h] = IF 0 = n THEN Null ELSE At(h, 1)
    BY <1>1, <1>2, <2>1
  <2> QED BY <1>1, <2>1, <2>2 DEF ListsAssumption
<1>4. h \notin Node
  BY <1>1 DEF ListsAssumption
<1> QED BY <1>1, <1>2, <1>3, <1>4

(* Each insertion of slist.h is one at some place of the list. *)
LEMMA SlistInsertion ==
    ASSUME ListsAssumption, LinksInv, NEW h \in Slist, NEW x \in Node,
           \/ slist_rcu_insert_head(h, x) \/ slist_rcu_insert_tail(h, x)
           \/ \E p \in Node : slist_rcu_insert_after(h, x, p)
    PROVE  \E k \in Nat : InsertsAt(h, k, x)
<1>0. PICK n : n = Len(members[h])
  OBVIOUS
<1>1. h \in Live /\ x \in Free /\ x \notin Used
  BY DEF slist_rcu_insert_head, slist_rcu_insert_tail, slist_rcu_insert_after, Inserted, Free
<1>2. /\ At(h, 0) = h /\ h \in List /\ n \in Nat /\ h /= x
      /\ \A i \in 1..n : At(h, i) \in Node /\ At(h, i) /= x
      /\ \A i \in 0..n : link[At(h, i)] = IF i = n THEN Null ELSE At(h, i + 1)
      /\ link[h] = Null <=> n = 0
      /\ last[h] = IF n = 0 THEN Null ELSE At(h, n)
  BY <1>0, <1>1, Cells
<1>3. /\ link \in [List \cup Node -> Node \cup {Null}]
      /\ last \in [Slist -> Node \cup {Null}]
  BY DEF LinksInv, Types
<1>4. CASE slist_rcu_insert_head(h, x)
  <2>1. /\ members' = [members EXCEPT ![h] = InsertAt(@, 0 + 1, x)]
        /\ link' = [link EXCEPT ![x] = link[h], ![h] = x]
        /\ last' = [last EXCEPT ![h] = IF slist_empty(h) THEN x ELSE @]
        /\ UNCHANGED <<pprev, reader, during>>
    BY <1>4 DEF slist_rcu_insert_head, Inserted
  <2>2. link' = [c \in List \cup Node |->
                    IF c = x THEN link[h] ELSE IF c = h THEN x ELSE link[c]]
    BY <1>2, <1>3, <2>1
  <2>3. last' = [last EXCEPT ![h] = IF 0 = n THEN x ELSE @]
    BY <1>2, <2>1 DEF slist_empty
  <2>4. InsertsAt(h, 0, x)
    <3>1. 0 \in 0..Len(members[h]) /\ At(h, 0) = h
      BY <1>0, <1>2
    <3>2. last' = [last EXCEPT ![h] = IF 0 = Len(members[h]) THEN x ELSE @]
      BY <1>0, <2>3
    <3>3. link' = [c \in List \cup Node |->
                      IF c = x THEN link[At(h, 0)] ELSE IF c = At(h, 0) THEN x ELSE link[c]]
      BY <2>2, <3>1
    <3> QED BY <1>1, <2>1, <3>1, <3>2, <3>3, Zenon DEF InsertsAt
  <2> QED BY <2>4
<1>5. CASE slist_rcu_insert_tail(h, x)
  <2>0. PICK l : l = At(h, n)
    OBVIOUS
  <2>1. /\ members' = [members EXCEPT ![h] = InsertAt(@, n + 1, x)]
        /\ link' = [link EXCEPT ![x] = Null, ![IF slist_empty(h) THEN h ELSE last[h]] = x]
        /\ last' = [last EXCEPT ![h] = x]
        /\ UNCHANGED <<pprev, reader, during>>
    <3>1. members' = [members EXCEPT ![h] = InsertAt(@, Len(members[h]) + 1, x)]
      BY <1>5 DEF slist_rcu_insert_tail, Inserted
    <3> QED BY <1>0, <1>5, <3>1 DEF slist_rcu_insert_tail, Inserted
  <2>2. (IF slist_empty(h) THEN h ELSE last[h]) = l /\ l /= x /\ l \in List \cup Node
    BY <1>2, <2>0 DEF slist_empty
  <2>3. link[l] = Null
    BY <1>2, <2>0
  <2>4. link' = [c \in List \cup Node |->
                    IF c = x THEN link[l] ELSE IF c = l THEN x ELSE link[c]]
    BY <1>3, <2>1, <2>2, <2>3
  <2>5. last' = [last EXCEPT ![h] = IF n = n THEN x ELSE @]
    BY <2>1
  <2>6. InsertsAt(h, n, x)
    <3>1. n \in 0..Len(members[h])
      BY <1>0, <1>2
    <3> QED BY <1>0, <1>1, <2>0, <2>1, <2>4, <2>5, <3>1 DEF InsertsAt
  <2> QED BY <1>2, <2>6
<1>6. ASSUME NEW p \in Node, slist_rcu_insert_after(h, x, p)
      PROVE  \E k \in Nat : InsertsAt(h, k, x)
  <2>0. PICK k : k = Place(p)
    OBVIOUS
  <2>1. /\ members' = [members EXCEPT ![h] = InsertAt(@, k + 1, x)]
        /\ link' = [link EXCEPT ![x] = link[p], ![p] = x]
        /\ last' = [last EXCEPT ![h] = IF @ = p THEN x ELSE @]
        /\ UNCHANGED <<pprev, reader, during>>
        /\ p \in Nodes(h)
    BY <1>6, <2>0 DEF slist_rcu_insert_after, Inserted
  <2>2. k \in 1..n /\ At(h, k) = p /\ p /= x
    BY <1>0, <1>1, <1>2, <2>0, <2>1, Position
  <2>3. link' = [c \in List \cup Node |->
                    IF c = x THEN link[p] ELSE IF c = p THEN x ELSE link[c]]
    BY <1>3, <2>1, <2>2
  <2>4. last[h] = p <=> k = n
    <3>1. \A i, j \in 0..n : At(h, i) = At(h, j) => i = j
      BY <1>0, <1>1, Places
    <3>2. last[h] = At(h, n) /\ n \in 0..n /\ k \in 0..n
      BY <1>2, <2>2
    <3> QED BY <2>2, <3>1, <3>2
  <2>5. last' = [last EXCEPT ![h] = IF k = n THEN x ELSE @]
    BY <2>1, <2>4
  <2>6. InsertsAt(h, k, x)
    <3>1. k \in 0..n
      BY <1>2, <2>2
    <3> QED BY <1>0, <1>1, <2>1, <2>2, <2>3, <2>5, <3>1 DEF InsertsAt
  <2> QED BY <1>2, <2>2, <2>6
<1> QED BY <1>4, <1>5, <1>6

(* So is one that writes the link to a node, with hlist.h. *)
LEMMA AtLink ==
    ASSUME ListsAssumption, LinksInv, NEW h \in Hlist \cap Live, NEW k \in Nat, NEW x \in Node,
           k <= Len(members[h]), Inserted(h, k + 1, x), InsertAtLink(At(h, k), x)
    PROVE  InsertsAt(h, k, x)
<1>0. PICK n, l : n = Len(members[h]) /\ l = At(h, k)
  OBVIOUS
<1>1. /\ h \in Live /\ x \in Free /\ x \notin Used /\ h \notin Slist
      /\ members' = [members EXCEPT ![h] = InsertAt(@, k + 1, x)]
      /\ UNCHANGED <<reader, during>>
  BY DEF Inserted, Free, ListsAssumption
<1>2. /\ n \in Nat /\ k \in 0..n /\ h /= x
      /\ \A i \in 1..n : At(h, i) \in Node /\ At(h, i) \in Used
      /\ l \in List \cup Node
      /\ link[l] = IF k = n THEN Null ELSE At(h, k + 1)
  <2>1. n \in Nat
    BY <1>0, <1>1, Cells
  <2>2. k \in 0..n
    BY <1>0, <2>1
  <2> QED BY <1>0, <1>1, <2>1, <2>2, Cells
<1>3. l /= x /\ link[l] /= x /\ (link[l] = Null \/ link[l] \in Node)
  <2>1. k /= n => k + 1 \in 1..n
    BY <1>2
  <2>2. l /= x
    <3>1. CASE k = 0
      BY <1>0, <1>2, <3>1 DEF At
    <3>2. CASE k /= 0
      <4>1. k \in 1..n
        BY <1>2, <3>2
      <4> QED BY <1>0, <1>1, <1>2, <4>1
    <3> QED BY <3>1, <3>2
  <2> QED BY <1>1, <1>2, <2>1, <2>2 DEF ListsAssumption
<1>4. /\ link \in [List \cup Node -> Node \cup {Null}]
      /\ pprev \in [Node -> List \cup Node \cup {Null}]
  BY DEF LinksInv, Types
<1>5. /\ link' = [link EXCEPT ![l] = x, ![x] = link[l]]
      /\ pprev' = IF link[l] = Null THEN [pprev EXCEPT ![x] = l]
                  ELSE [pprev EXCEPT ![x] = l, ![link[l]] = x]
      /\ UNCHANGED last
  BY <1>0 DEF InsertAtLink
<1>6. link' = [c \in List \cup Node |->
                  IF c = x THEN link[l] ELSE IF c = l THEN x ELSE link[c]]
  BY <1>3, <1>4, <1>5
<1>7. pprev' = [y \in Node |-> IF y = x THEN l ELSE IF y = link[l] THEN x ELSE pprev[y]]
  <2>1. CASE link[l] = Null
    BY <1>3, <1>4, <1>5, <2>1 DEF ListsAssumption
  <2>2. CASE link[l] /= Null
    <3>1. pprev' = [pprev EXCEPT ![x] = l, ![link[l]] = x]
      BY <1>5, <2>2
    <3> QED BY <1>3, <1>4, <3>1
  <2> QED BY <2>1, <2>2
<1> QED BY <1>0, <1>1, <1>2, <1>5, <1>6, <1>7 DEF InsertsAt

(* Each insertion of hlist.h is one at some place of a list. *)
LEMMA HlistInsertion ==
    ASSUME ListsAssumption, LinksInv, NEW x \in Node,
           \/ \E h \in Hlist : hlist_rcu_insert_head(h, x)
           \/ \E y \in Node : hlist_rcu_insert_before(x, y) \/ hlist_rcu_insert_after(x, y)
    PROVE  \E h \in Hlist \cap Live, k \in Nat : InsertsAt(h, k, x)
<1>1. ASSUME NEW h \in Hlist, hlist_rcu_insert_head(h, x)
      PROVE  h \in Live /\ InsertsAt(h, 0, x)
  <2>1. h \in Live /\ Inserted(h, 0 + 1, x) /\ InsertAtLink(h, x)
    BY <1>1 DEF hlist_rcu_insert_head, Inserted
  <2>2. At(h, 0) = h /\ 0 <= Len(members[h])
    BY <2>1, Cells
  <2> QED BY <2>1, <2>2, AtLink
<1>2. ASSUME NEW y \in Node, hlist_rcu_insert_after(x, y)
      PROVE  \E h \in Hlist \cap Live, k \in Nat : InsertsAt(h, k, x)
  <2>1. PICK h \in Hlist \cap Live : y \in Nodes(h) /\ Inserted(h, Place(y) + 1, x)
    BY <1>2 DEF hlist_rcu_insert_after
  <2>2. At(h, Place(y)) = y /\ Place(y) \in Nat /\ Place(y) <= Len(members[h])
    BY <2>1, Position, Cells
  <2>3. InsertAtLink(At(h, Place(y)), x)
    BY <1>2, <2>2 DEF hlist_rcu_insert_after
  <2> QED BY <2>1, <2>2, <2>3, AtLink
<1>3. ASSUME NEW y \in Node, hlist_rcu_insert_before(x, y)
      PROVE  \E h \in Hlist \cap Live, k \in Nat : InsertsAt(h, k, x)
  <2>1. PICK h \in Hlist \cap Live : y \in Nodes(h) /\ Inserted(h, Place(y), x)
    BY <1>3 DEF hlist_rcu_insert_before
  <2>2. /\ At(h, Place(y)) = y /\ Place(y) \in 1..Len(members[h]) /\ Len(members[h]) \in Nat
        /\ pprev[At(h, Place(y))] = At(h, Place(y) - 1)
    BY <2>1, Position, Cells
  <2>3. PICK k : k = Place(y) - 1
    OBVIOUS
  <2>4. k \in Nat /\ k <= Len(members[h]) /\ Place(y) = k + 1
    BY <2>2, <2>3
  <2>5. InsertAtLink(At(h, k), x)
    BY <1>3, <2>2, <2>3 DEF hlist_rcu_insert_before
  <2>6. Inserted(h, k + 1, x)
    BY <2>1, <2>4
  <2> QED BY <2>1, <2>4, <2>5, <2>6, AtLink
<1> QED BY <1>1, <1>2, <1>3

(* A node that is taken away leaves its place. *)
LEMMA Leaving ==
    ASSUME ListsAssumption, LinksInv, NEW h \in Live, NEW k \in Nat, k < Len(members[h]),
           NEW x, x = At(h, k + 1), Taken(x)
    PROVE  /\ members' = [members EXCEPT ![h] = RemoveAt(@, k + 1)]
           /\ during' = IF Reading /\ h = Shared
                        THEN [stays |-> during.stays \ {x},
                              removed |-> during.removed \cup {x}]
                        ELSE during
           /\ UNCHANGED reader
<1>0. PICK n : n = Len(members[h])
  OBVIOUS
<1>1. n \in Nat /\ k + 1 \in 1..n
  <2>1. n \in Nat
    BY <1>0, Cells
  <2> QED BY <1>0, <2>1
<1>2. x \in Nodes(h) /\ \A i, j \in 0..n : At(h, i) = At(h, j) => i = j
  BY <1>0, <1>1, Places
<1>3. ListOf(x) = h /\ Place(x) \in 1..n /\ At(h, Place(x)) = x
  BY <1>0, <1>2, Position
<1>4. Place(x) = k + 1
  <2>1. Place(x) \in 0..n /\ k + 1 \in 0..n
    BY <1>1, <1>3
  <2> QED BY <1>2, <1>3, <2>1
<1> QED BY <1>3, <1>4 DEF Taken

(* A removal of slist.h is one at some place of the list. *)
LEMMA SlistRemoval ==
    ASSUME ListsAssumption, LinksInv, NEW h \in Slist, NEW p \in Node \cup {Null},
           slist_rcu_remove(h, p)
    PROVE  \E k \in Nat, x \in Node : RemovesAt(h, k, x)
<1>0. PICK n, k, l, x :
          /\ n = Len(members[h]) /\ k = IF p = Null THEN 0 ELSE Place(p)
          /\ l = (IF p = Null THEN h ELSE p) /\ x = link[l]
  OBVIOUS
<1>1. /\ h \in Live /\ p \in Nodes(h) \cup {Null} /\ x \in Node
      /\ link' = [link EXCEPT ![l] = link[x]]
      /\ last' = [last EXCEPT ![h] = IF @ = x THEN p ELSE @]
      /\ Taken(x) /\ UNCHANGED pprev
  BY <1>0 DEF slist_rcu_remove
<1>2. /\ At(h, 0) = h /\ h \in List /\ n \in Nat
      /\ \A i \in 1..n : At(h, i) \in Node /\ At(h, i) \in Used
      /\ \A i \in 0..n : link[At(h, i)] = IF i = n THEN Null ELSE At(h, i + 1)
      /\ last[h] = IF n = 0 THEN Null ELSE At(h, n)
      /\ \A i, j \in 0..n : At(h, i) = At(h, j) => i = j
      /\ Null \notin Nodes(h) /\ Null \notin Node
  <2>1. Null \notin Nodes(h) /\ Null \notin Node
    BY <1>1, Places DEF ListsAssumption
  <2> QED BY <1>0, <1>1, <2>1, Cells, Places
<1>3. k \in 0..n /\ At(h, k) = l /\ (p = Null <=> k = 0)
  <2>1. CASE p = Null
    BY <1>0, <1>2, <2>1
  <2>2. CASE p /= Null
    <3>1. Place(p) \in 1..n /\ At(h, Place(p)) = p
      BY <1>0, <1>1, <2>2, Position
    <3> QED BY <1>0, <1>2, <2>2, <3>1
  <2> QED BY <2>1, <2>2
<1>4. k < n /\ x = At(h, k + 1)
  <2>1. x = IF k = n THEN Null ELSE At(h, k + 1)
    BY <1>0, <1>2, <1>3
  <2>2. k /= n
    BY <1>1, <1>2, <2>1
  <2> QED BY <1>2, <1>3, <2>1, <2>2
<1>5. /\ members' = [members EXCEPT ![h] = RemoveAt(@, k + 1)]
      /\ during' = IF Reading /\ h = Shared
                   THEN [stays |-> during.stays \ {x}, removed |-> during.removed \cup {x}]
                   ELSE during
      /\ UNCHANGED reader
  <2>1. k \in Nat
    BY <1>2, <1>3
  <2> QED BY <1>0, <1>1, <1>4, <2>1, Leaving
<1>6. last' = [last EXCEPT ![h] = IF k + 1 < n THEN @ ELSE IF k = 0 THEN Null ELSE l]
  <2>1. last[h] = x <=> ~(k + 1 < n)
    <3>1. last[h] = At(h, n) /\ n \in 0..n /\ k + 1 \in 0..n
      BY <1>2, <1>3, <1>4
    <3>2. n = k + 1 <=> ~(k + 1 < n)
      BY <1>2, <1>3, <1>4
    <3> QED BY <1>2, <1>4, <3>1, <3>2
  <2>2. p = IF k = 0 THEN Null ELSE l
    BY <1>0, <1>3
  <2> QED BY <1>1, <2>1, <2>2
<1>7. k \in 0..(n - 1)
  BY <1>2, <1>3, <1>4
<1>8. RemovesAt(h, k, x)
  BY <1>0, <1>1, <1>3, <1>4, <1>5, <1>6, <1>7 DEF RemovesAt
<1> QED BY <1>1, <1>2, <1>3, <1>8

(* So is one of hlist.h, though it is not told the list. *)
LEMMA HlistRemoval ==
    ASSUME ListsAssumption, LinksInv, NEW x \in Node, hlist_rcu_remove(x)
    PROVE  \E h \in Hlist \cap Live, k \in Nat : RemovesAt(h, k, x)
<1>1. PICK h \in Hlist \cap Live : x \in Nodes(h)
  BY DEF hlist_rcu_remove
<1>2. /\ Place(x) \in 1..Len(members[h]) /\ At(h, Place(x)) = x
      /\ Len(members[h]) \in Nat /\ pprev[At(h, Place(x))] = At(h, Place(x) - 1)
      /\ link[At(h, Place(x))] = IF Place(x) = Len(members[h]) THEN Null
                                 ELSE At(h, Place(x) + 1)
  <2>1. Place(x) \in 1..Len(members[h]) /\ At(h, Place(x)) = x
    BY <1>1, Position
  <2>2. Len(members[h]) \in Nat
    BY <1>1, Cells
  <2>3. Place(x) \in 0..Len(members[h])
    BY <2>1, <2>2
  <2> QED BY <1>1, <2>1, <2>2, <2>3, Cells
<1>0. PICK n, k, l :
          n = Len(members[h]) /\ k = Place(x) - 1 /\ l = At(h, k)
  OBVIOUS
<1>3. /\ n \in Nat /\ k \in Nat /\ k < n /\ k \in 0..(n - 1) /\ x = At(h, k + 1)
      /\ pprev[x] = l
  BY <1>0, <1>2
<1>4. /\ link' = [link EXCEPT ![l] = link[x]]
      /\ pprev' = IF link[x] = Null THEN pprev ELSE [pprev EXCEPT ![link[x]] = l]
      /\ Taken(x) /\ UNCHANGED last
  BY <1>3 DEF hlist_rcu_remove
<1>5. /\ members' = [members EXCEPT ![h] = RemoveAt(@, k + 1)]
      /\ during' = IF Reading /\ h = Shared
                   THEN [stays |-> during.stays \ {x}, removed |-> during.removed \cup {x}]
                   ELSE during
      /\ UNCHANGED reader
  BY <1>0, <1>1, <1>3, <1>4, Leaving
<1>6. pprev' = [y \in Node |-> IF y = link[x] THEN l ELSE pprev[y]]
  <2>1. pprev \in [Node -> List \cup Node \cup {Null}] /\ Null \notin Node
    BY DEF LinksInv, Types, ListsAssumption
  <2>2. CASE link[x] = Null
    BY <1>4, <2>1, <2>2
  <2>3. CASE link[x] /= Null
    <3>1. pprev' = [pprev EXCEPT ![link[x]] = l]
      BY <1>4, <2>3
    <3> QED BY <2>1, <3>1
  <2> QED BY <2>2, <2>3
<1>7. h \notin Slist
  BY <1>1 DEF ListsAssumption
<1>8. RemovesAt(h, k, x)
  BY <1>0, <1>1, <1>3, <1>4, <1>5, <1>6, <1>7 DEF RemovesAt
<1> QED BY <1>1, <1>3, <1>8

(* Initialising a list keeps them all sound. *)
LEMMA EmptyKeeps ==
    ASSUME ListsAssumption, LinksInv, NEW h \in List, Emptied(h),
           \/ h \in Slist /\ slist_init(h)
           \/ h \in Hlist /\ hlist_init(h)
    PROVE  LinksInv'
<1>1. /\ h \notin Live /\ members' = [members EXCEPT ![h] = <<>>]
      /\ UNCHANGED <<reader, during>>
  BY DEF Emptied
<1>2. /\ Types /\ members \in [List -> Seq(Node) \cup {Stale}]
      /\ link \in [List \cup Node -> Node \cup {Null}]
      /\ last \in [Slist -> Node \cup {Null}]
  BY DEF LinksInv, Types
<1>3. /\ link' = [link EXCEPT ![h] = Null]
      /\ h \in Slist => last' = [last EXCEPT ![h] = Null]
      /\ h \in Hlist => last' = last
      /\ pprev' = pprev
  BY DEF slist_init, hlist_init, ListsAssumption
<1>4. /\ members'[h] = <<>> /\ <<>> \in Seq(Node)
      /\ \A g \in List : g /= h => members'[g] = members[g]
  BY <1>1, <1>2
<1>5. Live' = Live \cup {h}
  BY <1>2, <1>4 DEF Live, ListsAssumption
<1>6. Types'
  <2>1. members' \in [List -> Seq(Node) \cup {Stale}]
    BY <1>1, <1>2, <1>4
  <2>2. link' \in [List \cup Node -> Node \cup {Null}]
    BY <1>2, <1>3
  <2>3. last' \in [Slist -> Node \cup {Null}]
    BY <1>2, <1>3 DEF List
  <2> QED BY <1>1, <1>2, <1>3, <2>1, <2>2, <2>3 DEF Types
<1>7. Nodes(h)' = {} /\ \A g \in Live : Nodes(g)' = Nodes(g)
  <2>1. Nodes(h)' = {}
    BY <1>4 DEF Nodes, ToSet
  <2>2. \A g \in Live : members'[g] = members[g]
    BY <1>1, <1>4 DEF Live
  <2> QED BY <2>1, <2>2 DEF Nodes
<1>8. Apart'
  BY <1>5, <1>7 DEF LinksInv, Apart
<1>9. ASSUME NEW g \in Live PROVE Chain(g)'
  <2>1. members'[g] = members[g] /\ g \in List /\ g /= h
    BY <1>1, <1>4, <1>9 DEF Live
  <2>2. \A i \in 0..Len(members[g]) : At(g, i) \in List \cup Node /\ At(g, i) /= h
    <3>1. \A i \in 0..Len(members[g]) : (i = 0 /\ At(g, i) = g) \/ At(g, i) \in Node
      BY Places DEF At
    <3> QED BY <2>1, <3>1 DEF ListsAssumption
  <2>3. \A i \in 0..Len(members[g]) : link'[At(g, i)] = link[At(g, i)]
    BY <1>2, <1>3, <2>2
  <2>4. g \in Slist => last'[g] = last[g]
    BY <1>2, <1>3, <2>1 DEF List
  <2>5. \A i \in 1..Len(members[g]) : pprev'[At(g, i)] = pprev[At(g, i)]
    BY <1>3
  <2> QED BY <2>1, <2>3, <2>4, <2>5, Untouched
<1>10. Chain(h)'
  <2>1. Len(members'[h]) = 0 /\ IsInjective(members'[h])
    BY <1>4 DEF IsInjective
  <2>2. link'[h] = Null /\ (h \in Slist => last'[h] = Null)
    BY <1>2, <1>3 DEF List
  <2>3. \A i \in 0..0 : i = 0 /\ At(h, i)' = h
    BY DEF At
  <2> QED BY <2>1, <2>2, <2>3 DEF Chain
<1> QED BY <1>1, <1>5, <1>6, <1>8, <1>9, <1>10 DEF LinksInv

(* Giving the nodes of one list to another keeps them all sound. *)
LEMMA MoveKeeps ==
    ASSUME ListsAssumption, LinksInv, NEW new \in List, NEW old \in List,
           \/ {new, old} \subseteq Slist /\ slist_set_head(new, old)
           \/ {new, old} \subseteq Hlist /\ hlist_set_head(new, old)
    PROVE  LinksInv' /\ members[new] \in {Stale, <<>>}
<1>0. PICK n : n = Len(members[old])
  OBVIOUS
<1>1. /\ Moved(new, old)
      /\ link' = [link EXCEPT ![new] = link[old]]
      /\ old \in Slist => /\ last' = [last EXCEPT ![new] = last[old]]
                          /\ pprev' = pprev /\ new \in Slist
      /\ old \in Hlist => /\ pprev' = IF link[old] = Null THEN pprev
                                      ELSE [pprev EXCEPT ![link[old]] = new]
                          /\ last' = last
  BY DEF slist_set_head, hlist_set_head, hlist_empty, ListsAssumption
<1>2. /\ new /= old /\ old \in Live /\ members[new] \in {Stale, <<>>}
      /\ members' = [members EXCEPT ![new] = members[old], ![old] = Stale]
      /\ reader' = reader /\ during' = during
  BY <1>1 DEF Moved
<1>3. /\ Types /\ members \in [List -> Seq(Node) \cup {Stale}]
      /\ link \in [List \cup Node -> Node \cup {Null}]
      /\ last \in [Slist -> Node \cup {Null}]
      /\ pprev \in [Node -> List \cup Node \cup {Null}]
      /\ old \in Slist \/ old \in Hlist
  BY DEF LinksInv, Types, List
<1>4. /\ members'[new] = members[old] /\ members'[old] = Stale
      /\ \A g \in List : g \notin {new, old} => members'[g] = members[g]
      /\ members[old] /= Stale
  BY <1>2, <1>3 DEF Live
<1>5. Live' = (Live \ {old}) \cup {new}
  BY <1>2, <1>3, <1>4 DEF Live
<1>6. /\ At(old, 0) = old /\ n \in Nat /\ old \notin Node /\ new \notin Node
      /\ \A i \in 1..n : At(old, i) \in Node
      /\ \A i \in 0..n : link[At(old, i)] = IF i = n THEN Null ELSE At(old, i + 1)
      /\ link[old] = Null <=> n = 0
      /\ old \in Slist => last[old] = IF n = 0 THEN Null ELSE At(old, n)
      /\ old \in Hlist => \A i \in 1..n : pprev[At(old, i)] = At(old, i - 1)
      /\ \A i, j \in 0..n : At(old, i) = At(old, j) => i = j
      /\ members[old] \in Seq(Node) /\ IsInjective(members[old])
  <2>1. new \notin Node
    BY DEF ListsAssumption
  <2>2. IsInjective(members[old])
    BY <1>2 DEF LinksInv, Chain
  <2> QED BY <1>0, <1>2, <2>1, <2>2, Cells, Places
<1>7. n /= 0 => link[old] = At(old, 1) /\ 1 \in 1..n
  <2>1. 0 \in 0..n /\ (n /= 0 => 1 \in 1..n) /\ 0 + 1 = 1
    BY <1>6
  <2>2. link[At(old, 0)] = IF 0 = n THEN Null ELSE At(old, 0 + 1)
    BY <1>6, <2>1
  <2> QED BY <1>6, <2>1, <2>2
<1>8. Types'
  <2>1. members' \in [List -> Seq(Node) \cup {Stale}]
    BY <1>2, <1>3, <1>6
  <2>2. link' \in [List \cup Node -> Node \cup {Null}]
    BY <1>1, <1>3
  <2>3. last' \in [Slist -> Node \cup {Null}]
    BY <1>1, <1>3
  <2>4. pprev' \in [Node -> List \cup Node \cup {Null}]
    BY <1>1, <1>3
  <2> QED BY <1>2, <1>3, <2>1, <2>2, <2>3, <2>4 DEF Types
<1>9. /\ Nodes(new)' = Nodes(old)
      /\ \A g \in Live : g \notin {new, old} => Nodes(g)' = Nodes(g) /\ members'[g] = members[g]
  BY <1>4 DEF Nodes, Live
<1>10. Apart'
  BY <1>2, <1>5, <1>9 DEF LinksInv, Apart
<1>11. ASSUME NEW g \in Live, g \notin {new, old} PROVE Chain(g)'
  <2>1. members'[g] = members[g] /\ g \in List
    BY <1>9, <1>11 DEF Live
  <2>2. \A i \in 0..Len(members[g]) : At(g, i) \in List \cup Node /\ At(g, i) /= new
    <3>1. \A i \in 0..Len(members[g]) : (i = 0 /\ At(g, i) = g) \/ At(g, i) \in Node
      BY Places DEF At
    <3> QED BY <1>6, <1>11, <2>1, <3>1
  <2>3. \A i \in 0..Len(members[g]) : link'[At(g, i)] = link[At(g, i)]
    BY <1>1, <1>3, <2>2
  <2>4. g \in Slist => last'[g] = last[g]
    BY <1>1, <1>3, <1>11
  <2>5. ASSUME NEW i \in 1..Len(members[g]) PROVE pprev'[At(g, i)] = pprev[At(g, i)]
    <3>1. At(g, i) \in Node /\ Len(members[g]) \in Nat
      BY Places
    <3>2. CASE n = 0
      BY <1>1, <1>3, <1>6, <3>2
    <3>3. CASE n /= 0
      <4>1. At(g, i) /= link[old]
        <5>1. i \in 0..Len(members[g]) /\ 1 \in 0..Len(members[old])
          BY <1>0, <1>6, <3>1, <3>3
        <5> QED BY <1>2, <1>7, <1>11, <3>3, <5>1, Elsewhere
      <4> QED BY <1>1, <1>3, <3>1, <4>1
    <3> QED BY <3>2, <3>3
  <2> QED BY <2>1, <2>3, <2>4, <2>5, Untouched
<1>12. Chain(new)'
  <2>0. /\ \A i \in 1..n : At(new, i)' = At(old, i)
        /\ At(new, 0)' = new /\ Len(members'[new]) = n
    <3>1. \A i \in 1..n : At(new, i)' = At(old, i)
      BY <1>4, <1>6 DEF At
    <3>2. At(new, 0)' = new
      BY DEF At
    <3> QED BY <1>0, <1>4, <3>1, <3>2
  <2>1. ASSUME NEW i \in 0..n
        PROVE  link'[At(new, i)'] = IF i = n THEN Null ELSE At(new, i + 1)'
    <3>1. i /= n => At(new, i + 1)' = At(old, i + 1)
      <4>1. i /= n => i + 1 \in 1..n
        BY <1>6
      <4> QED BY <2>0, <4>1
    <3>2. link'[At(new, i)'] = link[At(old, i)]
      <4>1. CASE i = 0
        BY <1>1, <1>3, <1>6, <2>0, <4>1
      <4>2. CASE i /= 0
        <5>1. i \in 1..n
          BY <1>6, <4>2
        <5> QED BY <1>1, <1>3, <1>6, <2>0, <5>1
      <4> QED BY <4>1, <4>2
    <3> QED BY <1>6, <3>1, <3>2
  <2>2. ASSUME new \in Slist PROVE last'[new] = IF n = 0 THEN Null ELSE At(new, n)'
    <3>1. old \in Slist
      BY <2>2 DEF ListsAssumption
    <3>2. last'[new] = last[old]
      BY <1>1, <1>3, <2>2, <3>1
    <3>3. n /= 0 => n \in 1..n
      BY <1>6
    <3> QED BY <1>6, <2>0, <3>1, <3>2, <3>3
  <2>3. ASSUME new \in Hlist, NEW i \in 1..n PROVE pprev'[At(new, i)'] = At(new, i - 1)'
    <3>1. old \in Hlist
      BY <2>3 DEF ListsAssumption
    <3>2. n /= 0 /\ link[old] /= Null
      BY <1>6
    <3>3. pprev' = [pprev EXCEPT ![At(old, 1)] = new] /\ 1 \in 1..n
      BY <1>1, <1>7, <3>1, <3>2
    <3>4. At(new, i)' = At(old, i) /\ At(old, i) \in Node
      BY <1>6, <2>0
    <3>5. CASE i = 1
      <4>1. i - 1 = 0
        BY <3>5
      <4> QED BY <1>3, <2>0, <3>3, <3>4, <3>5, <4>1
    <3>6. CASE i /= 1
      <4>1. i - 1 \in 1..n /\ i \in 0..n /\ 1 \in 0..n
        BY <1>6, <3>6
      <4>2. At(old, i) /= At(old, 1)
        BY <1>6, <3>6, <4>1
      <4>3. pprev[At(old, i)] = At(old, i - 1)
        BY <1>6, <3>1
      <4> QED BY <1>3, <2>0, <3>3, <3>4, <4>1, <4>2, <4>3
    <3> QED BY <3>5, <3>6
  <2>4. IsInjective(members'[new])
    BY <1>4, <1>6
  <2> QED BY <2>0, <2>1, <2>2, <2>3, <2>4 DEF Chain
<1> QED BY <1>2, <1>5, <1>8, <1>10, <1>11, <1>12 DEF LinksInv

(* So does initialising a node that no list has. *)
LEMMA NodeInitKeeps ==
    ASSUME ListsAssumption, LinksInv, NEW x \in Node, hlist_node_init(x)
    PROVE  LinksInv'
<1>1. /\ x \notin Used /\ pprev' = [pprev EXCEPT ![x] = Null]
      /\ UNCHANGED <<link, last, members, reader, during>>
  BY DEF hlist_node_init, Free
<1>2. Types /\ pprev \in [Node -> List \cup Node \cup {Null}]
  BY DEF LinksInv, Types
<1>3. Types'
  BY <1>1, <1>2 DEF Types
<1>4. Live' = Live /\ \A g : Nodes(g)' = Nodes(g)
  BY <1>1 DEF Live, Nodes
<1>5. Apart'
  BY <1>4 DEF LinksInv, Apart
<1>6. ASSUME NEW g \in Live PROVE Chain(g)'
  <2>1. \A i \in 1..Len(members[g]) : At(g, i) \in Node /\ At(g, i) /= x
    BY <1>1, Cells
  <2>2. \A i \in 1..Len(members[g]) : pprev'[At(g, i)] = pprev[At(g, i)]
    BY <1>1, <1>2, <2>1
  <2> QED BY <1>1, <2>2, Untouched
<1> QED BY <1>3, <1>4, <1>5, <1>6 DEF LinksInv

(* The reader changes no list. *)
LEMMA ReaderKeepsLinks ==
    ASSUME ListsAssumption, LinksInv, (Enter \/ rcu_next \/ Leave) \/ UNCHANGED vars
    PROVE  LinksInv'
<1>1. UNCHANGED <<link, last, pprev, members>>
  BY DEF Enter, rcu_next, Leave, vars
<1>2. /\ Types /\ link \in [List \cup Node -> Node \cup {Null}]
      /\ reader \in [at : Node \cup {Null, "idle"}, seen : Seq(Node)]
      /\ during \in [stays : SUBSET Node, removed : SUBSET Node]
  BY DEF LinksInv, Types
<1>3. /\ reader' \in [at : Node \cup {Null, "idle"}, seen : Seq(Node)]
      /\ during' \in [stays : SUBSET Node, removed : SUBSET Node]
  <2>1. CASE Enter
    <3>1. link[Shared] \in Node \cup {Null}
      BY <1>2 DEF ListsAssumption
    <3>2. Nodes(Shared) \subseteq Node
      BY <2>1, Places DEF Enter
    <3> QED BY <2>1, <3>1, <3>2 DEF Enter
  <2>2. CASE rcu_next
    <3>1. reader.at \in Node /\ reader.seen \in Seq(Node)
      BY <1>2, <2>2 DEF rcu_next, Reading
    <3>2. link[reader.at] \in Node \cup {Null}
      BY <1>2, <3>1
    <3>3. Append(reader.seen, reader.at) \in Seq(Node)
      BY <3>1
    <3> QED BY <1>2, <2>2, <3>2, <3>3 DEF rcu_next
  <2>3. CASE Leave
    BY <2>3 DEF Leave, Idle, Nothing
  <2>4. CASE UNCHANGED vars
    BY <1>2, <2>4 DEF vars
  <2> QED BY <2>1, <2>2, <2>3, <2>4
<1>4. Types'
  BY <1>1, <1>2, <1>3 DEF Types
<1>5. Live' = Live /\ \A g : Nodes(g)' = Nodes(g)
  BY <1>1 DEF Live, Nodes
<1>6. Apart'
  BY <1>5 DEF LinksInv, Apart
<1>7. ASSUME NEW g \in Live PROVE Chain(g)'
  BY <1>1, Untouched
<1> QED BY <1>4, <1>5, <1>6, <1>7 DEF LinksInv

(* Two sequences with no element in common, one behind the other. *)
LEMMA ConcatSound ==
    ASSUME NEW s \in Seq(Node), NEW t \in Seq(Node), IsInjective(s), IsInjective(t),
           ToSet(s) \cap ToSet(t) = {}
    PROVE  LET r == s \o t IN
           /\ r \in Seq(Node) /\ Len(r) = Len(s) + Len(t)
           /\ \A i \in 1..Len(s) : r[i] = s[i]
           /\ \A i \in 1..Len(t) : r[Len(s) + i] = t[i]
           /\ IsInjective(r) /\ ToSet(r) = ToSet(s) \cup ToSet(t)
<1>0. PICK m, n, r : m = Len(s) /\ n = Len(t) /\ r = s \o t
  OBVIOUS
<1>1. /\ m \in Nat /\ n \in Nat /\ DOMAIN s = 1..m /\ DOMAIN t = 1..n
      /\ r \in Seq(Node) /\ Len(r) = m + n /\ DOMAIN r = 1..(m + n)
      /\ \A i \in 1..(m + n) : r[i] = IF i <= m THEN s[i] ELSE t[i - m]
  <2>1. r \in Seq(Node) /\ Len(r) = m + n
    BY <1>0
  <2>2. \A i \in 1..(m + n) : r[i] = IF i <= m THEN s[i] ELSE t[i - m]
    BY <1>0, ConcatProperties
  <2> QED BY <1>0, <2>1, <2>2
<1>2. /\ \A i \in 1..m : r[i] = s[i] /\ s[i] \in ToSet(s)
      /\ \A i \in 1..n : r[m + i] = t[i] /\ t[i] \in ToSet(t)
  <2>1. \A i \in 1..m : i \in 1..(m + n) /\ i <= m
    BY <1>1
  <2>2. \A i \in 1..n : m + i \in 1..(m + n) /\ ~(m + i <= m) /\ (m + i) - m = i
    BY <1>1
  <2> QED BY <1>1, <2>1, <2>2 DEF ToSet
<1>3. \A i \in 1..(m + n) : i \in 1..m \/ \E j \in 1..n : i = m + j
  <2> SUFFICES ASSUME NEW i \in 1..(m + n), i \notin 1..m PROVE \E j \in 1..n : i = m + j
    OBVIOUS
  <2>1. i - m \in 1..n /\ i = m + (i - m)
    BY <1>1
  <2> QED BY <2>1
<1>4. IsInjective(r)
  <2> SUFFICES ASSUME NEW i \in 1..(m + n), NEW j \in 1..(m + n), r[i] = r[j]
               PROVE  i = j
    BY <1>1 DEF IsInjective
  <2>1. \A p, q \in 1..m : s[p] = s[q] => p = q
    BY <1>1 DEF IsInjective
  <2>2. \A p, q \in 1..n : t[p] = t[q] => p = q
    BY <1>1 DEF IsInjective
  <2>3. \A p \in 1..m, q \in 1..n : r[p] /= r[m + q]
    BY <1>2
  <2>4. CASE i \in 1..m /\ j \in 1..m
    BY <1>2, <2>1, <2>4
  <2>5. CASE \E p, q \in 1..n : i = m + p /\ j = m + q
    <3>1. PICK p \in 1..n, q \in 1..n : i = m + p /\ j = m + q
      BY <2>5
    <3>2. t[p] = t[q]
      BY <1>2, <3>1
    <3> QED BY <2>2, <3>1, <3>2
  <2>6. ~(i \in 1..m /\ \E q \in 1..n : j = m + q)
    BY <2>3
  <2>7. ~(j \in 1..m /\ \E p \in 1..n : i = m + p)
    BY <2>3
  <2> QED BY <1>3, <2>4, <2>5, <2>6, <2>7
<1>5. ToSet(r) = ToSet(s) \cup ToSet(t)
  <2>1. \A i \in 1..m : i \in 1..(m + n)
    BY <1>1
  <2>2. \A i \in 1..n : m + i \in 1..(m + n)
    BY <1>1
  <2>3. ASSUME NEW y \in ToSet(r) PROVE y \in ToSet(s) \cup ToSet(t)
    <3>1. PICK i \in 1..(m + n) : y = r[i]
      BY <1>1 DEF ToSet
    <3> QED BY <1>2, <1>3, <3>1
  <2>4. ASSUME NEW y \in ToSet(s) PROVE y \in ToSet(r)
    <3>1. PICK i \in 1..m : y = s[i]
      BY <1>1 DEF ToSet
    <3> QED BY <1>1, <1>2, <2>1, <3>1 DEF ToSet
  <2>5. ASSUME NEW y \in ToSet(t) PROVE y \in ToSet(r)
    <3>1. PICK i \in 1..n : y = t[i]
      BY <1>1 DEF ToSet
    <3>2. y = r[m + i] /\ m + i \in DOMAIN r
      BY <1>1, <1>2, <2>2, <3>1
    <3> QED BY <3>2 DEF ToSet
  <2> QED BY <2>3, <2>4, <2>5
<1> QED BY <1>0, <1>1, <1>2, <1>4, <1>5

(* Joining two lists keeps them all sound. *)
LEMMA ConcatKeeps ==
    ASSUME ListsAssumption, LinksInv, NEW f \in Slist, NEW h \in Slist, slist_concat(f, h)
    PROVE  LinksInv'
<1>0. PICK m, n, l : m = Len(members[f]) /\ n = Len(members[h]) /\ l = At(f, m)
  OBVIOUS
<1>1. /\ f /= h /\ f \in Live /\ h \in Live /\ link[h] /= Null
      /\ link' = [link EXCEPT ![IF link[f] = Null THEN f ELSE last[f]] = link[h]]
      /\ last' = [last EXCEPT ![f] = last[h]]
      /\ members' = [members EXCEPT ![f] = @ \o members[h], ![h] = Stale]
      /\ UNCHANGED <<pprev, reader, during>>
  BY DEF slist_concat, slist_empty
<1>2. /\ Types /\ members \in [List -> Seq(Node) \cup {Stale}]
      /\ link \in [List \cup Node -> Node \cup {Null}]
      /\ last \in [Slist -> Node \cup {Null}]
      /\ f \notin Hlist
  BY DEF LinksInv, Types, ListsAssumption
<1>3. /\ At(f, 0) = f /\ m \in Nat /\ f \in List
      /\ \A i \in 0..m : At(f, i) \in List \cup Node
      /\ \A i \in 0..m : link[At(f, i)] = IF i = m THEN Null ELSE At(f, i + 1)
      /\ link[f] = Null <=> m = 0
      /\ last[f] = IF m = 0 THEN Null ELSE At(f, m)
      /\ \A i, j \in 0..m : At(f, i) = At(f, j) => i = j
      /\ members[f] \in Seq(Node) /\ IsInjective(members[f])
      /\ \A i \in 1..m : At(f, i) = members[f][i]
  <2>1. IsInjective(members[f])
    BY <1>1 DEF LinksInv, Chain
  <2> QED BY <1>0, <1>1, <2>1, Cells, Places
<1>4. /\ At(h, 0) = h /\ n \in Nat /\ h \in List
      /\ \A i \in 0..n : At(h, i) \in List \cup Node
      /\ \A i \in 0..n : link[At(h, i)] = IF i = n THEN Null ELSE At(h, i + 1)
      /\ link[h] = Null <=> n = 0
      /\ last[h] = IF n = 0 THEN Null ELSE At(h, n)
      /\ members[h] \in Seq(Node) /\ IsInjective(members[h])
      /\ \A i \in 1..n : At(h, i) = members[h][i]
  <2>1. IsInjective(members[h])
    BY <1>1 DEF LinksInv, Chain
  <2> QED BY <1>0, <1>1, <2>1, Cells, Places
<1>5. /\ n \in 1..n /\ link[h] = At(h, 1) /\ last[h] = At(h, n)
  <2>1. n /= 0
    BY <1>1, <1>4
  <2>2. 0 \in 0..n /\ n \in 1..n /\ 0 + 1 = 1
    BY <1>4, <2>1
  <2>3. link[At(h, 0)] = IF 0 = n THEN Null ELSE At(h, 0 + 1)
    BY <1>4, <2>2
  <2> QED BY <1>4, <2>1, <2>2, <2>3
<1>6. /\ link' = [link EXCEPT ![l] = link[h]]
      /\ l \in List \cup Node
  <2>1. (IF link[f] = Null THEN f ELSE last[f]) = l
    BY <1>0, <1>3
  <2>2. m \in 0..m
    BY <1>3
  <2> QED BY <1>0, <1>1, <1>3, <2>1, <2>2
<1>7. \A i \in 0..m, j \in 0..n : At(f, i) /= At(h, j)
  BY <1>0, <1>1, Elsewhere
<1>8. /\ members'[f] = members[f] \o members[h] /\ members'[h] = Stale
      /\ \A g \in List : g \notin {f, h} => members'[g] = members[g]
  BY <1>1, <1>2, <1>3, <1>4
<1>9. /\ members'[f] \in Seq(Node) /\ Len(members'[f]) = m + n
      /\ \A i \in 1..m : members'[f][i] = members[f][i]
      /\ \A i \in 1..n : members'[f][m + i] = members[h][i]
      /\ IsInjective(members'[f]) /\ Nodes(f)' = Nodes(f) \cup Nodes(h)
  <2>1. ToSet(members[f]) \cap ToSet(members[h]) = {}
    BY <1>1 DEF LinksInv, Apart, Nodes
  <2>2. /\ members'[f] \in Seq(Node)
        /\ Len(members'[f]) = Len(members[f]) + Len(members[h])
        /\ \A i \in 1..Len(members[f]) : members'[f][i] = members[f][i]
        /\ \A i \in 1..Len(members[h]) : members'[f][Len(members[f]) + i] = members[h][i]
        /\ IsInjective(members'[f])
        /\ ToSet(members'[f]) = ToSet(members[f]) \cup ToSet(members[h])
    <3>1. /\ members[f] \in Seq(Node) /\ members[h] \in Seq(Node)
          /\ IsInjective(members[f]) /\ IsInjective(members[h])
          /\ members'[f] = members[f] \o members[h]
      BY <1>3, <1>4, <1>8
    <3>2. LET r == members[f] \o members[h] IN
          /\ r \in Seq(Node) /\ Len(r) = Len(members[f]) + Len(members[h])
          /\ \A i \in 1..Len(members[f]) : r[i] = members[f][i]
          /\ \A i \in 1..Len(members[h]) : r[Len(members[f]) + i] = members[h][i]
          /\ IsInjective(r) /\ ToSet(r) = ToSet(members[f]) \cup ToSet(members[h])
      BY <2>1, <3>1, ConcatSound
    <3> QED BY <3>1, <3>2
  <2> QED BY <1>0, <2>2 DEF Nodes
<1>10. Live' = Live \ {h}
  BY <1>1, <1>2, <1>8, <1>9 DEF Live, ListsAssumption
<1>11. Types'
  <2>1. members' \in [List -> Seq(Node) \cup {Stale}]
    BY <1>1, <1>2, <1>8, <1>9
  <2>2. link[h] \in Node \cup {Null} /\ last[h] \in Node \cup {Null}
    BY <1>2, <1>4
  <2>3. link' \in [List \cup Node -> Node \cup {Null}]
    BY <1>2, <1>6, <2>2
  <2>4. last' \in [Slist -> Node \cup {Null}]
    BY <1>1, <1>2, <2>2
  <2> QED BY <1>1, <1>2, <2>1, <2>3, <2>4 DEF Types
<1>12. \A g \in Live : g \notin {f, h} => Nodes(g)' = Nodes(g) /\ members'[g] = members[g]
  BY <1>8 DEF Nodes, Live
<1>13. Apart'
  <2> SUFFICES ASSUME NEW d \in Live \ {h}, NEW e \in Live \ {h}, d /= e
               PROVE  Nodes(d)' \cap Nodes(e)' = {}
    BY <1>10 DEF Apart
  <2>1. /\ Nodes(d) \cap Nodes(e) = {}
        /\ Nodes(d) \cap Nodes(h) = {} /\ Nodes(e) \cap Nodes(h) = {}
    BY <1>1 DEF LinksInv, Apart
  <2>2. Nodes(d)' = Nodes(d) \/ (d = f /\ Nodes(d)' = Nodes(d) \cup Nodes(h))
    BY <1>9, <1>12
  <2>3. Nodes(e)' = Nodes(e) \/ (e = f /\ Nodes(e)' = Nodes(e) \cup Nodes(h))
    BY <1>9, <1>12
  <2> QED BY <2>1, <2>2, <2>3
<1>14. ASSUME NEW g \in Live, g \notin {f, h} PROVE Chain(g)'
  <2>1. \A i \in 0..Len(members[g]) : At(g, i) \in List \cup Node
    BY Places
  <2>2. \A i \in 0..Len(members[g]) : At(g, i) /= l
    <3>1. m \in 0..Len(members[f])
      BY <1>0, <1>3
    <3> QED BY <1>0, <1>1, <1>14, <3>1, Elsewhere
  <2>3. \A i \in 0..Len(members[g]) : link'[At(g, i)] = link[At(g, i)]
    BY <1>2, <1>6, <2>1, <2>2
  <2>4. g \in Slist => last'[g] = last[g]
    BY <1>1, <1>2, <1>14
  <2>5. \A i \in 1..Len(members[g]) : pprev'[At(g, i)] = pprev[At(g, i)]
    BY <1>1
  <2> QED BY <1>12, <1>14, <2>3, <2>4, <2>5, Untouched
<1>15. Chain(f)'
  <2>1. /\ \A i \in 0..m : At(f, i)' = At(f, i)
        /\ \A i \in 1..n : At(f, m + i)' = At(h, i)
    <3>1. \A i \in 0..m : At(f, i)' = At(f, i)
      BY <1>3, <1>9 DEF At
    <3>2. ASSUME NEW i \in 1..n PROVE At(f, m + i)' = At(h, i)
      <4>1. m + i /= 0 /\ i /= 0
        BY <1>3
      <4> QED BY <1>9, <4>1 DEF At
    <3> QED BY <3>1, <3>2
  <2>2. ASSUME NEW i \in 0..(m + n)
        PROVE  link'[At(f, i)'] = IF i = m + n THEN Null ELSE At(f, i + 1)'
    <3>1. CASE i < m
      <4>1. i \in 0..m /\ i + 1 \in 0..m /\ i /= m /\ i /= m + n /\ m \in 0..m
        BY <1>3, <1>4, <3>1
      <4>2. At(f, i) /= l
        BY <1>0, <1>3, <4>1
      <4>3. link'[At(f, i)] = At(f, i + 1)
        BY <1>2, <1>3, <1>6, <4>1, <4>2
      <4> QED BY <2>1, <4>1, <4>3
    <3>2. CASE i = m
      <4>1. m \in 0..m /\ 1 \in 1..n /\ i /= m + n
        BY <1>3, <1>5, <3>2
      <4>2. At(f, i)' = l /\ At(f, i + 1)' = At(h, 1)
        BY <1>0, <2>1, <3>2, <4>1
      <4> QED BY <1>2, <1>5, <1>6, <4>1, <4>2
    <3>3. CASE i > m
      <4>1. PICK j \in 1..n : i = m + j
        <5>1. i - m \in 1..n /\ i = m + (i - m)
          BY <1>3, <1>4, <3>3
        <5> QED BY <5>1
      <4>2. /\ j \in 0..n /\ (j = n <=> i = m + n) /\ i + 1 = m + (j + 1)
            /\ (j /= n => j + 1 \in 1..n) /\ m \in 0..m
        BY <1>3, <1>4, <4>1
      <4>3. At(f, i)' = At(h, j) /\ At(h, j) /= l /\ At(h, j) \in List \cup Node
        BY <1>0, <1>4, <1>7, <2>1, <4>1, <4>2
      <4>4. link'[At(h, j)] = IF j = n THEN Null ELSE At(h, j + 1)
        BY <1>2, <1>4, <1>6, <4>2, <4>3
      <4>5. j /= n => At(f, i + 1)' = At(h, j + 1)
        BY <2>1, <4>2
      <4> QED BY <4>2, <4>3, <4>4, <4>5
    <3> QED BY <1>3, <3>1, <3>2, <3>3
  <2>3. last'[f] = IF m + n = 0 THEN Null ELSE At(f, m + n)'
    <3>1. At(f, m + n)' = At(h, n)
      BY <1>5, <2>1
    <3>2. last'[f] = At(h, n)
      BY <1>1, <1>2, <1>5
    <3>3. m + n /= 0
      BY <1>3, <1>4, <1>5
    <3> QED BY <3>1, <3>2, <3>3
  <2> QED BY <1>2, <1>9, <2>2, <2>3 DEF Chain
<1> QED BY <1>10, <1>11, <1>13, <1>14, <1>15 DEF LinksInv

(* The links are sound at the beginning, after every step, and so are the *)
(* lists that are made of them.                                           *)
LEMMA LinksInit == ListsAssumption /\ Init => LinksInv
<1> SUFFICES ASSUME ListsAssumption, Init PROVE LinksInv
  OBVIOUS
<1>1. \A h \in List : members[h] = <<>> /\ link[h] = Null
  BY DEF Init
<1>2. \A h \in Slist : last[h] = Null
  BY DEF Init
<1>3. Types
  BY DEF Init, Types, Idle, Nothing
<1>4. \A h \in Live : Nodes(h) = {}
  BY <1>1 DEF Live, Nodes, ToSet
<1>5. Apart
  BY <1>4 DEF Apart
<1>6. ASSUME NEW h \in Live PROVE Chain(h)
  <2>1. h \in List /\ members[h] = <<>> /\ Len(members[h]) = 0
    BY <1>1 DEF Live
  <2>2. IsInjective(members[h])
    BY <2>1 DEF IsInjective
  <2>3. \A i \in 0..0 : i = 0 /\ At(h, i) = h
    BY DEF At
  <2> QED BY <1>1, <1>2, <2>1, <2>2, <2>3 DEF Chain
<1> QED BY <1>3, <1>5, <1>6 DEF LinksInv

LEMMA LinksStep == ListsAssumption /\ LinksInv /\ [Next]_vars => LinksInv'
<1> SUFFICES ASSUME ListsAssumption, LinksInv, [Next]_vars PROVE LinksInv'
  OBVIOUS
<1>1. ASSUME NEW h \in Slist, slist_init(h) PROVE LinksInv'
  BY <1>1, EmptyKeeps DEF slist_init, List
<1>2. ASSUME NEW h \in Slist, NEW x \in Node,
             \/ slist_rcu_insert_head(h, x) \/ slist_rcu_insert_tail(h, x)
             \/ \E p \in Node : slist_rcu_insert_after(h, x, p)
      PROVE  LinksInv'
  BY <1>2, SlistInsertion, InsertKeeps
<1>3. ASSUME NEW h \in Slist, NEW p \in Node \cup {Null}, slist_rcu_remove(h, p)
      PROVE  LinksInv'
  BY <1>3, SlistRemoval, RemoveKeeps
<1>4. ASSUME NEW f \in Slist, NEW h \in Slist, slist_concat(f, h) PROVE LinksInv'
  BY <1>4, ConcatKeeps
<1>5. ASSUME NEW f \in Slist, NEW h \in Slist, slist_set_head(f, h) PROVE LinksInv'
  BY <1>5, MoveKeeps DEF List
<1>6. ASSUME NEW h \in Hlist, hlist_init(h) PROVE LinksInv'
  BY <1>6, EmptyKeeps DEF hlist_init, List
<1>7. ASSUME NEW x \in Node,
             \/ \E h \in Hlist : hlist_rcu_insert_head(h, x)
             \/ \E y \in Node : hlist_rcu_insert_before(x, y) \/ hlist_rcu_insert_after(x, y)
      PROVE  LinksInv'
  BY <1>7, HlistInsertion, InsertKeeps
<1>8. ASSUME NEW f \in Hlist, NEW h \in Hlist, hlist_set_head(f, h) PROVE LinksInv'
  BY <1>8, MoveKeeps DEF List
<1>9. ASSUME NEW x \in Node, hlist_rcu_remove(x) PROVE LinksInv'
  BY <1>9, HlistRemoval, RemoveKeeps
<1>10. ASSUME NEW x \in Node, hlist_node_init(x) PROVE LinksInv'
  BY <1>10, NodeInitKeeps
<1>11. CASE (Enter \/ rcu_next \/ Leave) \/ UNCHANGED vars
  BY <1>11, ReaderKeepsLinks
<1> QED BY <1>1, <1>2, <1>3, <1>4, <1>5, <1>6, <1>7, <1>8, <1>9, <1>10, <1>11 DEF Next

LEMMA LinksHold == ListsAssumption /\ LinksInv => ListsSound
<1> DEFINE Sound(h, s, n) ==
        /\ link[h] = IF s = <<>> THEN Null ELSE s[1]
        /\ \A i \in 1..n : link[s[i]] = IF i = n THEN Null ELSE s[i + 1]
        /\ h \in Slist => /\ last[h] = IF s = <<>> THEN Null ELSE s[n]
                          /\ slist_singular(h) <=> n = 1
        /\ h \in Hlist => /\ \A i \in 1..n : /\ pprev[s[i]] = IF i = 1 THEN h ELSE s[i - 1]
                                             /\ ~hlist_node_unlinked(s[i])
                          /\ hlist_singular(h) <=> n = 1
<1> SUFFICES ASSUME ListsAssumption, LinksInv, NEW h \in Live
             PROVE  Sound(h, members[h], Len(members[h]))
  BY Zenon DEF ListsSound
<1>0. SUFFICES ASSUME NEW s, s = members[h], NEW n, n = Len(s) PROVE Sound(h, s, n)
  OBVIOUS
<1>1. /\ At(h, 0) = h /\ h \in List /\ n \in Nat /\ Null \notin List \cup Node
      /\ s \in Seq(Node) /\ (s = <<>> <=> n = 0)
      /\ \A i \in 1..n : At(h, i) = s[i] /\ s[i] \in Node
      /\ \A i \in 0..n : At(h, i) \in List \cup Node
      /\ \A i \in 0..n : link[At(h, i)] = IF i = n THEN Null ELSE At(h, i + 1)
      /\ link[h] = Null <=> n = 0
      /\ h \in Slist => last[h] = IF n = 0 THEN Null ELSE At(h, n)
      /\ h \in Hlist => \A i \in 1..n : pprev[At(h, i)] = At(h, i - 1)
      /\ \A i, j \in 0..n : At(h, i) = At(h, j) => i = j
  <2>1. s \in Seq(Node) /\ (s = <<>> <=> n = 0)
    BY <1>0, Places
  <2>2. \A i \in 1..n : At(h, i) = s[i] /\ s[i] \in Node
    <3>1. \A i \in 1..n : At(h, i) = s[i]
      BY <1>0, Places
    <3>2. \A i \in 1..n : s[i] \in Node
      BY <1>0, <2>1
    <3> QED BY <3>1, <3>2
  <2>3. Null \notin List \cup Node
    BY DEF ListsAssumption
  <2> QED BY <1>0, <2>1, <2>2, <2>3, Cells, Places
<1>2. n /= 0 => 1 \in 1..n /\ n \in 1..n /\ 0 \in 0..n /\ 1 \in 0..n /\ n \in 0..n
  BY <1>1
<1>3. n /= 0 => link[h] = At(h, 1) /\ At(h, 1) = s[1]
  <2>1. n /= 0 => link[At(h, 0)] = At(h, 0 + 1)
    BY <1>1, <1>2
  <2>2. 0 + 1 = 1
    OBVIOUS
  <2> QED BY <1>1, <1>2, <2>1, <2>2
<1>4. link[h] = IF s = <<>> THEN Null ELSE s[1]
  BY <1>1, <1>3
<1>5. ASSUME NEW i \in 1..n PROVE link[s[i]] = IF i = n THEN Null ELSE s[i + 1]
  <2>1. i \in 0..n /\ (i /= n => i + 1 \in 1..n)
    BY <1>1
  <2> QED BY <1>1, <2>1
<1>6. ASSUME h \in Slist
      PROVE  /\ last[h] = IF s = <<>> THEN Null ELSE s[n]
             /\ slist_singular(h) <=> n = 1
  <2>1. last[h] = IF s = <<>> THEN Null ELSE s[n]
    BY <1>1, <1>2, <1>6
  <2>2. slist_singular(h) <=> link[h] /= Null /\ link[h] = last[h]
    BY DEF slist_singular, slist_empty
  <2>3. slist_singular(h) <=> n = 1
    <3>1. CASE n = 0
      BY <1>1, <2>2, <3>1
    <3>2. CASE n /= 0
      BY <1>1, <1>2, <1>3, <1>6, <2>2, <3>2
    <3> QED BY <3>1, <3>2
  <2> QED BY <2>1, <2>3
<1>7. ASSUME h \in Hlist
      PROVE  /\ \A i \in 1..n : /\ pprev[s[i]] = IF i = 1 THEN h ELSE s[i - 1]
                                /\ ~hlist_node_unlinked(s[i])
             /\ hlist_singular(h) <=> n = 1
  <2>1. ASSUME NEW i \in 1..n
        PROVE  /\ pprev[s[i]] = IF i = 1 THEN h ELSE s[i - 1]
               /\ ~hlist_node_unlinked(s[i])
    <3>1. i - 1 \in 0..n /\ (i = 1 => i - 1 = 0) /\ (i /= 1 => i - 1 \in 1..n)
      BY <1>1
    <3>2. pprev[s[i]] = At(h, i - 1)
      BY <1>1, <1>7
    <3> QED BY <1>1, <3>1, <3>2 DEF hlist_node_unlinked
  <2>2. hlist_singular(h) <=> link[h] /= Null /\ link[link[h]] = Null
    BY DEF hlist_singular, hlist_empty
  <2>3. hlist_singular(h) <=> n = 1
    <3>1. CASE n = 0
      BY <1>1, <2>2, <3>1
    <3>2. CASE n = 1
      BY <1>1, <1>2, <1>3, <2>2, <3>2
    <3>3. CASE n /= 0 /\ n /= 1
      <4>1. 1 + 1 \in 0..n /\ 1 \in 0..n
        BY <1>1, <3>3
      <4>2. link[At(h, 1)] = At(h, 1 + 1)
        BY <1>1, <3>3, <4>1
      <4> QED BY <1>1, <1>3, <2>2, <3>3, <4>1, <4>2
    <3> QED BY <3>1, <3>2, <3>3
  <2> QED BY <2>1, <2>3
<1> QED BY <1>4, <1>5, <1>6, <1>7

--------------------------------------------------------------------------------
(* The nodes that the reader can meet are in an order, that of the list    *)
(* for its members, and the links go forward in it, over no node that      *)
(* stays: after[x] are the nodes behind x.                                 *)

Met == Nodes(Shared) \cup during.removed

Ordered(after) ==
    /\ \A x \in Node : /\ after[x] \subseteq Met /\ x \notin after[x]
                       /\ x \notin Met => after[x] = {}
                       /\ \A y \in after[x] : after[y] \subseteq after[x]
    /\ \A x, y \in Met : x = y \/ x \in after[y] \/ y \in after[x]
    /\ \A i, j \in DOMAIN members[Shared] :
           i < j => members[Shared][j] \in after[members[Shared][i]]

Forward(after) ==
    \A x \in Met :
        /\ link[x] /= Null => link[x] \in after[x]
        /\ \A z \in during.stays \cap after[x] :
               link[x] /= Null /\ (z = link[x] \/ z \in after[link[x]])

Follows(after) ==
    /\ ToSet(reader.seen) \subseteq Met
    /\ \A i, j \in DOMAIN reader.seen : i < j => reader.seen[j] \in after[reader.seen[i]]
    /\ reader.at /= Null => /\ reader.at \in Met
                            /\ \A y \in ToSet(reader.seen) : reader.at \in after[y]
    /\ \A z \in during.stays :
           \/ z \in ToSet(reader.seen)
           \/ reader.at /= Null /\ (z = reader.at \/ z \in after[reader.at])

ReadInv ==
    Reading =>
        /\ Shared \in Live /\ during.stays \subseteq Nodes(Shared)
        /\ during.removed \cap Used = {}
        /\ \E after \in [Node -> SUBSET Node] : Ordered(after) /\ Forward(after) /\ Follows(after)

(* The reader is right as long as there is such an order. *)
LEMMA ReadHold == ListsAssumption /\ LinksInv /\ ReadInv => ReaderSound
<1> SUFFICES ASSUME ListsAssumption, LinksInv, ReadInv, Reading
             PROVE  /\ IsInjective(reader.seen)
                    /\ reader.at = Null => during.stays \subseteq ToSet(reader.seen)
                    /\ ToSet(reader.seen) \subseteq Nodes(Shared) \cup during.removed
                    /\ \A i, j \in DOMAIN reader.seen : \A m, n \in DOMAIN members[Shared] :
                           /\ i < j
                           /\ reader.seen[i] = members[Shared][m]
                           /\ reader.seen[j] = members[Shared][n]
                           => m < n
  BY DEF ReaderSound
<1>1. PICK after \in [Node -> SUBSET Node] : Ordered(after) /\ Forward(after) /\ Follows(after)
  BY DEF ReadInv
<1>2. PICK d : reader.seen \in Seq(Node) /\ d = Len(reader.seen) /\ d \in Nat
               /\ DOMAIN reader.seen = 1..d
  BY DEF LinksInv, Types
<1>3. /\ \A x \in Node : x \notin after[x] /\ \A y \in after[x] : after[y] \subseteq after[x]
      /\ \A i, j \in DOMAIN members[Shared] :
             i < j => members[Shared][j] \in after[members[Shared][i]]
  BY <1>1 DEF Ordered
<1>4. /\ \A i, j \in 1..d : i < j => reader.seen[j] \in after[reader.seen[i]]
      /\ \A i \in 1..d : reader.seen[i] \in Node
  BY <1>1, <1>2 DEF Follows
<1>5. \A i, j \in 1..d : i < j => reader.seen[i] /= reader.seen[j]
  BY <1>3, <1>4
<1>6. IsInjective(reader.seen)
  BY <1>2, <1>5 DEF IsInjective
<1>7. /\ reader.at = Null => during.stays \subseteq ToSet(reader.seen)
      /\ ToSet(reader.seen) \subseteq Nodes(Shared) \cup during.removed
  BY <1>1 DEF Follows, Met
<1>8. ASSUME NEW i \in 1..d, NEW j \in 1..d,
             NEW m \in DOMAIN members[Shared], NEW n \in DOMAIN members[Shared],
             i < j, reader.seen[i] = members[Shared][m], reader.seen[j] = members[Shared][n]
      PROVE  m < n
  <2>1. DOMAIN members[Shared] \subseteq Nat
    <3>1. DOMAIN members[Shared] = 1..Len(members[Shared]) /\ Len(members[Shared]) \in Nat
      BY Places DEF ReadInv
    <3> QED BY <3>1
  <2>2. m \in Nat /\ n \in Nat /\ reader.seen[i] \in Node /\ reader.seen[j] \in Node
    BY <1>4, <2>1
  <2>3. reader.seen[j] \in after[reader.seen[i]] /\ reader.seen[i] /= reader.seen[j]
    BY <1>4, <1>5, <1>8
  <2>4. ~(n < m)
    <3> SUFFICES ASSUME n < m PROVE FALSE
      OBVIOUS
    <3>1. reader.seen[i] \in after[reader.seen[j]]
      BY <1>3, <1>8
    <3> QED BY <1>3, <2>2, <2>3, <3>1
  <2>5. m /= n
    BY <1>8, <2>3
  <2> QED BY <2>2, <2>4, <2>5
<1> QED BY <1>2, <1>6, <1>7, <1>8

(* Steps elsewhere. *)
LEMMA ReadFrame ==
    ASSUME ReadInv, UNCHANGED <<reader, during>>,
           Reading => /\ members'[Shared] = members[Shared] /\ Shared \in Live'
                      /\ \A x \in Met : link'[x] = link[x]
                      /\ during.removed \cap Used' = {}
    PROVE  ReadInv'
<1> SUFFICES ASSUME Reading
             PROVE  (/\ Shared \in Live /\ during.stays \subseteq Nodes(Shared)
                     /\ during.removed \cap Used = {}
                     /\ \E after \in [Node -> SUBSET Node] :
                            Ordered(after) /\ Forward(after) /\ Follows(after))'
  BY DEF ReadInv, Reading
<1>1. PICK after \in [Node -> SUBSET Node] : Ordered(after) /\ Forward(after) /\ Follows(after)
  BY DEF ReadInv
<1>2. /\ Nodes(Shared)' = Nodes(Shared) /\ Met' = Met /\ reader' = reader /\ during' = during
      /\ members'[Shared] = members[Shared] /\ \A x \in Met : link'[x] = link[x]
  BY DEF Nodes, Met
<1>3. Ordered(after)'
  BY <1>1, <1>2 DEF Ordered
<1>4. Forward(after)'
  BY <1>1, <1>2 DEF Forward
<1>5. Follows(after)'
  BY <1>1, <1>2 DEF Follows
<1>6. (Shared \in Live /\ during.stays \subseteq Nodes(Shared) /\ during.removed \cap Used = {})'
  BY <1>2 DEF ReadInv
<1> QED BY <1>3, <1>4, <1>5, <1>6

(* The reader goes on. *)
LEMMA ReadNext ==
    ASSUME ListsAssumption, LinksInv, ReadInv, rcu_next
    PROVE  ReadInv'
<1>1. PICK after \in [Node -> SUBSET Node] : Ordered(after) /\ Forward(after) /\ Follows(after)
  BY DEF ReadInv, rcu_next
<1>2. PICK x, s : x = reader.at /\ s = reader.seen
  OBVIOUS
<1>3. /\ reader'.at = link[x] /\ reader'.seen = Append(s, x) /\ Reading /\ x /= Null
      /\ UNCHANGED <<link, last, pprev, members, during>>
  BY <1>2 DEF rcu_next
<1>4. s \in Seq(Node) /\ x \in Met /\ Met \subseteq Node
  <2>1. reader.seen \in Seq(Node) /\ during.removed \subseteq Node
    BY DEF LinksInv, Types
  <2>2. Nodes(Shared) \subseteq Node
    BY <1>3, Places DEF ReadInv
  <2> QED BY <1>1, <1>2, <1>3, <2>1, <2>2 DEF Follows, Met
<1>5. PICK d \in Nat : d = Len(s) /\ DOMAIN s = 1..d
  BY <1>4
<1>6. /\ DOMAIN Append(s, x) = 1..(d + 1) /\ Append(s, x)[d + 1] = x
      /\ \A i \in 1..d : Append(s, x)[i] = s[i]
      /\ \A i \in 1..(d + 1) : i \in 1..d \/ i = d + 1
  BY <1>4, <1>5
<1>7. ToSet(Append(s, x)) = ToSet(s) \cup {x}
  BY <1>5, <1>6 DEF ToSet
<1>8. /\ \A y \in Node : \A z \in after[y] : after[z] \subseteq after[y]
      /\ link[x] /= Null => link[x] \in after[x]
      /\ \A z \in during.stays \cap after[x] :
             link[x] /= Null /\ (z = link[x] \/ z \in after[link[x]])
      /\ after[x] \subseteq Met
  BY <1>1, <1>4 DEF Ordered, Forward
<1>9. /\ ToSet(s) \subseteq Met /\ \A y \in ToSet(s) : x \in after[y]
      /\ \A i, j \in DOMAIN s : i < j => s[j] \in after[s[i]]
      /\ \A z \in during.stays : z \in ToSet(s) \/ z = x \/ z \in after[x]
  BY <1>1, <1>2, <1>3 DEF Follows
<1>10. Follows(after)'
  <2>1. Met' = Met /\ during' = during
    BY <1>3 DEF Met, Nodes
  <2>2. ToSet(reader'.seen) \subseteq Met
    BY <1>3, <1>4, <1>7, <1>9
  <2>3. ASSUME NEW i \in 1..(d + 1), NEW j \in 1..(d + 1), i < j
        PROVE  Append(s, x)[j] \in after[Append(s, x)[i]]
    <3>1. i \in 1..d
      BY <2>3
    <3>2. CASE j \in 1..d
      BY <1>5, <1>6, <1>9, <2>3, <3>1, <3>2
    <3>3. CASE j = d + 1
      <4>1. s[i] \in ToSet(s)
        BY <1>5, <3>1 DEF ToSet
      <4> QED BY <1>6, <1>9, <3>1, <3>3, <4>1
    <3> QED BY <1>6, <3>2, <3>3
  <2>4. \A y \in ToSet(Append(s, x)) : link[x] /= Null => link[x] \in after[y]
    BY <1>4, <1>7, <1>8, <1>9
  <2>5. link[x] /= Null => link[x] \in Met
    BY <1>8
  <2>6. \A z \in during.stays :
            \/ z \in ToSet(Append(s, x))
            \/ link[x] /= Null /\ (z = link[x] \/ z \in after[link[x]])
    BY <1>7, <1>8, <1>9
  <2> QED BY <1>3, <1>6, <2>1, <2>2, <2>3, <2>4, <2>5, <2>6 DEF Follows
<1>11. Ordered(after)' /\ Forward(after)'
  <2>1. Met' = Met
    BY <1>3 DEF Met, Nodes
  <2> QED BY <1>1, <1>3, <2>1 DEF Ordered, Forward
<1>12. (Shared \in Live /\ during.stays \subseteq Nodes(Shared) /\ during.removed \cap Used = {})'
  BY <1>3 DEF ReadInv, Live, Nodes, Used
<1> QED BY <1>10, <1>11, <1>12 DEF ReadInv

(* At the beginning the order is that of the list. *)
LEMMA ReadEnter ==
    ASSUME ListsAssumption, LinksInv, Enter
    PROVE  ReadInv'
<1>1. /\ Shared \in Live /\ reader' = [at |-> link[Shared], seen |-> <<>>]
      /\ during' = [stays |-> Nodes(Shared), removed |-> {}]
      /\ UNCHANGED <<link, last, pprev, members>>
  BY DEF Enter
<1>2. PICK s, n : s = members[Shared] /\ n = Len(s)
  OBVIOUS
<1>3. /\ s \in Seq(Node) /\ n \in Nat /\ DOMAIN s = 1..n
      /\ \A i \in 1..n : At(Shared, i) = s[i] /\ s[i] \in Nodes(Shared)
      /\ \A x \in Nodes(Shared) : \E i \in 1..n : x = s[i]
      /\ Nodes(Shared) \subseteq Node
      /\ \A i, j \in 1..n : s[i] = s[j] => i = j
  <2>1. /\ \A i \in 1..n : At(Shared, i) = s[i] /\ At(Shared, i) \in Nodes(Shared)
        /\ \A x \in Nodes(Shared) : \E i \in 1..n : x = At(Shared, i)
        /\ s \in Seq(Node) /\ n \in Nat /\ DOMAIN s = 1..n /\ Nodes(Shared) \subseteq Node
    BY <1>1, <1>2, Places
  <2>2. IsInjective(s)
    BY <1>1, <1>2 DEF LinksInv, Chain
  <2> QED BY <2>1, <2>2 DEF IsInjective
<1>4. /\ \A i \in 1..n : link[s[i]] = IF i = n THEN Null ELSE s[i + 1]
      /\ n = 0 => link[Shared] = Null
      /\ n /= 0 => link[Shared] = s[1]
  <2>1. /\ \A i \in 0..n : link[At(Shared, i)] = IF i = n THEN Null ELSE At(Shared, i + 1)
        /\ At(Shared, 0) = Shared
    BY <1>1, <1>2, Cells
  <2>2. \A i \in 1..n : i \in 0..n /\ (i /= n => i + 1 \in 1..n)
    BY <1>3
  <2>3. \A i \in 1..n : link[s[i]] = IF i = n THEN Null ELSE s[i + 1]
    BY <1>3, <2>1, <2>2
  <2>4. 0 \in 0..n /\ (n /= 0 => 1 \in 1..n) /\ 0 + 1 = 1
    BY <1>3
  <2>5. link[Shared] = IF 0 = n THEN Null ELSE At(Shared, 1)
    BY <2>1, <2>4
  <2> QED BY <1>3, <2>3, <2>4, <2>5
<1>5. PICK after \in [Node -> SUBSET Node] :
          \A x \in Node : after[x] = {y \in Node : \E i, j \in 1..n : i < j /\ x = s[i] /\ y = s[j]}
  <2> DEFINE f == [x \in Node |->
                      {y \in Node : \E i, j \in 1..n : i < j /\ x = s[i] /\ y = s[j]}]
  <2>1. \A x \in Node :
            f[x] = {y \in Node : \E i, j \in 1..n : i < j /\ x = s[i] /\ y = s[j]}
    OBVIOUS
  <2>2. f \in [Node -> SUBSET Node]
    OBVIOUS
  <2> HIDE DEF f
  <2> QED BY <2>1, <2>2
<1>6. ASSUME NEW x \in Node, NEW y \in Node
      PROVE  y \in after[x] <=> \E i, j \in 1..n : i < j /\ x = s[i] /\ y = s[j]
  BY <1>5
<1>7. /\ Met' = Nodes(Shared) /\ Nodes(Shared)' = Nodes(Shared)
      /\ reader'.at = link[Shared] /\ reader'.seen = <<>>
      /\ during'.stays = Nodes(Shared) /\ during'.removed = {}
  BY <1>1 DEF Met, Nodes
<1>8. Ordered(after)'
  <2>1. ASSUME NEW x \in Node
        PROVE  /\ after[x] \subseteq Nodes(Shared) /\ x \notin after[x]
               /\ x \notin Nodes(Shared) => after[x] = {}
               /\ \A y \in after[x] : after[y] \subseteq after[x]
    <3>1. after[x] \subseteq Node
      BY <1>5
    <3>2. after[x] \subseteq Nodes(Shared)
      BY <1>3, <1>6, <3>1
    <3>3. x \notin after[x]
      <4> SUFFICES ASSUME x \in after[x] PROVE FALSE
        OBVIOUS
      <4>1. PICK i, j \in 1..n : i < j /\ x = s[i] /\ x = s[j]
        BY <1>6
      <4>2. i = j
        BY <1>3, <4>1
      <4> QED BY <4>1, <4>2
    <3>4. x \notin Nodes(Shared) => after[x] = {}
      BY <1>3, <1>6, <3>1
    <3>5. ASSUME NEW y \in after[x], NEW z \in after[y] PROVE z \in after[x]
      <4>1. y \in Node /\ z \in Node
        BY <1>5, <3>1
      <4>2. PICK i, j \in 1..n : i < j /\ x = s[i] /\ y = s[j]
        BY <1>6, <4>1
      <4>3. PICK p, q \in 1..n : p < q /\ y = s[p] /\ z = s[q]
        BY <1>6, <3>5, <4>1
      <4>4. j = p
        BY <1>3, <4>2, <4>3
      <4>5. i < q
        BY <4>2, <4>3, <4>4
      <4> QED BY <1>6, <4>1, <4>2, <4>3, <4>5
    <3> QED BY <3>2, <3>3, <3>4, <3>5
  <2>2. ASSUME NEW x \in Nodes(Shared), NEW y \in Nodes(Shared)
        PROVE  x = y \/ x \in after[y] \/ y \in after[x]
    <3>1. PICK i \in 1..n, j \in 1..n : x = s[i] /\ y = s[j]
      BY <1>3
    <3>2. i < j \/ j < i \/ i = j
      BY <1>3
    <3> QED BY <1>3, <1>6, <3>1, <3>2
  <2>3. \A i, j \in 1..n : i < j => s[j] \in after[s[i]]
    BY <1>3, <1>6
  <2> QED BY <1>1, <1>2, <1>3, <1>7, <2>1, <2>2, <2>3 DEF Ordered
<1>9. Forward(after)'
  <2>1. ASSUME NEW x \in Nodes(Shared), link[x] /= Null PROVE link[x] \in after[x]
    <3>1. PICK i \in 1..n : x = s[i]
      BY <1>3
    <3>2. i /= n /\ link[x] = s[i + 1]
      BY <1>4, <2>1, <3>1
    <3>3. i + 1 \in 1..n /\ i < i + 1
      BY <1>3, <3>2
    <3> QED BY <1>3, <1>6, <3>1, <3>2, <3>3
  <2>2. ASSUME NEW x \in Nodes(Shared), NEW z \in after[x]
        PROVE  link[x] /= Null /\ (z = link[x] \/ z \in after[link[x]])
    <3>0. z \in Node /\ x \in Node
      BY <1>3, <1>5
    <3>1. PICK i, j \in 1..n : i < j /\ x = s[i] /\ z = s[j]
      BY <1>6, <3>0
    <3>2. i /= n /\ i + 1 \in 1..n /\ (j = i + 1 \/ i + 1 < j)
      BY <1>3, <3>1
    <3>3. link[x] = s[i + 1] /\ s[i + 1] \in Node
      BY <1>3, <1>4, <3>1, <3>2
    <3> QED BY <1>6, <3>0, <3>1, <3>2, <3>3 DEF ListsAssumption
  <2> QED BY <1>1, <1>7, <2>1, <2>2 DEF Forward
<1>10. Follows(after)'
  <2>1. ToSet(<<>>) = {} /\ DOMAIN <<>> = {}
    BY DEF ToSet
  <2>2. ASSUME NEW z \in Nodes(Shared)
        PROVE  link[Shared] /= Null /\ (z = link[Shared] \/ z \in after[link[Shared]])
    <3>1. PICK i \in 1..n : z = s[i]
      BY <1>3
    <3>2. n /= 0 /\ 1 \in 1..n /\ (i = 1 \/ 1 < i)
      BY <1>3
    <3> QED BY <1>3, <1>4, <1>6, <3>1, <3>2 DEF ListsAssumption
  <2>3. link[Shared] /= Null => link[Shared] \in Nodes(Shared)
    <3>1. n /= 0 => 1 \in 1..n
      BY <1>3
    <3> QED BY <1>3, <1>4, <3>1
  <2> QED BY <1>7, <2>1, <2>2, <2>3 DEF Follows
<1>11. (Shared \in Live /\ during.stays \subseteq Nodes(Shared) /\ during.removed \cap Used = {})'
  BY <1>1, <1>7 DEF Live
<1> QED BY <1>8, <1>9, <1>10, <1>11 DEF ReadInv

(* Where nobody reads, nothing is said. *)
LEMMA NotRead ==
    ASSUME ~Reading, UNCHANGED reader
    PROVE  ReadInv'
  BY DEF ReadInv, Reading

(* What the reader can meet. *)
LEMMA MetSound ==
    ASSUME ListsAssumption, LinksInv, ReadInv, Reading
    PROVE  /\ Met \subseteq Node /\ Shared \in Live /\ during.stays \subseteq Nodes(Shared)
           /\ during.removed \cap Used = {} /\ Nodes(Shared) \subseteq Node
           /\ during.stays \subseteq Met
<1>1. Shared \in Live /\ during.stays \subseteq Nodes(Shared) /\ during.removed \cap Used = {}
  BY DEF ReadInv
<1>2. during.removed \subseteq Node
  BY DEF LinksInv, Types
<1>3. Nodes(Shared) \subseteq Node
  BY <1>1, Places
<1> QED BY <1>1, <1>2, <1>3 DEF Met

(* Insertion into another list. *)
LEMMA InsertElsewhere ==
    ASSUME ListsAssumption, LinksInv, ReadInv, NEW h, NEW k, NEW x, InsertsAt(h, k, x),
           h /= Shared
    PROVE  ReadInv'
<1> SUFFICES ASSUME Reading PROVE ReadInv'
  <2>1. UNCHANGED reader
    BY DEF InsertsAt
  <2> QED BY <2>1, NotRead
<1>1. /\ h \in Live /\ x \in Free /\ k \in 0..Len(members[h])
      /\ link' = [c \in List \cup Node |->
                     IF c = x THEN link[At(h, k)] ELSE IF c = At(h, k) THEN x ELSE link[c]]
      /\ UNCHANGED <<reader, during>>
  BY DEF InsertsAt
<1>2. /\ Nodes(h)' = Nodes(h) \cup {x} /\ Live' = Live
      /\ \A g \in Live : g /= h => members'[g] = members[g]
  <2>1. PICK n : n = Len(members[h])
    OBVIOUS
  <2> QED BY <2>1, InsertPlaces
<1>3. /\ Met \subseteq Node /\ Shared \in Live /\ during.removed \cap Used = {}
  BY MetSound
<1>4. x \notin Used /\ x \notin during.removed /\ Nodes(Shared) \subseteq Used
  BY <1>1, <1>3, Places DEF Free
<1>5. At(h, k) \notin Met
  <2>1. (k = 0 /\ At(h, k) = h) \/ At(h, k) \in Nodes(h)
    BY <1>1, Places DEF At
  <2>2. h \notin Met /\ Nodes(h) \subseteq Used /\ Nodes(h) \cap Nodes(Shared) = {}
    BY <1>1, <1>3, Places DEF ListsAssumption, LinksInv, Apart
  <2> QED BY <1>3, <2>1, <2>2 DEF Met
<1>6. \A y \in Met : link'[y] = link[y]
  BY <1>1, <1>3, <1>4, <1>5 DEF Met
<1>7. Used' \subseteq Used \cup {x}
  BY <1>2 DEF Used, Nodes
<1>8. /\ members'[Shared] = members[Shared] /\ Shared \in Live'
      /\ during.removed \cap Used' = {} /\ UNCHANGED <<reader, during>>
  BY <1>1, <1>2, <1>3, <1>4, <1>7
<1> QED BY <1>6, <1>8, ReadFrame

(* Removal from another list. *)
LEMMA RemoveElsewhere ==
    ASSUME ListsAssumption, LinksInv, ReadInv, NEW h, NEW k, NEW x, RemovesAt(h, k, x),
           h /= Shared
    PROVE  ReadInv'
<1> SUFFICES ASSUME Reading PROVE ReadInv'
  <2>1. UNCHANGED reader
    BY DEF RemovesAt
  <2> QED BY <2>1, NotRead
<1>1. /\ h \in Live /\ k \in 0..(Len(members[h]) - 1)
      /\ link' = [link EXCEPT ![At(h, k)] = link[x]]
      /\ UNCHANGED <<reader, during>>
  BY DEF RemovesAt
<1>2. /\ Nodes(h)' = Nodes(h) \ {x} /\ Live' = Live
      /\ \A g \in Live : g /= h => members'[g] = members[g]
  BY RemovePlaces
<1>3. /\ Met \subseteq Node /\ Shared \in Live /\ during.removed \cap Used = {}
  BY MetSound
<1>4. k \in 0..Len(members[h])
  <2>1. Len(members[h]) \in Nat
    BY <1>1, Places
  <2> QED BY <1>1, <2>1
<1>5. At(h, k) \notin Met
  <2>1. (k = 0 /\ At(h, k) = h) \/ At(h, k) \in Nodes(h)
    BY <1>1, <1>4, Places DEF At
  <2>2. h \notin Met /\ Nodes(h) \subseteq Used /\ Nodes(h) \cap Nodes(Shared) = {}
    BY <1>1, <1>3, Places DEF ListsAssumption, LinksInv, Apart
  <2> QED BY <1>3, <2>1, <2>2 DEF Met
<1>6. \A y \in Met : link'[y] = link[y]
  BY <1>1, <1>3, <1>5 DEF LinksInv, Types
<1>7. Used' \subseteq Used
  BY <1>2 DEF Used, Nodes
<1> QED BY <1>1, <1>2, <1>3, <1>6, <1>7, ReadFrame

(* Steps that change links of lists only, and neither the nodes that are   *)
(* used nor the shared list while it is read.                              *)
LEMMA QuietKeeps ==
    ASSUME ListsAssumption, LinksInv, ReadInv, UNCHANGED <<reader, during>>,
           Reading => /\ members'[Shared] = members[Shared] /\ Shared \in Live'
                      /\ \A y \in Met : link'[y] = link[y]
                      /\ Used' \subseteq Used
    PROVE  ReadInv'
<1>1. CASE Reading
  BY <1>1, MetSound, ReadFrame
<1>2. CASE ~Reading
  BY <1>2, NotRead
<1> QED BY <1>1, <1>2

(* The operations on whole lists leave the one that is read alone. *)
LEMMA EmptyReads ==
    ASSUME ListsAssumption, LinksInv, ReadInv, NEW h \in List, Emptied(h),
           link' = [link EXCEPT ![h] = Null]
    PROVE  ReadInv'
<1>1. /\ h \notin Live /\ members' = [members EXCEPT ![h] = <<>>]
      /\ UNCHANGED <<reader, during>>
  BY DEF Emptied
<1>2. /\ members'[h] = <<>> /\ \A g \in List : g /= h => members'[g] = members[g]
      /\ link \in [List \cup Node -> Node \cup {Null}]
  BY <1>1 DEF LinksInv, Types
<1>3. Used' \subseteq Used
  <2>1. ToSet(<<>>) = {}
    BY DEF ToSet
  <2>2. Nodes(h)' = {}
    BY <1>2, <2>1 DEF Nodes
  <2>3. \A g \in Live' : g = h \/ (g \in Live /\ Nodes(g)' = Nodes(g))
    BY <1>2 DEF Live, Nodes
  <2> QED BY <2>2, <2>3 DEF Used
<1>4. ASSUME Reading
      PROVE  /\ members'[Shared] = members[Shared] /\ Shared \in Live'
             /\ \A y \in Met : link'[y] = link[y]
  <2>1. Shared \in Live /\ Met \subseteq Node /\ Shared \in List /\ h \notin Node
    BY <1>4, MetSound DEF ListsAssumption
  <2>2. members'[Shared] = members[Shared] /\ Shared \in Live'
    BY <1>1, <1>2, <2>1 DEF Live
  <2> QED BY <1>2, <2>1, <2>2
<1> QED BY <1>1, <1>3, <1>4, QuietKeeps

LEMMA MoveReads ==
    ASSUME ListsAssumption, LinksInv, ReadInv, NEW new \in List, NEW old \in List,
           Moved(new, old), link' = [link EXCEPT ![new] = link[old]]
    PROVE  ReadInv'
<1>1. /\ new /= old /\ old \in Live /\ Quiet(new) /\ Quiet(old)
      /\ members' = [members EXCEPT ![new] = members[old], ![old] = Stale]
      /\ UNCHANGED <<reader, during>>
  BY DEF Moved
<1>2. /\ members'[new] = members[old] /\ members'[old] = Stale
      /\ \A g \in List : g \notin {new, old} => members'[g] = members[g]
      /\ link \in [List \cup Node -> Node \cup {Null}]
  BY <1>1 DEF LinksInv, Types
<1>3. Used' \subseteq Used
  <2>1. Nodes(new)' = Nodes(old) /\ old \notin Live'
    BY <1>2 DEF Nodes, Live
  <2>2. \A g \in Live' : g = new \/ (g \in Live /\ Nodes(g)' = Nodes(g))
    BY <1>2, <2>1 DEF Live, Nodes
  <2> QED BY <1>1, <2>1, <2>2 DEF Used
<1>4. ASSUME Reading
      PROVE  /\ members'[Shared] = members[Shared] /\ Shared \in Live'
             /\ \A y \in Met : link'[y] = link[y]
  <2>1. Shared \in Live /\ Met \subseteq Node /\ Shared \in List /\ new \notin Node
    BY <1>4, MetSound DEF ListsAssumption
  <2>2. Shared \notin {new, old}
    BY <1>1, <1>4 DEF Quiet
  <2>3. members'[Shared] = members[Shared] /\ Shared \in Live'
    BY <1>2, <2>1, <2>2 DEF Live
  <2> QED BY <1>2, <2>1, <2>3
<1> QED BY <1>1, <1>3, <1>4, QuietKeeps

LEMMA ConcatReads ==
    ASSUME ListsAssumption, LinksInv, ReadInv, NEW f \in Slist, NEW h \in Slist,
           slist_concat(f, h)
    PROVE  ReadInv'
<1>1. /\ f /= h /\ f \in Live /\ h \in Live /\ Quiet(f) /\ Quiet(h)
      /\ link' = [link EXCEPT ![IF link[f] = Null THEN f ELSE last[f]] = link[h]]
      /\ members' = [members EXCEPT ![f] = @ \o members[h], ![h] = Stale]
      /\ UNCHANGED <<reader, during>>
  BY DEF slist_concat, slist_empty
<1>2. /\ members'[f] = members[f] \o members[h] /\ members'[h] = Stale
      /\ \A g \in List : g \notin {f, h} => members'[g] = members[g]
      /\ link \in [List \cup Node -> Node \cup {Null}]
      /\ members[f] \in Seq(Node) /\ members[h] \in Seq(Node)
      /\ IsInjective(members[f]) /\ IsInjective(members[h])
      /\ ToSet(members[f]) \cap ToSet(members[h]) = {}
  <2>1. f \in List /\ h \in List
    BY DEF List
  <2>2. ToSet(members[f]) \cap ToSet(members[h]) = {}
    BY <1>1 DEF LinksInv, Apart, Nodes
  <2>3. IsInjective(members[f]) /\ IsInjective(members[h])
    BY <1>1 DEF LinksInv, Chain
  <2>4. members[f] \in Seq(Node) /\ members[h] \in Seq(Node)
    BY <1>1, Places
  <2> QED BY <1>1, <2>1, <2>2, <2>3, <2>4 DEF LinksInv, Types
<1>3. Used' \subseteq Used
  <2>1. ToSet(members[f] \o members[h]) = ToSet(members[f]) \cup ToSet(members[h])
    BY <1>2, ConcatSound
  <2>2. Nodes(f)' = Nodes(f) \cup Nodes(h) /\ h \notin Live'
    BY <1>2, <2>1 DEF Nodes, Live
  <2>3. \A g \in Live' : g = f \/ (g \in Live /\ Nodes(g)' = Nodes(g))
    BY <1>2, <2>2 DEF Live, Nodes
  <2> QED BY <1>1, <2>2, <2>3 DEF Used
<1>4. ASSUME Reading
      PROVE  /\ members'[Shared] = members[Shared] /\ Shared \in Live'
             /\ \A y \in Met : link'[y] = link[y]
  <2>1. /\ Shared \in Live /\ Met \subseteq Node /\ Shared \in List /\ f \notin Met
        /\ during.removed \cap Used = {}
    <3>1. f \notin Node
      BY DEF ListsAssumption, List
    <3> QED BY <1>4, <3>1, MetSound DEF ListsAssumption
  <2>2. Shared \notin {f, h}
    BY <1>1, <1>4 DEF Quiet
  <2>3. members'[Shared] = members[Shared] /\ Shared \in Live'
    BY <1>2, <2>1, <2>2 DEF Live
  <2>4. (IF link[f] = Null THEN f ELSE last[f]) \notin Met
    <3>1. PICK m : m = Len(members[f])
      OBVIOUS
    <3>2. /\ m \in Nat /\ (link[f] = Null <=> m = 0)
          /\ last[f] = IF m = 0 THEN Null ELSE At(f, m)
          /\ \A i \in 1..m : At(f, i) \in Nodes(f)
      BY <1>1, <3>1, Cells, Places
    <3>3. m /= 0 => last[f] \in Nodes(f)
      <4>1. m /= 0 => m \in 1..m
        BY <3>2
      <4> QED BY <3>2, <4>1
    <3>4. Nodes(f) \cap Nodes(Shared) = {} /\ Nodes(f) \subseteq Used
      BY <1>1, <2>1, <2>2, Places DEF LinksInv, Apart
    <3> QED BY <2>1, <3>2, <3>3, <3>4 DEF Met
  <2> QED BY <1>1, <1>2, <2>1, <2>3, <2>4
<1> QED BY <1>1, <1>3, <1>4, QuietKeeps

LEMMA NodeInitReads ==
    ASSUME ListsAssumption, LinksInv, ReadInv, NEW x \in Node, hlist_node_init(x)
    PROVE  ReadInv'
<1>1. UNCHANGED <<link, last, members, reader, during>>
  BY DEF hlist_node_init
<1>2. Used' = Used /\ Live' = Live
  BY <1>1 DEF Used, Live, Nodes
<1>3. Reading => Shared \in Live
  BY DEF ReadInv
<1> QED BY <1>1, <1>2, <1>3, QuietKeeps

(* Where a node is inserted the order is parted. *)
Parts(after, k, pre, post) ==
    LET l == At(Shared, k) IN
    /\ pre \subseteq Met /\ post \subseteq Met
    /\ pre \cap post = {} /\ Met \subseteq pre \cup post
    /\ \A y \in pre, z \in Met : y \in after[z] => z \in pre
    /\ \A y \in pre : post \subseteq after[y]
    /\ \A y \in post : after[y] \subseteq post
    /\ \A i \in 1..Len(members[Shared]) : IF i <= k THEN members[Shared][i] \in pre
                                           ELSE members[Shared][i] \in post
    /\ link[l] /= Null => link[l] \in post
    /\ \A z \in during.stays \cap post :
           link[l] /= Null /\ (z = link[l] \/ z \in after[link[l]])
    /\ (l \in pre /\ after[l] \subseteq post) \/ l \notin Met

LEMMA Parted ==
    ASSUME ListsAssumption, LinksInv, ReadInv, Reading,
           NEW after \in [Node -> SUBSET Node], Ordered(after), Forward(after),
           NEW k \in 0..Len(members[Shared])
    PROVE  \E pre, post : Parts(after, k, pre, post)
<1>0. PICK n, l : n = Len(members[Shared]) /\ l = At(Shared, k) /\ k \in 0..n
  OBVIOUS
<1>1. /\ Met \subseteq Node /\ Shared \in Live /\ during.stays \subseteq Nodes(Shared)
      /\ Nodes(Shared) \subseteq Met
  BY MetSound DEF Met
<1>2. PICK s : s = members[Shared]
  OBVIOUS
<1>3. /\ n \in Nat /\ s \in Seq(Node) /\ DOMAIN s = 1..n
      /\ \A i \in 1..n : At(Shared, i) = s[i] /\ s[i] \in Nodes(Shared)
      /\ \A y \in Nodes(Shared) : \E i \in 1..n : y = s[i]
      /\ \A i \in 0..n : link[At(Shared, i)] = IF i = n THEN Null ELSE At(Shared, i + 1)
      /\ At(Shared, 0) = Shared /\ Shared \notin Node
  <2>1. /\ n \in Nat /\ s \in Seq(Node) /\ DOMAIN s = 1..n
        /\ \A i \in 1..n : At(Shared, i) = s[i]
        /\ \A i \in 1..n : At(Shared, i) \in Nodes(Shared)
        /\ \A y \in Nodes(Shared) : \E i \in 1..n : y = At(Shared, i)
    BY <1>0, <1>1, <1>2, Places
  <2>2. /\ \A i \in 0..n : link[At(Shared, i)] = IF i = n THEN Null ELSE At(Shared, i + 1)
        /\ At(Shared, 0) = Shared /\ Shared \notin Node
    BY <1>0, <1>1, Cells
  <2> QED BY <2>1, <2>2
<1>4. /\ \A y \in Met : after[y] \subseteq Met /\ y \notin after[y]
      /\ \A y \in Met : \A z \in after[y] : after[z] \subseteq after[y]
      /\ \A y, z \in Met : y = z \/ y \in after[z] \/ z \in after[y]
      /\ \A i, j \in 1..n : i < j => s[j] \in after[s[i]]
  BY <1>1, <1>2, <1>3 DEF Ordered
<1>5. \A y \in Met : /\ link[y] /= Null => link[y] \in after[y]
                     /\ \A z \in during.stays \cap after[y] :
                            link[y] /= Null /\ (z = link[y] \/ z \in after[link[y]])
  BY DEF Forward
<1>6. CASE k = 0
  <2>1. l = Shared /\ l \notin Met
    BY <1>0, <1>1, <1>3, <1>6
  <2>2. \A i \in 1..n : ~(i <= k) /\ members[Shared][i] \in Met
    BY <1>1, <1>2, <1>3, <1>6
  <2>3. /\ n /= 0 => link[l] = s[1] /\ s[1] \in Met /\ link[l] /= Null
        /\ n = 0 => link[l] = Null
    <3>1. 0 \in 0..n /\ (n /= 0 => 1 \in 1..n) /\ 0 + 1 = 1
      BY <1>3
    <3>2. link[l] = IF 0 = n THEN Null ELSE At(Shared, 0 + 1)
      BY <1>3, <2>1, <3>1
    <3> QED BY <1>1, <1>3, <3>1, <3>2 DEF ListsAssumption
  <2>4. ASSUME NEW z \in during.stays
        PROVE  link[l] /= Null /\ (z = link[l] \/ z \in after[link[l]])
    <3>1. PICK i \in 1..n : z = s[i]
      BY <1>1, <1>3
    <3>2. n /= 0 /\ 1 \in 1..n /\ (i = 1 \/ 1 < i)
      BY <1>3
    <3> QED BY <1>4, <2>3, <3>1, <3>2
  <2>5. PICK pre, post : pre = {} /\ post = Met
    OBVIOUS
  <2>6. /\ pre \subseteq Met /\ post \subseteq Met
        /\ pre \cap post = {} /\ Met \subseteq pre \cup post
        /\ \A y \in pre, z \in Met : y \in after[z] => z \in pre
        /\ \A y \in pre : post \subseteq after[y]
        /\ \A y \in post : after[y] \subseteq post
    BY <1>4, <2>5
  <2>7. /\ link[l] /= Null => link[l] \in post
        /\ \A z \in during.stays \cap post :
               link[l] /= Null /\ (z = link[l] \/ z \in after[link[l]])
    BY <1>3, <2>3, <2>4, <2>5
  <2>8. \A i \in 1..n : IF i <= k THEN members[Shared][i] \in pre
                       ELSE members[Shared][i] \in post
    BY <2>2, <2>5
  <2>9. Parts(after, k, pre, post)
    BY <1>0, <2>1, <2>6, <2>7, <2>8 DEF Parts
  <2> QED BY <2>9
<1>7. CASE k /= 0
  <2>1. k \in 1..n /\ l = s[k] /\ l \in Met
    BY <1>0, <1>1, <1>3, <1>7
  <2>2. PICK pre : pre = {y \in Met : y = l \/ l \in after[y]}
    OBVIOUS
  <2>3. PICK post : post = after[l]
    OBVIOUS
  <2>4. pre \subseteq Met /\ post \subseteq Met /\ l \in pre
    BY <1>4, <2>1, <2>2, <2>3
  <2>5. pre \cap post = {}
    BY <1>4, <2>1, <2>2, <2>3
  <2>6. Met \subseteq pre \cup post
    BY <1>4, <2>1, <2>2, <2>3
  <2>7. \A y \in pre, z \in Met : y \in after[z] => z \in pre
    BY <1>4, <2>1, <2>2
  <2>8. \A y \in pre : post \subseteq after[y]
    BY <1>4, <2>1, <2>2, <2>3
  <2>9. \A y \in post : after[y] \subseteq post
    BY <1>4, <2>1, <2>3
  <2>10. ASSUME NEW i \in 1..n
         PROVE  IF i <= k THEN members[Shared][i] \in pre ELSE members[Shared][i] \in post
    <3>1. s[i] \in Met /\ (i < k \/ i = k \/ k < i)
      BY <1>1, <1>3, <2>1
    <3>2. (i <= k <=> (i < k \/ i = k)) /\ (k < i => ~(i <= k))
      BY <1>3, <2>1
    <3> QED BY <1>2, <1>4, <2>1, <2>2, <2>3, <3>1, <3>2
  <2>11. /\ link[l] /= Null => link[l] \in post
         /\ \A z \in during.stays \cap post :
                link[l] /= Null /\ (z = link[l] \/ z \in after[link[l]])
    BY <1>5, <2>1, <2>3
  <2>12. Parts(after, k, pre, post)
    BY <1>0, <2>3, <2>4, <2>5, <2>6, <2>7, <2>8, <2>9, <2>10, <2>11 DEF Parts
  <2> QED BY <2>12
<1> QED BY <1>6, <1>7

(* Insertion into the list that is read: the node is between both parts. *)
LEMMA InsertReads ==
    ASSUME ListsAssumption, LinksInv, ReadInv, Reading, NEW k, NEW x,
           InsertsAt(Shared, k, x)
    PROVE  ReadInv'
<1>1. PICK after \in [Node -> SUBSET Node] : Ordered(after) /\ Forward(after) /\ Follows(after)
  BY DEF ReadInv
<1>2. PICK n, l, s : n = Len(members[Shared]) /\ l = At(Shared, k) /\ s = members[Shared]
  OBVIOUS
<1>3. /\ Met \subseteq Node /\ Shared \in Live /\ during.stays \subseteq Nodes(Shared)
      /\ during.removed \cap Used = {} /\ during.stays \subseteq Met
      /\ Nodes(Shared) \subseteq Met /\ Nodes(Shared) \subseteq Used
  BY MetSound, Places DEF Met
<1>4. /\ x \in Node /\ x \notin Used /\ x \notin during.removed /\ x \notin Met /\ k \in 0..n
      /\ UNCHANGED <<reader, during>>
  BY <1>2, <1>3 DEF InsertsAt, Free, Met
<1>5. /\ Len(members'[Shared]) = n + 1 /\ members'[Shared] \in Seq(Node)
      /\ Nodes(Shared)' = Nodes(Shared) \cup {x} /\ Live' = Live
      /\ \A i \in 0..(n + 1) :
            At(Shared, i)' = IF i <= k THEN At(Shared, i)
                             ELSE IF i = k + 1 THEN x ELSE At(Shared, i - 1)
      /\ \A g \in Live : g /= Shared => members'[g] = members[g]
  BY <1>2, InsertPlaces
<1>6. /\ n \in Nat /\ \A i \in 1..n : At(Shared, i) = s[i] /\ s[i] \in Node
      /\ s \in Seq(Node) /\ DOMAIN s = 1..n /\ Shared \notin Node
  <2>1. \A i \in 1..n : At(Shared, i) = s[i] /\ At(Shared, i) \in Node
    BY <1>2, <1>3, Places, Cells
  <2> QED BY <1>2, <1>3, <2>1, Places, Cells
<1>7. /\ Met' = Met \cup {x} /\ Used' = Used \cup {x} /\ during' = during /\ reader' = reader
  <2>1. Met' = Met \cup {x}
    BY <1>4, <1>5 DEF Met
  <2>2. \A g \in Live : g /= Shared => Nodes(g)' = Nodes(g)
    BY <1>5 DEF Nodes
  <2>3. Used' = Used \cup {x}
    BY <1>3, <1>5, <2>2 DEF Used
  <2> QED BY <1>4, <2>1, <2>3
<1>8. PICK pre, post :
          /\ pre \subseteq Met /\ post \subseteq Met
          /\ pre \cap post = {} /\ Met \subseteq pre \cup post
          /\ \A y \in pre, z \in Met : y \in after[z] => z \in pre
          /\ \A y \in pre : post \subseteq after[y]
          /\ \A y \in post : after[y] \subseteq post
          /\ \A i \in 1..n : IF i <= k THEN members[Shared][i] \in pre
                             ELSE members[Shared][i] \in post
          /\ link[l] /= Null => link[l] \in post
          /\ \A z \in during.stays \cap post :
                 link[l] /= Null /\ (z = link[l] \/ z \in after[link[l]])
          /\ (l \in pre /\ after[l] \subseteq post) \/ l \notin Met
  <2>1. k \in 0..Len(members[Shared])
    BY <1>2, <1>4
  <2>2. PICK pre, post : Parts(after, k, pre, post)
    BY <1>1, <2>1, Parted
  <2> QED BY <1>2, <2>2 DEF Parts
<1>9. /\ \A y \in Node : /\ after[y] \subseteq Met /\ y \notin after[y]
                         /\ y \notin Met => after[y] = {}
                         /\ \A z \in after[y] : after[z] \subseteq after[y]
      /\ \A y, z \in Met : y = z \/ y \in after[z] \/ z \in after[y]
      /\ \A i, j \in 1..n : i < j => s[j] \in after[s[i]]
  BY <1>1, <1>2, <1>6 DEF Ordered
<1>10. /\ \A y \in Met : link'[y] = IF y = l THEN x ELSE link[y]
       /\ link'[x] = link[l]
  <2>1. link' = [c \in List \cup Node |->
                    IF c = x THEN link[l] ELSE IF c = l THEN x ELSE link[c]]
    BY <1>2 DEF InsertsAt
  <2> QED BY <1>3, <1>4, <2>1
<1>11. PICK behind \in [Node -> SUBSET Node] :
           \A y \in Node : behind[y] = IF y = x THEN post
                                       ELSE IF y \in pre THEN after[y] \cup {x} ELSE after[y]
  <2> DEFINE f == [y \in Node |-> IF y = x THEN post
                                  ELSE IF y \in pre THEN after[y] \cup {x} ELSE after[y]]
  <2>1. \A y \in Node : f[y] = IF y = x THEN post
                               ELSE IF y \in pre THEN after[y] \cup {x} ELSE after[y]
    OBVIOUS
  <2>2. f \in [Node -> SUBSET Node]
    BY <1>3, <1>4, <1>8
  <2> HIDE DEF f
  <2> QED BY <2>1, <2>2
<1>12. /\ behind[x] = post
       /\ \A y \in pre : behind[y] = after[y] \cup {x}
       /\ \A y \in Node : y /= x /\ y \notin pre => behind[y] = after[y]
       /\ \A y \in Met : after[y] \subseteq behind[y]
       /\ x \notin pre /\ x \notin post
       /\ \A y \in Node : y /= x => \A z \in behind[y] : z = x \/ z \in after[y]
  BY <1>3, <1>4, <1>8, <1>11
<1>13. ASSUME NEW y \in Node
       PROVE  /\ behind[y] \subseteq Met \cup {x} /\ y \notin behind[y]
              /\ y \notin Met \cup {x} => behind[y] = {}
              /\ \A z \in behind[y] : behind[z] \subseteq behind[y]
  <2>1. behind[y] \subseteq Met \cup {x}
    BY <1>8, <1>9, <1>11
  <2>2. y \notin behind[y]
    BY <1>4, <1>8, <1>9, <1>11
  <2>3. y \notin Met \cup {x} => behind[y] = {}
    BY <1>8, <1>9, <1>11
  <2>4. ASSUME NEW z \in behind[y], NEW w \in behind[z] PROVE w \in behind[y]
    <3>1. y \in Met \cup {x} /\ z \in Met \cup {x} /\ w \in Met \cup {x} /\ z \in Node /\ w \in Node
      <4>1. behind[z] \subseteq Met \cup {x}
        <5>1. z \in Node
          BY <1>3, <1>4, <2>1
        <5> QED BY <1>8, <1>9, <1>11, <5>1
      <4> QED BY <1>3, <1>4, <2>1, <2>3, <4>1
    <3>2. CASE y = x
      <4>1. z \in post /\ z \in Met /\ z \notin pre /\ behind[z] = after[z]
        BY <1>8, <1>12, <3>1, <3>2
      <4> QED BY <1>8, <1>12, <3>2, <4>1
    <3>3. CASE y /= x /\ z = x
      <4>1. y \in pre
        BY <1>9, <1>12, <3>1, <3>3, <1>4
      <4>2. w \in post
        BY <1>12, <3>3
      <4> QED BY <1>8, <1>12, <4>1, <4>2
    <3>4. CASE y /= x /\ z /= x
      <4>1. z \in after[y] /\ y \in Met
        BY <1>12, <3>1, <3>4
      <4>2. CASE w = x
        <5>1. z \in pre
          BY <1>9, <1>12, <1>4, <3>1, <3>4, <4>2
        <5>2. y \in pre
          BY <1>8, <4>1, <5>1
        <5> QED BY <1>12, <4>2, <5>2
      <4>3. CASE w /= x
        <5>1. w \in after[z]
          BY <1>12, <3>1, <3>4, <4>3
        <5>2. w \in after[y]
          BY <1>9, <3>1, <4>1, <5>1
        <5> QED BY <1>12, <4>1, <5>2
      <4> QED BY <4>2, <4>3
    <3> QED BY <3>2, <3>3, <3>4
  <2> QED BY <2>1, <2>2, <2>3, <2>4
<1>14. \A y, z \in Met \cup {x} : y = z \/ y \in behind[z] \/ z \in behind[y]
  <2> SUFFICES ASSUME NEW y \in Met \cup {x}, NEW z \in Met \cup {x}
               PROVE  y = z \/ y \in behind[z] \/ z \in behind[y]
    OBVIOUS
  <2>1. CASE y \in Met /\ z \in Met
    BY <1>9, <1>12, <2>1
  <2>2. CASE y = x /\ z \in Met
    BY <1>8, <1>12, <2>2
  <2>3. CASE y \in Met /\ z = x
    BY <1>8, <1>12, <2>3
  <2> QED BY <2>1, <2>2, <2>3
<1>15. ASSUME NEW i \in 1..(n + 1), NEW j \in 1..(n + 1), i < j
       PROVE  members'[Shared][j] \in behind[members'[Shared][i]]
  <2>0. \A m \in 1..(n + 1) : members'[Shared][m] = IF m <= k THEN s[m]
                              ELSE IF m = k + 1 THEN x ELSE s[m - 1]
    <3> SUFFICES ASSUME NEW m \in 1..(n + 1)
                 PROVE  members'[Shared][m] = IF m <= k THEN s[m]
                        ELSE IF m = k + 1 THEN x ELSE s[m - 1]
      OBVIOUS
    <3>1. At(Shared, m)' = members'[Shared][m]
      BY DEF At
    <3>2. /\ m \in 0..(n + 1) /\ (m <= k => m \in 1..n)
          /\ (~(m <= k) /\ m /= k + 1 => m - 1 \in 1..n)
      BY <1>4, <1>6
    <3> QED BY <1>5, <1>6, <3>1, <3>2
  <2>1. /\ \A m \in 1..n : m <= k => s[m] \in pre
        /\ \A m \in 1..n : ~(m <= k) => s[m] \in post
        /\ \A m \in 1..n : s[m] \in Met
    BY <1>2, <1>8
  <2>2. CASE j <= k
    <3>1. i <= k /\ i \in 1..n /\ j \in 1..n
      BY <1>4, <1>6, <1>15, <2>2
    <3> QED BY <1>9, <1>12, <1>15, <2>0, <2>1, <2>2, <3>1
  <2>3. CASE j = k + 1
    <3>1. i <= k /\ i \in 1..n /\ ~(j <= k)
      BY <1>4, <1>6, <1>15, <2>3
    <3> QED BY <1>12, <2>0, <2>1, <2>3, <3>1
  <2>4. CASE j > k + 1 /\ i = k + 1
    <3>1. ~(i <= k) /\ ~(j <= k) /\ j /= k + 1 /\ j - 1 \in 1..n /\ ~(j - 1 <= k)
      BY <1>4, <1>6, <2>4
    <3> QED BY <1>12, <2>0, <2>1, <2>4, <3>1
  <2>5. CASE j > k + 1 /\ i <= k
    <3>1. /\ i \in 1..n /\ ~(j <= k) /\ j /= k + 1 /\ j - 1 \in 1..n /\ i < j - 1
      BY <1>4, <1>6, <2>5
    <3> QED BY <1>9, <1>12, <2>0, <2>1, <2>5, <3>1
  <2>6. CASE i > k + 1
    <3>1. /\ ~(i <= k) /\ i /= k + 1 /\ i - 1 \in 1..n
          /\ ~(j <= k) /\ j /= k + 1 /\ j - 1 \in 1..n /\ i - 1 < j - 1
      BY <1>4, <1>6, <1>15, <2>6
    <3> QED BY <1>9, <1>12, <2>0, <2>1, <3>1
  <2> QED BY <1>4, <1>6, <2>2, <2>3, <2>4, <2>5, <2>6
<1>16. Ordered(behind)'
  <2>1. DOMAIN members'[Shared] = 1..(n + 1)
    BY <1>5
  <2> QED BY <1>7, <1>13, <1>14, <1>15, <2>1 DEF Ordered
<1>17. Forward(behind)'
  <2>1. \A y \in Met : /\ link[y] /= Null => link[y] \in after[y]
                       /\ \A z \in during.stays \cap after[y] :
                              link[y] /= Null /\ (z = link[y] \/ z \in after[link[y]])
    BY <1>1 DEF Forward
  <2>2. ASSUME NEW y \in Met \cup {x}, link'[y] /= Null PROVE link'[y] \in behind[y]
    <3>1. CASE y = x
      BY <1>8, <1>10, <1>12, <2>2, <3>1
    <3>2. CASE y = l /\ y \in Met
      BY <1>8, <1>10, <1>12, <3>2
    <3>3. CASE y /= l /\ y \in Met
      BY <1>10, <1>12, <2>1, <2>2, <3>3
    <3> QED BY <3>1, <3>2, <3>3
  <2>3. ASSUME NEW y \in Met \cup {x}, NEW z \in during.stays \cap behind[y]
        PROVE  link'[y] /= Null /\ (z = link'[y] \/ z \in behind[link'[y]])
    <3>1. z /= x /\ z \in Met
      BY <1>3, <1>4
    <3>2. CASE y = x
      <4>1. /\ z \in post /\ link'[y] = link[l] /\ link[l] /= Null
            /\ (z = link[l] \/ z \in after[link[l]]) /\ link[l] \in Met
        BY <1>8, <1>10, <1>12, <2>3, <3>2
      <4> QED BY <1>12, <4>1
    <3>3. CASE y = l /\ y \in Met
      <4>1. y \in pre /\ link'[y] = x /\ x /= Null /\ z \in after[y]
        BY <1>4, <1>8, <1>10, <1>12, <2>3, <3>1, <3>3 DEF ListsAssumption
      <4>2. z \notin pre
        BY <1>3, <1>8, <1>9, <4>1, <3>3
      <4> QED BY <1>8, <1>12, <3>1, <4>1, <4>2
    <3>4. CASE y /= l /\ y \in Met
      <4>1. z \in after[y] /\ link'[y] = link[y]
        BY <1>3, <1>4, <1>10, <1>12, <3>1, <3>4
      <4>2. link[y] /= Null /\ (z = link[y] \/ z \in after[link[y]])
        BY <2>1, <3>4, <4>1
      <4>3. link[y] \in Met
        BY <1>3, <1>9, <2>1, <3>4, <4>2
      <4> QED BY <1>12, <4>1, <4>2, <4>3
    <3> QED BY <3>2, <3>3, <3>4
  <2> QED BY <1>7, <2>2, <2>3 DEF Forward
<1>18. Follows(behind)'
  <2>1. /\ ToSet(reader.seen) \subseteq Met
        /\ \A i, j \in DOMAIN reader.seen : i < j => reader.seen[j] \in after[reader.seen[i]]
        /\ reader.at /= Null => /\ reader.at \in Met
                                /\ \A y \in ToSet(reader.seen) : reader.at \in after[y]
        /\ \A z \in during.stays :
               \/ z \in ToSet(reader.seen)
               \/ reader.at /= Null /\ (z = reader.at \/ z \in after[reader.at])
    BY <1>1 DEF Follows
  <2>2. \A i \in DOMAIN reader.seen : reader.seen[i] \in Met
    BY <2>1 DEF ToSet
  <2> QED BY <1>7, <1>12, <2>1, <2>2 DEF Follows
<1>19. (Shared \in Live /\ during.stays \subseteq Nodes(Shared) /\ during.removed \cap Used = {})'
  BY <1>3, <1>4, <1>5, <1>7
<1> QED BY <1>16, <1>17, <1>18, <1>19 DEF ReadInv

(* Removal from the list that is read: the order stays. *)
LEMMA RemoveReads ==
    ASSUME ListsAssumption, LinksInv, ReadInv, Reading, NEW k, NEW x,
           RemovesAt(Shared, k, x)
    PROVE  ReadInv'
<1>1. PICK after \in [Node -> SUBSET Node] : Ordered(after) /\ Forward(after) /\ Follows(after)
  BY DEF ReadInv
<1>2. PICK n, l, s : n = Len(members[Shared]) /\ l = At(Shared, k) /\ s = members[Shared]
  OBVIOUS
<1>3. /\ Met \subseteq Node /\ Shared \in Live /\ during.stays \subseteq Nodes(Shared)
      /\ during.removed \cap Used = {} /\ during.stays \subseteq Met
      /\ Nodes(Shared) \subseteq Used /\ Nodes(Shared) \subseteq Met
  BY MetSound, Places DEF Met
<1>4. /\ k \in 0..(n - 1) /\ x = At(Shared, k + 1) /\ link' = [link EXCEPT ![l] = link[x]]
      /\ during' = [stays |-> during.stays \ {x}, removed |-> during.removed \cup {x}]
      /\ reader' = reader
  BY <1>2 DEF RemovesAt
<1>5. /\ Len(members'[Shared]) = n - 1 /\ members'[Shared] \in Seq(Node)
      /\ Nodes(Shared)' = Nodes(Shared) \ {x} /\ Live' = Live
      /\ \A i \in 0..(n - 1) :
            At(Shared, i)' = IF i <= k THEN At(Shared, i) ELSE At(Shared, i + 1)
      /\ \A g \in Live : g /= Shared => members'[g] = members[g]
      /\ x \in Nodes(Shared) /\ x \in Node
  BY <1>2, RemovePlaces
<1>6. /\ n \in Nat /\ \A i \in 1..n : At(Shared, i) = s[i]
      /\ DOMAIN s = 1..n /\ Shared \notin Node
      /\ \A i, j \in 0..n : At(Shared, i) = At(Shared, j) => i = j
      /\ \A i \in 0..n : link[At(Shared, i)] = IF i = n THEN Null ELSE At(Shared, i + 1)
      /\ l \in List \cup Node
  <2>1. k \in 0..n
    <3>1. n \in Nat
      BY <1>2, <1>3, Places
    <3> QED BY <1>4, <3>1
  <2>2. \A i \in 0..n : link[At(Shared, i)] = IF i = n THEN Null ELSE At(Shared, i + 1)
    BY <1>2, <1>3, Cells
  <2>3. Shared \notin Node
    BY <1>2, <1>3, Cells
  <2> QED BY <1>2, <1>3, <2>1, <2>2, <2>3, Places
<1>7. l /= x /\ link[l] = x
  <2>1. k \in 0..n /\ k + 1 \in 0..n /\ k /= n /\ k /= k + 1
    BY <1>4, <1>6
  <2> QED BY <1>2, <1>4, <1>6, <2>1
<1>8. /\ Met' = Met /\ Used' \subseteq Used \ {x}
      /\ during'.stays = during.stays \ {x} /\ during'.removed = during.removed \cup {x}
  <2>1. during'.stays = during.stays \ {x} /\ during'.removed = during.removed \cup {x}
    BY <1>4
  <2>2. Met' = Met
    BY <1>5, <2>1 DEF Met
  <2>3. \A g \in Live : g /= Shared => Nodes(g)' = Nodes(g)
    BY <1>5 DEF Nodes
  <2>4. \A g \in Live : g /= Shared => x \notin Nodes(g)
    BY <1>3, <1>5 DEF LinksInv, Apart
  <2>5. Used' \subseteq Used \ {x}
    BY <1>3, <1>5, <2>3, <2>4 DEF Used
  <2> QED BY <2>1, <2>2, <2>5
<1>9. /\ \A y \in Node : \A z \in after[y] : after[z] \subseteq after[y]
      /\ \A i, j \in 1..n : i < j => s[j] \in after[s[i]]
      /\ \A y \in Met : /\ link[y] /= Null => link[y] \in after[y]
                        /\ \A z \in during.stays \cap after[y] :
                               link[y] /= Null /\ (z = link[y] \/ z \in after[link[y]])
  BY <1>1, <1>2, <1>6 DEF Ordered, Forward
<1>10. \A y \in Met : link'[y] = IF y = l THEN link[x] ELSE link[y]
  <2>1. link \in [List \cup Node -> Node \cup {Null}]
    BY DEF LinksInv, Types
  <2> QED BY <1>3, <1>4, <2>1
<1>11. Ordered(after)'
  <2>1. DOMAIN members'[Shared] = 1..(n - 1)
    BY <1>5
  <2>2. ASSUME NEW i \in 1..(n - 1), NEW j \in 1..(n - 1), i < j
        PROVE  members'[Shared][j] \in after[members'[Shared][i]]
    <3>1. \A m \in 1..(n - 1) : members'[Shared][m] = IF m <= k THEN s[m] ELSE s[m + 1]
      <4> SUFFICES ASSUME NEW m \in 1..(n - 1)
                   PROVE  members'[Shared][m] = IF m <= k THEN s[m] ELSE s[m + 1]
        OBVIOUS
      <4>1. At(Shared, m)' = members'[Shared][m]
        BY DEF At
      <4>2. m \in 0..(n - 1) /\ m \in 1..n /\ m + 1 \in 1..n
        BY <1>6
      <4> QED BY <1>5, <1>6, <4>1, <4>2
    <3>2. /\ i \in 1..n /\ i + 1 \in 1..n /\ j \in 1..n /\ j + 1 \in 1..n
          /\ i < j + 1 /\ i + 1 < j + 1 /\ (~(i <= k) => ~(j <= k))
      BY <1>4, <1>6, <2>2
    <3>3. CASE i <= k /\ j <= k
      BY <1>9, <2>2, <3>1, <3>2, <3>3
    <3>4. CASE i <= k /\ ~(j <= k)
      BY <1>9, <3>1, <3>2, <3>4
    <3>5. CASE ~(i <= k)
      BY <1>9, <3>1, <3>2, <3>5
    <3> QED BY <3>3, <3>4, <3>5
  <2> QED BY <1>1, <1>8, <2>1, <2>2 DEF Ordered
<1>12. Forward(after)'
  <2>1. ASSUME NEW y \in Met, link'[y] /= Null PROVE link'[y] \in after[y]
    <3>1. CASE y = l
      <4>1. x \in after[l] /\ link[x] \in after[x]
        BY <1>3, <1>5, <1>7, <1>9, <1>10, <2>1, <3>1 DEF ListsAssumption
      <4> QED BY <1>3, <1>9, <1>10, <3>1, <4>1
    <3>2. CASE y /= l
      BY <1>9, <1>10, <2>1, <3>2
    <3> QED BY <3>1, <3>2
  <2>2. ASSUME NEW y \in Met, NEW z \in (during.stays \ {x}) \cap after[y]
        PROVE  link'[y] /= Null /\ (z = link'[y] \/ z \in after[link'[y]])
    <3>1. CASE y = l
      <4>1. z \in after[x]
        BY <1>7, <1>9, <2>2, <3>1
      <4>2. link[x] /= Null /\ (z = link[x] \/ z \in after[link[x]])
        BY <1>3, <1>5, <1>9, <2>2, <4>1
      <4> QED BY <1>10, <3>1, <4>2
    <3>2. CASE y /= l
      BY <1>9, <1>10, <2>2, <3>2
    <3> QED BY <3>1, <3>2
  <2> QED BY <1>8, <2>1, <2>2 DEF Forward
<1>13. Follows(after)'
  <2>1. during'.stays \subseteq during.stays
    BY <1>8
  <2> QED BY <1>1, <1>4, <1>8, <2>1 DEF Follows
<1>14. (Shared \in Live /\ during.stays \subseteq Nodes(Shared) /\ during.removed \cap Used = {})'
  BY <1>3, <1>5, <1>8
<1> QED BY <1>11, <1>12, <1>13, <1>14 DEF ReadInv

(* Any insertion and any removal. *)
LEMMA InsertionReads ==
    ASSUME ListsAssumption, LinksInv, ReadInv, NEW h, NEW k, NEW x, InsertsAt(h, k, x)
    PROVE  ReadInv'
<1>1. CASE h /= Shared
  BY <1>1, InsertElsewhere
<1>2. CASE h = Shared /\ Reading
  <2>1. InsertsAt(Shared, k, x)
    BY <1>2
  <2> QED BY <1>2, <2>1, InsertReads
<1>3. CASE ~Reading
  BY <1>3, NotRead DEF InsertsAt
<1> QED BY <1>1, <1>2, <1>3

LEMMA RemovalReads ==
    ASSUME ListsAssumption, LinksInv, ReadInv, NEW h, NEW k, NEW x, RemovesAt(h, k, x)
    PROVE  ReadInv'
<1>1. CASE h /= Shared
  BY <1>1, RemoveElsewhere
<1>2. CASE h = Shared /\ Reading
  <2>1. RemovesAt(Shared, k, x)
    BY <1>2
  <2> QED BY <1>2, <2>1, RemoveReads
<1>3. CASE ~Reading
  BY <1>3, NotRead DEF RemovesAt
<1> QED BY <1>1, <1>2, <1>3

(* The reader is right at the beginning and after every step. *)
LEMMA ReadInit == Init => ReadInv
  BY DEF Init, ReadInv, Reading, Idle

LEMMA ReadStep == ListsAssumption /\ LinksInv /\ ReadInv /\ [Next]_vars => ReadInv'
<1> SUFFICES ASSUME ListsAssumption, LinksInv, ReadInv, [Next]_vars PROVE ReadInv'
  OBVIOUS
<1>1. ASSUME NEW h \in Slist, slist_init(h) PROVE ReadInv'
  BY <1>1, EmptyReads DEF slist_init, List
<1>2. ASSUME NEW h \in Slist, NEW x \in Node,
             \/ slist_rcu_insert_head(h, x) \/ slist_rcu_insert_tail(h, x)
             \/ \E p \in Node : slist_rcu_insert_after(h, x, p)
      PROVE  ReadInv'
  BY <1>2, SlistInsertion, InsertionReads
<1>3. ASSUME NEW h \in Slist, NEW p \in Node \cup {Null}, slist_rcu_remove(h, p)
      PROVE  ReadInv'
  BY <1>3, SlistRemoval, RemovalReads
<1>4. ASSUME NEW f \in Slist, NEW h \in Slist, slist_concat(f, h) PROVE ReadInv'
  BY <1>4, ConcatReads
<1>5. ASSUME NEW f \in Slist, NEW h \in Slist, slist_set_head(f, h) PROVE ReadInv'
  BY <1>5, MoveReads DEF slist_set_head, List
<1>6. ASSUME NEW h \in Hlist, hlist_init(h) PROVE ReadInv'
  BY <1>6, EmptyReads DEF hlist_init, List
<1>7. ASSUME NEW x \in Node,
             \/ \E h \in Hlist : hlist_rcu_insert_head(h, x)
             \/ \E y \in Node : hlist_rcu_insert_before(x, y) \/ hlist_rcu_insert_after(x, y)
      PROVE  ReadInv'
  BY <1>7, HlistInsertion, InsertionReads
<1>8. ASSUME NEW f \in Hlist, NEW h \in Hlist, hlist_set_head(f, h) PROVE ReadInv'
  BY <1>8, MoveReads DEF hlist_set_head, List
<1>9. ASSUME NEW x \in Node, hlist_rcu_remove(x) PROVE ReadInv'
  BY <1>9, HlistRemoval, RemovalReads
<1>10. ASSUME NEW x \in Node, hlist_node_init(x) PROVE ReadInv'
  BY <1>10, NodeInitReads
<1>11. CASE Enter
  BY <1>11, ReadEnter
<1>12. CASE rcu_next
  BY <1>12, ReadNext
<1>13. CASE Leave
  BY <1>13 DEF Leave, Idle, ReadInv, Reading
<1>14. CASE UNCHANGED vars
  <2>1. UNCHANGED <<reader, during>> /\ members' = members /\ link' = link
    BY <1>14 DEF vars
  <2>2. Live' = Live /\ Used' = Used
    BY <2>1 DEF Live, Used, Nodes
  <2>3. Reading => Shared \in Live
    BY DEF ReadInv
  <2> QED BY <2>1, <2>2, <2>3, QuietKeeps
<1> QED BY <1>1, <1>2, <1>3, <1>4, <1>5, <1>6, <1>7, <1>8, <1>9, <1>10, <1>11, <1>12,
           <1>13, <1>14 DEF Next

(* The links, last nodes and back links of every list are those of its     *)
(* members, and a reader that goes along one of them meanwhile sees what   *)
(* stays in it once and in order: for any lists, nodes and operations of   *)
(* slist.h and hlist.h.                                                    *)
THEOREM ListsTheorem == ASSUME ListsAssumption PROVE Spec => [](ListsSound /\ ReaderSound)
<1>1. Init => LinksInv /\ ReadInv
  BY LinksInit, ReadInit
<1>2. LinksInv /\ ReadInv /\ [Next]_vars => (LinksInv /\ ReadInv)'
  BY LinksStep, ReadStep
<1>3. LinksInv /\ ReadInv => ListsSound /\ ReaderSound
  BY LinksHold, ReadHold
<1> QED BY <1>1, <1>2, <1>3, PTL DEF Spec
================================================================================
