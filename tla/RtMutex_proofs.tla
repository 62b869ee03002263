------------------------------ MODULE RtMutex_proofs ------------------------------
(***************************************************************************)
(* Safety of the real-time mutex, for any number of threads and mutexes,   *)
(* any priorities and any paths through the mutexes; and, at the end, what *)
(* PageTable proves of the page tables, said of the system that has both.  *)
(***************************************************************************)
EXTENDS MCServices, TLAPS, FiniteSetTheorems, SequenceTheorems

--------------------------------------------------------------------------------
(* The lists of turnstiles and waiters, seen as sets.                      *)

Queue(x, m) == ToSet(x.waiters[m])
Owned(x, u) == ToSet(x.owned[u])

(* plist_add() adds its node once, wherever the priorities say.            *)
LEMMA PlistAdd ==
    ASSUME NEW S, NEW s \in Seq(S), NEW x \in S, IsInjective(s), x \notin ToSet(s),
           NEW prio
    PROVE  /\ plist_add(s, prio, x) \in Seq(S)
           /\ IsInjective(plist_add(s, prio, x))
           /\ ToSet(plist_add(s, prio, x)) = ToSet(s) \cup {x}
<1> DEFINE below == {i \in DOMAIN s : prio[s[i]] <= prio[x]}
           k == Cardinality(below)
           n == Len(s)
           r == plist_add(s, prio, x)
<1>1. n \in Nat /\ DOMAIN s = 1..n /\ \A i \in 1..n : s[i] \in S
  OBVIOUS
<1>2. k \in 0..n
  <2>1. IsFiniteSet(1..n) /\ Cardinality(1..n) = n
    <3>1. n >= 1 \/ n = 0
      BY <1>1
    <3> QED BY <1>1, <3>1, FS_Interval, 1 \in Int, n \in Int
  <2>2. below \subseteq 1..n
    BY <1>1
  <2>3. IsFiniteSet(below) /\ k <= n
    BY <2>1, <2>2, FS_Subset
  <2>4. k \in Nat
    BY <2>3, FS_CardinalityType
  <2> QED BY <1>1, <2>3, <2>4
<1>3. r = SubSeq(s, 1, k) \o <<x>> \o SubSeq(s, k + 1, n)
  <2>1. r = SubSeq(s, 1, (k + 1) - 1) \o <<x>> \o SubSeq(s, k + 1, n)
    BY Zenon DEF plist_add, InsertAt
  <2>2. (k + 1) - 1 = k
    BY <1>2
  <2> HIDE DEF k, r
  <2> QED BY <2>1, <2>2
<1> HIDE DEF k, r
<1>4. /\ r \in Seq(S)
      /\ Len(r) = n + 1
      /\ \A i \in 1..(n + 1) : r[i] = IF i <= k THEN s[i] ELSE IF i = k + 1 THEN x ELSE s[i - 1]
  <2> DEFINE low == SubSeq(s, 1, k)
             high == SubSeq(s, k + 1, n)
  <2>1. /\ low \in Seq(S) /\ Len(low) = k
        /\ \A i \in 1..k : low[i] = s[i]
    <3>1. \A i \in 1..k : s[i] \in S
      BY <1>1, <1>2
    <3>2. /\ low \in Seq(S) /\ Len(low) = IF 1 <= k THEN k - 1 + 1 ELSE 0
          /\ \A i \in 1..(k - 1 + 1) : low[i] = s[1 + i - 1]
      BY <1>2, <3>1, SubSeqProperties
    <3> HIDE DEF low
    <3> QED BY <1>2, <3>2
  <2>2. /\ high \in Seq(S) /\ Len(high) = n - k
        /\ \A i \in 1..(n - k) : high[i] = s[k + i]
    <3>1. \A i \in (k + 1)..n : s[i] \in S
      BY <1>1, <1>2
    <3>2. k + 1 \in Int /\ n \in Int
      BY <1>1, <1>2
    <3>3. /\ high \in Seq(S) /\ Len(high) = IF k + 1 <= n THEN n - (k + 1) + 1 ELSE 0
          /\ \A i \in 1..(n - (k + 1) + 1) : high[i] = s[k + 1 + i - 1]
      BY <3>1, <3>2, SubSeqProperties
    <3> HIDE DEF high, k
    <3>4. n - (k + 1) + 1 = n - k
      BY <1>1, <1>2
    <3>5. ASSUME NEW i \in 1..(n - k) PROVE high[i] = s[k + i]
      <4>1. k + 1 + i - 1 = k + i
        BY <1>2
      <4>2. i \in 1..(n - (k + 1) + 1)
        BY <3>4
      <4>3. high[i] = s[k + 1 + i - 1]
        BY <3>3, <4>2
      <4> QED BY <4>1, <4>3
    <3>6. Len(high) = n - k
      <4>1. Len(high) = IF k + 1 <= n THEN n - (k + 1) + 1 ELSE 0
        BY <3>3
      <4>2. k \in Int /\ n \in Int /\ k <= n
        BY <1>1, <1>2
      <4> HIDE DEF n
      <4> QED BY <4>1, <4>2
    <3> QED BY <3>3, <3>5, <3>6
  <2> HIDE DEF low, high
  <2>3. /\ low \o <<x>> \in Seq(S) /\ Len(low \o <<x>>) = k + 1
        /\ \A i \in 1..(k + 1) : (low \o <<x>>)[i] = IF i <= k THEN s[i] ELSE x
    BY <1>2, <2>1
  <2>4. r = (low \o <<x>>) \o high
    BY <1>3 DEF low, high
  <2>5. /\ r \in Seq(S) /\ Len(r) = (k + 1) + (n - k)
        /\ \A i \in 1..((k + 1) + (n - k)) :
              r[i] = IF i <= k + 1 THEN (low \o <<x>>)[i] ELSE high[i - (k + 1)]
    <3> DEFINE left == low \o <<x>>
    <3> HIDE DEF left
    <3>1. left \in Seq(S) /\ high \in Seq(S)
      BY <2>2, <2>3 DEF left
    <3>2. /\ r \in Seq(S) /\ Len(r) = Len(left) + Len(high)
          /\ \A i \in 1..(Len(left) + Len(high)) :
                r[i] = IF i <= Len(left) THEN left[i] ELSE high[i - Len(left)]
      BY <2>4, <3>1, ConcatProperties, Zenon DEF left
    <3>3. Len(left) = k + 1 /\ Len(high) = n - k
      BY <2>2, <2>3 DEF left
    <3> QED BY <3>2, <3>3 DEF left
  <2>6. (k + 1) + (n - k) = n + 1
    BY <1>1, <1>2
  <2>7. ASSUME NEW i \in 1..(n + 1)
        PROVE  r[i] = IF i <= k THEN s[i] ELSE IF i = k + 1 THEN x ELSE s[i - 1]
    <3>1. CASE i <= k + 1
      BY <1>1, <1>2, <2>3, <2>5, <2>6, <3>1
    <3>2. CASE i > k + 1
      <4>1. r[i] = high[i - (k + 1)]
        BY <1>1, <1>2, <2>5, <2>6, <3>2
      <4>2. i - (k + 1) \in 1..(n - k) /\ k + (i - (k + 1)) = i - 1
        BY <1>1, <1>2, <3>2
      <4> QED BY <1>2, <2>2, <3>2, <4>1, <4>2
    <3> QED BY <1>2, <3>1, <3>2
  <2> QED BY <2>5, <2>6, <2>7
<1>5. DOMAIN r = 1..(n + 1)
  BY <1>1, <1>4
<1>6. IsInjective(r)
  <2> SUFFICES ASSUME NEW i \in 1..(n + 1), NEW j \in 1..(n + 1), r[i] = r[j]
               PROVE  i = j
    BY <1>5 DEF IsInjective
  <2>1. \A p, q \in 1..n : s[p] = s[q] => p = q
    BY <1>1 DEF IsInjective
  <2>2. \A p \in 1..n : s[p] /= x
    BY <1>1 DEF ToSet
  <2> QED BY <1>1, <1>2, <1>4, <2>1, <2>2
<1>7. ToSet(r) = ToSet(s) \cup {x}
  <2>1. ASSUME NEW y \in ToSet(r) PROVE y \in ToSet(s) \cup {x}
    <3>1. PICK i \in 1..(n + 1) : y = r[i]
      BY <1>5 DEF ToSet
    <3>2. y = x \/ \E p \in 1..n : y = s[p]
      BY <1>1, <1>2, <1>4, <3>1
    <3> QED BY <1>1, <3>2 DEF ToSet
  <2>2. ASSUME NEW y \in ToSet(s) PROVE y \in ToSet(r)
    <3>1. PICK p \in 1..n : y = s[p]
      BY <1>1 DEF ToSet
    <3>2. \E i \in 1..(n + 1) : y = r[i]
      <4>1. CASE p <= k
        BY <1>1, <1>2, <1>4, <3>1, <4>1
      <4>2. CASE p > k
        <5>1. p + 1 \in 1..(n + 1) /\ r[p + 1] = s[p]
          BY <1>1, <1>2, <1>4, <3>1, <4>2
        <5> QED BY <3>1, <5>1
      <4> QED BY <1>2, <3>1, <4>1, <4>2
    <3> QED BY <1>5, <3>2 DEF ToSet
  <2>3. x \in ToSet(r)
    <3>1. k + 1 \in 1..(n + 1) /\ r[k + 1] = x
      BY <1>1, <1>2, <1>4
    <3> QED BY <1>5, <3>1 DEF ToSet
  <2> QED BY <2>1, <2>2, <2>3
<1> QED BY <1>4, <1>6, <1>7 DEF r

(* plist_remove() takes its node out.                                      *)
LEMMA PlistRemove ==
    ASSUME NEW S, NEW s \in Seq(S), IsInjective(s), NEW x
    PROVE  /\ plist_remove(s, x) \in Seq(S)
           /\ IsInjective(plist_remove(s, x))
           /\ ToSet(plist_remove(s, x)) = ToSet(s) \ {x}
<1>1. DOMAIN s = 1..Len(s)
  OBVIOUS
<1>2. plist_remove(s, x) = Without(s, x)
  BY <1>1, x \in ToSet(s) <=> \E i \in 1..Len(s) : s[i] = x
     DEF plist_remove, Without, ToSet
<1>3. /\ Without(s, x) \in Seq(S \ {x})
      /\ IsInjective(Without(s, x))
      /\ ToSet(Without(s, x)) = ToSet(s) \ {x}
  BY RemoveWaiter
<1>4. Without(s, x) \in Seq(S)
  <2>1. ToSet(Without(s, x)) \subseteq S
    BY <1>3, SeqOfMembers
  <2> QED BY <1>3, <2>1, SeqOfMembers
<1> QED BY <1>2, <1>3, <1>4

--------------------------------------------------------------------------------
(* What the operations of turnstile.c do to the turnstiles and the thread  *)
(* data, whatever their order: who waits, who owns, who is owned.          *)

TdRecord ==
    [waiters : [Mutex -> Seq(Thread)], prio : [Thread -> Nat],
     owner : [Mutex -> Thread \cup {Nobody}], owned : [Thread -> Seq(Mutex)],
     node : [Mutex -> Nat], top : [Thread -> Nat], top_real : [Thread -> Nat]]

TdType(x) ==
    /\ x \in TdRecord
    /\ \A m \in Mutex : IsInjective(x.waiters[m])
    /\ \A u \in Thread : IsInjective(x.owned[u])
    /\ \A u \in Thread : Owned(x, u) = {} => x.top[u] = 0

SameQueues(x, y) == \A m \in Mutex : Queue(y, m) = Queue(x, m)

SameOwners(x, y) ==
    y.owner = x.owner /\ \A u \in Thread : Owned(y, u) = Owned(x, u)

QueueBecomes(x, y, m, S) ==
    \A n \in Mutex : Queue(y, n) = IF n = m THEN S ELSE Queue(x, n)

OwnedBecomes(x, y, u, S) ==
    \A v \in Thread : Owned(y, v) = IF v = u THEN S ELSE Owned(x, v)

(* A turnstile is empty when nobody waits in it. *)
LEMMA EmptyTurnstile ==
    ASSUME NEW x \in TdRecord, NEW m \in Mutex
    PROVE  turnstile_empty(x, m) <=> Queue(x, m) = {}
<1>1. x.waiters[m] \in Seq(Thread)
  BY DEF TdRecord
<1> QED BY <1>1, EmptyIffNoMember DEF turnstile_empty, Queue

(* Its top waiter is one of those that wait. *)
LEMMA TopWaits ==
    ASSUME NEW x \in TdRecord, NEW m \in Mutex, Queue(x, m) /= {}
    PROVE  top_waiter(x, m) \in Queue(x, m) /\ top_waiter(x, m) \in Thread
<1>1. x.waiters[m] \in Seq(Thread)
  BY DEF TdRecord
<1>2. x.waiters[m] /= <<>>
  BY EmptyTurnstile DEF turnstile_empty
<1>3. Len(x.waiters[m]) \in DOMAIN x.waiters[m]
  BY <1>1, <1>2
<1>4. top_waiter(x, m) \in Queue(x, m)
  BY <1>3 DEF top_waiter, Last, Queue, ToSet
<1> QED BY <1>1, <1>4, SeqOfMembers DEF Queue

LEMMA AddWaiterEffect ==
    ASSUME NEW x, TdType(x), NEW m \in Mutex, NEW t \in Thread, NEW p \in Nat,
           t \notin Queue(x, m)
    PROVE  LET y == turnstile_add_waiter(x, m, t, p) IN
           /\ TdType(y)
           /\ SameOwners(x, y)
           /\ QueueBecomes(x, y, m, Queue(x, m) \cup {t})
<1> DEFINE y == turnstile_add_waiter(x, m, t, p)
           prio == [x.prio EXCEPT ![t] = p]
           s == plist_add(x.waiters[m], prio, t)
<1>1. /\ x.waiters[m] \in Seq(Thread) /\ IsInjective(x.waiters[m])
      /\ t \notin ToSet(x.waiters[m])
  BY DEF TdType, TdRecord, Queue
<1>2. s \in Seq(Thread) /\ IsInjective(s) /\ ToSet(s) = Queue(x, m) \cup {t}
  BY <1>1, PlistAdd DEF Queue
<1>3. y = [x EXCEPT !.prio = prio, !.waiters[m] = s]
  BY DEF turnstile_add_waiter
<1> HIDE DEF s, y
<1>4. /\ y.waiters = [x.waiters EXCEPT ![m] = s]
      /\ y.owner = x.owner /\ y.owned = x.owned /\ y.top = x.top
      /\ y \in TdRecord
  BY <1>2, <1>3 DEF TdType, TdRecord
<1>5. TdType(y)
  BY <1>2, <1>4 DEF TdType, TdRecord, Owned
<1>6. SameOwners(x, y)
  BY <1>4 DEF SameOwners, Owned
<1>7. QueueBecomes(x, y, m, Queue(x, m) \cup {t})
  BY <1>2, <1>4 DEF QueueBecomes, Queue, TdType, TdRecord
<1> QED BY <1>5, <1>6, <1>7 DEF y

LEMMA RemoveWaiterEffect ==
    ASSUME NEW x, TdType(x), NEW m \in Mutex, NEW t \in Thread
    PROVE  LET y == turnstile_remove_waiter(x, m, t) IN
           /\ TdType(y)
           /\ SameOwners(x, y)
           /\ QueueBecomes(x, y, m, Queue(x, m) \ {t})
<1> DEFINE y == turnstile_remove_waiter(x, m, t)
           s == plist_remove(x.waiters[m], t)
<1>1. x.waiters[m] \in Seq(Thread) /\ IsInjective(x.waiters[m])
  BY DEF TdType, TdRecord
<1>2. s \in Seq(Thread) /\ IsInjective(s) /\ ToSet(s) = Queue(x, m) \ {t}
  BY <1>1, PlistRemove DEF Queue
<1>3. y = [x EXCEPT !.prio[t] = 0, !.waiters[m] = s]
  BY DEF turnstile_remove_waiter
<1> HIDE DEF s, y
<1>4. /\ y.waiters = [x.waiters EXCEPT ![m] = s]
      /\ y.owner = x.owner /\ y.owned = x.owned /\ y.top = x.top
      /\ y \in TdRecord
  BY <1>2, <1>3 DEF TdType, TdRecord
<1>5. TdType(y)
  BY <1>2, <1>4 DEF TdType, TdRecord, Owned
<1>6. SameOwners(x, y)
  BY <1>4 DEF SameOwners, Owned
<1>7. QueueBecomes(x, y, m, Queue(x, m) \ {t})
  BY <1>2, <1>4 DEF QueueBecomes, Queue, TdType, TdRecord
<1> QED BY <1>5, <1>6, <1>7 DEF y

LEMMA RequeueWaiterEffect ==
    ASSUME NEW x, TdType(x), NEW m \in Mutex, NEW t \in Thread, NEW p \in Nat,
           t \in Queue(x, m)
    PROVE  LET y == turnstile_requeue_waiter(x, m, t, p) IN
           TdType(y) /\ SameOwners(x, y) /\ SameQueues(x, y)
<1> DEFINE z == turnstile_remove_waiter(x, m, t)
           y == turnstile_add_waiter(z, m, t, p)
<1>1. TdType(z) /\ SameOwners(x, z) /\ QueueBecomes(x, z, m, Queue(x, m) \ {t})
  BY RemoveWaiterEffect
<1> HIDE DEF z
<1>2. t \notin Queue(z, m) /\ Queue(z, m) \cup {t} = Queue(x, m)
  BY <1>1 DEF QueueBecomes
<1>3. TdType(y) /\ SameOwners(z, y) /\ QueueBecomes(z, y, m, Queue(z, m) \cup {t})
  BY <1>1, <1>2, AddWaiterEffect
<1> HIDE DEF y
<1>4. SameOwners(x, y) /\ SameQueues(x, y)
  BY <1>1, <1>2, <1>3 DEF SameOwners, SameQueues, QueueBecomes
<1> QED BY <1>3, <1>4 DEF turnstile_requeue_waiter, y, z

TdLists(x) ==
    /\ x \in TdRecord
    /\ \A m \in Mutex : IsInjective(x.waiters[m])
    /\ \A u \in Thread : IsInjective(x.owned[u])

(* Who owns no turnstile has no priority from one, u aside. *)
TopsBut(x, u) == \A v \in Thread \ {u} : Owned(x, v) = {} => x.top[v] = 0

LEMMA UpdateTopEffect ==
    ASSUME NEW x, TdLists(x), NEW u \in Thread, NEW r \in [Thread -> Nat],
           TopsBut(x, u)
    PROVE  LET y == turnstile_td_update_top_priority(x, u, r) IN
           TdType(y) /\ SameOwners(x, y) /\ SameQueues(x, y)
<1> DEFINE y == turnstile_td_update_top_priority(x, u, r)
           m == Last(x.owned[u])
           w == top_waiter(x, m)
<1>1. x.owned[u] \in Seq(Mutex)
  BY DEF TdLists, TdRecord
<1>2. x.owned[u] = <<>> <=> Owned(x, u) = {}
  BY <1>1, EmptyIffNoMember DEF Owned
<1>3. CASE x.owned[u] = <<>> \/ turnstile_empty(x, m)
  <2>1. y = [x EXCEPT !.top[u] = 0, !.top_real[u] = 0]
    BY <1>3 DEF turnstile_td_update_top_priority
  <2> HIDE DEF y
  <2>2. /\ y \in TdRecord /\ y.waiters = x.waiters /\ y.owner = x.owner
        /\ y.owned = x.owned /\ y.top = [x.top EXCEPT ![u] = 0]
    BY <2>1 DEF TdLists, TdRecord
  <2>3. TdType(y)
    BY <2>2 DEF TdType, TdLists, TdRecord, Owned, TopsBut
  <2> QED BY <2>2, <2>3 DEF y, SameOwners, SameQueues, Owned, Queue
<1>4. CASE ~(x.owned[u] = <<>> \/ turnstile_empty(x, m))
  <2>1. y = [x EXCEPT !.top[u] = x.prio[w], !.top_real[u] = r[w]]
    BY <1>4 DEF turnstile_td_update_top_priority
  <2>2. m \in Mutex
    BY <1>1, <1>4 DEF Last
  <2>3. w \in Thread
    BY <1>4, <2>2, EmptyTurnstile, TopWaits DEF TdLists
  <2> HIDE DEF y, w
  <2>4. /\ y \in TdRecord /\ y.waiters = x.waiters /\ y.owner = x.owner
        /\ y.owned = x.owned /\ y.top = [x.top EXCEPT ![u] = x.prio[w]]
    BY <2>1, <2>3 DEF TdLists, TdRecord
  <2>5. TdType(y)
    BY <1>2, <1>4, <2>4 DEF TdType, TdLists, TdRecord, Owned, TopsBut
  <2> QED BY <2>4, <2>5 DEF y, SameOwners, SameQueues, Owned, Queue
<1> QED BY <1>3, <1>4

(* A turnstile with waiters gets an owner. *)
LEMMA OwnEffect ==
    ASSUME NEW x, TdLists(x), NEW u \in Thread, NEW m \in Mutex,
           NEW r \in [Thread -> Nat],
           TopsBut(x, u),
           Queue(x, m) /= {}, m \notin Owned(x, u)
    PROVE  LET y == turnstile_td_own(x, u, m, r) IN
           /\ TdType(y)
           /\ SameQueues(x, y)
           /\ y.owner = [x.owner EXCEPT ![m] = u]
           /\ OwnedBecomes(x, y, u, Owned(x, u) \cup {m})
<1> DEFINE w == top_waiter(x, m)
           node == [x.node EXCEPT ![m] = r[w]]
           s == plist_add(x.owned[u], node, m)
           z == [x EXCEPT !.node = node, !.owner[m] = u, !.owned[u] = s]
           y == turnstile_td_update_top_priority(z, u, r)
<1>1. w \in Thread
  BY TopWaits DEF TdLists
<1>2. x.owned[u] \in Seq(Mutex) /\ IsInjective(x.owned[u]) /\ m \notin ToSet(x.owned[u])
  BY DEF TdLists, TdRecord, Owned
<1>3. s \in Seq(Mutex) /\ IsInjective(s) /\ ToSet(s) = Owned(x, u) \cup {m}
  BY <1>2, PlistAdd DEF Owned
<1> HIDE DEF w, s
<1>4. node \in [Mutex -> Nat]
  BY <1>1 DEF TdLists, TdRecord
<1> HIDE DEF node
<1>5. /\ z \in TdRecord
      /\ z.waiters = x.waiters /\ z.owner = [x.owner EXCEPT ![m] = u]
      /\ z.owned = [x.owned EXCEPT ![u] = s] /\ z.top = x.top
  BY <1>3, <1>4 DEF TdLists, TdRecord
<1> HIDE DEF z
<1>6. OwnedBecomes(x, z, u, Owned(x, u) \cup {m}) /\ SameQueues(x, z)
  BY <1>3, <1>5 DEF OwnedBecomes, Owned, SameQueues, Queue, TdLists, TdRecord
<1>7. TdLists(z)
  BY <1>3, <1>5 DEF TdLists, TdRecord
<1>8. TopsBut(z, u)
  BY <1>5, <1>6 DEF OwnedBecomes, TopsBut
<1>9. TdType(y) /\ SameOwners(z, y) /\ SameQueues(z, y)
  BY <1>7, <1>8, UpdateTopEffect
<1> HIDE DEF y
<1>10. SameQueues(x, y) /\ OwnedBecomes(x, y, u, Owned(x, u) \cup {m})
  BY <1>6, <1>9 DEF SameQueues, SameOwners, OwnedBecomes
<1> QED BY <1>5, <1>9, <1>10 DEF turnstile_td_own, y, z, s, node, w, SameOwners

LEMMA UnlinkedEffect ==
    ASSUME NEW x, TdType(x), NEW u \in Thread, NEW m \in Mutex
    PROVE  LET y == Unlinked(x, u, m) IN
           /\ TdLists(y)
           /\ SameQueues(x, y)
           /\ y.owner = [x.owner EXCEPT ![m] = Nobody]
           /\ OwnedBecomes(x, y, u, Owned(x, u) \ {m})
           /\ TopsBut(y, u)
<1> DEFINE s == plist_remove(x.owned[u], m)
           y == Unlinked(x, u, m)
<1>1. x.owned[u] \in Seq(Mutex) /\ IsInjective(x.owned[u])
  BY DEF TdType, TdRecord
<1>2. s \in Seq(Mutex) /\ IsInjective(s) /\ ToSet(s) = Owned(x, u) \ {m}
  BY <1>1, PlistRemove DEF Owned
<1>3. y = [x EXCEPT !.node[m] = 0, !.owner[m] = Nobody, !.owned[u] = s]
  BY DEF Unlinked
<1> HIDE DEF s, y
<1>4. /\ y \in TdRecord
      /\ y.waiters = x.waiters /\ y.owner = [x.owner EXCEPT ![m] = Nobody]
      /\ y.owned = [x.owned EXCEPT ![u] = s] /\ y.top = x.top
  BY <1>2, <1>3 DEF TdType, TdRecord
<1>5. OwnedBecomes(x, y, u, Owned(x, u) \ {m}) /\ SameQueues(x, y)
  BY <1>2, <1>4 DEF OwnedBecomes, Owned, SameQueues, Queue, TdType, TdRecord
<1>6. TdLists(y)
  BY <1>2, <1>4 DEF TdLists, TdType, TdRecord
<1>7. TopsBut(y, u)
  BY <1>4, <1>5 DEF OwnedBecomes, TdType, TopsBut
<1> QED BY <1>4, <1>5, <1>6, <1>7 DEF y

(* An owner without turnstiles has no priority to inherit. *)
LEMMA DisownEffect ==
    ASSUME NEW x, TdType(x), NEW u \in Thread, NEW m \in Mutex,
           NEW r \in [Thread -> Nat]
    PROVE  LET y == turnstile_td_disown(x, u, m, r) IN
           /\ TdType(y)
           /\ SameQueues(x, y)
           /\ y.owner = [x.owner EXCEPT ![m] = Nobody]
           /\ OwnedBecomes(x, y, u, Owned(x, u) \ {m})
<1> DEFINE z == Unlinked(x, u, m)
           y == turnstile_td_update_top_priority(z, u, r)
<1>1. /\ TdLists(z)
      /\ SameQueues(x, z)
      /\ z.owner = [x.owner EXCEPT ![m] = Nobody]
      /\ OwnedBecomes(x, z, u, Owned(x, u) \ {m})
      /\ TopsBut(z, u)
  BY UnlinkedEffect
<1> HIDE DEF z
<1>2. TdType(y) /\ SameOwners(z, y) /\ SameQueues(z, y)
  BY <1>1, UpdateTopEffect
<1> HIDE DEF y
<1>3. SameQueues(x, y) /\ OwnedBecomes(x, y, u, Owned(x, u) \ {m})
  BY <1>1, <1>2 DEF SameQueues, SameOwners, OwnedBecomes
<1> QED BY <1>1, <1>2, <1>3 DEF turnstile_td_disown, y, z, SameOwners

(* The owner of a turnstile stays its owner. *)
LEMMA ReownEffect ==
    ASSUME NEW x, TdType(x), NEW u \in Thread, NEW m \in Mutex,
           NEW r \in [Thread -> Nat],
           Queue(x, m) /= {}, x.owner[m] = u, m \in Owned(x, u)
    PROVE  LET y == turnstile_td_reown(x, u, m, r) IN
           TdType(y) /\ SameQueues(x, y) /\ SameOwners(x, y)
<1> DEFINE z == Unlinked(x, u, m)
           y == turnstile_td_own(z, u, m, r)
<1>1. /\ TdLists(z)
      /\ SameQueues(x, z)
      /\ z.owner = [x.owner EXCEPT ![m] = Nobody]
      /\ OwnedBecomes(x, z, u, Owned(x, u) \ {m})
      /\ TopsBut(z, u)
  BY UnlinkedEffect
<1> HIDE DEF z
<1>2. Queue(z, m) /= {} /\ m \notin Owned(z, u)
  BY <1>1 DEF SameQueues, OwnedBecomes
<1>3. /\ TdType(y)
      /\ SameQueues(z, y)
      /\ y.owner = [z.owner EXCEPT ![m] = u]
      /\ OwnedBecomes(z, y, u, Owned(z, u) \cup {m})
  BY <1>1, <1>2, OwnEffect
<1> HIDE DEF y
<1>4. y.owner = x.owner
  BY <1>1, <1>3 DEF TdType, TdRecord
<1>5. \A v \in Thread : Owned(y, v) = Owned(x, v)
  <2>1. (Owned(x, u) \ {m}) \cup {m} = Owned(x, u)
    OBVIOUS
  <2> QED BY <1>1, <1>3, <2>1 DEF OwnedBecomes
<1>6. SameQueues(x, y)
  BY <1>1, <1>3 DEF SameQueues
<1> QED BY <1>3, <1>4, <1>5, <1>6 DEF turnstile_td_reown, y, z, SameOwners

--------------------------------------------------------------------------------
(* The inductive invariant: what holds where in the calls, with the lists  *)
(* seen as sets.                                                           *)

WordSet == [owner : Thread \cup {Nobody}, contended : BOOLEAN, force_wait : BOOLEAN]

Types ==
    /\ word \in [Mutex -> WordSet]
    /\ bucket \in [Mutex -> Thread \cup {Nobody}]
    /\ lent \in [Mutex -> SUBSET Thread]
    /\ td_lock \in [Thread -> Thread \cup {Nobody}]
    /\ awaken \subseteq Thread /\ failed \subseteq Thread
    /\ real \in [Thread -> Nat \ {0}]
    /\ th \in Threads(Thread)
    /\ at \in [Thread -> Mutex \cup {Nobody}]
    /\ prop \in [Thread -> Thread \cup {Nobody}]
    /\ pc \in [Thread -> Places]
    /\ TdType(td)

(* A thread whose waiter is in the turnstile of the mutex it calls for. *)
InQueue(t) ==
    /\ at[t] /= Nobody
    /\ \/ pc[t] \in {"loop", "asleep", "leave"}
       \/ pc[t] \in {"own", "prop", "retry", "next"} /\ t \notin failed

Calls ==
    \A t \in Thread :
        /\ pc[t] \in {"run", "self"} => at[t] = Nobody
        /\ at[t] = Nobody =>
              pc[t] \in {"run", "self", "prop", "retry", "next"} /\ t \notin failed
        /\ pc[t] \in {"prop", "retry"} => prop[t] /= Nobody
        /\ pc[t] \notin {"prop", "retry", "next"} => prop[t] = Nobody
        /\ t \in failed =>
              pc[t] \in {"leave", "own", "prop", "retry", "next", "failed"}
        /\ pc[t] = "failed" => t \in failed
        /\ pc[t] = "leave" => t \in awaken \cup failed
        /\ t \in awaken => InQueue(t)

(* Only a call with a time boundary has a timer. *)
Timers == failed \cup th.armed \cup th.timedout \subseteq Impatient

Locks ==
    \A t, u \in Thread : td_lock[u] = t <=> pc[t] = "prop" /\ prop[t] = u

Lent ==
    \A m \in Mutex, t \in Thread :
        t \in lent[m] <=> at[t] = m /\ pc[t] \notin {"lend", "unlock"}

Queues ==
    \A m \in Mutex, t \in Thread : t \in Queue(td, m) <=> at[t] = m /\ InQueue(t)

Holding == {"add", "own", "leave", "won"}

(* A bucket is locked by a thread in a call for its mutex, or by one that  *)
(* propagates a priority through its turnstile.                            *)
Buckets ==
    /\ \A m \in Mutex : bucket[m] /= Nobody =>
          \/ at[bucket[m]] = m /\ pc[bucket[m]] \in Holding \cup {"loop", "failed"}
          \/ pc[bucket[m]] = "next"
    /\ \A t \in Thread : pc[t] \in Holding => bucket[at[t]] = t
    /\ \A t \in Thread : pc[t] = "next" =>
          \E m \in Mutex : /\ \A n \in Mutex : bucket[n] = t <=> n = m
                           /\ td.owner[m] /= Nobody /\ Queue(td, m) /= {}

Owners ==
    \A m \in Mutex :
        /\ \A u \in Thread : m \in Owned(td, u) <=> td.owner[m] = u
        /\ td.owner[m] \in {Nobody, word[m].owner}
        /\ td.owner[m] /= Nobody => word[m].contended
        /\ td.owner[m] /= Nobody /\ Queue(td, m) = {} =>
              \E t \in Thread : pc[t] \in {"own", "add"} /\ at[t] = m

Flags ==
    \A m \in Mutex :
        /\ word[m].force_wait => word[m].contended
        /\ lent[m] = {} => ~word[m].contended
        /\ Queue(td, m) /= {} => word[m].contended

(* What each place of the slow paths knows of the mutex. *)
Words ==
    \A t \in Thread :
        /\ at[t] /= Nobody /\ pc[t] \notin {"won", "unlock"} => word[at[t]].owner /= t
        /\ pc[t] \in {"won", "unlock"} => word[at[t]].owner = t
        /\ pc[t] = "won" => td.owner[at[t]] = Nobody
        /\ pc[t] = "own" /\ t \in failed => td.owner[at[t]] /= Nobody
        /\ pc[t] = "own" /\ t \notin failed => word[at[t]].owner /= Nobody
        /\ pc[t] = "add" => /\ word[at[t]].contended
                            /\ word[at[t]].owner = Nobody => word[at[t]].force_wait
        /\ t \in awaken => word[at[t]].force_wait

(* A priority that is no longer inherited is going to be given back. *)
Boosts ==
    \A u \in Thread : Owned(td, u) = {} /\ real[u] /= Prio[u] =>
        \/ pc[u] = "self"
        \/ \E t \in Thread : prop[t] = u /\ pc[t] \in {"prop", "retry"}

IInv ==
    /\ Types /\ Calls /\ Timers /\ Locks /\ Lent /\ Queues /\ Buckets /\ Owners
    /\ Flags /\ Words /\ Boosts

--------------------------------------------------------------------------------
(* What each step that touches the turnstiles makes of them.               *)

(* turnstile_update_owner(): a turnstile with waiters belongs to the owner *)
(* of its mutex, one without to nobody. *)
Updated(x, y, u, m) ==
    /\ TdType(y)
    /\ SameQueues(x, y)
    /\ y.owner = [x.owner EXCEPT ![m] = IF Queue(x, m) = {} THEN Nobody ELSE u]
    /\ OwnedBecomes(x, y, u, IF Queue(x, m) = {} THEN Owned(x, u) \ {m}
                             ELSE Owned(x, u) \cup {m})

LEMMA OwnerUpdatedEffect ==
    ASSUME NEW x, TdType(x), NEW u \in Thread, NEW m \in Mutex,
           NEW r \in [Thread -> Nat],
           x.owner[m] \in {Nobody, u}, m \in Owned(x, u) <=> x.owner[m] = u
    PROVE  Updated(x, OwnerUpdated(x, u, m, r), u, m)
<1> DEFINE y == OwnerUpdated(x, u, m, r)
<1>1. /\ TdLists(x) /\ TopsBut(x, u) /\ x \in TdRecord
      /\ x.owner \in [Mutex -> Thread \cup {Nobody}]
  BY DEF TdType, TdLists, TopsBut, TdRecord
<1>2. turnstile_empty(x, m) <=> Queue(x, m) = {}
  BY <1>1, EmptyTurnstile
<1>3. CASE Queue(x, m) = {} /\ x.owner[m] = Nobody
  <2>1. y = x
    BY <1>2, <1>3 DEF OwnerUpdated
  <2>2. x.owner = [x.owner EXCEPT ![m] = Nobody]
    BY <1>1, <1>3
  <2>3. Owned(x, u) \ {m} = Owned(x, u)
    BY <1>3, NobodyAssumption
  <2> QED BY <1>3, <2>1, <2>2, <2>3 DEF Updated, SameQueues, OwnedBecomes
<1>4. CASE Queue(x, m) = {} /\ x.owner[m] /= Nobody
  BY <1>2, <1>4, DisownEffect DEF OwnerUpdated, Updated
<1>5. CASE Queue(x, m) /= {} /\ x.owner[m] = Nobody
  <2>1. m \notin Owned(x, u)
    BY <1>5, NobodyAssumption
  <2> QED BY <1>1, <1>2, <1>5, <2>1, OwnEffect DEF OwnerUpdated, Updated
<1>6. CASE Queue(x, m) /= {} /\ x.owner[m] /= Nobody
  <2>1. y = turnstile_td_reown(x, u, m, r)
    BY <1>2, <1>6 DEF OwnerUpdated
  <2>2. TdType(y) /\ SameQueues(x, y) /\ SameOwners(x, y)
    BY <1>6, <2>1, ReownEffect
  <2> HIDE DEF y
  <2>3. x.owner = [x.owner EXCEPT ![m] = u]
    BY <1>1, <1>6
  <2>4. Owned(x, u) \cup {m} = Owned(x, u)
    BY <1>6
  <2> QED BY <1>6, <2>2, <2>3, <2>4 DEF y, Updated, SameOwners, OwnedBecomes
<1> QED BY <1>3, <1>4, <1>5, <1>6

LEMMA AddWaiterTd ==
    ASSUME Types, Calls, Queues, NEW t \in Thread, AddWaiter(t)
    PROVE  /\ at[t] \in Mutex /\ TdType(td') /\ SameOwners(td, td')
           /\ QueueBecomes(td, td', at[t], Queue(td, at[t]) \cup {t})
<1>1. at[t] \in Mutex /\ pc[t] = "add" /\ real[t] \in Nat
  BY DEF AddWaiter, Goto, Calls, Types
<1>2. t \notin Queue(td, at[t])
  BY <1>1 DEF Queues, InQueue
<1>3. td' = turnstile_add_waiter(td, at[t], t, real[t])
  BY DEF AddWaiter
<1> QED BY <1>1, <1>2, <1>3, AddWaiterEffect DEF Types

LEMMA UpdateOwnerTd ==
    ASSUME Types, Calls, Queues, Owners, Words, NEW t \in Thread, UpdateOwner(t)
    PROVE  /\ at[t] \in Mutex
           /\ \E u \in Thread :
                /\ u = word[at[t]].owner /\ td_lock[u] = Nobody
                /\ td_lock' = [td_lock EXCEPT ![u] = t]
                /\ prop' = [prop EXCEPT ![t] = u]
                /\ Updated(td, td', u, at[t])
<1> DEFINE m == at[t]
           u == IF t \in failed THEN td.owner[m] ELSE word[m].owner
<1>1. m \in Mutex /\ pc[t] = "own"
  BY DEF UpdateOwner, Goto, Calls, Types
<1>2. u \in Thread /\ u = word[m].owner
  <2>1. word[m].owner \in Thread \cup {Nobody}
    BY <1>1 DEF Types, WordSet
  <2>2. td.owner[m] \in {Nobody, word[m].owner}
    BY <1>1 DEF Owners
  <2> QED BY <1>1, <2>1, <2>2 DEF Words
<1>3. /\ td' = OwnerUpdated(td, u, m, real)
      /\ td_lock[u] = Nobody
      /\ td_lock' = [td_lock EXCEPT ![u] = t]
      /\ prop' = [prop EXCEPT ![t] = u]
  BY DEF UpdateOwner
<1> HIDE DEF u
<1>4. td.owner[m] \in {Nobody, u} /\ (m \in Owned(td, u) <=> td.owner[m] = u)
  BY <1>1, <1>2 DEF Owners
<1>5. real \in [Thread -> Nat] /\ TdType(td)
  BY DEF Types
<1>6. Updated(td, td', u, m)
  BY <1>1, <1>2, <1>3, <1>4, <1>5, OwnerUpdatedEffect
<1> QED BY <1>1, <1>2, <1>3, <1>6

LEMMA LeaveTd ==
    ASSUME Types, Calls, NEW t \in Thread, Leave(t)
    PROVE  /\ at[t] \in Mutex /\ TdType(td') /\ SameOwners(td, td')
           /\ QueueBecomes(td, td', at[t], Queue(td, at[t]) \ {t})
<1>1. at[t] \in Mutex
  BY DEF Leave, Goto, Calls, Types
<1> QED BY <1>1, RemoveWaiterEffect DEF Leave, Types

LEMMA WonTd ==
    ASSUME Types, Calls, Owners, Words, NEW t \in Thread, Won(t)
    PROVE  /\ at[t] \in Mutex /\ TdType(td') /\ SameQueues(td, td')
           /\ \/ /\ Queue(td, at[t]) = {} /\ td' = td
                 /\ word' = [word EXCEPT ![at[t]] = LockedBy(t)]
              \/ /\ Queue(td, at[t]) /= {} /\ word' = word
                 /\ td'.owner = [td.owner EXCEPT ![at[t]] = t]
                 /\ OwnedBecomes(td, td', t, Owned(td, t) \cup {at[t]})
<1>1. at[t] \in Mutex /\ pc[t] = "won"
  BY DEF Won, Goto, Calls, Types
<1>2. /\ TdLists(td) /\ TopsBut(td, t) /\ td \in TdRecord /\ TdType(td)
      /\ real \in [Thread -> Nat]
  BY DEF Types, TdType, TdLists, TopsBut
<1>3. turnstile_empty(td, at[t]) <=> Queue(td, at[t]) = {}
  BY <1>1, <1>2, EmptyTurnstile
<1>4. at[t] \notin Owned(td, t)
  BY <1>1, NobodyAssumption DEF Words, Owners
<1>5. CASE Queue(td, at[t]) = {}
  BY <1>1, <1>2, <1>3, <1>5 DEF Won, SameQueues
<1>6. CASE Queue(td, at[t]) /= {}
  <2>1. td' = turnstile_td_own(td, t, at[t], real) /\ word' = word
    BY <1>3, <1>6 DEF Won
  <2> QED BY <1>1, <1>2, <1>4, <1>6, <2>1, OwnEffect
<1> QED BY <1>5, <1>6

LEMMA PropagateTd ==
    ASSUME Types, Calls, Queues, NEW t \in Thread, Propagate(t)
    PROVE  /\ prop[t] \in Thread
           /\ TdType(td') /\ SameQueues(td, td') /\ SameOwners(td, td')
           /\ real' = [real EXCEPT ![prop[t]] =
                          Inherited(td, prop[t], Prio[prop[t]], real)]
           /\ real' \in [Thread -> Nat \ {0}]
<1> DEFINE u == prop[t]
           m == WaitsIn(td, u)
           new == [real EXCEPT ![u] = Inherited(td, u, Prio[u], real)]
<1>1. u \in Thread
  BY DEF Propagate, Calls, Types
<1>2. new \in [Thread -> Nat \ {0}]
  <2>1. td.top[u] \in Nat /\ td.top_real[u] \in Nat
    BY <1>1 DEF Types, TdType, TdRecord
  <2>2. Prio[u] \in Nat \ {0} /\ real[u] \in Nat \ {0}
    BY <1>1, PrioAssumption DEF Types
  <2>3. Inherited(td, u, Prio[u], real) \in Nat \ {0}
    BY <2>1, <2>2 DEF Inherited
  <2> QED BY <1>1, <2>3 DEF Types
<1>3. real' = new
  BY DEF Propagate
<1>4. TdType(td') /\ SameQueues(td, td') /\ SameOwners(td, td')
  <2>1. CASE td' = td
    BY <2>1 DEF Types, SameQueues, SameOwners
  <2>2. CASE td' /= td
    <3>1. td' = turnstile_requeue_waiter(td, m, u, new[u]) /\ IsWaiting(td, u)
      BY <2>2 DEF Propagate
    <3>2. m \in Mutex /\ u \in Queue(td, m)
      <4>1. DOMAIN td.waiters = Mutex
        BY DEF Types, TdType, TdRecord
      <4> QED BY <3>1, <4>1 DEF WaitsIn, IsWaiting, Queue
    <3>3. new[u] \in Nat
      BY <1>1, <1>2
    <3> HIDE DEF m, new
    <3> QED BY <1>1, <3>1, <3>2, <3>3, RequeueWaiterEffect DEF Types
  <2> QED BY <2>1, <2>2
<1> QED BY <1>1, <1>2, <1>3, <1>4

LEMMA NextOwnerTd ==
    ASSUME Types, Calls, Buckets, Owners, NEW t \in Thread, NextOwner(t)
    PROVE  \E m \in Mutex, u \in Thread :
             /\ \A n \in Mutex : bucket[n] = t <=> n = m
             /\ td.owner[m] = u /\ td_lock[u] = Nobody
             /\ td_lock' = [td_lock EXCEPT ![u] = t]
             /\ prop' = [prop EXCEPT ![t] = u]
             /\ bucket' = [bucket EXCEPT ![m] = Nobody]
             /\ TdType(td') /\ SameQueues(td, td') /\ SameOwners(td, td')
<1> DEFINE m == CHOOSE m \in Mutex : bucket[m] = t
           u == td.owner[m]
<1>1. pc[t] = "next"
  BY DEF NextOwner, Goto
<1>2. /\ m \in Mutex /\ (\A n \in Mutex : bucket[n] = t <=> n = m)
      /\ td.owner[m] /= Nobody /\ Queue(td, m) /= {}
  <2>1. PICK k \in Mutex : /\ \A n \in Mutex : bucket[n] = t <=> n = k
                           /\ td.owner[k] /= Nobody /\ Queue(td, k) /= {}
    BY <1>1 DEF Buckets
  <2>2. m = k
    BY <2>1
  <2> QED BY <2>1, <2>2
<1>3. u \in Thread
  BY <1>2 DEF Types, TdType, TdRecord
<1>4. /\ td' = turnstile_td_reown(td, u, m, real)
      /\ td_lock[u] = Nobody
      /\ td_lock' = [td_lock EXCEPT ![u] = t]
      /\ prop' = [prop EXCEPT ![t] = u]
      /\ bucket' = [bucket EXCEPT ![m] = Nobody]
  BY DEF NextOwner
<1> HIDE DEF m
<1>5. m \in Owned(td, u)
  BY <1>2, <1>3 DEF Owners
<1>6. real \in [Thread -> Nat] /\ TdType(td)
  BY DEF Types
<1>7. TdType(td') /\ SameQueues(td, td') /\ SameOwners(td, td')
  BY <1>2, <1>3, <1>4, <1>5, <1>6, ReownEffect
<1> QED BY <1>2, <1>3, <1>4, <1>7

LEMMA UnlockSlowTd ==
    ASSUME Types, Owners, Words, Calls, NEW t \in Thread, UnlockSlow(t)
    PROVE  /\ at[t] \in Mutex /\ TdType(td') /\ SameQueues(td, td')
           /\ \/ td' = td /\ (lent[at[t]] = {} \/ td.owner[at[t]] = Nobody)
              \/ /\ td.owner[at[t]] = t
                 /\ td'.owner = [td.owner EXCEPT ![at[t]] = Nobody]
                 /\ OwnedBecomes(td, td', t, Owned(td, t) \ {at[t]})
<1>1. at[t] \in Mutex /\ pc[t] = "unlock"
  BY DEF UnlockSlow, Goto, Calls, Types
<1>2. TdType(td) /\ real \in [Thread -> Nat]
  BY DEF Types
<1>3. CASE lent[at[t]] = {} \/ td.owner[at[t]] = Nobody
  BY <1>1, <1>2, <1>3 DEF UnlockSlow, SameQueues
<1>4. CASE lent[at[t]] /= {} /\ td.owner[at[t]] /= Nobody
  <2>1. td' = turnstile_td_disown(td, t, at[t], real)
    BY <1>4 DEF UnlockSlow
  <2>2. td.owner[at[t]] = t
    BY <1>1, <1>4 DEF Owners, Words
  <2> QED BY <1>1, <1>2, <2>1, <2>2, DisownEffect
<1> QED BY <1>3, <1>4

--------------------------------------------------------------------------------
(* The invariant, one part after the other. *)

(* The values a mutex's word is given. *)
LEMMA WordValues ==
    ASSUME NEW t \in Thread
    PROVE  /\ LockedBy(t) \in WordSet /\ LockedBy(t).owner = t
           /\ ~LockedBy(t).contended /\ ~LockedBy(t).force_wait
           /\ Unlocked \in WordSet /\ Unlocked.owner = Nobody
           /\ ~Unlocked.contended /\ ~Unlocked.force_wait
           /\ Contended \in WordSet /\ Contended.owner = Nobody
           /\ Contended.contended /\ ~Contended.force_wait
           /\ Passed \in WordSet /\ Passed.owner = Nobody
           /\ Passed.contended /\ Passed.force_wait
BY DEF WordSet, LockedBy, Unlocked, Contended, Passed

LEMMA MarkChange ==
    ASSUME NEW w \in WordSet
    PROVE  LET v == [w EXCEPT !.contended = TRUE] IN
           /\ v \in WordSet /\ v.contended /\ v.owner = w.owner
           /\ v.force_wait = w.force_wait
BY DEF WordSet

LEMMA AttemptChange ==
    ASSUME NEW t \in Thread, NEW w \in WordSet, NEW bits \in WordSet
    PROVE  LET v == Attempt(w, bits, t) IN
           /\ v \in WordSet /\ v.contended = w.contended
           /\ v.force_wait = w.force_wait
           /\ v.owner = IF w = bits THEN t ELSE w.owner
BY DEF WordSet, Attempt

LEMMA ClearChange ==
    ASSUME NEW w \in WordSet
    PROVE  LET v == [Unlocked EXCEPT !.owner = w.owner] IN
           v \in WordSet /\ ~v.contended /\ ~v.force_wait /\ v.owner = w.owner
BY DEF WordSet, Unlocked

(* Equal words have equal fields. *)
LEMMA WordEqual ==
    ASSUME NEW v \in WordSet, NEW w \in WordSet
    PROVE  v = w <=> /\ v.owner = w.owner /\ v.contended = w.contended
                     /\ v.force_wait = w.force_wait
BY DEF WordSet

(* What sleeping, waking up and timing out do to the state of threads. *)
LEMMA ResumeChange ==
    ASSUME NEW x \in Threads(Thread), NEW t \in Thread
    PROVE  LET y == thread_resume(x, t) IN
           /\ y \in Threads(Thread)
           /\ y.armed \subseteq x.armed /\ y.timedout \subseteq x.timedout
BY DEF Threads, thread_resume

LEMMA SleepChange ==
    ASSUME NEW x \in Threads(Thread), NEW t \in Thread, NEW timed \in BOOLEAN
    PROVE  LET y == thread_sleep(x, t, timed) IN
           /\ y \in Threads(Thread) /\ y.timedout = x.timedout
           /\ y.armed = IF timed THEN x.armed \cup {t} ELSE x.armed
BY DEF Threads, thread_sleep

LEMMA WakeupChange ==
    ASSUME NEW x \in Threads(Thread), NEW t \in Thread
    PROVE  LET y == thread_wakeup(x, t) IN
           /\ y \in Threads(Thread)
           /\ y.armed = x.armed /\ y.timedout \subseteq x.timedout
BY DEF Threads, thread_wakeup, thread_wakeup_common

LEMMA TimeoutChange ==
    ASSUME NEW x \in Threads(Thread), NEW t \in Thread
    PROVE  LET y == thread_timeout(x, t) IN
           /\ y \in Threads(Thread)
           /\ y.armed \subseteq x.armed /\ y.timedout \subseteq x.timedout \cup {t}
BY DEF Threads, thread_timeout, thread_wakeup_common

LEMMA RtInit == Init => IInv
<1> SUFFICES ASSUME Init PROVE IInv
  OBVIOUS
<1>1. td = NoTurnstile
  BY DEF Init
<1>2. td \in TdRecord
  BY <1>1 DEF NoTurnstile, TdRecord
<1>3. /\ \A m \in Mutex : td.waiters[m] = <<>> /\ td.owner[m] = Nobody
      /\ \A u \in Thread : td.owned[u] = <<>> /\ td.top[u] = 0
  BY <1>1 DEF NoTurnstile
<1>4. /\ \A m \in Mutex : Queue(td, m) = {}
      /\ \A u \in Thread : Owned(td, u) = {}
  BY <1>3 DEF Queue, Owned, ToSet
<1>5. IsInjective(<<>>)
  BY DEF IsInjective
<1>6. TdType(td)
  BY <1>2, <1>3, <1>5 DEF TdType
<1>7. Types
  BY <1>6, NobodyAssumption, PrioAssumption
     DEF Init, Types, WordSet, Threads, AllRunning, Places
<1>8. Calls /\ Timers /\ Lent /\ Queues /\ Flags /\ Words /\ Boosts
  BY <1>4, NobodyAssumption
     DEF Init, Calls, Timers, Lent, Queues, Flags, Words, Boosts, InQueue, AllRunning
<1>9. Locks /\ Buckets /\ Owners
  BY <1>3, <1>4, NobodyAssumption DEF Init, Locks, Buckets, Owners, Holding
<1> QED BY <1>7, <1>8, <1>9 DEF IInv

LEMMA TypesStep ==
    ASSUME IInv, [Next]_vars
    PROVE  Types'
<1> USE DEF Goto
<1>a. Types /\ Calls
  BY DEF IInv
<1>1. ASSUME NEW t \in Thread, NEW m \in Mutex,
             LockFast(t, m) \/ LockSlow(t, m) \/ Unlock(t, m)
      PROVE  Types'
  <2>1. word' \in [Mutex -> WordSet]
    BY <1>1, <1>a, WordValues DEF LockFast, LockSlow, Unlock, Types
  <2> QED BY <1>1, <1>a, <2>1 DEF LockFast, LockSlow, Unlock, Types, Places
<1>2. ASSUME NEW t \in Thread, Timeout(t) PROVE Types'
  <2>1. th' \in Threads(Thread)
    BY <1>2, <1>a, TimeoutChange DEF Timeout, Types
  <2> QED BY <1>2, <1>a, <2>1 DEF Timeout, Types
<1>3. ASSUME NEW t \in Thread, Lend(t) PROVE Types'
  <2>1. at[t] \in Mutex
    BY <1>3, <1>a DEF Lend, Types, Calls
  <2>2. pc' \in [Thread -> Places]
    BY <1>3, <1>a DEF Lend, Types, Places
  <2>3. word' \in [Mutex -> WordSet]
    <3> DEFINE w == [word[at[t]] EXCEPT !.contended = TRUE]
    <3>1. w \in WordSet
      BY <1>a, <2>1, MarkChange DEF Types
    <3>2. Attempt(w, Contended, t) \in WordSet
      BY <3>1, WordValues, AttemptChange
    <3> QED BY <1>3, <1>a, <2>1, <3>2 DEF Lend, Types
  <2> QED BY <1>3, <1>a, <2>1, <2>2, <2>3 DEF Lend, Types
<1>4. ASSUME NEW t \in Thread, AddWaiter(t) PROVE Types'
  <2>1. at[t] \in Mutex /\ TdType(td')
    BY <1>4, AddWaiterTd DEF IInv
  <2>2. awaken' \subseteq Thread
    BY <1>4, <1>a DEF AddWaiter, Types
  <2> QED BY <1>4, <1>a, <2>1, <2>2 DEF AddWaiter, Types, Places
<1>5. ASSUME NEW t \in Thread, UpdateOwner(t) PROVE Types'
  <2>1. PICK u \in Thread : /\ td_lock' = [td_lock EXCEPT ![u] = t]
                            /\ prop' = [prop EXCEPT ![t] = u]
                            /\ TdType(td')
    BY <1>5, UpdateOwnerTd DEF IInv, Updated
  <2>2. at[t] \in Mutex
    BY <1>5, UpdateOwnerTd DEF IInv
  <2>3. /\ pc' = [pc EXCEPT ![t] = "prop"]
        /\ bucket' = [bucket EXCEPT ![at[t]] = Nobody]
        /\ UNCHANGED <<word, lent, awaken, real, th, at, failed>>
    BY <1>5 DEF UpdateOwner
  <2> QED BY <1>a, <2>1, <2>2, <2>3 DEF Types, Places
<1>6. ASSUME NEW t \in Thread, Turn(t) PROVE Types'
  <2> DEFINE m == at[t]
             top == top_waiter(td, m)
  <2>1. m \in Mutex /\ InQueue(t)
    BY <1>6, <1>a DEF Turn, Types, Calls, InQueue
  <2>2. Queue(td, m) /= {}
    BY <2>1 DEF IInv, Queues
  <2>3. top \in Thread
    BY <1>a, <2>1, <2>2, TopWaits DEF Types, TdType
  <2> HIDE DEF top
  <2>4. \/ /\ pc' = [pc EXCEPT ![t] = "leave"] /\ bucket' = [bucket EXCEPT ![m] = t]
           /\ failed' \in {failed, failed \cup {t}} /\ awaken' = awaken
        \/ /\ pc' = [pc EXCEPT ![t] = "asleep"]
           /\ bucket' = [bucket EXCEPT ![m] = Nobody]
           /\ failed' = failed /\ awaken' \in {awaken, (awaken \cup {top}) \ {t}}
    BY <1>6 DEF Turn, top
  <2>5. th' \in Threads(Thread)
    <3> DEFINE woken == thread_resume(th, t)
    <3>1. woken \in Threads(Thread)
      BY <1>a, ResumeChange DEF Types
    <3>2. thread_wakeup(woken, top) \in Threads(Thread)
      BY <2>3, <3>1, WakeupChange
    <3> DEFINE timed == t \in Impatient
    <3> HIDE DEF woken
    <3> DEFINE first == IF top \in awaken THEN woken ELSE thread_wakeup(woken, top)
    <3>3. \/ th' = woken
          \/ th' = thread_sleep(first, t, timed)
          \/ th' = thread_sleep(woken, t, timed)
      BY <1>6, Zenon DEF Turn, top, woken
    <3>6. first \in {woken, thread_wakeup(woken, top)}
      OBVIOUS
    <3> HIDE DEF first
    <3>4. timed \in BOOLEAN
      OBVIOUS
    <3> HIDE DEF timed
    <3>5. /\ thread_sleep(woken, t, timed) \in Threads(Thread)
          /\ thread_sleep(thread_wakeup(woken, top), t, timed) \in Threads(Thread)
      BY <3>1, <3>2, <3>4, SleepChange
    <3> QED BY <3>1, <3>3, <3>5, <3>6
  <2>6. UNCHANGED <<word, lent, td, td_lock, real, at, prop>>
    BY <1>6 DEF Turn
  <2> QED BY <1>a, <2>1, <2>3, <2>4, <2>5, <2>6 DEF Types, Places
<1>7. ASSUME NEW t \in Thread, Leave(t) PROVE Types'
  <2>1. at[t] \in Mutex /\ TdType(td')
    BY <1>7, LeaveTd DEF IInv
  <2>2. pc' \in [Thread -> Places]
    BY <1>7, <1>a DEF Leave, Types, Places
  <2>3. word' \in [Mutex -> WordSet]
    <3>1. word[at[t]] \in WordSet
      BY <1>a, <2>1 DEF Types
    <3>2. Attempt(word[at[t]], Passed, t) \in WordSet
      BY <3>1, WordValues, AttemptChange
    <3> QED BY <1>7, <1>a, <2>1, <3>2 DEF Leave, Types
  <2> QED BY <1>7, <1>a, <2>1, <2>2, <2>3 DEF Leave, Types
<1>8. ASSUME NEW t \in Thread, Won(t) PROVE Types'
  <2>1. at[t] \in Mutex /\ TdType(td')
    BY <1>8, WonTd DEF IInv
  <2>2. word' \in [Mutex -> WordSet]
    BY <1>8, <1>a, <2>1, WordValues DEF Won, Types
  <2> QED BY <1>8, <1>a, <2>1, <2>2 DEF Won, Return, Types, Places
<1>9. ASSUME NEW t \in Thread, Failed(t) PROVE Types'
  <2>1. at[t] \in Mutex
    BY <1>9, <1>a DEF Failed, Types, Calls
  <2>2. word' \in [Mutex -> WordSet]
    <3>1. [Unlocked EXCEPT !.owner = word[at[t]].owner] \in WordSet
      BY <1>a, <2>1, ClearChange DEF Types
    <3> QED BY <1>9, <1>a, <2>1, <3>1 DEF Failed, Types
  <2> QED BY <1>9, <1>a, <2>1, <2>2 DEF Failed, Return, Types, Places
<1>10. ASSUME NEW t \in Thread, Propagate(t) PROVE Types'
  <2>1. prop[t] \in Thread /\ TdType(td') /\ real' \in [Thread -> Nat \ {0}]
    BY <1>10, PropagateTd DEF IInv
  <2>2. /\ pc' \in [Thread -> Places]
        /\ prop' \in [Thread -> Thread \cup {Nobody}]
        /\ td_lock' \in [Thread -> Thread \cup {Nobody}]
        /\ bucket' \in [Mutex -> Thread \cup {Nobody}]
    BY <1>10, <1>a DEF Propagate, Done, After, Types, Places
  <2> QED BY <1>10, <1>a, <2>1, <2>2 DEF Propagate, Types
<1>11. ASSUME NEW t \in Thread, Retry(t) \/ PropagateSelf(t) PROVE Types'
  BY <1>11, <1>a DEF Retry, PropagateSelf, Types, Places
<1>12. ASSUME NEW t \in Thread, NextOwner(t) PROVE Types'
  <2>1. PICK m \in Mutex, u \in Thread :
             /\ td_lock' = [td_lock EXCEPT ![u] = t]
             /\ prop' = [prop EXCEPT ![t] = u]
             /\ bucket' = [bucket EXCEPT ![m] = Nobody]
             /\ TdType(td')
    BY <1>12, NextOwnerTd DEF IInv
  <2>2. /\ pc' = [pc EXCEPT ![t] = "prop"]
        /\ UNCHANGED <<word, lent, awaken, real, th, at, failed>>
    BY <1>12 DEF NextOwner
  <2> QED BY <1>a, <2>1, <2>2 DEF Types, Places
<1>13. ASSUME NEW t \in Thread, UnlockSlow(t) PROVE Types'
  <2>1. at[t] \in Mutex /\ TdType(td')
    BY <1>13, UnlockSlowTd DEF IInv
  <2>2. awaken' \subseteq Thread /\ th' \in Threads(Thread)
    <3>1. CASE Queue(td, at[t]) = {}
      <4>1. turnstile_empty(td, at[t])
        BY <1>a, <2>1, <3>1, EmptyTurnstile DEF Types, TdType
      <4> QED BY <1>13, <1>a, <4>1 DEF UnlockSlow, Types
    <3>2. CASE Queue(td, at[t]) /= {}
      <4>1. top_waiter(td, at[t]) \in Thread
        BY <1>a, <2>1, <3>2, TopWaits DEF Types, TdType
      <4>2. thread_wakeup(th, top_waiter(td, at[t])) \in Threads(Thread)
        BY <1>a, <4>1, WakeupChange DEF Types
      <4> QED BY <1>13, <1>a, <4>1, <4>2 DEF UnlockSlow, Types
    <3> QED BY <3>1, <3>2
  <2>3. word' \in [Mutex -> WordSet]
    BY <1>13, <1>a, <2>1, WordValues DEF UnlockSlow, Types
  <2> QED BY <1>13, <1>a, <2>1, <2>2, <2>3 DEF UnlockSlow, Types, Places
<1>14. CASE UNCHANGED vars
  BY <1>14, <1>a DEF vars, Types
<1> QED BY <1>1, <1>2, <1>3, <1>4, <1>5, <1>6, <1>7, <1>8, <1>9, <1>10, <1>11,
           <1>12, <1>13, <1>14 DEF Next, Progress

LEMMA LockFastStep ==
    ASSUME IInv, NEW t \in Thread, NEW m \in Mutex, LockFast(t, m), Types'
    PROVE  IInv'
<1>1. /\ pc[t] = "run" /\ word[m] = Unlocked /\ at[t] = Nobody
      /\ word' = [word EXCEPT ![m] = LockedBy(t)]
      /\ UNCHANGED <<bucket, lent, td, td_lock, awaken, real, th, at, failed, prop, pc>>
  BY DEF LockFast, IInv, Calls
<1>2. /\ ~word[m].contended /\ ~word[m].force_wait /\ word[m].owner = Nobody
      /\ ~word'[m].contended /\ ~word'[m].force_wait /\ word'[m].owner = t
      /\ \A n \in Mutex : n /= m => word'[n] = word[n]
  BY <1>1, WordValues DEF IInv, Types
<1>3. Calls' /\ Timers' /\ Locks' /\ Lent' /\ Queues' /\ Buckets' /\ Boosts'
  BY <1>1 DEF IInv, Calls, Timers, Locks, Lent, Queues, Buckets, Boosts, InQueue
<1>4. Owners'
  BY <1>1, <1>2 DEF IInv, Owners
<1>5. Flags'
  BY <1>1, <1>2 DEF IInv, Flags
<1>6. Words'
  BY <1>1, <1>2, NobodyAssumption DEF IInv, Types, Calls, InQueue, Words
<1> QED BY <1>3, <1>4, <1>5, <1>6 DEF IInv

LEMMA LockSlowStep ==
    ASSUME IInv, NEW t \in Thread, NEW m \in Mutex, LockSlow(t, m), Types'
    PROVE  IInv'
<1>1. /\ pc[t] = "run" /\ pc' = [pc EXCEPT ![t] = "lend"]
      /\ at' = [at EXCEPT ![t] = m]
      /\ UNCHANGED <<word, bucket, lent, td, td_lock, awaken, real, th, failed, prop>>
  BY DEF LockSlow, Goto
<1>2. word[m].owner /= t
  <2>1. PICK i \in DOMAIN Path[t] :
            m = Path[t][i] /\ Held(t) = {Path[t][j] : j \in 1..(i - 1)}
    BY DEF LockSlow, NextOnPath
  <2>2. Path[t] \in Seq(Mutex) /\ IsInjective(Path[t])
    BY PathAssumption
  <2>3. \A j \in 1..(i - 1) : Path[t][j] /= Path[t][i]
    BY <2>2 DEF IsInjective
  <2> QED BY <2>1, <2>3 DEF Held
<1>3. at[t] = Nobody /\ t \notin failed /\ t \notin awaken /\ prop[t] = Nobody
  BY <1>1 DEF IInv, Calls, InQueue
<1>4. Calls' /\ Timers' /\ Locks' /\ Lent' /\ Queues'
  BY <1>1, <1>3, NobodyAssumption
     DEF IInv, Types, Calls, Timers, Locks, Lent, Queues, InQueue
<1>5. Buckets'
  BY <1>1, <1>3, NobodyAssumption DEF IInv, Types, Buckets, Holding
<1>6. Owners'
  BY <1>1, <1>3 DEF IInv, Types, Owners
<1>7. Flags'
  BY <1>1 DEF IInv, Flags
<1>8. Words'
  BY <1>1, <1>2, <1>3 DEF IInv, Types, Words
<1>9. Boosts'
  BY <1>1, <1>3 DEF IInv, Types, Boosts
<1> QED BY <1>4, <1>5, <1>6, <1>7, <1>8, <1>9 DEF IInv

LEMMA UnlockStep ==
    ASSUME IInv, NEW t \in Thread, NEW m \in Mutex, Unlock(t, m), Types'
    PROVE  IInv'
<1>1. /\ pc[t] = "run" /\ word[m].owner = t
      /\ UNCHANGED <<bucket, lent, td, td_lock, awaken, real, th, failed, prop>>
  BY DEF Unlock, Goto
<1>2. at[t] = Nobody /\ t \notin failed /\ t \notin awaken /\ prop[t] = Nobody
  BY <1>1 DEF IInv, Calls, InQueue
<1>3. CASE word[m] = LockedBy(t)
  <2>1. word' = [word EXCEPT ![m] = Unlocked] /\ UNCHANGED <<at, pc>>
    BY <1>3 DEF Unlock
  <2>2. /\ ~word[m].contended /\ ~word[m].force_wait
        /\ ~word'[m].contended /\ ~word'[m].force_wait /\ word'[m].owner = Nobody
        /\ \A n \in Mutex : n /= m => word'[n] = word[n]
    BY <1>3, <2>1, WordValues DEF IInv, Types
  <2>3. Calls' /\ Timers' /\ Locks' /\ Lent' /\ Queues' /\ Buckets' /\ Boosts'
    BY <1>1, <2>1 DEF IInv, Calls, Timers, Locks, Lent, Queues, Buckets, Boosts, InQueue
  <2>4. Owners'
    BY <1>1, <2>1, <2>2 DEF IInv, Owners
  <2>5. Flags'
    BY <1>1, <2>1, <2>2 DEF IInv, Flags
  <2>6. Words'
    BY <1>1, <1>2, <2>1, <2>2, NobodyAssumption
       DEF IInv, Types, Words, Flags, Queues, InQueue
  <2> QED BY <2>3, <2>4, <2>5, <2>6 DEF IInv
<1>4. CASE word[m] /= LockedBy(t)
  <2>1. /\ pc' = [pc EXCEPT ![t] = "unlock"] /\ at' = [at EXCEPT ![t] = m]
        /\ word' = word
    BY <1>4 DEF Unlock, Goto
  <2>2. Calls' /\ Timers' /\ Locks' /\ Lent' /\ Queues'
    BY <1>1, <1>2, <2>1, NobodyAssumption
       DEF IInv, Types, Calls, Timers, Locks, Lent, Queues, InQueue
  <2>3. Buckets'
    BY <1>1, <1>2, <2>1, NobodyAssumption DEF IInv, Types, Buckets, Holding
  <2>4. Owners' /\ Flags'
    BY <1>1, <1>2, <2>1 DEF IInv, Types, Owners, Flags
  <2>5. Words' /\ Boosts'
    BY <1>1, <1>2, <2>1, NobodyAssumption DEF IInv, Types, Words, Boosts
  <2> QED BY <2>2, <2>3, <2>4, <2>5 DEF IInv
<1> QED BY <1>3, <1>4

LEMMA TimeoutStep ==
    ASSUME IInv, NEW t \in Thread, Timeout(t), Types'
    PROVE  IInv'
<1>1. /\ t \in th.armed /\ th' = thread_timeout(th, t)
      /\ UNCHANGED <<word, bucket, lent, td, td_lock, awaken, real, at, failed, prop, pc>>
  BY DEF Timeout
<1>2. th'.armed \subseteq th.armed /\ th'.timedout \subseteq th.timedout \cup {t}
  BY <1>1, TimeoutChange DEF IInv, Types
<1>3. Timers'
  BY <1>1, <1>2 DEF IInv, Timers
<1>4. /\ Calls' /\ Locks' /\ Lent' /\ Queues' /\ Buckets' /\ Owners' /\ Flags'
      /\ Words' /\ Boosts'
  BY <1>1 DEF IInv, Calls, Locks, Lent, Queues, Buckets, Owners, Flags, Words, Boosts,
              InQueue
<1> QED BY <1>3, <1>4 DEF IInv

LEMMA LendStep ==
    ASSUME IInv, NEW t \in Thread, Lend(t), Types'
    PROVE  IInv'
<1> DEFINE m == at[t]
           w == [word[m] EXCEPT !.contended = TRUE]
           won == w = Contended
<1>1. /\ pc[t] = "lend" /\ pc' = [pc EXCEPT ![t] = IF won THEN "won" ELSE "add"]
      /\ bucket[m] = Nobody /\ bucket' = [bucket EXCEPT ![m] = t]
      /\ lent' = [lent EXCEPT ![m] = @ \cup {t}]
      /\ word' = [word EXCEPT ![m] = Attempt(w, Contended, t)]
      /\ UNCHANGED <<td, td_lock, awaken, real, th, at, failed, prop>>
  BY DEF Lend, Goto
<1>2. /\ m \in Mutex /\ t \notin failed /\ t \notin awaken /\ prop[t] = Nobody
      /\ word[m].owner /= t
  BY <1>1 DEF IInv, Types, Calls, InQueue, Words
<1>3. /\ word'[m].contended /\ word'[m].force_wait = word[m].force_wait
      /\ word'[m].owner = IF won THEN t ELSE word[m].owner
      /\ won <=> word[m].owner = Nobody /\ ~word[m].force_wait
      /\ \A n \in Mutex : n /= m => word'[n] = word[n]
  <2>1. word[m] \in WordSet
    BY <1>2 DEF IInv, Types
  <2>2. w \in WordSet /\ w.contended /\ w.owner = word[m].owner
          /\ w.force_wait = word[m].force_wait
    BY <2>1, MarkChange
  <2>3. word'[m] = Attempt(w, Contended, t)
    BY <1>1, <1>2 DEF IInv, Types
  <2> HIDE DEF w, m
  <2>4. /\ word'[m].contended /\ word'[m].force_wait = word[m].force_wait
        /\ word'[m].owner = IF won THEN t ELSE word[m].owner
    BY <2>2, <2>3, WordValues, AttemptChange
  <2>5. won <=> word[m].owner = Nobody /\ ~word[m].force_wait
    <3>1. /\ Contended \in WordSet /\ Contended.owner = Nobody
          /\ Contended.contended /\ ~Contended.force_wait
      BY WordValues
    <3>2. word[m].force_wait \in BOOLEAN /\ Contended.force_wait \in BOOLEAN
          /\ w.contended \in BOOLEAN /\ Contended.contended \in BOOLEAN
      BY <2>1, <2>2, <3>1 DEF WordSet
    <3> QED BY <2>2, <3>1, <3>2, WordEqual
  <2>6. \A n \in Mutex : n /= m => word'[n] = word[n]
    BY <1>1 DEF IInv, Types
  <2> QED BY <2>4, <2>5, <2>6
<1> HIDE DEF w, won
<1>4. pc'[t] \in {"won", "add"} /\ \A s \in Thread : s /= t => pc'[s] = pc[s]
  BY <1>1 DEF IInv, Types
<1>5. Calls' /\ Timers' /\ Locks' /\ Queues'
  BY <1>1, <1>2, <1>4 DEF IInv, Types, Calls, Timers, Locks, Queues, InQueue
<1>6. Lent' /\ Flags'
  BY <1>1, <1>2, <1>3, <1>4 DEF IInv, Types, Lent, Flags
<1>7. Buckets'
  BY <1>1, <1>2, <1>4, NobodyAssumption DEF IInv, Types, Buckets, Holding
<1>8. Owners'
  BY <1>1, <1>2, <1>3, <1>4 DEF IInv, Owners
<1>9. Words'
  <2>1. won => td.owner[m] = Nobody
    BY <1>2, <1>3 DEF IInv, Owners
  <2> QED BY <1>1, <1>2, <1>3, <2>1, NobodyAssumption DEF IInv, Types, Words
<1>10. Boosts'
  BY <1>1, <1>2, <1>4 DEF IInv, Boosts
<1> QED BY <1>5, <1>6, <1>7, <1>8, <1>9, <1>10 DEF IInv

LEMMA AddWaiterStep ==
    ASSUME IInv, NEW t \in Thread, AddWaiter(t), Types'
    PROVE  IInv'
<1> DEFINE m == at[t]
           free == word[m].owner = Nobody
<1>1. /\ pc[t] = "add" /\ pc' = [pc EXCEPT ![t] = IF free THEN "loop" ELSE "own"]
      /\ awaken' \in {awaken \cup {t}, awaken \ {t}}
      /\ ~free => awaken' = awaken \ {t}
      /\ UNCHANGED <<word, bucket, lent, td_lock, real, th, at, failed, prop>>
  BY DEF AddWaiter, Goto
<1>2. /\ m \in Mutex /\ SameOwners(td, td')
      /\ QueueBecomes(td, td', m, Queue(td, m) \cup {t})
  BY AddWaiterTd DEF IInv
<1>3. t \notin failed /\ prop[t] = Nobody /\ bucket[m] = t
  BY <1>1 DEF IInv, Calls, Buckets, Holding
<1>4. /\ pc'[t] = IF free THEN "loop" ELSE "own"
      /\ \A s \in Thread : s /= t => pc'[s] = pc[s]
  BY <1>1 DEF IInv, Types
<1>5. Calls' /\ Timers' /\ Locks' /\ Lent'
  BY <1>1, <1>2, <1>3, <1>4, NobodyAssumption
     DEF IInv, Types, Calls, Timers, Locks, Lent, InQueue
<1>6. Queues'
  BY <1>1, <1>2, <1>3, <1>4, NobodyAssumption
     DEF IInv, Queues, InQueue, QueueBecomes
<1>7. Buckets'
  BY <1>1, <1>2, <1>3, <1>4, NobodyAssumption
     DEF IInv, Types, Buckets, Holding, SameOwners, QueueBecomes
<1>8. Owners'
  BY <1>1, <1>2, <1>4 DEF IInv, Owners, SameOwners, QueueBecomes
<1>9. Flags'
  BY <1>1, <1>2 DEF IInv, Flags, Words, QueueBecomes
<1>10. Words'
  BY <1>1, <1>2, <1>3, <1>4, NobodyAssumption DEF IInv, Types, Words, SameOwners
<1>11. Boosts'
  BY <1>1, <1>2, <1>4 DEF IInv, Boosts, SameOwners
<1> QED BY <1>5, <1>6, <1>7, <1>8, <1>9, <1>10, <1>11 DEF IInv

LEMMA UpdateOwnerStep ==
    ASSUME IInv, NEW t \in Thread, UpdateOwner(t), Types'
    PROVE  IInv'
<1> DEFINE m == at[t]
<1>1. /\ pc[t] = "own" /\ pc' = [pc EXCEPT ![t] = "prop"]
      /\ bucket' = [bucket EXCEPT ![m] = Nobody]
      /\ UNCHANGED <<word, lent, awaken, real, th, at, failed>>
  BY DEF UpdateOwner, Goto
<1>2. PICK u \in Thread : /\ u = word[m].owner /\ td_lock[u] = Nobody
                          /\ td_lock' = [td_lock EXCEPT ![u] = t]
                          /\ prop' = [prop EXCEPT ![t] = u]
                          /\ Updated(td, td', u, m)
  BY UpdateOwnerTd DEF IInv
<1>3. m \in Mutex /\ bucket[m] = t
  BY <1>1 DEF IInv, Types, Calls, Buckets, Holding
<1>4. /\ \A n \in Mutex : Queue(td', n) = Queue(td, n)
      /\ \A n \in Mutex : td'.owner[n] =
            IF n = m THEN IF Queue(td, m) = {} THEN Nobody ELSE u ELSE td.owner[n]
      /\ \A v \in Thread : v /= u => Owned(td', v) = Owned(td, v)
      /\ Owned(td', u) = IF Queue(td, m) = {} THEN Owned(td, u) \ {m}
                         ELSE Owned(td, u) \cup {m}
  BY <1>2 DEF IInv, Types, TdType, TdRecord, Updated, SameQueues, OwnedBecomes
<1>5. pc'[t] = "prop" /\ \A s \in Thread : s /= t => pc'[s] = pc[s]
  BY <1>1 DEF IInv, Types
<1>6. prop'[t] = u /\ \A s \in Thread : s /= t => prop'[s] = prop[s]
  BY <1>2 DEF IInv, Types
<1>7. Calls' /\ Timers' /\ Lent'
  BY <1>1, <1>5, <1>6, NobodyAssumption
     DEF IInv, Types, Calls, Timers, Lent, InQueue
<1>8. Locks'
  BY <1>1, <1>2, <1>5, <1>6, NobodyAssumption DEF IInv, Types, Locks
<1>9. Queues'
  BY <1>1, <1>4, <1>5 DEF IInv, Queues, InQueue
<1>10. Buckets'
  BY <1>1, <1>3, <1>4, <1>5, NobodyAssumption DEF IInv, Types, Buckets, Holding
<1>11. Owners'
  <2> SUFFICES ASSUME NEW n \in Mutex PROVE Owners!(n)'
    BY DEF Owners
  <2>1. CASE n = m
    BY <1>1, <1>2, <1>3, <1>4, <2>1, NobodyAssumption DEF IInv, Owners, Flags
  <2>2. CASE n /= m
    BY <1>1, <1>2, <1>3, <1>4, <1>5, <2>2, NobodyAssumption DEF IInv, Owners
  <2> QED BY <2>1, <2>2
<1>12. Flags'
  BY <1>1, <1>4 DEF IInv, Flags
<1>13. Words'
  <2>1. \A s \in Thread : s /= t /\ at[s] = m => pc[s] \notin Holding
    BY <1>3 DEF IInv, Buckets
  <2>2. \A s \in Thread : s /= t /\ at[s] /= Nobody /\ at[s] /= m =>
            td'.owner[at[s]] = td.owner[at[s]]
    BY <1>4 DEF IInv, Types
  <2> SUFFICES ASSUME NEW s \in Thread PROVE Words!(s)'
    BY DEF Words
  <2>3. CASE s = t
    BY <1>1, <1>5, <2>3 DEF IInv, Words
  <2>4. CASE s /= t
    BY <1>1, <1>5, <2>1, <2>2, <2>4 DEF IInv, Words, Calls, InQueue, Holding
  <2> QED BY <2>3, <2>4
<1>14. Boosts'
  BY <1>1, <1>4, <1>5, <1>6 DEF IInv, Boosts
<1> QED BY <1>7, <1>8, <1>9, <1>10, <1>11, <1>12, <1>13, <1>14 DEF IInv

LEMMA TurnStep ==
    ASSUME IInv, NEW t \in Thread, Turn(t), Types'
    PROVE  IInv'
<1> DEFINE m == at[t]
           top == top_waiter(td, m)
           woken == thread_resume(th, t)
<1>1. /\ pc[t] \in {"loop", "asleep"} /\ bucket[m] \in {t, Nobody}
      /\ UNCHANGED <<word, lent, td, td_lock, real, at, prop>>
  BY DEF Turn
<1>2. m \in Mutex /\ InQueue(t) /\ t \in Queue(td, m) /\ t \notin failed
  BY <1>1 DEF IInv, Types, Calls, InQueue, Queues
<1>3. top \in Thread /\ top \in Queue(td, m)
  BY <1>2, TopWaits DEF IInv, Types, TdType
<1>4. at[top] = m /\ InQueue(top)
  BY <1>2, <1>3 DEF IInv, Queues
<1>5. PICK to \in {"leave", "asleep"} :
        /\ pc' = [pc EXCEPT ![t] = to]
        /\ bucket' = [bucket EXCEPT ![m] = IF to = "leave" THEN t ELSE Nobody]
        /\ \/ failed' = failed
           \/ failed' = failed \cup {t} /\ to = "leave" /\ t \in th.timedout
        /\ \/ awaken' = awaken
           \/ t \in awaken /\ top /= t /\ awaken' = (awaken \cup {top}) \ {t}
        /\ to = "leave" => t \in awaken' \cup failed'
  <2>1. CASE pc' = [pc EXCEPT ![t] = "leave"]
    BY <1>2, <2>1 DEF Turn, IInv, Types
  <2>2. CASE pc' = [pc EXCEPT ![t] = "asleep"]
    BY <1>2, <2>2 DEF Turn, IInv, Types
  <2> QED BY <2>1, <2>2 DEF Turn
<1>6. /\ th'.timedout \subseteq th.timedout
      /\ th'.armed \subseteq th.armed \cup (IF t \in Impatient THEN {t} ELSE {})
  <2> DEFINE first == IF top \in awaken THEN woken ELSE thread_wakeup(woken, top)
             timed == t \in Impatient
  <2>1. /\ woken \in Threads(Thread)
        /\ woken.armed \subseteq th.armed /\ woken.timedout \subseteq th.timedout
    BY ResumeChange DEF IInv, Types
  <2> HIDE DEF woken, top
  <2>2. /\ first \in Threads(Thread)
        /\ first.armed = woken.armed /\ first.timedout \subseteq woken.timedout
    BY <1>3, <2>1, WakeupChange
  <2>3. \/ th' = woken
        \/ th' = thread_sleep(first, t, timed)
        \/ th' = thread_sleep(woken, t, timed)
    BY Zenon DEF Turn, top, woken
  <2>4. timed \in BOOLEAN
    OBVIOUS
  <2> HIDE DEF first
  <2>5. ASSUME NEW x \in Threads(Thread)
        PROVE  LET y == thread_sleep(x, t, timed) IN
               y.timedout = x.timedout /\ y.armed = IF timed THEN x.armed \cup {t} ELSE x.armed
    <3> HIDE DEF timed
    <3> QED BY <2>4, SleepChange
  <2> QED BY <2>1, <2>2, <2>3, <2>5
<1> HIDE DEF top
<1>7. pc'[t] = to /\ \A s \in Thread : s /= t => pc'[s] = pc[s]
  BY <1>5 DEF IInv, Types
<1>8. /\ \A s \in Thread : s /= t => (s \in failed' <=> s \in failed)
      /\ \A s \in Thread : s \in awaken' => s \in awaken \/ s = top
  BY <1>5
<1>9. Timers'
  BY <1>5, <1>6 DEF IInv, Timers
<1>10. Calls'
  BY <1>1, <1>2, <1>4, <1>5, <1>7, NobodyAssumption DEF IInv, Types, Calls, InQueue
<1>11. Locks' /\ Lent' /\ Boosts'
  BY <1>1, <1>7 DEF IInv, Locks, Lent, Boosts
<1>12. Queues'
  BY <1>1, <1>2, <1>7, <1>8 DEF IInv, Queues, InQueue
<1>13. Buckets'
  BY <1>1, <1>2, <1>5, <1>7, NobodyAssumption DEF IInv, Types, Buckets, Holding
<1>14. Owners' /\ Flags'
  BY <1>1, <1>7 DEF IInv, Owners, Flags
<1>15. Words'
  BY <1>1, <1>2, <1>4, <1>5, <1>7, <1>8 DEF IInv, Words
<1> QED BY <1>9, <1>10, <1>11, <1>12, <1>13, <1>14, <1>15 DEF IInv

LEMMA LeaveStep ==
    ASSUME IInv, NEW t \in Thread, Leave(t), Types'
    PROVE  IInv'
<1> DEFINE m == at[t]
           won == t \notin failed /\ word[m] = Passed
           to == IF t \in failed THEN IF td.owner[m] = Nobody THEN "failed" ELSE "own"
                 ELSE IF word[m] = Passed THEN "won" ELSE "add"
<1>1. /\ pc[t] = "leave" /\ pc' = [pc EXCEPT ![t] = to]
      /\ awaken' = awaken \ {t}
      /\ word' = IF t \in failed THEN word
                 ELSE [word EXCEPT ![m] = Attempt(@, Passed, t)]
      /\ UNCHANGED <<bucket, lent, td_lock, real, th, at, failed, prop>>
  BY DEF Leave, Goto
<1>2. /\ m \in Mutex /\ SameOwners(td, td')
      /\ QueueBecomes(td, td', m, Queue(td, m) \ {t})
  BY LeaveTd DEF IInv
<1>3. /\ t \in Queue(td, m) /\ prop[t] = Nobody /\ bucket[m] = t
      /\ word[m].owner /= t /\ word[m].contended
      /\ t \notin failed => word[m].force_wait
  BY <1>1, <1>2, NobodyAssumption
     DEF IInv, Calls, Buckets, Holding, Queues, InQueue, Words, Flags
<1>4. /\ word'[m].contended /\ word'[m].force_wait = word[m].force_wait
      /\ word'[m].owner = IF won THEN t ELSE word[m].owner
      /\ t \notin failed => (won <=> word[m].owner = Nobody)
      /\ \A n \in Mutex : n /= m => word'[n] = word[n]
  <2>1. word[m] \in WordSet
    BY <1>2 DEF IInv, Types
  <2>2. CASE t \in failed
    BY <1>1, <1>3, <2>2
  <2>3. CASE t \notin failed
    <3>1. word' = [word EXCEPT ![m] = Attempt(word[m], Passed, t)]
      BY <1>1, <2>3
    <3>2. word'[m] = Attempt(word[m], Passed, t)
             /\ \A n \in Mutex : n /= m => word'[n] = word[n]
      BY <1>2, <3>1 DEF IInv, Types
    <3>3. /\ word'[m].contended = word[m].contended
          /\ word'[m].force_wait = word[m].force_wait
          /\ word'[m].owner = IF word[m] = Passed THEN t ELSE word[m].owner
      BY <2>1, <3>2, WordValues, AttemptChange
    <3>4. won <=> word[m].owner = Nobody
      <4>1. /\ Passed \in WordSet /\ Passed.owner = Nobody
            /\ Passed.contended /\ Passed.force_wait
        BY WordValues
      <4>2. /\ word[m].contended = Passed.contended
            /\ word[m].force_wait = Passed.force_wait
        BY <1>3, <2>1, <2>3, <4>1 DEF WordSet
      <4> QED BY <2>1, <2>3, <4>1, <4>2, WordEqual
    <3> QED BY <1>3, <2>3, <3>2, <3>3, <3>4
  <2> QED BY <2>2, <2>3
<1>5. pc'[t] = to /\ \A s \in Thread : s /= t => pc'[s] = pc[s]
  BY <1>1 DEF IInv, Types
<1>6. \A s \in Thread : s /= t /\ at[s] = m => pc[s] \notin Holding
  BY <1>3 DEF IInv, Buckets
<1> HIDE DEF won
<1>7. /\ to \in {"failed", "own", "won", "add"}
      /\ t \in failed => to = IF td.owner[m] = Nobody THEN "failed" ELSE "own"
      /\ t \notin failed => to = IF won THEN "won" ELSE "add"
      /\ won => t \notin failed
  BY DEF won
<1> HIDE DEF to
<1>8. Calls' /\ Timers' /\ Locks' /\ Lent'
  BY <1>1, <1>2, <1>3, <1>5, <1>7, NobodyAssumption
     DEF IInv, Types, Calls, Timers, Locks, Lent, InQueue
<1>9. Queues'
  BY <1>1, <1>2, <1>5, <1>7 DEF IInv, Queues, InQueue, QueueBecomes
<1>10. Buckets'
  <2>1. \A s \in Thread : pc[s] = "next" => s /= t /\ bucket[m] /= s
    BY <1>1, <1>3
  <2> QED BY <1>1, <1>2, <1>3, <1>5, <1>7, <2>1, NobodyAssumption
          DEF IInv, Types, Buckets, Holding, SameOwners, QueueBecomes
<1>11. Owners'
  <2> SUFFICES ASSUME NEW n \in Mutex PROVE Owners!(n)'
    BY DEF Owners
  <2>1. CASE n = m
    <3>1. won => td.owner[m] = Nobody
      BY <1>2, <1>4, <1>7 DEF IInv, Owners
    <3>2. td'.owner[m] \in {Nobody, word'[m].owner}
      BY <1>2, <1>4, <3>1 DEF IInv, Owners, SameOwners
    <3>3. td'.owner[m] /= Nobody => pc'[t] \in {"own", "add"} /\ at'[t] = m
      BY <1>1, <1>2, <1>5, <1>7, <3>1 DEF SameOwners
    <3>4. \A u \in Thread : m \in Owned(td', u) <=> td'.owner[m] = u
      BY <1>2 DEF IInv, Owners, SameOwners
    <3> QED BY <1>4, <2>1, <3>2, <3>3, <3>4
  <2>2. CASE n /= m
    BY <1>1, <1>2, <1>4, <1>5, <2>2 DEF IInv, Owners, SameOwners, QueueBecomes
  <2> QED BY <2>1, <2>2
<1>12. Flags'
  <2> SUFFICES ASSUME NEW n \in Mutex PROVE Flags!(n)'
    BY DEF Flags
  <2>1. CASE n = m
    BY <1>1, <1>2, <1>3, <1>4, <2>1 DEF IInv, Flags
  <2>2. CASE n /= m
    BY <1>1, <1>2, <1>4, <2>2 DEF IInv, Flags, QueueBecomes
  <2> QED BY <2>1, <2>2
<1>13. Words'
  <2> SUFFICES ASSUME NEW s \in Thread PROVE Words!(s)'
    BY DEF Words
  <2>0. td'.owner = td.owner
    BY <1>2 DEF SameOwners
  <2>1. CASE s = t
    <3>1. won => td.owner[m] = Nobody
      BY <1>2, <1>4, <1>7 DEF IInv, Owners
    <3> QED BY <1>1, <1>2, <1>3, <1>4, <1>5, <1>7, <2>0, <2>1, <3>1, NobodyAssumption
            DEF IInv, Words
  <2>2. CASE s /= t /\ at[s] = m
    <3>1. pc'[s] = pc[s] /\ pc[s] \notin Holding /\ at'[s] = m
             /\ failed' = failed /\ (s \in awaken' <=> s \in awaken)
      BY <1>1, <1>5, <1>6, <2>2
    <3>2. pc[s] = "unlock" => ~won
      BY <1>4, <1>7, <2>2, NobodyAssumption DEF IInv, Words
    <3> QED BY <1>2, <1>4, <2>0, <2>2, <3>1, <3>2, NobodyAssumption
            DEF IInv, Words, Holding
  <2>3. CASE s /= t /\ at[s] /= m
    <3>1. at[s] /= Nobody => at[s] \in Mutex /\ word'[at[s]] = word[at[s]]
      BY <1>4, <2>3 DEF IInv, Types
    <3>2. pc[s] \in {"won", "unlock", "own", "add"} \/ s \in awaken => at[s] /= Nobody
      BY DEF IInv, Calls, InQueue
    <3> QED BY <1>1, <1>5, <2>0, <2>3, <3>1, <3>2 DEF IInv, Words
  <2> QED BY <2>1, <2>2, <2>3
<1>14. Boosts'
  BY <1>1, <1>2, <1>5, <1>7 DEF IInv, Boosts, SameOwners
<1> QED BY <1>8, <1>9, <1>10, <1>11, <1>12, <1>13, <1>14 DEF IInv

LEMMA WonStep ==
    ASSUME IInv, NEW t \in Thread, Won(t), Types'
    PROVE  IInv'
<1> DEFINE m == at[t]
<1>1. /\ pc[t] = "won" /\ pc' = [pc EXCEPT ![t] = "run"]
      /\ bucket' = [bucket EXCEPT ![m] = Nobody]
      /\ lent' = [lent EXCEPT ![m] = @ \ {t}]
      /\ at' = [at EXCEPT ![t] = Nobody]
      /\ UNCHANGED <<td_lock, awaken, real, th, failed, prop>>
  BY DEF Won, Goto, Return
<1>2. /\ m \in Mutex /\ SameQueues(td, td')
      /\ \/ /\ Queue(td, m) = {} /\ td' = td
            /\ word' = [word EXCEPT ![m] = LockedBy(t)]
         \/ /\ Queue(td, m) /= {} /\ word' = word
            /\ td'.owner = [td.owner EXCEPT ![m] = t]
            /\ OwnedBecomes(td, td', t, Owned(td, t) \cup {m})
  BY WonTd DEF IInv
<1>3. /\ t \notin failed /\ t \notin awaken /\ prop[t] = Nobody /\ bucket[m] = t
      /\ word[m].owner = t /\ td.owner[m] = Nobody
  BY <1>1 DEF IInv, Calls, Buckets, Holding, InQueue, Words
<1>4. /\ \A n \in Mutex : n /= m => word'[n] = word[n]
      /\ word'[m].owner = t
      /\ Queue(td, m) = {} => ~word'[m].contended /\ ~word'[m].force_wait
      /\ Queue(td, m) /= {} => word'[m] = word[m]
  BY <1>2, <1>3, WordValues DEF IInv, Types
<1>5. /\ pc'[t] = "run" /\ at'[t] = Nobody /\ m /= Nobody
      /\ \A s \in Thread : s /= t => pc'[s] = pc[s] /\ at'[s] = at[s]
  BY <1>1, <1>2, NobodyAssumption DEF IInv, Types
<1>6. \A s \in Thread : s /= t /\ at[s] = m => pc[s] \notin Holding
  BY <1>3 DEF IInv, Buckets
<1>7. /\ \A n \in Mutex : Queue(td', n) = Queue(td, n)
      /\ \A n \in Mutex : n /= m => td'.owner[n] = td.owner[n]
      /\ td'.owner[m] = IF Queue(td, m) = {} THEN Nobody ELSE t
      /\ \A v \in Thread : v /= t => Owned(td', v) = Owned(td, v)
      /\ Owned(td', t) = IF Queue(td, m) = {} THEN Owned(td, t)
                         ELSE Owned(td, t) \cup {m}
  BY <1>2, <1>3 DEF IInv, Types, TdType, TdRecord, SameQueues, OwnedBecomes
<1>8. Calls' /\ Timers' /\ Locks' /\ Lent'
  BY <1>1, <1>2, <1>3, <1>5, NobodyAssumption
     DEF IInv, Types, Calls, Timers, Locks, Lent, InQueue
<1>9. Queues'
  BY <1>1, <1>5, <1>7, NobodyAssumption DEF IInv, Queues, InQueue
<1>10. Buckets'
  <2>1. \A s \in Thread : pc[s] = "next" => s /= t /\ bucket[m] /= s
    BY <1>1, <1>3
  <2>2. \A n \in Mutex : n /= m => bucket'[n] = bucket[n] /\ bucket[n] /= t
    <3>1. \A n \in Mutex : n /= m => bucket'[n] = bucket[n]
      BY <1>1, <1>2 DEF IInv, Types
    <3>2. \A n \in Mutex : bucket[n] = t => n = m
      BY <1>1, NobodyAssumption DEF IInv, Buckets
    <3> QED BY <3>1, <3>2
  <2>3. bucket'[m] = Nobody
    BY <1>1, <1>2 DEF IInv, Types
  <2>4. \A n \in Mutex : bucket'[n] /= Nobody =>
          \/ at'[bucket'[n]] = n /\ pc'[bucket'[n]] \in Holding \cup {"loop", "failed"}
          \/ pc'[bucket'[n]] = "next"
    BY <1>5, <2>2, <2>3 DEF IInv, Types, Buckets
  <2>5. \A s \in Thread : pc'[s] \in Holding => bucket'[at'[s]] = s
    <3> SUFFICES ASSUME NEW s \in Thread, pc'[s] \in Holding
                 PROVE  bucket'[at'[s]] = s
      OBVIOUS
    <3>1. s /= t /\ pc[s] \in Holding /\ at'[s] = at[s]
      BY <1>5 DEF Holding
    <3>2. at[s] \in Mutex
      BY <3>1 DEF IInv, Types, Calls, Holding
    <3> QED BY <1>6, <2>2, <3>1, <3>2 DEF IInv, Buckets
  <2>6. \A s \in Thread : pc'[s] = "next" =>
          \E k \in Mutex : /\ \A n \in Mutex : bucket'[n] = s <=> n = k
                           /\ td'.owner[k] /= Nobody /\ Queue(td', k) /= {}
    <3> SUFFICES ASSUME NEW s \in Thread, pc'[s] = "next"
                 PROVE  \E k \in Mutex :
                          /\ \A n \in Mutex : bucket'[n] = s <=> n = k
                          /\ td'.owner[k] /= Nobody /\ Queue(td', k) /= {}
      OBVIOUS
    <3>1. pc[s] = "next"
      BY <1>5
    <3>2. PICK k \in Mutex : /\ \A n \in Mutex : bucket[n] = s <=> n = k
                             /\ td.owner[k] /= Nobody /\ Queue(td, k) /= {}
      BY <3>1 DEF IInv, Buckets
    <3>3. k /= m
      BY <2>1, <3>1, <3>2
    <3> WITNESS k \in Mutex
    <3> QED BY <1>7, <2>2, <2>3, <3>2, <3>3, NobodyAssumption
  <2> QED BY <2>4, <2>5, <2>6 DEF Buckets
<1>11. Owners'
  <2> SUFFICES ASSUME NEW n \in Mutex PROVE Owners!(n)'
    BY DEF Owners
  <2>1. CASE n = m
    BY <1>2, <1>3, <1>4, <1>7, <2>1, NobodyAssumption DEF IInv, Owners, Flags
  <2>2. CASE n /= m
    BY <1>1, <1>2, <1>4, <1>5, <1>7, <2>2 DEF IInv, Owners
  <2> QED BY <2>1, <2>2
<1>12. Flags'
  <2>1. Queue(td, m) /= {} => lent'[m] /= {}
    <3> SUFFICES ASSUME NEW s \in Queue(td, m) PROVE lent'[m] /= {}
      OBVIOUS
    <3>1. s \in Thread
      BY <1>2 DEF IInv, Types, TdType, TdRecord, Queue, ToSet
    <3>2. at[s] = m /\ InQueue(s) /\ s /= t
      BY <1>1, <1>2, <3>1 DEF IInv, Queues, InQueue
    <3>3. s \in lent[m]
      BY <1>2, <3>1, <3>2 DEF IInv, Lent, InQueue
    <3> QED BY <1>1, <1>2, <3>2, <3>3 DEF IInv, Types
  <2> QED BY <1>1, <1>2, <1>4, <1>7, <2>1 DEF IInv, Types, Flags
<1>13. Words'
  <2> SUFFICES ASSUME NEW s \in Thread PROVE Words!(s)'
    BY DEF Words
  <2>1. CASE s = t
    BY <1>1, <1>3, <1>5, <2>1
  <2>2. CASE s /= t /\ at[s] = m
    <3>1. /\ pc'[s] = pc[s] /\ pc[s] \notin Holding /\ at'[s] = m
          /\ failed' = failed /\ awaken' = awaken
      BY <1>1, <1>5, <1>6, <2>2
    <3>2. pc[s] /= "unlock"
      BY <1>3, <2>2 DEF IInv, Words
    <3>3. s \in awaken => Queue(td, m) /= {}
      BY <1>2, <2>2 DEF IInv, Calls, Queues
    <3> QED BY <1>4, <2>2, <3>1, <3>2, <3>3 DEF IInv, Words, Holding
  <2>3. CASE s /= t /\ at[s] /= m
    <3>1. at[s] /= Nobody => at[s] \in Mutex /\ word'[at[s]] = word[at[s]]
                               /\ td'.owner[at[s]] = td.owner[at[s]]
      BY <1>4, <1>7, <2>3 DEF IInv, Types
    <3>2. pc[s] \in {"won", "unlock", "own", "add"} \/ s \in awaken => at[s] /= Nobody
      BY DEF IInv, Calls, InQueue
    <3> QED BY <1>1, <1>5, <2>3, <3>1, <3>2 DEF IInv, Words
  <2> QED BY <2>1, <2>2, <2>3
<1>14. Boosts'
  BY <1>1, <1>5, <1>7 DEF IInv, Boosts
<1> QED BY <1>8, <1>9, <1>10, <1>11, <1>12, <1>13, <1>14 DEF IInv

LEMMA FailedStep ==
    ASSUME IInv, NEW t \in Thread, Failed(t), Types'
    PROVE  IInv'
<1> DEFINE m == at[t]
           clear == turnstile_empty(td, m) /\ word[m].contended
<1>1. /\ pc[t] = "failed" /\ pc' = [pc EXCEPT ![t] = "run"]
      /\ bucket[m] \in {t, Nobody} /\ bucket' = [bucket EXCEPT ![m] = Nobody]
      /\ lent' = [lent EXCEPT ![m] = @ \ {t}]
      /\ at' = [at EXCEPT ![t] = Nobody]
      /\ word' = IF clear
                 THEN [word EXCEPT ![m] = [Unlocked EXCEPT !.owner = word[m].owner]]
                 ELSE word
      /\ failed' = failed \ {t}
      /\ UNCHANGED <<td, td_lock, awaken, real, th, prop>>
  BY DEF Failed, Goto, Return
<1>2. m \in Mutex /\ t \in failed /\ t \notin awaken /\ prop[t] = Nobody
  BY <1>1 DEF IInv, Types, Calls, InQueue
<1>3. clear <=> Queue(td, m) = {} /\ word[m].contended
  BY <1>2, EmptyTurnstile DEF IInv, Types, TdType
<1> HIDE DEF clear
<1>4. /\ \A n \in Mutex : n /= m => word'[n] = word[n]
      /\ word'[m].owner = word[m].owner
      /\ clear => ~word'[m].contended /\ ~word'[m].force_wait
      /\ ~clear => word'[m] = word[m]
  <2>1. word[m] \in WordSet
    BY <1>2 DEF IInv, Types
  <2>2. LET v == [Unlocked EXCEPT !.owner = word[m].owner] IN
        ~v.contended /\ ~v.force_wait /\ v.owner = word[m].owner
    BY <2>1, ClearChange
  <2> QED BY <1>1, <1>2, <2>2 DEF IInv, Types
<1>5. /\ pc'[t] = "run" /\ at'[t] = Nobody /\ m /= Nobody
      /\ \A s \in Thread : s /= t => pc'[s] = pc[s] /\ at'[s] = at[s]
  BY <1>1, <1>2, NobodyAssumption DEF IInv, Types
<1>6. \A s \in Thread : at[s] = m => pc[s] \notin Holding
  <2> SUFFICES ASSUME NEW s \in Thread, at[s] = m, pc[s] \in Holding PROVE FALSE
    OBVIOUS
  <2>1. bucket[m] = s
    BY DEF IInv, Buckets
  <2> QED BY <1>1, <2>1, NobodyAssumption DEF Holding
<1>7. Calls' /\ Timers' /\ Locks' /\ Lent'
  BY <1>1, <1>2, <1>5, NobodyAssumption
     DEF IInv, Types, Calls, Timers, Locks, Lent, InQueue
<1>8. Queues'
  BY <1>1, <1>5, NobodyAssumption DEF IInv, Queues, InQueue
<1>9. Buckets'
  BY <1>1, <1>2, <1>5, NobodyAssumption DEF IInv, Types, Buckets, Holding
<1>10. Owners'
  <2> SUFFICES ASSUME NEW n \in Mutex PROVE Owners!(n)'
    BY DEF Owners
  <2>1. CASE n = m
    <3>1. Queue(td, m) = {} => td.owner[m] = Nobody
      BY <1>2, <1>6 DEF IInv, Owners, Holding
    <3> QED BY <1>1, <1>3, <1>4, <2>1, <3>1 DEF IInv, Owners
  <2>2. CASE n /= m
    BY <1>1, <1>2, <1>4, <1>5, <2>2 DEF IInv, Owners
  <2> QED BY <2>1, <2>2
<1>11. Flags'
  <2>1. Queue(td, m) /= {} => lent'[m] /= {}
    <3> SUFFICES ASSUME NEW s \in Queue(td, m) PROVE lent'[m] /= {}
      OBVIOUS
    <3>1. s \in Thread
      BY <1>2 DEF IInv, Types, TdType, TdRecord, Queue, ToSet
    <3>2. at[s] = m /\ InQueue(s) /\ s /= t
      BY <1>1, <1>2, <3>1 DEF IInv, Queues, InQueue
    <3>3. s \in lent[m]
      BY <1>2, <3>1, <3>2 DEF IInv, Lent, InQueue
    <3> QED BY <1>1, <1>2, <3>2, <3>3 DEF IInv, Types
  <2> QED BY <1>1, <1>2, <1>3, <1>4, <2>1 DEF IInv, Types, Flags
<1>12. Words'
  <2> SUFFICES ASSUME NEW s \in Thread PROVE Words!(s)'
    BY DEF Words
  <2>1. CASE s = t
    BY <1>1, <1>2, <1>5, <2>1
  <2>2. CASE s /= t /\ at[s] = m
    <3>1. /\ pc'[s] = pc[s] /\ pc[s] \notin Holding /\ at'[s] = m
          /\ (s \in failed' <=> s \in failed) /\ awaken' = awaken
      BY <1>1, <1>5, <1>6, <2>2
    <3>2. s \in awaken => Queue(td, m) /= {}
      BY <1>2, <2>2 DEF IInv, Calls, Queues
    <3> QED BY <1>3, <1>4, <2>2, <3>1, <3>2 DEF IInv, Words, Holding
  <2>3. CASE s /= t /\ at[s] /= m
    <3>1. at[s] /= Nobody => at[s] \in Mutex /\ word'[at[s]] = word[at[s]]
      BY <1>4, <2>3 DEF IInv, Types
    <3>2. pc[s] \in {"won", "unlock", "own", "add"} \/ s \in awaken => at[s] /= Nobody
      BY DEF IInv, Calls, InQueue
    <3> QED BY <1>1, <1>5, <2>3, <3>1, <3>2 DEF IInv, Words
  <2> QED BY <2>1, <2>2, <2>3
<1>13. Boosts'
  BY <1>1, <1>5 DEF IInv, Boosts
<1> QED BY <1>7, <1>8, <1>9, <1>10, <1>11, <1>12, <1>13 DEF IInv

LEMMA PropagateStep ==
    ASSUME IInv, NEW t \in Thread, Propagate(t), Types'
    PROVE  IInv'
<1> DEFINE u == prop[t]
           m == WaitsIn(td, u)
<1>1. /\ pc[t] = "prop" /\ td_lock' = [td_lock EXCEPT ![u] = Nobody]
      /\ UNCHANGED <<word, lent, awaken, th, at, failed>>
  BY DEF Propagate
<1>2. /\ u \in Thread /\ SameQueues(td, td') /\ SameOwners(td, td')
      /\ real' = [real EXCEPT ![u] = Inherited(td, u, Prio[u], real)]
  BY PropagateTd DEF IInv
<1>3. \/ Done(t) /\ bucket' = bucket
      \/ pc' = [pc EXCEPT ![t] = "retry"] /\ UNCHANGED <<bucket, prop>>
      \/ /\ pc' = [pc EXCEPT ![t] = "next"] /\ prop' = prop
         /\ m \in Mutex /\ u \in Queue(td, m)
         /\ bucket[m] = Nobody /\ td.owner[m] /= Nobody
         /\ bucket' = [bucket EXCEPT ![m] = t]
  <2>1. IsWaiting(td, u) => m \in Mutex /\ u \in Queue(td, m)
    <3>1. DOMAIN td.waiters = Mutex
      BY DEF IInv, Types, TdType, TdRecord
    <3> QED BY <3>1 DEF IsWaiting, WaitsIn, Queue
  <2> HIDE DEF m
  <2> QED BY <2>1 DEF Propagate, m
<1> HIDE DEF m, u
<1>4. t \in failed \/ at[t] = Nobody \/ t \in Queue(td, at[t])
  BY <1>1 DEF IInv, Types, Queues, InQueue
<1>5. PICK to \in {"run", "failed", "loop", "retry", "next"} :
        /\ pc' = [pc EXCEPT ![t] = to]
        /\ to = "run" <=> at[t] = Nobody /\ to \notin {"retry", "next"}
        /\ to = "failed" => t \in failed /\ at[t] /= Nobody
        /\ to = "loop" => t \notin failed /\ at[t] /= Nobody
        /\ prop' = IF to \in {"retry", "next"} THEN prop ELSE [prop EXCEPT ![t] = Nobody]
        /\ to /= "next" => bucket' = bucket
        /\ to = "next" =>
             /\ m \in Mutex /\ u \in Queue(td, m)
             /\ bucket[m] = Nobody /\ td.owner[m] /= Nobody
             /\ bucket' = [bucket EXCEPT ![m] = t]
  <2>1. CASE Done(t) /\ bucket' = bucket
    BY <2>1 DEF Done, After
  <2>2. CASE pc' = [pc EXCEPT ![t] = "retry"] /\ UNCHANGED <<bucket, prop>>
    BY <2>2
  <2>3. CASE /\ pc' = [pc EXCEPT ![t] = "next"] /\ prop' = prop
             /\ m \in Mutex /\ u \in Queue(td, m)
             /\ bucket[m] = Nobody /\ td.owner[m] /= Nobody
             /\ bucket' = [bucket EXCEPT ![m] = t]
    BY <2>3
  <2> QED BY <1>3, <2>1, <2>2, <2>3
<1>6. pc'[t] = to /\ \A s \in Thread : s /= t => pc'[s] = pc[s] /\ prop'[s] = prop[s]
  BY <1>5 DEF IInv, Types
<1>7. prop'[t] = IF to \in {"retry", "next"} THEN u ELSE Nobody
  BY <1>5 DEF IInv, Types, u
<1>8. /\ \A n \in Mutex : Queue(td', n) = Queue(td, n)
      /\ td'.owner = td.owner
      /\ \A v \in Thread : Owned(td', v) = Owned(td, v)
  BY <1>2 DEF SameQueues, SameOwners
<1>9. Calls'
  BY <1>1, <1>2, <1>5, <1>6, <1>7, NobodyAssumption DEF IInv, Calls, InQueue
<1>10. Timers' /\ Lent'
  BY <1>1, <1>5, <1>6 DEF IInv, Timers, Lent
<1>11. Locks'
  <2>1. \A v \in Thread : td_lock[v] = t <=> v = u
    BY <1>1 DEF IInv, Locks, u
  <2>2. \A v \in Thread : td_lock'[v] = IF v = u THEN Nobody ELSE td_lock[v]
    BY <1>1, <1>2 DEF IInv, Types
  <2> QED BY <1>2, <1>5, <1>6, <2>1, <2>2, NobodyAssumption DEF IInv, Locks
<1>12. Queues'
  BY <1>1, <1>5, <1>6, <1>8 DEF IInv, Queues, InQueue
<1>13. Buckets'
  <2>1. \A n \in Mutex : bucket[n] /= t
    BY <1>1, NobodyAssumption DEF IInv, Buckets, Holding
  <2>2. CASE to /= "next"
    BY <1>1, <1>5, <1>6, <1>8, <2>1, <2>2, NobodyAssumption DEF IInv, Types, Buckets, Holding
  <2>3. CASE to = "next"
    <3>1. \A n \in Mutex : bucket'[n] = IF n = m THEN t ELSE bucket[n]
      BY <1>5, <2>3 DEF IInv, Types
    <3>2. m \in Mutex /\ bucket[m] = Nobody /\ td.owner[m] /= Nobody /\ Queue(td, m) /= {}
      BY <1>5, <2>3
    <3>3. \A n \in Mutex : bucket'[n] /= Nobody =>
            \/ at'[bucket'[n]] = n /\ pc'[bucket'[n]] \in Holding \cup {"loop", "failed"}
            \/ pc'[bucket'[n]] = "next"
      BY <1>1, <1>6, <2>1, <2>3, <3>1 DEF IInv, Types, Buckets
    <3>4. \A s \in Thread : pc'[s] \in Holding => bucket'[at'[s]] = s
      <4> SUFFICES ASSUME NEW s \in Thread, pc'[s] \in Holding
                   PROVE  bucket'[at'[s]] = s
        OBVIOUS
      <4>1. s /= t /\ pc[s] \in Holding /\ at'[s] = at[s]
        BY <1>1, <1>6, <2>3 DEF Holding
      <4>2. at[s] \in Mutex /\ bucket[at[s]] = s
        BY <4>1 DEF IInv, Types, Calls, Buckets, Holding
      <4> QED BY <3>1, <3>2, <4>1, <4>2, NobodyAssumption
    <3>5. \A s \in Thread : pc'[s] = "next" =>
            \E k \in Mutex : /\ \A n \in Mutex : bucket'[n] = s <=> n = k
                             /\ td'.owner[k] /= Nobody /\ Queue(td', k) /= {}
      <4> SUFFICES ASSUME NEW s \in Thread, pc'[s] = "next"
                   PROVE  \E k \in Mutex :
                            /\ \A n \in Mutex : bucket'[n] = s <=> n = k
                            /\ td'.owner[k] /= Nobody /\ Queue(td', k) /= {}
        OBVIOUS
      <4>1. CASE s = t
        BY <1>8, <2>1, <3>1, <3>2, <4>1
      <4>2. CASE s /= t
        <5>1. PICK k \in Mutex : /\ \A n \in Mutex : bucket[n] = s <=> n = k
                                 /\ td.owner[k] /= Nobody /\ Queue(td, k) /= {}
          BY <1>6, <4>2 DEF IInv, Buckets
        <5>2. k /= m
          BY <3>2, <5>1, NobodyAssumption
        <5> QED BY <1>8, <3>1, <4>2, <5>1, <5>2
      <4> QED BY <4>1, <4>2
    <3> QED BY <3>3, <3>4, <3>5 DEF Buckets
  <2> QED BY <2>2, <2>3
<1>14. Owners' /\ Flags'
  BY <1>1, <1>5, <1>6, <1>8 DEF IInv, Owners, Flags
<1>15. Words'
  BY <1>1, <1>5, <1>6, <1>8 DEF IInv, Words
<1>16. Boosts'
  <2> SUFFICES ASSUME NEW v \in Thread, Owned(td, v) = {}, real'[v] /= Prio[v]
               PROVE  \/ pc'[v] = "self"
                      \/ \E s \in Thread : prop'[s] = v /\ pc'[s] \in {"prop", "retry"}
    BY <1>8 DEF Boosts
  <2>1. v /= u
    <3> SUFFICES ASSUME v = u PROVE FALSE
      OBVIOUS
    <3>1. td.top[u] = 0 /\ real'[u] = Inherited(td, u, Prio[u], real)
      BY <1>2 DEF IInv, Types, TdType
    <3>2. Prio[u] \in Nat
      BY <1>2, PrioAssumption
    <3>3. Inherited(td, u, Prio[u], real) = Prio[u]
      BY <3>1, <3>2 DEF Inherited, TopPriority
    <3> QED BY <3>1, <3>3
  <2>2. real'[v] = real[v]
    BY <1>2, <2>1 DEF IInv, Types
  <2> QED BY <1>1, <1>6, <2>1, <2>2 DEF IInv, Boosts, u
<1> QED BY <1>9, <1>10, <1>11, <1>12, <1>13, <1>14, <1>15, <1>16 DEF IInv

LEMMA RetryStep ==
    ASSUME IInv, NEW t \in Thread, Retry(t), Types'
    PROVE  IInv'
<1> DEFINE u == prop[t]
<1>1. /\ pc[t] = "retry" /\ pc' = [pc EXCEPT ![t] = "prop"]
      /\ td_lock[u] = Nobody /\ td_lock' = [td_lock EXCEPT ![u] = t]
      /\ UNCHANGED <<word, bucket, lent, td, awaken, real, th, at, failed, prop>>
  BY DEF Retry, Goto
<1>2. u \in Thread
  BY <1>1 DEF IInv, Types, Calls
<1>3. pc'[t] = "prop" /\ \A s \in Thread : s /= t => pc'[s] = pc[s]
  BY <1>1 DEF IInv, Types
<1>4. Calls' /\ Timers' /\ Lent' /\ Queues'
  BY <1>1, <1>3 DEF IInv, Calls, Timers, Lent, Queues, InQueue
<1>5. Locks'
  BY <1>1, <1>2, <1>3, NobodyAssumption DEF IInv, Types, Locks
<1>6. Buckets'
  BY <1>1, <1>3, NobodyAssumption DEF IInv, Types, Buckets, Holding
<1>7. Owners' /\ Flags' /\ Words'
  BY <1>1, <1>3 DEF IInv, Owners, Flags, Words
<1>8. Boosts'
  BY <1>1, <1>3 DEF IInv, Boosts
<1> QED BY <1>4, <1>5, <1>6, <1>7, <1>8 DEF IInv

LEMMA PropagateSelfStep ==
    ASSUME IInv, NEW t \in Thread, PropagateSelf(t), Types'
    PROVE  IInv'
<1>1. /\ pc[t] = "self" /\ pc' = [pc EXCEPT ![t] = "prop"]
      /\ td_lock[t] = Nobody /\ td_lock' = [td_lock EXCEPT ![t] = t]
      /\ prop' = [prop EXCEPT ![t] = t]
      /\ UNCHANGED <<word, bucket, lent, td, awaken, real, th, at, failed>>
  BY DEF PropagateSelf, Goto
<1>2. at[t] = Nobody /\ t \notin failed /\ t \notin awaken
  BY <1>1 DEF IInv, Calls, InQueue
<1>3. /\ pc'[t] = "prop" /\ prop'[t] = t
      /\ \A s \in Thread : s /= t => pc'[s] = pc[s] /\ prop'[s] = prop[s]
  BY <1>1 DEF IInv, Types
<1>4. Calls' /\ Timers' /\ Lent' /\ Queues'
  BY <1>1, <1>2, <1>3, NobodyAssumption DEF IInv, Calls, Timers, Lent, Queues, InQueue
<1>5. Locks'
  BY <1>1, <1>3, NobodyAssumption DEF IInv, Types, Locks
<1>6. Buckets'
  BY <1>1, <1>3, NobodyAssumption DEF IInv, Types, Buckets, Holding
<1>7. Owners' /\ Flags' /\ Words'
  BY <1>1, <1>2, <1>3, NobodyAssumption DEF IInv, Owners, Flags, Words
<1>8. Boosts'
  BY <1>1, <1>3 DEF IInv, Boosts
<1> QED BY <1>4, <1>5, <1>6, <1>7, <1>8 DEF IInv

LEMMA NextOwnerStep ==
    ASSUME IInv, NEW t \in Thread, NextOwner(t), Types'
    PROVE  IInv'
<1>1. /\ pc[t] = "next" /\ pc' = [pc EXCEPT ![t] = "prop"]
      /\ UNCHANGED <<word, lent, awaken, real, th, at, failed>>
  BY DEF NextOwner, Goto
<1>2. PICK m \in Mutex, u \in Thread :
        /\ \A n \in Mutex : bucket[n] = t <=> n = m
        /\ td.owner[m] = u /\ td_lock[u] = Nobody
        /\ td_lock' = [td_lock EXCEPT ![u] = t]
        /\ prop' = [prop EXCEPT ![t] = u]
        /\ bucket' = [bucket EXCEPT ![m] = Nobody]
        /\ TdType(td') /\ SameQueues(td, td') /\ SameOwners(td, td')
  BY NextOwnerTd DEF IInv
<1>3. /\ pc'[t] = "prop" /\ prop'[t] = u
      /\ \A s \in Thread : s /= t => pc'[s] = pc[s] /\ prop'[s] = prop[s]
  BY <1>1, <1>2 DEF IInv, Types
<1>4. /\ \A n \in Mutex : Queue(td', n) = Queue(td, n)
      /\ td'.owner = td.owner
      /\ \A v \in Thread : Owned(td', v) = Owned(td, v)
  BY <1>2 DEF SameQueues, SameOwners
<1>5. Calls' /\ Timers' /\ Lent'
  BY <1>1, <1>3, NobodyAssumption DEF IInv, Calls, Timers, Lent, InQueue
<1>6. Queues'
  BY <1>1, <1>3, <1>4 DEF IInv, Queues, InQueue
<1>7. Locks'
  BY <1>1, <1>2, <1>3, NobodyAssumption DEF IInv, Types, Locks
<1>8. Buckets'
  BY <1>1, <1>2, <1>3, <1>4, NobodyAssumption DEF IInv, Types, Buckets, Holding
<1>9. Owners' /\ Flags' /\ Words'
  BY <1>1, <1>3, <1>4 DEF IInv, Owners, Flags, Words
<1>10. Boosts'
  BY <1>1, <1>3, <1>4 DEF IInv, Boosts
<1> QED BY <1>5, <1>6, <1>7, <1>8, <1>9, <1>10 DEF IInv

LEMMA UnlockSlowStep ==
    ASSUME IInv, NEW t \in Thread, UnlockSlow(t), Types'
    PROVE  IInv'
<1> DEFINE m == at[t]
           top == top_waiter(td, m)
<1>1. /\ pc[t] = "unlock" /\ pc' = [pc EXCEPT ![t] = "self"]
      /\ bucket[m] = Nobody /\ at' = [at EXCEPT ![t] = Nobody]
      /\ UNCHANGED <<bucket, lent, td_lock, real, failed, prop>>
  BY DEF UnlockSlow, Goto
<1>2. /\ m \in Mutex /\ SameQueues(td, td')
      /\ \/ td' = td /\ (lent[m] = {} \/ td.owner[m] = Nobody)
         \/ /\ td.owner[m] = t
            /\ td'.owner = [td.owner EXCEPT ![m] = Nobody]
            /\ OwnedBecomes(td, td', t, Owned(td, t) \ {m})
  BY UnlockSlowTd DEF IInv
<1>3. /\ t \notin failed /\ t \notin awaken /\ prop[t] = Nobody
      /\ word[m].owner = t /\ td.owner[m] \in {Nobody, t}
  BY <1>1, <1>2 DEF IInv, Calls, InQueue, Words, Owners
<1>4. lent[m] = {} => ~word[m].contended /\ ~word[m].force_wait
                        /\ td.owner[m] = Nobody /\ Queue(td, m) = {}
  BY <1>2 DEF IInv, Flags, Owners
<1>5. /\ \A n \in Mutex : n /= m => word'[n] = word[n]
      /\ word'[m].owner = Nobody
      /\ lent[m] = {} => ~word'[m].contended /\ ~word'[m].force_wait
      /\ lent[m] /= {} => word'[m].contended /\ word'[m].force_wait
  BY <1>2, WordValues DEF UnlockSlow, IInv, Types
<1>6. /\ th'.armed = th.armed /\ th'.timedout \subseteq th.timedout
      /\ \/ awaken' = awaken
         \/ lent[m] /= {} /\ awaken' = awaken \cup {top} /\ at[top] = m
              /\ top \in Thread /\ InQueue(top)
  <2>1. CASE UNCHANGED <<awaken, th>>
    BY <2>1
  <2>2. CASE ~UNCHANGED <<awaken, th>>
    <3>1. lent[m] /= {} /\ ~turnstile_empty(td, m) /\ awaken' = awaken \cup {top}
             /\ th' = thread_wakeup(th, top)
      BY <2>2 DEF UnlockSlow
    <3>2. top \in Thread /\ top \in Queue(td, m)
      BY <1>2, <3>1, EmptyTurnstile, TopWaits DEF IInv, Types, TdType
    <3>3. at[top] = m /\ InQueue(top)
      BY <1>2, <3>2 DEF IInv, Queues
    <3> HIDE DEF top
    <3>4. th'.armed = th.armed /\ th'.timedout \subseteq th.timedout
      BY <3>1, <3>2, WakeupChange DEF IInv, Types
    <3> QED BY <3>1, <3>2, <3>3, <3>4
  <2> QED BY <2>1, <2>2
<1> HIDE DEF top
<1>7. /\ pc'[t] = "self" /\ at'[t] = Nobody /\ m /= Nobody
      /\ \A s \in Thread : s /= t => pc'[s] = pc[s] /\ at'[s] = at[s]
  BY <1>1, <1>2, NobodyAssumption DEF IInv, Types
<1>8. \A s \in Thread : at[s] = m => pc[s] \notin Holding
  <2> SUFFICES ASSUME NEW s \in Thread, at[s] = m, pc[s] \in Holding PROVE FALSE
    OBVIOUS
  <2>1. bucket[m] = s
    BY DEF IInv, Buckets
  <2> QED BY <1>1, <2>1, NobodyAssumption
<1>9. /\ \A n \in Mutex : Queue(td', n) = Queue(td, n)
      /\ \A n \in Mutex : td'.owner[n] = IF n = m THEN Nobody ELSE td.owner[n]
      /\ \A v \in Thread : v /= t => Owned(td', v) = Owned(td, v)
      /\ Owned(td', t) = IF td.owner[m] = t THEN Owned(td, t) \ {m} ELSE Owned(td, t)
  BY <1>2, <1>3, <1>4, NobodyAssumption
     DEF IInv, Types, TdType, TdRecord, SameQueues, OwnedBecomes
<1>10. Calls'
  BY <1>1, <1>3, <1>6, <1>7, NobodyAssumption DEF IInv, Calls, InQueue
<1>11. Timers' /\ Locks' /\ Lent'
  BY <1>1, <1>2, <1>6, <1>7, NobodyAssumption DEF IInv, Timers, Locks, Lent
<1>12. Queues'
  BY <1>1, <1>7, <1>9, NobodyAssumption DEF IInv, Queues, InQueue
<1>13. Buckets'
  <2>1. \A s \in Thread : pc[s] = "next" => s /= t /\ bucket[m] /= s
    BY <1>1, NobodyAssumption
  <2> QED BY <1>1, <1>2, <1>7, <1>9, <2>1, NobodyAssumption
          DEF IInv, Types, Buckets, Holding
<1>14. Owners'
  <2> SUFFICES ASSUME NEW n \in Mutex PROVE Owners!(n)'
    BY DEF Owners
  <2>1. CASE n = m
    BY <1>3, <1>9, <2>1, NobodyAssumption DEF IInv, Owners
  <2>2. CASE n /= m
    BY <1>1, <1>5, <1>7, <1>9, <2>2 DEF IInv, Owners
  <2> QED BY <2>1, <2>2
<1>15. Flags'
  BY <1>1, <1>4, <1>5, <1>9 DEF IInv, Flags
<1>16. Words'
  <2> SUFFICES ASSUME NEW s \in Thread PROVE Words!(s)'
    BY DEF Words
  <2>1. CASE s = t
    <3>1. t \notin awaken'
      BY <1>1, <1>3, <1>6 DEF InQueue
    <3> QED BY <1>1, <1>3, <1>7, <2>1, <3>1
  <2>2. CASE s /= t /\ at[s] = m
    <3>1. /\ pc'[s] = pc[s] /\ pc[s] \notin Holding /\ at'[s] = m
          /\ failed' = failed
      BY <1>1, <1>7, <1>8, <2>2
    <3>2. pc[s] /= "unlock"
      BY <1>3, <2>2 DEF IInv, Words
    <3>3. s \in awaken' => word'[m].force_wait
      <4>1. s \in awaken => Queue(td, m) /= {}
        BY <1>2, <2>2 DEF IInv, Calls, Queues
      <4> QED BY <1>4, <1>5, <1>6, <2>2, <4>1 DEF IInv, Words
    <3> QED BY <1>5, <2>2, <3>1, <3>2, <3>3, NobodyAssumption DEF IInv, Words, Holding
  <2>3. CASE s /= t /\ at[s] /= m
    <3>1. at[s] /= Nobody => at[s] \in Mutex /\ word'[at[s]] = word[at[s]]
                               /\ td'.owner[at[s]] = td.owner[at[s]]
      BY <1>5, <1>9, <2>3 DEF IInv, Types
    <3>2. pc[s] \in {"won", "unlock", "own", "add"} \/ s \in awaken => at[s] /= Nobody
      BY DEF IInv, Calls, InQueue
    <3>3. s \in awaken' => s \in awaken
      BY <1>6, <2>3
    <3> QED BY <1>1, <1>7, <2>3, <3>1, <3>2, <3>3 DEF IInv, Words
  <2> QED BY <2>1, <2>2, <2>3
<1>17. Boosts'
  BY <1>1, <1>7, <1>9 DEF IInv, Boosts
<1> QED BY <1>10, <1>11, <1>12, <1>13, <1>14, <1>15, <1>16, <1>17 DEF IInv

LEMMA StutterStep ==
    ASSUME IInv, UNCHANGED vars PROVE IInv'
BY DEF vars, IInv, Types, Calls, Timers, Locks, Lent, Queues, Buckets, Owners,
       Flags, Words, Boosts, InQueue

(* The invariant is inductive. *)
LEMMA RtStep == IInv /\ [Next]_vars => IInv'
<1> SUFFICES ASSUME IInv, [Next]_vars PROVE IInv'
  OBVIOUS
<1>1. Types'
  BY TypesStep
<1>2. ASSUME NEW t \in Thread, NEW m \in Mutex,
             LockFast(t, m) \/ LockSlow(t, m) \/ Unlock(t, m)
      PROVE  IInv'
  BY <1>1, <1>2, LockFastStep, LockSlowStep, UnlockStep
<1>3. ASSUME NEW t \in Thread, Timeout(t) PROVE IInv'
  BY <1>1, <1>3, TimeoutStep
<1>4. ASSUME NEW t \in Thread, Progress(t) PROVE IInv'
  BY <1>1, <1>4, LendStep, AddWaiterStep, UpdateOwnerStep, TurnStep, LeaveStep,
     WonStep, FailedStep, PropagateStep, RetryStep, NextOwnerStep, UnlockSlowStep,
     PropagateSelfStep DEF Progress
<1>5. CASE UNCHANGED vars
  BY <1>5, StutterStep
<1> QED BY <1>2, <1>3, <1>4, <1>5 DEF Next

THEOREM Soundness == Spec => []IInv
BY RtInit, RtStep, PTL DEF Spec

--------------------------------------------------------------------------------
(* What the invariant says of the properties the runs check.               *)

(* Every variable keeps a value of its kind, and the locks of buckets and  *)
(* of thread data are held where rtmutex.c and turnstile.c hold them.      *)
THEOREM Typing == Spec => []TypeOK
<1>1. IInv => TypeOK
  <2> SUFFICES ASSUME IInv PROVE TypeOK
    OBVIOUS
  <2>1. \A m \in Mutex :
          /\ bucket[m] /= Nobody => at[bucket[m]] = m \/ pc[bucket[m]] = "next"
          /\ lent[m] = {t \in Thread : at[t] = m /\ pc[t] \notin {"lend", "unlock"}}
    BY DEF IInv, Types, Buckets, Lent
  <2>2. ASSUME NEW t \in Thread
        PROVE  {u \in Thread : td_lock[u] = t} = IF pc[t] = "prop" THEN {prop[t]} ELSE {}
    BY DEF IInv, Types, Calls, Locks
  <2>3. \A t \in Thread : pc[t] \in {"add", "own", "leave", "won"} => bucket[at[t]] = t
    BY DEF IInv, Buckets, Holding
  <2> QED BY <2>1, <2>2, <2>3 DEF IInv, Types, WordSet, TypeOK
<1> QED BY <1>1, Soundness, PTL

(* The flags of the word are set while the slow path counts on them, and   *)
(* clear once no turnstile is lent: an unlocking thread never finds a      *)
(* contended word and no turnstile to signal. *)
THEOREM FlagsKept == Spec => []FlagsSound
<1>1. IInv => FlagsSound
  <2> SUFFICES ASSUME IInv PROVE FlagsSound
    OBVIOUS
  <2>1. \A m \in Mutex : turnstile_empty(td, m) <=> Queue(td, m) = {}
    BY EmptyTurnstile DEF IInv, Types, TdType
  <2>2. ASSUME NEW t \in Thread, pc[t] = "leave", t \notin failed
        PROVE  word[at[t]].force_wait
    BY <2>2 DEF IInv, Calls, Words
  <2> QED BY <2>1, <2>2 DEF IInv, Flags, FlagsSound
<1> QED BY <1>1, Soundness, PTL

(* A turnstile has no owner or the owner of its mutex, whose list agrees.  *)
THEOREM Ownership == Spec => []TurnstileOwned
<1>1. IInv => TurnstileOwned
  <2> SUFFICES ASSUME IInv PROVE TurnstileOwned
    OBVIOUS
  <2>1. ASSUME NEW m \in Mutex, NEW t \in Thread,
               pc[t] = "own", t \notin failed, at[t] = m
        PROVE  word[m].owner \notin {Nobody, t}
    BY <2>1, NobodyAssumption DEF IInv, Words
  <2> QED BY <2>1 DEF IInv, Owners, TurnstileOwned, Owned
<1> QED BY <1>1, Soundness, PTL

(* Who owns nothing any more, and has propagated it, has its own priority. *)
THEOREM PrioritiesGivenBack == Spec => []Deboosted
<1>1. IInv => Deboosted
  <2> SUFFICES ASSUME IInv, NEW t \in Thread, pc[t] = "run", Held(t) = {},
                      \A s \in Thread : prop[s] /= t
               PROVE  real[t] = Prio[t]
    BY DEF Deboosted
  <2>1. Owned(td, t) = {}
    <3> SUFFICES ASSUME NEW m \in Owned(td, t) PROVE FALSE
      OBVIOUS
    <3>1. td.owned[t] \in Seq(Mutex)
      BY DEF IInv, Types, TdType, TdRecord
    <3>2. m \in Mutex
      BY <3>1, SeqOfMembers DEF Owned
    <3>3. word[m].owner = t
      BY <3>2, NobodyAssumption DEF IInv, Owners
    <3> QED BY <3>2, <3>3 DEF Held
  <2> QED BY <2>1 DEF IInv, Boosts
<1> QED BY <1>1, Soundness, PTL

--------------------------------------------------------------------------------
(* The real-time mutex implements the mutex of kern/mutex.h.               *)

Same(m) == word'[m].owner = word[m].owner /\ CallsFor(m)' = CallsFor(m)

(* A mutex whose owner and whose calls do not change. *)
LEMMA SameStutters ==
    ASSUME NEW m \in Mutex, Same(m)
    PROVE  [Abs(m)!MNext]_(Abs(m)!mvars)
BY DEF Same, Abs!mvars

(* A thread finds a mutex free and gets it. *)
LEMMA GetsMutex ==
    ASSUME NEW m \in Mutex, NEW t \in Thread, t /= Nobody,
           word[m].owner = Nobody, word'[m].owner = t, at' = at
    PROVE  [Abs(m)!MNext]_(Abs(m)!mvars)
<1>1. CallsFor(m)' = CallsFor(m) \ {t}
  BY NobodyAssumption DEF CallsFor
<1>2. (CallsFor(m) \ Impatient)' = (CallsFor(m) \ Impatient) \ {t}
  BY <1>1
<1>3. Abs(m)!Acquire(t)
  BY <1>1, <1>2 DEF Abs!Acquire
<1> QED BY <1>3 DEF Abs!MNext

(* An owner leaves a mutex it is not calling for. *)
LEMMA LeavesMutex ==
    ASSUME NEW m \in Mutex, NEW t \in Thread,
           word[m].owner = t, word'[m].owner = Nobody,
           at'[t] /= m, \A s \in Thread : s /= t => at'[s] = at[s]
    PROVE  [Abs(m)!MNext]_(Abs(m)!mvars)
<1>1. CallsFor(m)' = CallsFor(m)
  BY NobodyAssumption DEF CallsFor
<1>2. Abs(m)!Release(t)
  BY <1>1 DEF Abs!Release
<1> QED BY <1>2 DEF Abs!MNext

(* An attempt at the word leaves its owner alone, or finds none. *)
LEMMA AttemptOwner ==
    ASSUME NEW t \in Thread, NEW w \in WordSet, NEW bits \in {Contended, Passed}
    PROVE  LET v == Attempt(w, bits, t) IN
           v.owner = w.owner \/ (w.owner = Nobody /\ v.owner = t)
BY WordValues, AttemptChange

(* What the steps of a thread make of a mutex.                             *)
Refines(m) == [Abs(m)!MNext]_(Abs(m)!mvars)

LEMMA LockRefines ==
    ASSUME IInv, NEW t \in Thread, NEW m \in Mutex, NEW n \in Mutex,
           LockFast(t, m) \/ LockSlow(t, m) \/ Unlock(t, m), IInv'
    PROVE  Refines(n)
<1>1. pc[t] = "run" /\ at[t] = Nobody /\ t /= Nobody /\ m /= Nobody
  BY NobodyAssumption DEF LockFast, LockSlow, Unlock, Goto, IInv, Calls
<1>2. CASE LockFast(t, m)
  <2>1. /\ word[m].owner = Nobody /\ word'[m].owner = t /\ at' = at
        /\ n /= m => word'[n] = word[n]
    BY <1>2, WordValues DEF LockFast, IInv, Types
  <2>2. CASE n = m
    BY <1>1, <2>1, <2>2, GetsMutex DEF Refines
  <2>3. CASE n /= m
    BY <2>1, <2>3, SameStutters DEF Same, CallsFor, Refines
  <2> QED BY <2>2, <2>3
<1>3. CASE LockSlow(t, m)
  <2>1. word' = word /\ at' = [at EXCEPT ![t] = m]
    BY <1>3 DEF LockSlow
  <2>2. word[m].owner /= t
    <3>1. pc'[t] = "lend" /\ at'[t] = m
      BY <1>3, <2>1 DEF LockSlow, Goto, IInv, Types
    <3> QED BY <1>1, <2>1, <3>1 DEF IInv, Words
  <2>3. CASE n = m
    <3>1. t \notin CallsFor(m) /\ CallsFor(m)' = CallsFor(m) \cup {t}
      BY <1>1, <2>1, <2>2 DEF CallsFor, IInv, Types
    <3>2. \/ (CallsFor(m) \ Impatient)' = CallsFor(m) \ Impatient
          \/ (CallsFor(m) \ Impatient)' = (CallsFor(m) \ Impatient) \cup {t}
      BY <3>1
    <3>3. Abs(m)!Request(t)
      BY <2>1, <2>2, <3>1, <3>2 DEF Abs!Request
    <3> QED BY <2>3, <3>3 DEF Abs!MNext, Refines
  <2>4. CASE n /= m
    <3>1. CallsFor(n)' = CallsFor(n)
      BY <1>1, <2>1, <2>4, NobodyAssumption DEF CallsFor, IInv, Types
    <3> QED BY <2>1, <3>1, SameStutters DEF Same, Refines
  <2> QED BY <2>3, <2>4
<1>4. CASE Unlock(t, m)
  <2>1. CASE word[m] = LockedBy(t)
    <3>1. /\ word[m].owner = t /\ word'[m].owner = Nobody /\ at' = at
          /\ n /= m => word'[n] = word[n]
      BY <1>4, <2>1, WordValues DEF Unlock, IInv, Types
    <3>2. CASE n = m
      BY <1>1, <3>1, <3>2, LeavesMutex DEF Refines
    <3>3. CASE n /= m
      BY <3>1, <3>3, SameStutters DEF Same, CallsFor, Refines
    <3> QED BY <3>2, <3>3
  <2>2. CASE word[m] /= LockedBy(t)
    <3>1. word' = word /\ at' = [at EXCEPT ![t] = m] /\ word[m].owner = t
      BY <1>4, <2>2 DEF Unlock
    <3>2. CallsFor(n)' = CallsFor(n)
      BY <1>1, <3>1, NobodyAssumption DEF CallsFor, IInv, Types
    <3> QED BY <3>1, <3>2, SameStutters DEF Same, Refines
  <2> QED BY <2>1, <2>2
<1> QED BY <1>2, <1>3, <1>4

LEMMA AttemptRefines ==
    ASSUME IInv, NEW t \in Thread, NEW n \in Mutex, Lend(t) \/ Leave(t)
    PROVE  Refines(n)
<1> DEFINE m == at[t]
<1>1. m \in Mutex /\ at' = at /\ t /= Nobody
  BY NobodyAssumption DEF Lend, Leave, Goto, IInv, Types, Calls
<1>2. word[m] \in WordSet
  BY <1>1 DEF IInv, Types
<1>3. /\ \/ word'[m].owner = word[m].owner
         \/ word[m].owner = Nobody /\ word'[m].owner = t
      /\ n /= m => word'[n] = word[n]
  <2>1. CASE Lend(t)
    <3> DEFINE w == [word[m] EXCEPT !.contended = TRUE]
    <3>1. word' = [word EXCEPT ![m] = Attempt(w, Contended, t)]
      BY <2>1 DEF Lend
    <3>2. w \in WordSet /\ w.owner = word[m].owner
      BY <1>2, MarkChange
    <3> HIDE DEF w
    <3>3. LET v == Attempt(w, Contended, t) IN
          v.owner = w.owner \/ (w.owner = Nobody /\ v.owner = t)
      BY <3>2, AttemptOwner
    <3> QED BY <1>1, <3>1, <3>2, <3>3 DEF IInv, Types
  <2>2. CASE Leave(t) /\ t \in failed
    BY <2>2 DEF Leave
  <2>3. CASE Leave(t) /\ t \notin failed
    <3>1. word' = [word EXCEPT ![m] = Attempt(word[m], Passed, t)]
      BY <2>3 DEF Leave
    <3>2. LET v == Attempt(word[m], Passed, t) IN
          v.owner = word[m].owner \/ (word[m].owner = Nobody /\ v.owner = t)
      BY <1>2, AttemptOwner
    <3> QED BY <1>1, <3>1, <3>2 DEF IInv, Types
  <2> QED BY <2>1, <2>2, <2>3
<1>4. CASE n = m /\ word'[m].owner /= word[m].owner
  BY <1>1, <1>3, <1>4, GetsMutex DEF Refines
<1>5. CASE n /= m \/ word'[m].owner = word[m].owner
  BY <1>1, <1>3, <1>5, SameStutters DEF Same, CallsFor, Refines
<1> QED BY <1>4, <1>5

LEMMA ReturnRefines ==
    ASSUME IInv, NEW t \in Thread, NEW n \in Mutex, Won(t) \/ Failed(t)
    PROVE  Refines(n)
<1> DEFINE m == at[t]
<1>1. m \in Mutex /\ at' = [at EXCEPT ![t] = Nobody] /\ m /= Nobody
  BY NobodyAssumption DEF Won, Failed, Return, Goto, IInv, Types, Calls
<1>2. word[m] \in WordSet
  BY <1>1 DEF IInv, Types
<1>3. CASE Won(t)
  <2>1. word[m].owner = t
    BY <1>3 DEF Won, Goto, IInv, Words
  <2>2. word'[n].owner = word[n].owner
    BY <1>1, <1>3, <2>1, WordValues DEF Won, IInv, Types
  <2>3. CallsFor(n)' = CallsFor(n)
    BY <1>1, <2>1, <2>2, NobodyAssumption DEF CallsFor, IInv, Types
  <2> QED BY <2>2, <2>3, SameStutters DEF Same, Refines
<1>4. CASE Failed(t)
  <2>1. pc[t] = "failed" /\ t \in Impatient /\ word[m].owner /= t
    BY <1>1, <1>4 DEF Failed, Goto, IInv, Calls, Timers, Words
  <2>2. word'[n].owner = word[n].owner
    <3>1. [Unlocked EXCEPT !.owner = word[m].owner].owner = word[m].owner
      BY <1>2, ClearChange
    <3> QED BY <1>1, <1>4, <3>1 DEF Failed, IInv, Types
  <2>3. CASE n = m
    <3>1. t \in CallsFor(n) /\ CallsFor(n)' = CallsFor(n) \ {t}
      BY <1>1, <2>1, <2>2, <2>3, NobodyAssumption DEF CallsFor, IInv, Types
    <3>2. (CallsFor(n) \ Impatient)' = CallsFor(n) \ Impatient
      BY <2>1, <3>1
    <3>3. Abs(n)!GiveUp(t)
      BY <2>1, <2>2, <2>3, <3>1, <3>2 DEF Abs!GiveUp
    <3> QED BY <2>3, <3>3 DEF Abs!MNext, Refines
  <2>4. CASE n /= m
    <3>1. CallsFor(n)' = CallsFor(n)
      BY <1>1, <2>2, <2>4, NobodyAssumption DEF CallsFor, IInv, Types
    <3> QED BY <2>2, <3>1, SameStutters DEF Same, Refines
  <2> QED BY <2>3, <2>4
<1> QED BY <1>3, <1>4

LEMMA UnlockRefines ==
    ASSUME IInv, NEW t \in Thread, NEW n \in Mutex, UnlockSlow(t)
    PROVE  Refines(n)
<1> DEFINE m == at[t]
<1>1. /\ m \in Mutex /\ m /= Nobody /\ at' = [at EXCEPT ![t] = Nobody]
      /\ word[m].owner = t
  BY NobodyAssumption DEF UnlockSlow, Goto, IInv, Types, Calls, Words
<1>2. word'[m].owner = Nobody /\ (n /= m => word'[n] = word[n])
  BY <1>1, WordValues DEF UnlockSlow, IInv, Types
<1>3. at'[t] = Nobody /\ \A s \in Thread : s /= t => at'[s] = at[s]
  BY <1>1 DEF IInv, Types
<1>4. CASE n = m
  BY <1>1, <1>2, <1>3, <1>4, LeavesMutex DEF Refines
<1>5. CASE n /= m
  <2>1. CallsFor(n)' = CallsFor(n)
    BY <1>1, <1>2, <1>3, <1>5, NobodyAssumption DEF CallsFor
  <2> QED BY <1>2, <1>5, <2>1, SameStutters DEF Same, Refines
<1> QED BY <1>4, <1>5

(* One owner at a time, only calls with a time boundary fail, and no call  *)
(* is lost: each mutex, among chains of them, is the mutex kern/mutex.h    *)
(* promises.                                                               *)
THEOREM Refinement == Spec => ImplementsMutex
<1>1. Init => \A m \in Mutex : Abs(m)!MInit
  BY NobodyAssumption DEF Init, Abs!MInit, CallsFor
<1>2. IInv /\ IInv' /\ [Next]_vars
        => [\A m \in Mutex : [Abs(m)!MNext]_(Abs(m)!mvars)]_vars
  <2> SUFFICES ASSUME IInv, IInv', Next, NEW m \in Mutex PROVE Refines(m)
    BY DEF Refines
  <2>1. ASSUME NEW t \in Thread,
               \/ \E n \in Mutex : LockFast(t, n) \/ LockSlow(t, n) \/ Unlock(t, n)
               \/ Lend(t) \/ Leave(t) \/ Won(t) \/ Failed(t) \/ UnlockSlow(t)
        PROVE  Refines(m)
    BY <2>1, LockRefines, AttemptRefines, ReturnRefines, UnlockRefines
  <2>2. ASSUME NEW t \in Thread,
               \/ Timeout(t) \/ AddWaiter(t) \/ UpdateOwner(t) \/ Turn(t)
               \/ Propagate(t) \/ Retry(t) \/ NextOwner(t) \/ PropagateSelf(t)
        PROVE  Refines(m)
    <3>1. word' = word /\ at' = at
      BY <2>2 DEF Timeout, AddWaiter, UpdateOwner, Turn, Propagate, Retry, NextOwner,
                  PropagateSelf
    <3> QED BY <3>1, SameStutters DEF Same, CallsFor, Refines
  <2> QED BY <2>1, <2>2 DEF Next, Progress
<1> QED BY <1>1, <1>2, Soundness, PTL DEF Spec, ImplementsMutex

--------------------------------------------------------------------------------
(* The page tables. *)

TablesInv == which = "tables" => Tables!TlbInv

(* The invariant of the page tables holds while they are what moves.       *)
LEMMA TablesStep == ASSUME TablesInv, [AllNext]_all PROVE TablesInv'
<1> SUFFICES ASSUME which' = "tables" PROVE Tables!TlbInv'
  BY DEF TablesInv
<1>1. which = "tables"
  BY DEF AllNext, all, others
<1>2. Tables!TlbInv
  BY <1>1 DEF TablesInv
<1>3. [Tables!Next]_Tables!vars
  BY <1>1 DEF AllNext, all, others, Tables!vars
<1> QED BY <1>2, <1>3, TablesAssumption, Tables!TlbStep

(* A processor does not use a translation that was removed: a list of      *)
(* operations that was applied without a failure has flushed what it has   *)
(* removed, one by one or all at once.                                     *)
THEOREM TlbKept == AllSpec => []TlbSound
<1>1. AllInit => TablesInv
  BY TablesAssumption, Tables!TlbInit DEF AllInit, TablesInv
<1>2. TablesInv /\ [AllNext]_all => TablesInv'
  BY TablesStep
<1>3. TablesInv => TlbSound
  <2>1. Tables!TlbInv => Tables!TlbSound
    BY Tables!InvFlushes
  <2> QED BY <2>1 DEF TablesInv, TlbSound
<1> QED BY <1>1, <1>2, <1>3, PTL DEF AllSpec
================================================================================
