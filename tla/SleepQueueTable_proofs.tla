-------------------------- MODULE SleepQueueTable_proofs --------------------------
(***************************************************************************)
(* Safety of the table of sleep queues, for any number of threads and of   *)
(* objects that share a bucket.                                            *)
(***************************************************************************)
EXTENDS SleepQueueTable, TLAPS, FiniteSetTheorems

--------------------------------------------------------------------------------
(* One queue: its waiters are the set W, and those of A are asleep.        *)

QueueSound(q, W, A) ==
    /\ q \in [fresh : Seq(Thread), woken : Seq(Thread), pending : SUBSET Thread]
    /\ IsInjective(q.fresh) /\ IsInjective(q.woken)
    /\ ToSet(q.fresh) \cap ToSet(q.woken) = {}
    /\ ToSet(q.fresh) \cup ToSet(q.woken) = W
    /\ q.pending \subseteq ToSet(q.woken)
    /\ q.pending \cap A = {}

LEMMA EmptySound == ASSUME NEW A PROVE QueueSound(EmptyQueue, {}, A)
BY DEF QueueSound, EmptyQueue, IsInjective, ToSet

LEMMA WaiterAdded ==
    ASSUME NEW q, NEW W, NEW A, QueueSound(q, W, A), NEW t \in Thread, t \notin W
    PROVE  QueueSound(sleepq_add_waiter(q, t), W \cup {t}, A \cup {t})
<1> DEFINE f == <<t>> \o q.fresh
<1>1. f \in Seq(Thread) /\ IsInjective(f) /\ ToSet(f) = ToSet(q.fresh) \cup {t}
  BY AddHead DEF QueueSound
<1>2. sleepq_add_waiter(q, t) = [fresh |-> f, woken |-> q.woken, pending |-> q.pending]
  <2>1. q \in [fresh : Seq(Thread), woken : Seq(Thread), pending : SUBSET Thread]
    BY DEF QueueSound
  <2>2. \A g : [q EXCEPT !.fresh = g] = [fresh |-> g, woken |-> q.woken, pending |-> q.pending]
    BY <2>1
  <2> QED BY <2>2 DEF sleepq_add_waiter
<1> HIDE DEF f
<1> QED BY <1>1, <1>2 DEF QueueSound

LEMMA WaiterRemoved ==
    ASSUME NEW q, NEW W, NEW A, QueueSound(q, W, A), NEW t
    PROVE  QueueSound(sleepq_remove_waiter(q, t), W \ {t}, A)
<1> DEFINE f == Without(q.fresh, t)
           w == Without(q.woken, t)
<1>1. f \in Seq(Thread \ {t}) /\ IsInjective(f) /\ ToSet(f) = ToSet(q.fresh) \ {t}
  BY RemoveWaiter DEF QueueSound
<1>2. w \in Seq(Thread \ {t}) /\ IsInjective(w) /\ ToSet(w) = ToSet(q.woken) \ {t}
  BY RemoveWaiter DEF QueueSound
<1>3. sleepq_remove_waiter(q, t) = [fresh |-> f, woken |-> w, pending |-> q.pending \ {t}]
  BY DEF sleepq_remove_waiter
<1>4. f \in Seq(Thread) /\ w \in Seq(Thread)
  <2> HIDE DEF f, w
  <2> QED BY <1>1, <1>2, SeqOfMembers
<1> HIDE DEF f, w
<1> QED BY <1>1, <1>2, <1>3, <1>4 DEF QueueSound

(* A signal marks the waiter it wakes up, and no other is marked asleep.   *)
LEMMA WaiterSignalled ==
    ASSUME NEW q, NEW W, NEW A, QueueSound(q, W, A), q.fresh /= <<>>
    PROVE  /\ Last(q.fresh) \in W
           /\ QueueSound(sleepq_signal(q), W, A \ {Last(q.fresh)})
<1> DEFINE l == Last(q.fresh)
           f == Front(q.fresh)
           w == <<l>> \o q.woken
<1>1. f \in Seq(Thread) /\ IsInjective(f) /\ l \in ToSet(q.fresh) /\ ToSet(f) = ToSet(q.fresh) \ {l}
  BY TakeLast DEF QueueSound
<1>2. l \in Thread /\ l \notin ToSet(q.woken) /\ l \in W
  <2> HIDE DEF l
  <2> QED BY <1>1, SeqOfMembers DEF QueueSound
<1>3. sleepq_signal(q) = [fresh |-> f, woken |-> w, pending |-> q.pending \cup {l}]
  BY DEF sleepq_signal
<1> HIDE DEF l, f
<1>4. w \in Seq(Thread) /\ IsInjective(w) /\ ToSet(w) = ToSet(q.woken) \cup {l}
  BY <1>2, AddHead DEF QueueSound
<1> HIDE DEF w
<1>5. QueueSound(sleepq_signal(q), W, A \ {l})
  BY <1>1, <1>2, <1>3, <1>4 DEF QueueSound
<1> QED BY <1>2, <1>5 DEF l

(* The concatenation of two lists without common members.                  *)
LEMMA Concatenated ==
    ASSUME NEW S, NEW r \in Seq(S), NEW s \in Seq(S), IsInjective(r), IsInjective(s),
           ToSet(r) \cap ToSet(s) = {}
    PROVE  /\ r \o s \in Seq(S)
           /\ IsInjective(r \o s)
           /\ ToSet(r \o s) = ToSet(r) \cup ToSet(s)
<1> DEFINE c == r \o s
           m == Len(r)
           n == Len(s)
<1>1. /\ m \in Nat /\ n \in Nat /\ DOMAIN r = 1..m /\ DOMAIN s = 1..n
      /\ c \in Seq(S) /\ DOMAIN c = 1..(m + n)
      /\ \A i \in 1..m : c[i] = r[i]
      /\ \A i \in (m + 1)..(m + n) : c[i] = s[i - m]
  OBVIOUS
<1> HIDE DEF c
<1>2. ToSet(c) = ToSet(r) \cup ToSet(s)
  <2>1. ASSUME NEW x \in ToSet(c) PROVE x \in ToSet(r) \cup ToSet(s)
    <3>1. PICK i \in 1..(m + n) : x = c[i]
      BY <1>1 DEF ToSet
    <3>2. CASE i <= m
      <4>1. i \in DOMAIN r /\ x = r[i]
        BY <1>1, <3>1, <3>2
      <4> QED BY <4>1 DEF ToSet
    <3>3. CASE i > m
      <4>1. i - m \in DOMAIN s /\ x = s[i - m]
        BY <1>1, <3>1, <3>3
      <4> QED BY <4>1 DEF ToSet
    <3> QED BY <1>1, <3>2, <3>3
  <2>2. ASSUME NEW x \in ToSet(r) PROVE x \in ToSet(c)
    <3>1. PICK i \in 1..m : x = r[i]
      BY <1>1 DEF ToSet
    <3>2. i \in DOMAIN c /\ x = c[i]
      BY <1>1, <3>1
    <3> QED BY <3>2 DEF ToSet
  <2>3. ASSUME NEW x \in ToSet(s) PROVE x \in ToSet(c)
    <3>1. PICK i \in 1..n : x = s[i]
      BY <1>1 DEF ToSet
    <3>2. i + m \in (m + 1)..(m + n) /\ (i + m) - m = i
      BY <1>1, <3>1
    <3>3. i + m \in DOMAIN c /\ x = c[i + m]
      BY <1>1, <3>1, <3>2
    <3> QED BY <3>3 DEF ToSet
  <2> QED BY <2>1, <2>2, <2>3
<1>3. IsInjective(c)
  <2> SUFFICES ASSUME NEW i \in 1..(m + n), NEW j \in 1..(m + n), c[i] = c[j]
               PROVE  i = j
    BY <1>1 DEF IsInjective
  <2>1. \A k \in 1..m : r[k] \in ToSet(r)
    BY <1>1 DEF ToSet
  <2>2. \A k \in 1..n : s[k] \in ToSet(s)
    BY <1>1 DEF ToSet
  <2>3. \A k, l \in 1..m : r[k] = r[l] => k = l
    BY <1>1 DEF IsInjective
  <2>4. \A k, l \in 1..n : s[k] = s[l] => k = l
    BY <1>1 DEF IsInjective
  <2>5. CASE i <= m /\ j <= m
    BY <1>1, <2>3, <2>5
  <2>6. CASE i > m /\ j > m
    <3>1. i - m \in 1..n /\ j - m \in 1..n /\ c[i] = s[i - m] /\ c[j] = s[j - m]
      BY <1>1, <2>6
    <3>2. i - m = j - m
      BY <2>4, <3>1
    <3> QED BY <1>1, <3>2
  <2>7. CASE i <= m /\ j > m
    <3>1. i \in 1..m /\ j - m \in 1..n /\ c[i] = r[i] /\ c[j] = s[j - m]
      BY <1>1, <2>7
    <3> QED BY <2>1, <2>2, <3>1
  <2>8. CASE i > m /\ j <= m
    <3>1. j \in 1..m /\ i - m \in 1..n /\ c[j] = r[j] /\ c[i] = s[i - m]
      BY <1>1, <2>8
    <3> QED BY <2>1, <2>2, <3>1
  <2> QED BY <1>1, <2>5, <2>6, <2>7, <2>8
<1> QED BY <1>1, <1>2, <1>3 DEF c

LEMMA AllSignalled ==
    ASSUME NEW q, NEW W, NEW A, QueueSound(q, W, A), q.fresh /= <<>>
    PROVE  /\ Last(q.fresh) \in W
           /\ QueueSound(sleepq_broadcast(q), W, A \ {Last(q.fresh)})
<1> DEFINE l == Last(q.fresh)
           w == q.fresh \o q.woken
<1>1. l \in ToSet(q.fresh)
  BY TakeLast DEF QueueSound
<1>2. w \in Seq(Thread) /\ IsInjective(w) /\ ToSet(w) = ToSet(q.fresh) \cup ToSet(q.woken)
  BY Concatenated DEF QueueSound
<1>3. sleepq_broadcast(q) = [fresh |-> <<>>, woken |-> w, pending |-> q.pending \cup {l}]
  BY DEF sleepq_broadcast
<1>4. /\ <<>> \in Seq(Thread) /\ IsInjective(<<>>) /\ ToSet(<<>>) = {}
      /\ ToSet(q.fresh) \subseteq Thread
  BY SeqOfMembers DEF IsInjective, ToSet, QueueSound
<1> HIDE DEF l, w
<1>5. QueueSound(sleepq_broadcast(q), W, A \ {l}) /\ l \in W
  BY <1>1, <1>2, <1>3, <1>4 DEF QueueSound
<1> QED BY <1>5 DEF l

(* sleepq_return() takes the first of the free queues.                     *)
LEMMA TakeFirst ==
    ASSUME NEW S, NEW s \in Seq(S), IsInjective(s), s /= <<>>
    PROVE  /\ Tail(s) \in Seq(S)
           /\ IsInjective(Tail(s))
           /\ Head(s) \in ToSet(s)
           /\ ToSet(Tail(s)) = ToSet(s) \ {Head(s)}
           /\ Len(s) = Len(Tail(s)) + 1
<1> DEFINE n == Len(s)
           r == Tail(s)
<1>1. n \in Nat /\ n >= 1 /\ DOMAIN s = 1..n
  OBVIOUS
<1>2. /\ r \in Seq(S) /\ Len(r) = n - 1 /\ DOMAIN r = 1..(n - 1)
      /\ \A i \in 1..(n - 1) : r[i] = s[i + 1]
  BY <1>1
<1>3. Head(s) = s[1]
  OBVIOUS
<1> HIDE DEF r
<1>4. \A i, j \in 1..n : s[i] = s[j] => i = j
  BY <1>1 DEF IsInjective
<1>5. IsInjective(r)
  <2> SUFFICES ASSUME NEW i \in 1..(n - 1), NEW j \in 1..(n - 1), r[i] = r[j] PROVE i = j
    BY <1>2 DEF IsInjective
  <2>1. i + 1 \in 1..n /\ j + 1 \in 1..n /\ s[i + 1] = s[j + 1]
    BY <1>1, <1>2
  <2> QED BY <1>1, <1>4, <2>1
<1>6. ToSet(r) = ToSet(s) \ {s[1]}
  <2>1. ASSUME NEW x \in ToSet(r) PROVE x \in ToSet(s) \ {s[1]}
    <3>1. PICK i \in 1..(n - 1) : x = r[i]
      BY <1>2 DEF ToSet
    <3>2. i + 1 \in 1..n /\ x = s[i + 1] /\ i + 1 /= 1 /\ 1 \in 1..n
      BY <1>1, <1>2, <3>1
    <3>3. x /= s[1]
      BY <1>4, <3>2
    <3> QED BY <1>1, <3>2, <3>3 DEF ToSet
  <2>2. ASSUME NEW x \in ToSet(s) \ {s[1]} PROVE x \in ToSet(r)
    <3>1. PICK i \in 1..n : x = s[i]
      BY <1>1 DEF ToSet
    <3>2. i /= 1
      BY <3>1
    <3>3. i - 1 \in 1..(n - 1) /\ (i - 1) + 1 = i
      BY <1>1, <3>2
    <3>4. r[i - 1] = x
      BY <1>2, <3>1, <3>3
    <3> QED BY <1>2, <3>3, <3>4 DEF ToSet
  <2> QED BY <2>1, <2>2
<1>7. Head(s) \in ToSet(s)
  BY <1>1, <1>3 DEF ToSet
<1> QED BY <1>1, <1>2, <1>3, <1>5, <1>6, <1>7 DEF r

--------------------------------------------------------------------------------
(* The inductive invariant.                                                *)

Sleepers(s) == {t \in Thread : cur[t] = s /\ pc[t] = "asleep"}

Types ==
    /\ lock \in Thread \cup {Nobody}
    /\ bucket \subseteq Thread
    /\ sync_obj \in [Thread -> Object \cup {Nobody}]
    /\ next_free \in [Thread -> Seq(Thread)]
    /\ queue \in [Thread -> [fresh : Seq(Thread), woken : Seq(Thread),
                             pending : SUBSET Thread]]
    /\ priv \in [Thread -> Thread \cup {Nobody}]
    /\ cur \in [Thread -> Thread \cup {Nobody}]
    /\ obj \in [Thread -> Object \cup {Nobody}]
    /\ timed \subseteq Thread
    /\ pc \in [Thread -> {"idle", "lent", "asleep"}]

(* The bucket is locked by the one thread that works on it.                *)
Locked == \A t \in Thread : lock = t <=> pc[t] = "lent"

(* A thread has its queue, or uses that of its object.                     *)
Calls ==
    \A t \in Thread :
        IF pc[t] = "idle"
        THEN priv[t] /= Nobody /\ cur[t] = Nobody /\ obj[t] = Nobody
        ELSE priv[t] = Nobody /\ cur[t] \in bucket /\ obj[t] = sync_obj[cur[t]]

(* An object has one queue, and a queue nobody uses is clean.              *)
Buckets ==
    /\ \A s \in bucket : sync_obj[s] /= Nobody
    /\ \A r, s \in bucket : sync_obj[r] = sync_obj[s] => r = s
    /\ \A s \in Thread \ bucket : sync_obj[s] = Nobody /\ next_free[s] = <<>>

(* A queue is in one place.                                                *)
Free(s, p) == p \in bucket /\ s \in ToSet(next_free[p])

Places ==
    /\ \A t, u \in Thread : priv[t] = priv[u] /\ priv[t] /= Nobody => t = u
    /\ \A t \in Thread : priv[t] \notin bucket
    /\ \A p, s \in Thread : Free(s, p) => s \notin bucket /\ \A t \in Thread : priv[t] /= s
    /\ \A p, r, s \in Thread : Free(s, p) /\ Free(s, r) => p = r
    /\ \A p \in bucket : IsInjective(next_free[p])
    /\ \A s \in Thread \ bucket : (\E t \in Thread : priv[t] = s) \/ \E p \in Thread : Free(s, p)

(* As many queues are on a free list as there are other users.             *)
Counts ==
    \A s \in bucket :
        IsFiniteSet(Users(s)) /\ Cardinality(Users(s)) = 1 + Len(next_free[s])

Queues == \A s \in Thread : QueueSound(queue[s], Sleepers(s), th.asleep)

Sleeping ==
    /\ th \in Threads(Thread)
    /\ th.asleep \cup th.armed \subseteq {t \in Thread : pc[t] = "asleep"}
    /\ owed \subseteq th.asleep

IInv == Types /\ Locked /\ Calls /\ Buckets /\ Places /\ Counts /\ Queues /\ Sleeping

LEMMA TableInit == ASSUME NobodyAssumption, Init PROVE IInv
<1> USE DEF Init
<1>1. Types /\ Locked /\ Calls
  BY DEF NobodyAssumption, EmptyQueue, Types, Locked, Calls
<1>2. Buckets /\ Places /\ Counts
  BY DEF NobodyAssumption, Buckets, Places, Counts, Free
<1>3. \A s \in Thread : Sleepers(s) = {}
  BY DEF Sleepers
<1>4. Queues
  BY <1>3, EmptySound DEF Queues
<1>5. Sleeping
  BY DEF Sleeping, AllRunning, Threads
<1> QED BY <1>1, <1>2, <1>4, <1>5 DEF IInv

--------------------------------------------------------------------------------
(* Lending a queue and getting one back: no waiter changes place.          *)

LEMMA Lookup ==
    ASSUME NobodyAssumption, Types, NEW o,
           \A r, s \in bucket : sync_obj[r] = sync_obj[s] => r = s
    PROVE  /\ sleepq_bucket_lookup(o) = Nobody =>
                  \A s \in bucket : sync_obj[s] /= o
           /\ sleepq_bucket_lookup(o) /= Nobody =>
                  /\ sleepq_bucket_lookup(o) \in bucket
                  /\ sync_obj[sleepq_bucket_lookup(o)] = o
           /\ \A s \in bucket : sync_obj[s] = o => sleepq_bucket_lookup(o) = s
<1>1. Nobody \notin bucket
  BY DEF Types, NobodyAssumption
<1>2. CASE \E s \in bucket : sync_obj[s] = o
  <2> DEFINE c == CHOOSE s \in bucket : sync_obj[s] = o
  <2>1. c \in bucket /\ sync_obj[c] = o
    BY <1>2
  <2>2. sleepq_bucket_lookup(o) = c
    BY <1>2 DEF sleepq_bucket_lookup
  <2> HIDE DEF c
  <2> QED BY <1>1, <2>1, <2>2
<1>3. CASE ~\E s \in bucket : sync_obj[s] = o
  BY <1>3 DEF sleepq_bucket_lookup
<1> QED BY <1>2, <1>3

LEMMA UserJoins ==
    ASSUME Counts, Types, NEW t \in Thread, NEW s \in bucket, cur[t] /= s
    PROVE  /\ IsFiniteSet(Users(s) \cup {t})
           /\ Cardinality(Users(s) \cup {t}) = 2 + Len(next_free[s])
<1>1. t \notin Users(s)
  BY DEF Users
<1>2. Len(next_free[s]) \in Nat
  BY DEF Types
<1>3. IsFiniteSet(Users(s)) /\ Cardinality(Users(s)) = 1 + Len(next_free[s])
  BY DEF Counts
<1>4. /\ IsFiniteSet(Users(s) \cup {t})
      /\ Cardinality(Users(s) \cup {t}) = Cardinality(Users(s)) + 1
  BY <1>1, <1>3, FS_AddElement
<1> QED BY <1>2, <1>3, <1>4

LEMMA UserLeaves ==
    ASSUME Counts, Types, NEW t \in Thread, NEW s \in bucket, cur[t] = s
    PROVE  /\ IsFiniteSet(Users(s) \ {t})
           /\ Cardinality(Users(s) \ {t}) = Len(next_free[s])
           /\ next_free[s] = <<>> => Users(s) = {t}
<1>1. t \in Users(s)
  BY DEF Users
<1>2. Len(next_free[s]) \in Nat /\ (next_free[s] = <<>> => Len(next_free[s]) = 0)
  BY DEF Types
<1>3. IsFiniteSet(Users(s) \ {t}) /\ Cardinality(Users(s) \ {t}) = Len(next_free[s])
  <2>1. IsFiniteSet(Users(s)) /\ Cardinality(Users(s)) = 1 + Len(next_free[s])
    BY DEF Counts
  <2>2. /\ IsFiniteSet(Users(s) \ {t})
        /\ Cardinality(Users(s) \ {t}) = Cardinality(Users(s)) - 1
    BY <1>1, <2>1, FS_RemoveElement
  <2> QED BY <1>2, <2>1, <2>2
<1>4. ASSUME next_free[s] = <<>> PROVE Users(s) \ {t} = {}
  <2>1. IsFiniteSet(Users(s) \ {t}) /\ Cardinality(Users(s) \ {t}) = 0
    BY <1>2, <1>3, <1>4
  <2> HIDE DEF Users
  <2> QED BY <2>1, FS_EmptySet
<1> QED BY <1>1, <1>3, <1>4

LEMMA LendStep ==
    ASSUME NobodyAssumption, IInv, NEW t \in Thread, NEW o \in Object, sleepq_lend(t, o)
    PROVE  IInv'
<1> DEFINE prev == sleepq_bucket_lookup(o)
<1> USE DEF IInv
<1>1. /\ pc[t] = "idle" /\ pc' = [pc EXCEPT ![t] = "lent"]
      /\ lock = Nobody /\ lock' = t
      /\ priv' = [priv EXCEPT ![t] = Nobody]
      /\ obj' = [obj EXCEPT ![t] = o]
      /\ timed' \in {timed \ {t}, timed \cup {t}}
      /\ queue' = queue /\ th' = th /\ owed' = owed
  BY DEF sleepq_lend, Goto
<1>0. PICK mine \in Thread : mine = priv[t]
  BY <1>1 DEF Calls, Types
<1>2. o /= Nobody /\ mine \notin bucket /\ cur[t] = Nobody
  BY <1>0, <1>1 DEF Calls, Places, NobodyAssumption
<1>3. \/ /\ \A s \in bucket : sync_obj[s] /= o
         /\ sync_obj' = [sync_obj EXCEPT ![mine] = o]
         /\ bucket' = bucket \cup {mine}
         /\ cur' = [cur EXCEPT ![t] = mine]
         /\ next_free' = next_free
      \/ \E p \in bucket :
         /\ sync_obj[p] = o
         /\ next_free' = [next_free EXCEPT ![p] = <<mine>> \o @]
         /\ cur' = [cur EXCEPT ![t] = p]
         /\ sync_obj' = sync_obj /\ bucket' = bucket
  <2>1. /\ prev = Nobody => \A s \in bucket : sync_obj[s] /= o
        /\ prev /= Nobody => prev \in bucket /\ sync_obj[prev] = o
    BY Lookup DEF Buckets
  <2>2. CASE prev = Nobody
    BY <1>0, <2>1, <2>2 DEF sleepq_lend
  <2>3. CASE prev /= Nobody
    BY <1>0, <2>1, <2>3 DEF sleepq_lend
  <2> QED BY <2>2, <2>3
<1> HIDE DEF prev
<1>4. Locked'
  BY <1>1 DEF Locked, Types, NobodyAssumption
<1>5. Sleeping'
  BY <1>1 DEF Sleeping, Types
<1>6. Queues'
  <2>1. ASSUME NEW s \in Thread PROVE Sleepers(s)' = Sleepers(s)
    BY <1>1, <1>2, <1>3 DEF Sleepers, Types
  <2> QED BY <1>1, <2>1 DEF Queues
<1>7. CASE /\ \A s \in bucket : sync_obj[s] /= o
           /\ sync_obj' = [sync_obj EXCEPT ![mine] = o]
           /\ bucket' = bucket \cup {mine}
           /\ cur' = [cur EXCEPT ![t] = mine]
           /\ next_free' = next_free
  <2>1. Types'
    BY <1>1, <1>2, <1>7 DEF Types
  <2>2. Calls'
    BY <1>1, <1>2, <1>7 DEF Calls, Types
  <2>3. Buckets'
    BY <1>1, <1>2, <1>7 DEF Buckets, Types
  <2>4. next_free[mine] = <<>> /\ mine = priv[t]
    BY <1>0, <1>2 DEF Buckets
  <2>5. \A p, s \in Thread : Free(s, p)' <=> Free(s, p)
    BY <1>7, <2>4 DEF Free, ToSet
  <2>6. Places'
    <3>1. \A p, s \in Thread : Free(s, p)' => s \notin bucket' /\ \A u \in Thread : priv'[u] /= s
      BY <1>1, <1>2, <1>7, <2>4, <2>5, NobodyAssumption DEF Places, Types, NobodyAssumption
    <3>2. \A u, v \in Thread : priv'[u] = priv'[v] /\ priv'[u] /= Nobody => u = v
      BY <1>1 DEF Places, Types
    <3>3. ASSUME NEW u \in Thread PROVE priv'[u] \notin bucket'
      <4>1. CASE u = t
        BY <1>1, <1>2, <1>7, <4>1 DEF Types, NobodyAssumption
      <4>2. CASE u /= t
        <5>1. priv'[u] = priv[u] /\ priv[u] /= mine
          BY <1>1, <1>2, <2>4, <4>2 DEF Places, Types, NobodyAssumption
        <5> QED BY <1>7, <5>1 DEF Places
      <4> QED BY <4>1, <4>2
    <3>4. \A p \in bucket' : IsInjective(next_free'[p])
      BY <1>7, <2>4 DEF Places, IsInjective
    <3>5. ASSUME NEW s \in Thread \ bucket'
          PROVE  (\E u \in Thread : priv'[u] = s) \/ \E p \in Thread : Free(s, p)'
      <4>1. s \in Thread \ bucket /\ s /= mine
        BY <1>7
      <4>2. ASSUME NEW u \in Thread, priv[u] = s PROVE priv'[u] = s
        BY <1>1, <2>4, <4>1, <4>2 DEF Types
      <4> QED BY <2>5, <4>1, <4>2 DEF Places
    <3> QED BY <2>5, <3>1, <3>2, <3>3, <3>4, <3>5 DEF Places
  <2>7. Counts'
    <3>1. Users(mine)' = {t}
      <4>1. \A u \in Thread : cur[u] /= mine
        BY <1>2 DEF Calls, NobodyAssumption
      <4> QED BY <1>7, <4>1 DEF Users, Types
    <3>2. \A s \in bucket : Users(s)' = Users(s)
      BY <1>2, <1>7, NobodyAssumption DEF Users, Types, NobodyAssumption
    <3>3. IsFiniteSet({t}) /\ Cardinality({t}) = 1
      BY FS_Singleton
    <3>4. Len(next_free'[mine]) = 0
      BY <1>7, <2>4
    <3>5. IsFiniteSet(Users(mine)') /\ Cardinality(Users(mine)') = 1 + Len(next_free'[mine])
      BY <3>1, <3>3, <3>4
    <3>6. \A s \in bucket : IsFiniteSet(Users(s)') /\ Cardinality(Users(s)') = 1 + Len(next_free'[s])
      BY <1>7, <3>2 DEF Counts
    <3> QED BY <1>7, <3>5, <3>6 DEF Counts
  <2> QED BY <1>4, <1>5, <1>6, <2>1, <2>2, <2>3, <2>6, <2>7
<1>8. ASSUME NEW p \in bucket, sync_obj[p] = o,
             next_free' = [next_free EXCEPT ![p] = <<mine>> \o @],
             cur' = [cur EXCEPT ![t] = p],
             sync_obj' = sync_obj, bucket' = bucket
      PROVE  IInv'
  <2>1. p \in Thread /\ next_free[p] \in Seq(Thread) /\ IsInjective(next_free[p])
    BY DEF Types, Places
  <2>2. mine = priv[t] /\ mine \notin ToSet(next_free[p])
    BY <1>0, <1>2, <2>1 DEF Places, Free
  <2>3. /\ next_free'[p] \in Seq(Thread)
        /\ IsInjective(next_free'[p])
        /\ ToSet(next_free'[p]) = ToSet(next_free[p]) \cup {mine}
        /\ Len(next_free'[p]) = Len(next_free[p]) + 1
    <3>1. next_free'[p] = <<mine>> \o next_free[p]
      BY <1>8, <2>1 DEF Types
    <3>2. Len(<<mine>> \o next_free[p]) = Len(next_free[p]) + 1
      BY <1>2, <2>1
    <3> QED BY <1>2, <2>1, <2>2, <3>1, <3>2, AddHead
  <2>4. \A r \in Thread \ {p} : next_free'[r] = next_free[r]
    BY <1>8, <2>1 DEF Types
  <2>5. Types'
    <3>1. next_free' \in [Thread -> Seq(Thread)]
      BY <1>8, <2>3, <2>4 DEF Types
    <3> QED BY <1>1, <1>2, <1>8, <2>1, <3>1 DEF Types
  <2>6. Calls'
    BY <1>1, <1>2, <1>8 DEF Calls, Types
  <2>7. Buckets'
    BY <1>8, <2>4 DEF Buckets
  <2>8. \A r, s \in Thread : Free(s, r)' <=> Free(s, r) \/ (r = p /\ s = mine)
    BY <1>8, <2>3, <2>4 DEF Free
  <2>9. Places'
    <3>1. ASSUME NEW r \in Thread, NEW s \in Thread, Free(s, r)'
          PROVE  s \notin bucket' /\ \A u \in Thread : priv'[u] /= s
      <4>1. \A u \in Thread : priv'[u] = IF u = t THEN Nobody ELSE priv[u]
        BY <1>1 DEF Types
      <4>2. CASE Free(s, r)
        <5>1. s \notin bucket /\ \A u \in Thread : priv[u] /= s
          BY <4>2 DEF Places
        <5> QED BY <1>8, <4>1, <5>1 DEF NobodyAssumption
      <4>3. CASE r = p /\ s = mine
        <5>1. s = priv[t] /\ s /= Nobody
          BY <2>2, <3>1, <4>3 DEF NobodyAssumption
        <5>2. s \notin bucket
          BY <5>1 DEF Places
        <5>3. \A u \in Thread \ {t} : priv[u] /= s
          BY <5>1 DEF Places
        <5> QED BY <1>8, <4>1, <5>1, <5>2, <5>3 DEF NobodyAssumption
      <4> QED BY <2>8, <3>1, <4>2, <4>3
    <3>2. \A u, v \in Thread : priv'[u] = priv'[v] /\ priv'[u] /= Nobody => u = v
      BY <1>1 DEF Places, Types
    <3>3. \A u \in Thread : priv'[u] \notin bucket'
      BY <1>1, <1>8 DEF Places, Types, NobodyAssumption
    <3>4. \A r \in bucket' : IsInjective(next_free'[r])
      BY <1>8, <2>3, <2>4 DEF Places, Types
    <3>5. ASSUME NEW s \in Thread \ bucket'
          PROVE  (\E u \in Thread : priv'[u] = s) \/ \E r \in Thread : Free(s, r)'
      <4>1. ASSUME NEW u \in Thread, priv[u] = s PROVE priv'[u] = s \/ Free(s, p)'
        BY <1>1, <2>1, <2>2, <2>8, <4>1 DEF Types
      <4>2. s \in Thread \ bucket
        BY <1>8
      <4> QED BY <2>1, <2>8, <4>1, <4>2 DEF Places
    <3>6. \A r, q, s \in Thread : Free(s, r)' /\ Free(s, q)' => r = q
      BY <1>2, <2>2, <2>8 DEF Places
    <3> QED BY <3>1, <3>2, <3>3, <3>4, <3>5, <3>6 DEF Places
  <2>10. Counts'
    <3>1. /\ IsFiniteSet(Users(p) \cup {t})
          /\ Cardinality(Users(p) \cup {t}) = 2 + Len(next_free[p])
      BY <1>2, <2>1, UserJoins DEF NobodyAssumption
    <3>2. Users(p)' = Users(p) \cup {t}
      BY <1>8 DEF Users, Types
    <3>3. \A s \in bucket \ {p} : Users(s)' = Users(s)
      BY <1>2, <1>8 DEF Users, Types, NobodyAssumption
    <3>4. \A s \in bucket \ {p} : IsFiniteSet(Users(s)') /\ Cardinality(Users(s)') = 1 + Len(next_free'[s])
      BY <2>4, <3>3 DEF Counts, Types
    <3>5. IsFiniteSet(Users(p)') /\ Cardinality(Users(p)') = 1 + Len(next_free'[p])
      BY <2>1, <2>3, <3>1, <3>2
    <3> QED BY <1>8, <3>4, <3>5 DEF Counts
  <2> QED BY <1>4, <1>5, <1>6, <2>5, <2>6, <2>7, <2>9, <2>10
<1> QED BY <1>3, <1>7, <1>8

LEMMA ReturnStep ==
    ASSUME NobodyAssumption, IInv, NEW t \in Thread, sleepq_return(t)
    PROVE  IInv'
<1> USE DEF IInv
<1>1. /\ pc[t] = "lent" /\ pc' = [pc EXCEPT ![t] = "idle"]
      /\ lock' = Nobody
      /\ cur' = [cur EXCEPT ![t] = Nobody]
      /\ obj' = [obj EXCEPT ![t] = Nobody]
      /\ timed' = timed \ {t}
      /\ queue' = queue /\ th' = th /\ owed' = owed
  BY DEF sleepq_return, Goto
<1>2. PICK p \in bucket : p = cur[t]
  BY <1>1 DEF Calls
<1>3. /\ p \in Thread /\ p /= Nobody /\ priv[t] = Nobody
      /\ next_free[p] \in Seq(Thread) /\ IsInjective(next_free[p])
  BY <1>1 DEF Calls, Types, Places, NobodyAssumption
<1>4. Locked'
  BY <1>1 DEF Locked, Types, NobodyAssumption
<1>5. Sleeping'
  BY <1>1 DEF Sleeping, Types
<1>6. Queues'
  <2>1. ASSUME NEW s \in Thread PROVE Sleepers(s)' = Sleepers(s)
    BY <1>1 DEF Sleepers, Types
  <2> QED BY <1>1, <2>1 DEF Queues
<1>7. /\ IsFiniteSet(Users(p) \ {t})
      /\ Cardinality(Users(p) \ {t}) = Len(next_free[p])
      /\ next_free[p] = <<>> => Users(p) = {t}
  BY <1>2, UserLeaves
<1>8. \A s \in bucket \ {p} : Users(s)' = Users(s)
  BY <1>1, <1>2 DEF Users, Types, NobodyAssumption
<1>9. CASE next_free[p] = <<>>
  <2>1. /\ bucket' = bucket \ {p}
        /\ sync_obj' = [sync_obj EXCEPT ![p] = Nobody]
        /\ priv' = [priv EXCEPT ![t] = p]
        /\ next_free' = next_free
    BY <1>2, <1>9 DEF sleepq_return
  <2>2. Types'
    BY <1>1, <1>3, <2>1 DEF Types
  <2>3. Calls'
    <3>1. ASSUME NEW u \in Thread \ {t}, pc[u] /= "idle" PROVE cur[u] /= p
      BY <1>7, <1>9, <3>1 DEF Users
    <3> QED BY <1>1, <1>3, <2>1, <3>1 DEF Calls, Types
  <2>4. Buckets'
    BY <1>3, <1>9, <2>1 DEF Buckets, Types
  <2>5. \A r, s \in Thread : Free(s, r)' <=> Free(s, r)
    BY <1>9, <2>1 DEF Free, ToSet
  <2>6. Places'
    <3>1. \A u \in Thread : priv[u] /= p
      BY <1>2 DEF Places
    <3>2. \A r, s \in Thread : Free(s, r)' => s \notin bucket' /\ \A u \in Thread : priv'[u] /= s
      <4>1. \A r, s \in Thread : Free(s, r) => s /= p
        BY <1>2 DEF Places
      <4> QED BY <2>1, <2>5, <4>1 DEF Places, Types
    <3>3. \A u, v \in Thread : priv'[u] = priv'[v] /\ priv'[u] /= Nobody => u = v
      BY <2>1, <3>1 DEF Places, Types
    <3>4. \A u \in Thread : priv'[u] \notin bucket'
      BY <2>1 DEF Places, Types
    <3>5. ASSUME NEW s \in Thread \ bucket'
          PROVE  (\E u \in Thread : priv'[u] = s) \/ \E r \in Thread : Free(s, r)'
      <4>1. CASE s = p
        BY <2>1, <4>1 DEF Types
      <4>2. CASE s /= p
        <5>1. s \in Thread \ bucket
          BY <2>1, <4>2
        <5>2. \A u \in Thread : priv[u] = s => priv'[u] = s
          BY <1>3, <2>1, <5>1 DEF Types, NobodyAssumption
        <5> QED BY <2>5, <5>1, <5>2 DEF Places
      <4> QED BY <4>1, <4>2
    <3>6. \A r \in bucket' : IsInjective(next_free'[r])
      BY <2>1 DEF Places
    <3>7. \A r, q, s \in Thread : Free(s, r)' /\ Free(s, q)' => r = q
      BY <2>5 DEF Places
    <3> QED BY <3>2, <3>3, <3>4, <3>5, <3>6, <3>7 DEF Places
  <2>7. Counts'
    BY <1>8, <2>1 DEF Counts
  <2> QED BY <1>4, <1>5, <1>6, <2>2, <2>3, <2>4, <2>6, <2>7
<1>10. CASE next_free[p] /= <<>>
  <2>1. /\ bucket' = bucket /\ sync_obj' = sync_obj
        /\ priv' = [priv EXCEPT ![t] = Head(next_free[p])]
        /\ next_free' = [next_free EXCEPT ![p] = Tail(@)]
    BY <1>2, <1>10 DEF sleepq_return
  <2>2. PICK h : h = Head(next_free[p])
    OBVIOUS
  <2>3. /\ next_free'[p] \in Seq(Thread)
        /\ IsInjective(next_free'[p])
        /\ h \in ToSet(next_free[p]) /\ h \in Thread
        /\ ToSet(next_free'[p]) = ToSet(next_free[p]) \ {h}
        /\ Len(next_free[p]) = Len(next_free'[p]) + 1
    <3>1. next_free'[p] = Tail(next_free[p])
      BY <1>3, <2>1 DEF Types
    <3>2. ToSet(next_free[p]) \subseteq Thread
      BY <1>3, SeqOfMembers
    <3> QED BY <1>3, <1>10, <2>2, <3>1, <3>2, TakeFirst
  <2>4. \A r \in Thread \ {p} : next_free'[r] = next_free[r]
    BY <1>3, <2>1 DEF Types
  <2>5. \A r, s \in Thread : Free(s, r)' <=> Free(s, r) /\ ~(r = p /\ s = h)
    BY <2>1, <2>3, <2>4 DEF Free
  <2>6. /\ Free(h, p) /\ h \notin bucket
        /\ \A u \in Thread : priv[u] /= h
        /\ \A r \in Thread : Free(h, r) => r = p
    BY <1>3, <2>3 DEF Free, Places
  <2>7. Types'
    <3>1. next_free' \in [Thread -> Seq(Thread)]
      BY <1>3, <2>1, <2>3, <2>4 DEF Types
    <3> QED BY <1>1, <2>1, <2>2, <2>3, <3>1 DEF Types
  <2>8. Calls'
    BY <1>1, <2>1, <2>2, <2>3 DEF Calls, Types, NobodyAssumption
  <2>9. Buckets'
    BY <1>3, <2>1, <2>4 DEF Buckets
  <2>10. Places'
    <3>1. priv'[t] = h /\ \A u \in Thread \ {t} : priv'[u] = priv[u]
      BY <2>1, <2>2 DEF Types
    <3>2. \A r, s \in Thread : Free(s, r)' => s \notin bucket' /\ \A u \in Thread : priv'[u] /= s
      BY <2>1, <2>5, <2>6, <3>1 DEF Places
    <3>3. \A u, v \in Thread : priv'[u] = priv'[v] /\ priv'[u] /= Nobody => u = v
      BY <2>6, <3>1 DEF Places
    <3>4. \A u \in Thread : priv'[u] \notin bucket'
      BY <2>1, <2>6, <3>1 DEF Places
    <3>5. ASSUME NEW s \in Thread \ bucket'
          PROVE  (\E u \in Thread : priv'[u] = s) \/ \E r \in Thread : Free(s, r)'
      <4>1. CASE s = h
        BY <3>1, <4>1
      <4>2. CASE s /= h
        <5>1. s \in Thread \ bucket
          BY <2>1
        <5>2. \A u \in Thread : priv[u] = s => priv'[u] = s
          BY <1>3, <3>1, <5>1 DEF NobodyAssumption
        <5> QED BY <2>5, <4>2, <5>1, <5>2 DEF Places
      <4> QED BY <4>1, <4>2
    <3>6. \A r \in bucket' : IsInjective(next_free'[r])
      BY <2>1, <2>3, <2>4 DEF Places, Types
    <3>7. \A r, q, s \in Thread : Free(s, r)' /\ Free(s, q)' => r = q
      BY <2>5 DEF Places
    <3> QED BY <3>2, <3>3, <3>4, <3>5, <3>6, <3>7 DEF Places
  <2>11. Counts'
    <3>1. Users(p)' = Users(p) \ {t}
      BY <1>1, <1>2, <1>3 DEF Users, Types
    <3>2. IsFiniteSet(Users(p)') /\ Cardinality(Users(p)') = 1 + Len(next_free'[p])
      <4>1. Len(next_free'[p]) \in Nat
        BY <2>3
      <4> QED BY <1>7, <2>3, <3>1, <4>1
    <3>3. \A s \in bucket \ {p} : IsFiniteSet(Users(s)') /\ Cardinality(Users(s)') = 1 + Len(next_free'[s])
      BY <1>8, <2>4 DEF Counts, Types
    <3> QED BY <2>1, <3>2, <3>3 DEF Counts
  <2> QED BY <1>4, <1>5, <1>6, <2>7, <2>8, <2>9, <2>10, <2>11
<1> QED BY <1>9, <1>10

--------------------------------------------------------------------------------
(* Sleeping and waking up: no queue changes hands.                         *)

LEMMA SameUsers ==
    ASSUME IInv, UNCHANGED <<bucket, sync_obj, next_free, priv, cur, obj>>,
           \A t \in Thread : pc'[t] = "idle" <=> pc[t] = "idle"
    PROVE  Calls' /\ Buckets' /\ Places' /\ Counts'
<1>1. Calls'
  BY DEF IInv, Calls
<1>2. Buckets' /\ Places' /\ Counts'
  BY DEF IInv, Buckets, Places, Free, Counts, Users
<1> QED BY <1>1, <1>2

LEMMA ThreadWoken ==
    ASSUME NEW x \in Threads(Thread), NEW t \in Thread
    PROVE  /\ thread_wakeup(x, t) \in Threads(Thread)
           /\ thread_wakeup(x, t).asleep = x.asleep \ {t}
           /\ thread_wakeup(x, t).armed = x.armed
BY DEF Threads, thread_wakeup, thread_wakeup_common

LEMMA ThreadSleeps ==
    ASSUME NEW x \in Threads(Thread), NEW t \in Thread, NEW b
    PROVE  /\ thread_sleep(x, t, b) \in Threads(Thread)
           /\ thread_sleep(x, t, b).asleep = x.asleep \cup {t}
           /\ thread_sleep(x, t, b).armed \subseteq x.armed \cup {t}
<1> DEFINE y == thread_sleep(x, t, b)
<1>1. CASE b
  BY <1>1 DEF Threads, thread_sleep
<1>2. CASE ~b
  BY <1>2 DEF Threads, thread_sleep
<1> QED BY <1>1, <1>2

LEMMA SleepStep ==
    ASSUME NobodyAssumption, IInv, NEW t \in Thread, Sleep(t)
    PROVE  IInv'
<1> USE DEF IInv
<1>1. /\ pc[t] = "lent" /\ pc' = [pc EXCEPT ![t] = "asleep"]
      /\ queue' = [queue EXCEPT ![cur[t]] = sleepq_add_waiter(@, t)]
      /\ th' = thread_sleep(th, t, t \in timed)
      /\ lock' = Nobody
      /\ UNCHANGED <<bucket, sync_obj, next_free, priv, cur, obj, timed, owed>>
  BY DEF Sleep, Goto
<1>2. PICK p \in bucket : p = cur[t]
  BY <1>1 DEF Calls
<1>3. p \in Thread /\ t \notin Sleepers(p) /\ t \notin th.asleep
  BY <1>1 DEF Types, Sleepers, Sleeping
<1>4. /\ th' \in Threads(Thread)
      /\ th'.asleep = th.asleep \cup {t}
      /\ th'.armed \subseteq th.armed \cup {t}
  BY <1>1, ThreadSleeps DEF Sleeping
<1>5. /\ Sleepers(p)' = Sleepers(p) \cup {t}
      /\ \A s \in Thread \ {p} : Sleepers(s)' = Sleepers(s) /\ t \notin Sleepers(s)
  BY <1>1, <1>2 DEF Sleepers, Types
<1>6. /\ queue'[p] = sleepq_add_waiter(queue[p], t)
      /\ \A s \in Thread \ {p} : queue'[s] = queue[s]
  BY <1>1, <1>2, <1>3 DEF Types
<1>7. Queues'
  <2>1. QueueSound(queue'[p], Sleepers(p)', th'.asleep)
    BY <1>3, <1>4, <1>5, <1>6, WaiterAdded DEF Queues
  <2>2. ASSUME NEW s \in Thread \ {p} PROVE QueueSound(queue'[s], Sleepers(s)', th'.asleep)
    <3>1. QueueSound(queue[s], Sleepers(s), th.asleep) /\ t \notin Sleepers(s)
      BY <1>5 DEF Queues
    <3>2. QueueSound(queue[s], Sleepers(s), th'.asleep)
      BY <1>4, <3>1 DEF QueueSound
    <3>3. queue'[s] = queue[s] /\ Sleepers(s)' = Sleepers(s)
      BY <1>5, <1>6
    <3> QED BY <3>2, <3>3
  <2> QED BY <2>1, <2>2 DEF Queues
<1>8. Types'
  <2>1. queue' \in [Thread -> [fresh : Seq(Thread), woken : Seq(Thread), pending : SUBSET Thread]]
    BY <1>1, <1>7 DEF Queues, QueueSound, Types
  <2> QED BY <1>1, <2>1 DEF Types
<1>9. Locked'
  BY <1>1 DEF Locked, Types, NobodyAssumption
<1>10. Sleeping'
  BY <1>1, <1>4 DEF Sleeping, Types
<1>11. Calls' /\ Buckets' /\ Places' /\ Counts'
  <2>1. \A u \in Thread : pc'[u] = "idle" <=> pc[u] = "idle"
    BY <1>1 DEF Types
  <2> QED BY <1>1, <2>1, SameUsers
<1> QED BY <1>7, <1>8, <1>9, <1>10, <1>11

LEMMA TimeoutStep ==
    ASSUME NobodyAssumption, IInv, NEW t \in Thread, Timeout(t)
    PROVE  IInv'
<1> USE DEF IInv
<1>1. /\ th' \in Threads(Thread)
      /\ th'.asleep = th.asleep \ {t}
      /\ th'.armed \subseteq th.armed
      /\ owed' = owed \ {t}
      /\ UNCHANGED <<lock, bucket, sync_obj, next_free, queue, priv, cur, obj, timed, pc>>
  <2>1. th \in Threads(Thread)
    BY DEF Sleeping
  <2>2. \A x \in Threads(Thread) :
            /\ thread_timeout(x, t) \in Threads(Thread)
            /\ thread_timeout(x, t).asleep = x.asleep \ {t}
            /\ thread_timeout(x, t).armed \subseteq x.armed
    BY DEF thread_timeout, thread_wakeup_common, Threads
  <2>3. /\ th' = thread_timeout(th, t) /\ owed' = owed \ {t}
        /\ UNCHANGED <<lock, bucket, sync_obj, next_free, queue, priv, cur, obj, timed, pc>>
    BY DEF Timeout
  <2> QED BY <2>1, <2>2, <2>3
<1>2. Types' /\ Locked'
  BY <1>1 DEF Types, Locked
<1>3. Calls' /\ Buckets' /\ Places' /\ Counts'
  BY <1>1, SameUsers
<1>4. Sleeping'
  BY <1>1 DEF Sleeping
<1>5. Queues'
  BY <1>1 DEF Queues, QueueSound, Sleepers
<1> QED BY <1>2, <1>3, <1>4, <1>5

LEMMA WakeUpStep ==
    ASSUME NobodyAssumption, IInv, NEW t \in Thread, WakeUp(t)
    PROVE  IInv'
<1> USE DEF IInv
<1> DEFINE q == sleepq_remove_waiter(queue[cur[t]], t)
<1>1. /\ pc[t] = "asleep" /\ t \notin th.asleep /\ lock = Nobody
      /\ UNCHANGED <<bucket, sync_obj, next_free, priv, cur, obj, timed>>
  BY DEF WakeUp
<1>2. PICK p \in bucket : p = cur[t]
  BY <1>1 DEF Calls
<1>3. p \in Thread /\ t \in Sleepers(p) /\ QueueSound(queue[p], Sleepers(p), th.asleep)
  BY <1>1, <1>2 DEF Types, Sleepers, Queues
<1>4. /\ thread_resume(th, t) \in Threads(Thread)
      /\ thread_resume(th, t).asleep = th.asleep
      /\ thread_resume(th, t).armed = th.armed \ {t}
  BY DEF thread_resume, Sleeping, Threads
<1>5. CASE WaitOver(queue[cur[t]], th, t)
  <2>1. /\ pc' = [pc EXCEPT ![t] = "lent"]
        /\ queue' = [queue EXCEPT ![p] = q]
        /\ th' = ChainWakeup(q, thread_resume(th, t))
        /\ lock' = t
        /\ owed' = owed \ (Thread \ th'.asleep)
    BY <1>2, <1>5 DEF WakeUp
  <2>2. QueueSound(q, Sleepers(p) \ {t}, th.asleep)
    BY <1>2, <1>3, WaiterRemoved
  <2> HIDE DEF q
  <2>3. /\ th' \in Threads(Thread)
        /\ th'.asleep \subseteq th.asleep
        /\ th'.armed = th.armed \ {t}
    <3>1. q.pending \subseteq Thread
      BY <2>2 DEF QueueSound
    <3>2. \/ th' = thread_resume(th, t)
          \/ \E u \in Thread : th' = thread_wakeup(thread_resume(th, t), u)
      BY <2>1, <3>1 DEF ChainWakeup, sleepq_waiter_wakeup
    <3> QED BY <1>4, <3>2, ThreadWoken
  <2>4. /\ Sleepers(p)' = Sleepers(p) \ {t}
        /\ \A s \in Thread \ {p} : Sleepers(s)' = Sleepers(s)
    BY <1>1, <1>2, <2>1 DEF Sleepers, Types
  <2>5. Queues'
    <3>1. /\ queue'[p] = q
          /\ \A s \in Thread \ {p} : queue'[s] = queue[s]
      BY <1>3, <2>1 DEF Types
    <3>2. QueueSound(queue'[p], Sleepers(p)', th'.asleep)
      BY <2>2, <2>3, <2>4, <3>1 DEF QueueSound
    <3>3. ASSUME NEW s \in Thread \ {p} PROVE QueueSound(queue'[s], Sleepers(s)', th'.asleep)
      BY <2>3, <2>4, <3>1 DEF Queues, QueueSound
    <3> QED BY <3>2, <3>3 DEF Queues
  <2>6. Types'
    <3>1. q \in [fresh : Seq(Thread), woken : Seq(Thread), pending : SUBSET Thread]
      BY <2>2 DEF QueueSound
    <3> QED BY <1>1, <2>1, <3>1 DEF Types
  <2>7. Locked'
    BY <1>1, <2>1 DEF Locked, Types, NobodyAssumption
  <2>8. Sleeping'
    BY <1>1, <2>1, <2>3 DEF Sleeping, Types
  <2>9. Calls' /\ Buckets' /\ Places' /\ Counts'
    <3>1. \A u \in Thread : pc'[u] = "idle" <=> pc[u] = "idle"
      BY <1>1, <2>1 DEF Types
    <3> QED BY <1>1, <3>1, SameUsers
  <2> QED BY <2>5, <2>6, <2>7, <2>8, <2>9
<1>6. CASE ~WaitOver(queue[cur[t]], th, t)
  <2>1. /\ th' = thread_sleep(thread_resume(th, t), t, t \in timed)
        /\ UNCHANGED <<pc, queue, lock, owed>>
    BY <1>6 DEF WakeUp
  <2>2. /\ th' \in Threads(Thread)
        /\ th'.asleep = th.asleep \cup {t}
        /\ th'.armed \subseteq th.armed \cup {t}
    BY <1>4, <2>1, ThreadSleeps
  <2>3. Types' /\ Locked'
    BY <1>1, <2>1 DEF Types, Locked
  <2>4. Sleeping'
    BY <1>1, <2>1, <2>2 DEF Sleeping
  <2>5. Calls' /\ Buckets' /\ Places' /\ Counts'
    BY <1>1, <2>1, SameUsers
  <2>6. Queues'
    <3>1. \A s \in Thread : Sleepers(s)' = Sleepers(s)
      BY <1>1, <2>1 DEF Sleepers
    <3>2. ASSUME NEW s \in Thread PROVE QueueSound(queue'[s], Sleepers(s)', th'.asleep)
      <4>1. QueueSound(queue[s], Sleepers(s), th.asleep)
        BY DEF Queues
      <4>2. t \notin queue[s].pending
        <5>1. CASE s = p
          BY <1>2, <1>6, <5>1 DEF WaitOver
        <5>2. CASE s /= p
          <6>1. t \notin Sleepers(s)
            BY <1>2, <5>2 DEF Sleepers
          <6> QED BY <4>1, <6>1 DEF QueueSound
        <5> QED BY <5>1, <5>2
      <4>3. QueueSound(queue[s], Sleepers(s), th'.asleep)
        BY <2>2, <4>1, <4>2 DEF QueueSound
      <4>4. queue'[s] = queue[s] /\ Sleepers(s)' = Sleepers(s)
        BY <2>1, <3>1
      <4> QED BY <4>3, <4>4
    <3> QED BY <3>2 DEF Queues
  <2> QED BY <2>3, <2>4, <2>5, <2>6
<1> QED BY <1>5, <1>6

(* What a signal and a broadcast have in common: a queue with waiters that *)
(* were not chosen has one of them woken up.                               *)
LEMMA SignalledStep ==
    ASSUME IInv, NEW p \in bucket,
           \/ queue' = queue /\ th' = th
           \/ \E w \in Sleepers(p) : \E q :
                /\ QueueSound(q, Sleepers(p), th.asleep \ {w})
                /\ queue' = [queue EXCEPT ![p] = q]
                /\ th' = thread_wakeup(th, w),
           owed' \subseteq th'.asleep,
           UNCHANGED <<lock, bucket, sync_obj, next_free, priv, cur, obj, timed, pc>>
    PROVE  IInv'
<1> USE DEF IInv
<1>1. p \in Thread /\ \A s \in Thread : Sleepers(s)' = Sleepers(s)
  BY DEF Types, Sleepers
<1>2. Locked' /\ Calls' /\ Buckets' /\ Places' /\ Counts'
  BY SameUsers DEF Locked
<1>3. CASE queue' = queue /\ th' = th
  BY <1>1, <1>2, <1>3 DEF Types, Queues, Sleeping
<1>4. ASSUME NEW w \in Sleepers(p), NEW q,
             QueueSound(q, Sleepers(p), th.asleep \ {w}),
             queue' = [queue EXCEPT ![p] = q],
             th' = thread_wakeup(th, w)
      PROVE  IInv'
  <2>1. /\ th' \in Threads(Thread)
        /\ th'.asleep = th.asleep \ {w}
        /\ th'.armed = th.armed
    BY <1>4, ThreadWoken DEF Sleepers, Sleeping
  <2>2. /\ queue'[p] = q
        /\ \A s \in Thread \ {p} : queue'[s] = queue[s]
    BY <1>1, <1>4 DEF Types
  <2>3. Types'
    <3>1. q \in [fresh : Seq(Thread), woken : Seq(Thread), pending : SUBSET Thread]
      BY <1>4 DEF QueueSound
    <3> QED BY <1>4, <3>1 DEF Types
  <2>4. Sleeping'
    BY <2>1 DEF Sleeping
  <2>5. Queues'
    <3>1. QueueSound(queue'[p], Sleepers(p)', th'.asleep)
      BY <1>1, <1>4, <2>1, <2>2
    <3>2. ASSUME NEW s \in Thread \ {p} PROVE QueueSound(queue'[s], Sleepers(s)', th'.asleep)
      BY <1>1, <2>1, <2>2 DEF Queues, QueueSound
    <3> QED BY <3>1, <3>2 DEF Queues
  <2> QED BY <1>2, <2>3, <2>4, <2>5
<1> QED BY <1>3, <1>4

LEMMA SignalStep ==
    ASSUME NobodyAssumption, IInv, NEW o \in Object, Signal(o)
    PROVE  IInv'
<1> USE DEF IInv
<1>1. PICK p : p = sleepq_bucket_lookup(o)
  OBVIOUS
<1>2. p \in bucket /\ p \in Thread
  BY <1>1, Lookup DEF Signal, Buckets, Types
<1>3. /\ queue' = [queue EXCEPT ![p] = sleepq_signal(@)]
      /\ th' = sleepq_signal_wakeup(queue[p], th)
      /\ owed' = owed \ (Thread \ th'.asleep)
      /\ UNCHANGED <<lock, bucket, sync_obj, next_free, priv, cur, obj, timed, pc>>
  BY <1>1 DEF Signal
<1>4. owed' \subseteq th'.asleep
  BY <1>3 DEF Sleeping, Threads
<1>5. CASE queue[p].fresh = <<>>
  <2>1. queue' = queue /\ th' = th
    BY <1>2, <1>3, <1>5 DEF sleepq_signal, sleepq_signal_wakeup, Types
  <2> QED BY <1>2, <1>3, <1>4, <2>1, SignalledStep
<1>6. CASE queue[p].fresh /= <<>>
  <2>1. PICK w : w = Last(queue[p].fresh)
    OBVIOUS
  <2>2. w \in Sleepers(p) /\ QueueSound(sleepq_signal(queue[p]), Sleepers(p), th.asleep \ {w})
    BY <1>2, <1>6, <2>1, WaiterSignalled DEF Queues
  <2>3. /\ queue' = [queue EXCEPT ![p] = sleepq_signal(queue[p])]
        /\ th' = thread_wakeup(th, w)
    BY <1>2, <1>3, <1>6, <2>1 DEF sleepq_signal_wakeup
  <2> QED BY <1>2, <1>3, <1>4, <2>2, <2>3, SignalledStep
<1> QED BY <1>5, <1>6

LEMMA BroadcastStep ==
    ASSUME NobodyAssumption, IInv, NEW o \in Object, Broadcast(o)
    PROVE  IInv'
<1> USE DEF IInv
<1>1. PICK p : p = sleepq_bucket_lookup(o)
  OBVIOUS
<1>2. p \in bucket /\ p \in Thread
  BY <1>1, Lookup DEF Broadcast, Buckets, Types
<1>3. /\ queue' = [queue EXCEPT ![p] = sleepq_broadcast(@)]
      /\ th' = sleepq_signal_wakeup(queue[p], th)
      /\ owed' \subseteq th'.asleep
      /\ UNCHANGED <<lock, bucket, sync_obj, next_free, priv, cur, obj, timed, pc>>
  BY <1>1 DEF Broadcast
<1>5. CASE queue[p].fresh = <<>>
  <2>1. queue' = queue /\ th' = th
    BY <1>2, <1>3, <1>5 DEF sleepq_broadcast, sleepq_signal_wakeup, Types
  <2> QED BY <1>2, <1>3, <2>1, SignalledStep
<1>6. CASE queue[p].fresh /= <<>>
  <2>1. PICK w : w = Last(queue[p].fresh)
    OBVIOUS
  <2>2. w \in Sleepers(p) /\ QueueSound(sleepq_broadcast(queue[p]), Sleepers(p), th.asleep \ {w})
    BY <1>2, <1>6, <2>1, AllSignalled DEF Queues
  <2>3. /\ queue' = [queue EXCEPT ![p] = sleepq_broadcast(queue[p])]
        /\ th' = thread_wakeup(th, w)
    BY <1>2, <1>3, <1>6, <2>1 DEF sleepq_signal_wakeup
  <2> QED BY <1>2, <1>3, <2>2, <2>3, SignalledStep
<1> QED BY <1>5, <1>6

LEMMA TableStep == ASSUME NobodyAssumption, IInv, [Next]_vars PROVE IInv'
<1>1. CASE UNCHANGED vars
  <2>1. UNCHANGED vars
    BY <1>1
  <2>2. Calls' /\ Buckets' /\ Places' /\ Counts'
    BY <2>1, SameUsers DEF vars
  <2>3. Types' /\ Locked' /\ Sleeping'
    BY <2>1 DEF vars, IInv, Types, Locked, Sleeping
  <2>4. Queues'
    BY <2>1 DEF vars, IInv, Queues, Sleepers
  <2> QED BY <2>2, <2>3, <2>4 DEF IInv
<1> QED BY <1>1, LendStep, SleepStep, TimeoutStep, WakeUpStep, ReturnStep, SignalStep,
           BroadcastStep DEF Next

THEOREM Soundness == NobodyAssumption => (Spec => []IInv)
<1> SUFFICES ASSUME NobodyAssumption PROVE Spec => []IInv
  OBVIOUS
<1>1. Init => IInv
  BY TableInit
<1>2. IInv /\ [Next]_vars => IInv'
  BY TableStep
<1> QED BY <1>1, <1>2, PTL DEF Spec

--------------------------------------------------------------------------------
(* What the invariant says of the properties the runs check.               *)

LEMMA ConcatenationSound ==
    ASSUME NEW q, NEW W, NEW A, QueueSound(q, W, A)
    PROVE  /\ IsInjective(Waiters(q)) /\ ToSet(Waiters(q)) = W
           /\ W = {} => sleepq_empty(q)
<1>1. IsInjective(Waiters(q)) /\ ToSet(Waiters(q)) = W
  <2>1. /\ q.fresh \in Seq(Thread) /\ q.woken \in Seq(Thread)
        /\ IsInjective(q.fresh) /\ IsInjective(q.woken)
        /\ ToSet(q.fresh) \cap ToSet(q.woken) = {}
        /\ ToSet(q.fresh) \cup ToSet(q.woken) = W
    BY DEF QueueSound
  <2>2. /\ IsInjective(q.fresh \o q.woken)
        /\ ToSet(q.fresh \o q.woken) = ToSet(q.fresh) \cup ToSet(q.woken)
    BY <2>1, Concatenated
  <2> QED BY <2>1, <2>2 DEF Waiters
<1>2. W = {} => sleepq_empty(q)
  BY EmptyIffNoMember DEF QueueSound, sleepq_empty
<1> QED BY <1>1, <1>2

LEMMA OnePlace ==
    ASSUME IInv, NobodyAssumption, NEW s \in Thread
    PROVE  Cardinality({"private"} \X {t \in Thread : priv[t] = s}
                       \cup {"free"} \X {p \in bucket : s \in ToSet(next_free[p])}
                       \cup {"used"} \X (bucket \cap {s})) = 1
<1> DEFINE P == {t \in Thread : priv[t] = s}
           F == {p \in bucket : s \in ToSet(next_free[p])}
           U == bucket \cap {s}
           all == {"private"} \X P \cup {"free"} \X F \cup {"used"} \X U
<1>1. F = {p \in Thread : Free(s, p)}
  BY DEF IInv, Types, Free
<1>2. \A k, x : {k} \X {x} = {<<k, x>>} /\ {k} \X {} = {}
  OBVIOUS
<1>3. \E x : all = {x}
  <2>1. CASE s \in bucket
    <3>1. P = {} /\ F = {} /\ U = {s}
      BY <1>1, <2>1 DEF IInv, Places
    <3>2. all = {<<"used", s>>}
      BY <1>2, <3>1
    <3> QED BY <3>2
  <2>2. CASE s \notin bucket /\ \E t \in Thread : priv[t] = s
    <3>1. PICK t \in Thread : priv[t] = s
      BY <2>2
    <3>2. P = {t}
      BY <3>1 DEF IInv, Places, NobodyAssumption
    <3>3. F = {} /\ U = {}
      BY <1>1, <2>2, <3>1 DEF IInv, Places
    <3>4. all = {<<"private", t>>}
      BY <1>2, <3>2, <3>3
    <3> QED BY <3>4
  <2>3. CASE s \notin bucket /\ \A t \in Thread : priv[t] /= s
    <3>1. PICK p \in Thread : Free(s, p)
      BY <2>3 DEF IInv, Places
    <3>2. F = {p}
      BY <1>1, <3>1 DEF IInv, Places
    <3>3. P = {} /\ U = {}
      BY <2>3
    <3>4. all = {<<"free", p>>}
      BY <1>2, <3>2, <3>3
    <3> QED BY <3>4
  <2> QED BY <2>1, <2>2, <2>3
<1> QED BY <1>3, FS_Singleton

LEMMA InvConserves == ASSUME IInv, NobodyAssumption PROVE QueuesConserved
<1>1. ASSUME NEW s \in Thread \ bucket PROVE Pristine(s)
  <2>1. Sleepers(s) = {}
    BY DEF IInv, Calls, Sleepers
  <2>2. sleepq_empty(queue[s])
    BY <2>1, ConcatenationSound DEF IInv, Queues
  <2> QED BY <2>2 DEF IInv, Buckets, Pristine
<1>2. ASSUME NEW s \in Thread PROVE IsInjective(next_free[s])
  <2>1. CASE s \in bucket
    BY <2>1 DEF IInv, Places
  <2>2. CASE s \notin bucket
    BY <2>2 DEF IInv, Buckets, IsInjective
  <2> QED BY <2>1, <2>2
<1>3. \A s \in bucket : Cardinality(Users(s)) = 1 + Len(next_free[s])
  BY DEF IInv, Counts
<1> QED BY <1>1, <1>2, <1>3, OnePlace DEF QueuesConserved

LEMMA InvStays == ASSUME IInv, NobodyAssumption PROVE QueueStays
<1> SUFFICES ASSUME NEW t \in Thread, pc[t] /= "idle"
             PROVE  priv[t] = Nobody /\ sleepq_bucket_lookup(obj[t]) = cur[t]
  BY DEF QueueStays
<1>1. priv[t] = Nobody /\ cur[t] \in bucket /\ sync_obj[cur[t]] = obj[t]
  BY DEF IInv, Calls
<1>2. sleepq_bucket_lookup(obj[t]) = cur[t]
  BY <1>1, Lookup DEF IInv, Buckets
<1> QED BY <1>1, <1>2

LEMMA InvWaiters == ASSUME IInv PROVE WaitersSound
<1> SUFFICES ASSUME NEW s \in Thread
             PROVE  /\ IsInjective(Waiters(queue[s]))
                    /\ ToSet(Waiters(queue[s])) = {t \in Users(s) : pc[t] = "asleep"}
                    /\ queue[s].pending \subseteq ToSet(queue[s].woken) \ th.asleep
  BY DEF WaitersSound
<1>1. QueueSound(queue[s], Sleepers(s), th.asleep)
  BY DEF IInv, Queues
<1>2. Sleepers(s) = {t \in Users(s) : pc[t] = "asleep"}
  BY DEF Sleepers, Users
<1> QED BY <1>1, <1>2, ConcatenationSound DEF QueueSound

LEMMA InvTyped == ASSUME IInv, NobodyAssumption PROVE TypeOK
<1>1. lock \in {Nobody} \cup {t \in Thread : pc[t] = "lent"}
  BY DEF IInv, Types, Locked
<1>2. cur \in [Thread -> bucket \cup {Nobody}]
  BY DEF IInv, Types, Calls
<1> QED BY <1>1, <1>2 DEF IInv, Types, Sleeping, TypeOK
================================================================================
