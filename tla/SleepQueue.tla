------------------------------- MODULE SleepQueue -------------------------------
(***************************************************************************)
(* One sleep queue of kern/sleepq.c, as a value, and what it sees of       *)
(* kern/thread.c.  At the end, the facts about the list of waiters that    *)
(* the proofs of its users rest on.                                        *)
(***************************************************************************)
EXTENDS Integers, Sequences, SequencesExt, TLAPS

--------------------------------------------------------------------------------
(* What a sleeping primitive sees of kern/thread.c: thread_sleep() and     *)
(* thread_timedsleep(), thread_wakeup() and the timer behind a timed       *)
(* sleep.  The value th is a record of three sets of threads:              *)
(*                                                                         *)
(*   asleep    the threads in state THREAD_SLEEPING;                       *)
(*   timedout  the threads whose wakeup_error is ETIMEDOUT;                *)
(*   armed     the threads whose thread_timeout() timer is scheduled.      *)
(*                                                                         *)
(* A sleeper releases its interlock and changes state under its run queue  *)
(* lock, and a waker takes that lock before it looks at the state, so      *)
(* going to sleep is one step for everybody else.                          *)

Threads(S) == [asleep : SUBSET S, timedout : SUBSET S, armed : SUBSET S]

AllRunning == [asleep |-> {}, timedout |-> {}, armed |-> {}]

(* thread_sleep_common(), down to the context switch. *)
thread_sleep(th, t, timed) ==
    [th EXCEPT !.asleep = @ \cup {t},
               !.armed = IF timed THEN @ \cup {t} ELSE @]

(* Broken: the timer of a timed sleep is left scheduled. *)
ResumeWithoutCancel(th, t) == [th EXCEPT !.timedout = @ \ {t}]

(* thread_sleep_common(), from the wake-up to its return: the timer is     *)
(* canceled, wakeup_error is returned and not looked at again.             *)
thread_resume(th, t) ==
    [th EXCEPT !.armed = @ \ {t}, !.timedout = @ \ {t}]

(* A running thread is left alone, its wakeup_error included. *)
thread_wakeup_common(th, t, timeout) ==
    IF t \in th.asleep
    THEN [th EXCEPT !.asleep = @ \ {t},
                    !.timedout = IF timeout THEN @ \cup {t} ELSE @ \ {t}]
    ELSE th

thread_wakeup(th, t) == thread_wakeup_common(th, t, FALSE)

(* Broken: the timer is taken off, the thread left asleep. *)
TimeoutWakesNobody(th, t) == [th EXCEPT !.armed = @ \ {t}]

(* The timer handler; a timer that fired is no longer scheduled. *)
thread_timeout(th, t) ==
    thread_wakeup_common([th EXCEPT !.armed = @ \ {t}], t, TRUE)

--------------------------------------------------------------------------------
(* A sleep queue.  The list of waiters is kept newest first and split at   *)
(* oldest_waiter, the next waiter a signal picks:                          *)
(*                                                                         *)
(*   fresh    the waiters from the head of the list to oldest_waiter,      *)
(*            empty when oldest_waiter is NULL;                            *)
(*   woken    the older ones, up to the end of the list;                   *)
(*   pending  the waiters whose pending_wakeup is set.                     *)
(*                                                                         *)
(* Everything here runs under the spin lock of the queue's bucket.         *)

Without(s, x) ==
    IF \E i \in 1..Len(s) : s[i] = x
    THEN LET p == CHOOSE i \in 1..Len(s) : s[i] = x
         IN  [i \in 1..(Len(s) - 1) |-> IF i < p THEN s[i] ELSE s[i + 1]]
    ELSE s

Waiters(q) == q.fresh \o q.woken

EmptyQueue == [fresh |-> <<>>, woken |-> <<>>, pending |-> {}]

sleepq_empty(q) == q.fresh = <<>> /\ q.woken = <<>>

sleepq_add_waiter(q, t) == [q EXCEPT !.fresh = <<t>> \o @]

(* The waiter lives on its thread's stack: its flag goes away with it. *)
sleepq_remove_waiter(q, t) ==
    [fresh   |-> Without(q.fresh, t),
     woken   |-> Without(q.woken, t),
     pending |-> q.pending \ {t}]

sleepq_waiter_wakeup(q, th, t) ==
    IF t \in q.pending THEN thread_wakeup(th, t) ELSE th

--------------------------------------------------------------------------------

(* Broken: oldest_waiter is not shifted. *)
SignalWithoutShift(q) ==
    IF q.fresh = <<>> THEN q
    ELSE [q EXCEPT !.pending = @ \cup {Last(q.fresh)}]

(* sleepq_signal(), the queue and the threads it leaves behind. *)
sleepq_signal(q) ==
    IF q.fresh = <<>>
    THEN q
    ELSE LET w == Last(q.fresh)
         IN  [fresh   |-> Front(q.fresh),
              woken   |-> <<w>> \o q.woken,
              pending |-> q.pending \cup {w}]

(* Broken: the thread woken up is the one at the end of the list. *)
SignalWakesLast(q, th) ==
    IF q.fresh = <<>> THEN th ELSE thread_wakeup(th, Last(Waiters(q)))

sleepq_signal_wakeup(q, th) ==
    IF q.fresh = <<>> THEN th ELSE thread_wakeup(th, Last(q.fresh))

(* sleepq_broadcast(): oldest_waiter is reset, one waiter gets its flag. *)
sleepq_broadcast(q) ==
    IF q.fresh = <<>>
    THEN q
    ELSE [fresh   |-> <<>>,
          woken   |-> q.fresh \o q.woken,
          pending |-> q.pending \cup {Last(q.fresh)}]

--------------------------------------------------------------------------------
(* sleepq_wait_common(), between two sleeps of the waiter t.               *)

(* The waiter leaves its loop: it was signalled, or its time has passed. *)
WaitOver(q, th, t) == t \in q.pending \/ t \in th.timedout

(* The result: a timeout counts only when no signal got there first. *)
WaitTimedOut(q, t) == t \notin q.pending

(* The chained wake-up, once the waiter has removed itself from q. *)
ChainWakeup(q, th) ==
    IF sleepq_empty(q) THEN th
                       ELSE sleepq_waiter_wakeup(q, th, Last(Waiters(q)))

--------------------------------------------------------------------------------

(* sleepq_add_waiter() adds its waiter, once, at the head of the list. *)
LEMMA AddHead ==
    ASSUME NEW S, NEW s \in Seq(S), NEW x \in S, IsInjective(s), x \notin ToSet(s)
    PROVE  /\ <<x>> \o s \in Seq(S)
           /\ IsInjective(<<x>> \o s)
           /\ ToSet(<<x>> \o s) = ToSet(s) \cup {x}
           /\ <<x>> \o s /= <<>>
<1> DEFINE r == <<x>> \o s
<1>1. /\ r \in Seq(S)
      /\ Len(r) = Len(s) + 1
      /\ r[1] = x
      /\ \A i \in 1..Len(s) : r[i + 1] = s[i]
  OBVIOUS
<1>2. \A i \in 1..Len(r) : i = 1 \/ (i - 1 \in 1..Len(s) /\ r[i] = s[i - 1])
  BY <1>1
<1>3. DOMAIN r = 1..Len(r) /\ DOMAIN s = 1..Len(s) /\ Len(s) \in Nat
  BY <1>1
<1>4. IsInjective(r)
  BY <1>1, <1>2, <1>3 DEF IsInjective, ToSet
<1>5. ToSet(r) = ToSet(s) \cup {x}
  <2>1. ASSUME NEW y \in ToSet(r) PROVE y \in ToSet(s) \cup {x}
    BY <1>1, <1>2, <1>3 DEF ToSet
  <2>2. ASSUME NEW y \in ToSet(s) PROVE y \in ToSet(r)
    <3>1. PICK i \in 1..Len(s) : y = s[i]
      BY <1>3 DEF ToSet
    <3>2. i + 1 \in DOMAIN r /\ r[i + 1] = y
      BY <1>1, <1>3, <3>1
    <3> QED BY <3>2 DEF ToSet
  <2>3. x \in ToSet(r)
    BY <1>1, <1>3 DEF ToSet
  <2> QED BY <2>1, <2>2, <2>3
<1>6. r /= <<>>
  BY <1>1, <1>3
<1> QED BY <1>1, <1>4, <1>5, <1>6

(* sleepq_signal() takes the oldest of the waiters not picked yet. *)
LEMMA TakeLast ==
    ASSUME NEW S, NEW s \in Seq(S), IsInjective(s), s /= <<>>
    PROVE  /\ Front(s) \in Seq(S)
           /\ IsInjective(Front(s))
           /\ Last(s) \in ToSet(s)
           /\ ToSet(Front(s)) = ToSet(s) \ {Last(s)}
<1> DEFINE n == Len(s)
           f == Front(s)
<1>1. n \in Nat /\ n >= 1 /\ DOMAIN s = 1..n
  OBVIOUS
<1>2. /\ f \in Seq(S)
      /\ DOMAIN f = 1..(n - 1)
      /\ \A i \in 1..(n - 1) : f[i] = s[i]
  BY <1>1 DEF Front
<1>3. IsInjective(f)
  BY <1>1, <1>2 DEF IsInjective
<1>4. Last(s) \in ToSet(s)
  BY <1>1 DEF Last, ToSet
<1>5. ToSet(f) = ToSet(s) \ {Last(s)}
  <2>1. ASSUME NEW y \in ToSet(f) PROVE y \in ToSet(s) \ {Last(s)}
    BY <1>1, <1>2 DEF ToSet, Last, IsInjective
  <2>2. ASSUME NEW y \in ToSet(s) \ {Last(s)} PROVE y \in ToSet(f)
    <3>1. PICK i \in 1..n : y = s[i]
      BY <1>1 DEF ToSet
    <3>2. i \in 1..(n - 1)
      BY <1>1, <3>1 DEF Last
    <3> QED BY <1>2, <3>1, <3>2 DEF ToSet
  <2> QED BY <2>1, <2>2
<1> QED BY <1>2, <1>3, <1>4, <1>5

(* sleepq_remove_waiter() takes its waiter out, wherever it is. *)
LEMMA RemoveWaiter ==
    ASSUME NEW S, NEW s \in Seq(S), IsInjective(s), NEW x
    PROVE  /\ Without(s, x) \in Seq(S \ {x})
           /\ IsInjective(Without(s, x))
           /\ ToSet(Without(s, x)) = ToSet(s) \ {x}
           /\ x \notin ToSet(s) => Without(s, x) = s
<1> DEFINE n == Len(s)
           w == Without(s, x)
<1>1. n \in Nat /\ DOMAIN s = 1..n /\ \A i \in 1..n : s[i] \in S
  OBVIOUS
<1>2. CASE x \in ToSet(s)
  <2> DEFINE p == CHOOSE i \in 1..n : s[i] = x
  <2>1. p \in 1..n /\ s[p] = x /\ \A i \in 1..n : s[i] = x => i = p
    <3>1. \E i \in 1..n : s[i] = x
      BY <1>1, <1>2 DEF ToSet
    <3>2. p \in 1..n /\ s[p] = x
      BY <3>1
    <3> QED BY <1>1, <3>2 DEF IsInjective
  <2>2. w = [i \in 1..(n - 1) |-> IF i < p THEN s[i] ELSE s[i + 1]]
    BY <2>1 DEF Without
  <2> HIDE DEF p, w
  <2>3. /\ DOMAIN w = 1..(n - 1)
        /\ \A i \in 1..(n - 1) : w[i] = IF i < p THEN s[i] ELSE s[i + 1]
    BY <2>2
  <2>4. \A i \in 1..(n - 1) : w[i] \in S \ {x}
    BY <1>1, <2>1, <2>3
  <2>5. w \in Seq(S \ {x})
    <3>1. n - 1 \in Nat
      BY <1>1, <2>1
    <3>2. w \in [1..(n - 1) -> S \ {x}]
      BY <2>2, <2>3, <2>4
    <3> QED BY <3>1, <3>2
  <2>6. IsInjective(w)
    <3> SUFFICES ASSUME NEW i \in 1..(n - 1), NEW j \in 1..(n - 1), w[i] = w[j]
                 PROVE  i = j
      BY <2>3 DEF IsInjective
    <3>1. \A k, l \in 1..n : s[k] = s[l] => k = l
      BY <1>1 DEF IsInjective
    <3> QED BY <1>1, <2>1, <2>3, <3>1
  <2>7. ToSet(w) = ToSet(s) \ {x}
    <3>1. ASSUME NEW y \in ToSet(w) PROVE y \in ToSet(s) \ {x}
      <4>1. PICK i \in 1..(n - 1) : y = w[i]
        BY <2>3 DEF ToSet
      <4>2. \E k \in 1..n : y = s[k]
        BY <1>1, <2>1, <2>3, <4>1
      <4> QED BY <1>1, <2>4, <4>1, <4>2 DEF ToSet
    <3>2. ASSUME NEW y \in ToSet(s) \ {x} PROVE y \in ToSet(w)
      <4>1. PICK k \in 1..n : y = s[k]
        BY <1>1 DEF ToSet
      <4>2. k /= p
        BY <2>1, <4>1
      <4>3. CASE k < p
        <5>1. k \in 1..(n - 1) /\ w[k] = y
          BY <1>1, <2>1, <2>3, <4>1, <4>3
        <5> QED BY <2>3, <5>1 DEF ToSet
      <4>4. CASE k > p
        <5>1. k - 1 \in 1..(n - 1) /\ w[k - 1] = y
          BY <1>1, <2>1, <2>3, <4>1, <4>4
        <5> QED BY <2>3, <5>1 DEF ToSet
      <4> QED BY <1>1, <2>1, <4>1, <4>2, <4>3, <4>4
    <3> QED BY <3>1, <3>2
  <2> QED BY <1>2, <2>5, <2>6, <2>7 DEF w
<1>3. CASE x \notin ToSet(s)
  <2>1. w = s
    BY <1>1, <1>3 DEF Without, ToSet
  <2>2. s \in Seq(S \ {x})
    BY <1>1, <1>3 DEF ToSet
  <2> QED BY <1>3, <2>1, <2>2
<1> QED BY <1>2, <1>3

(* A queue has waiters exactly when its lists have members. *)
LEMMA EmptyIffNoMember ==
    ASSUME NEW S, NEW s \in Seq(S)
    PROVE  s = <<>> <=> ToSet(s) = {}
<1>1. Len(s) \in Nat /\ DOMAIN s = 1..Len(s)
  OBVIOUS
<1>2. s = <<>> => ToSet(s) = {}
  BY DEF ToSet
<1>3. ASSUME s /= <<>> PROVE ToSet(s) /= {}
  <2>1. 1 \in DOMAIN s
    BY <1>1, <1>3
  <2> QED BY <2>1 DEF ToSet
<1> QED BY <1>2, <1>3

(* The elements of a sequence over S form a subset of S, and the sequence  *)
(* is one over any set that has them all.                                  *)
LEMMA SeqOfMembers ==
    ASSUME NEW S, NEW T, NEW s \in Seq(S)
    PROVE  /\ ToSet(s) \subseteq S
           /\ ToSet(s) \subseteq T => s \in Seq(T)
<1>1. Len(s) \in Nat /\ DOMAIN s = 1..Len(s) /\ \A i \in 1..Len(s) : s[i] \in S
  OBVIOUS
<1>2. ToSet(s) \subseteq S
  BY <1>1 DEF ToSet
<1>3. ASSUME ToSet(s) \subseteq T PROVE s \in Seq(T)
  <2>1. \A i \in 1..Len(s) : s[i] \in T
    BY <1>1, <1>3 DEF ToSet
  <2>2. s \in [1..Len(s) -> T]
    BY <1>1, <2>1
  <2> QED BY <1>1, <2>2
<1> QED BY <1>2, <1>3
================================================================================
