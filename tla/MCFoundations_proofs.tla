------------------------- MODULE MCFoundations_proofs --------------------------
(***************************************************************************)
(* The safety of the plain mutex and of the adaptive mutex, for any set of *)
(* threads, and that both are the lock of kern/mutex.h; and what is proved *)
(* of the components, said of the system that has them all.                *)
(***************************************************************************)
EXTENDS MCFoundations, TLAPS

(* The plain mutex.                                                        *)

(* The list of waiters and the lock of its bucket are sound. *)
SInv == TypeOK /\ QueueOK

LEMMA SoundInit == Init => SInv
<1> SUFFICES ASSUME Init PROVE SInv
  OBVIOUS
<1>1. Sleepers = {} /\ \A t \in Thread : pc[t] = "idle"
  BY DEF Init, Sleepers
<1>2. TypeOK
  BY <1>1, NobodyAssumption DEF Init, TypeOK, Labels, Inside, EmptyQueue, AllRunning
<1>3. QueueOK
  BY <1>1 DEF Init, QueueOK, EmptyQueue, AllRunning, IsInjective, ToSet
<1> QED BY <1>2, <1>3 DEF SInv

LEMMA SoundStep == SInv /\ [Next]_vars => SInv'
<1> SUFFICES ASSUME SInv, [Next]_vars PROVE SInv'
  OBVIOUS
<1> USE DEF SInv
<1>1. ASSUME NEW t \in Thread, LockFast(t) PROVE SInv'
  <2>1. Sleepers' = Sleepers
    BY <1>1 DEF LockFast, Goto, Sleepers, TypeOK
  <2>2. TypeOK'
    BY <1>1, <2>1 DEF LockFast, Goto, TypeOK, Inside, Labels
  <2>3. QueueOK'
    BY <1>1, <2>1 DEF LockFast, QueueOK
  <2> QED BY <2>2, <2>3
<1>2. ASSUME NEW t \in Thread, LockSlow(t) PROVE SInv'
  <2>1. Sleepers' = Sleepers
    BY <1>2 DEF LockSlow, Goto, Sleepers, TypeOK
  <2>2. TypeOK'
    BY <1>2, <2>1 DEF LockSlow, Goto, TypeOK, Inside, Labels
  <2>3. QueueOK'
    BY <1>2, <2>1 DEF LockSlow, QueueOK
  <2> QED BY <2>2, <2>3
<1>3. ASSUME NEW t \in Thread, Lend(t) PROVE SInv'
  <2>1. Sleepers' = Sleepers
    BY <1>3 DEF Lend, Goto, Sleepers, TypeOK
  <2>2. TypeOK'
    BY <1>3, <2>1, NobodyAssumption DEF Lend, Goto, TypeOK, Inside, Labels
  <2>3. QueueOK'
    BY <1>3, <2>1 DEF Lend, QueueOK
  <2> QED BY <2>2, <2>3
<1>4. ASSUME NEW t \in Thread, Swap(t) PROVE SInv'
  <2>1. Sleepers' = Sleepers
    BY <1>4 DEF Swap, Goto, Sleepers, TypeOK
  <2>2. TypeOK'
    BY <1>4, <2>1 DEF Swap, Goto, TypeOK, Inside, Labels
  <2>3. QueueOK'
    BY <1>4, <2>1 DEF Swap, QueueOK
  <2> QED BY <2>2, <2>3
<1>5. ASSUME NEW t \in Thread, Wait(t) PROVE SInv'
  <2>1. Sleepers' = Sleepers \cup {t} /\ t \notin Sleepers
    BY <1>5 DEF Wait, Goto, Sleepers, TypeOK
  <2>2. sq.fresh \in Seq(Sleepers') /\ sq.woken \in Seq(Sleepers')
    BY <2>1, SeqOfMembers DEF TypeOK
  <2>3. t \notin ToSet(sq.fresh) /\ t \notin ToSet(sq.woken)
    BY <2>1, SeqOfMembers DEF TypeOK
  <2>4. /\ sq'.fresh = <<t>> \o sq.fresh
        /\ sq'.woken = sq.woken
        /\ sq'.pending = sq.pending
        /\ sq' = [fresh |-> <<t>> \o sq.fresh, woken |-> sq.woken,
                  pending |-> sq.pending]
    BY <1>5 DEF Wait, sleepq_add_waiter, TypeOK
  <2>5. /\ <<t>> \o sq.fresh \in Seq(Sleepers')
        /\ IsInjective(<<t>> \o sq.fresh)
        /\ ToSet(<<t>> \o sq.fresh) = ToSet(sq.fresh) \cup {t}
    BY <2>1, <2>2, <2>3, AddHead DEF QueueOK
  <2>6. /\ th'.asleep = th.asleep \cup {t}
        /\ th'.timedout = th.timedout
        /\ th'.armed \subseteq th.armed \cup {t}
        /\ th' = [asleep |-> th'.asleep, timedout |-> th'.timedout,
                  armed |-> th'.armed]
    BY <1>5 DEF Wait, thread_sleep, TypeOK
  <2>7. TypeOK'
    <3>1. sq' \in [fresh : Seq(Sleepers), woken : Seq(Sleepers),
                   pending : SUBSET Sleepers]'
      BY <2>1, <2>2, <2>4, <2>5 DEF TypeOK
    <3>2. th' \in [asleep : SUBSET Sleepers, timedout : SUBSET Thread,
                   armed : SUBSET Sleepers]'
      BY <2>1, <2>6 DEF TypeOK
    <3> QED BY <1>5, <3>1, <3>2, NobodyAssumption DEF Wait, Goto, TypeOK, Inside, Labels
  <2>8. QueueOK'
    BY <2>1, <2>3, <2>4, <2>5, <2>6 DEF QueueOK, TypeOK
  <2> QED BY <2>7, <2>8
<1>6. ASSUME NEW t \in Thread, Timeout(t) PROVE SInv'
  <2>1. Sleepers' = Sleepers
    BY <1>6 DEF Timeout, Sleepers
  <2>2. /\ th'.asleep \subseteq th.asleep
        /\ th'.timedout \subseteq Thread
        /\ th'.armed \subseteq th.armed
        /\ th' = [asleep |-> th'.asleep, timedout |-> th'.timedout,
                  armed |-> th'.armed]
    BY <1>6 DEF Timeout, thread_timeout, thread_wakeup_common, TypeOK
  <2>3. TypeOK'
    BY <1>6, <2>1, <2>2 DEF Timeout, TypeOK
  <2>4. QueueOK'
    BY <1>6, <2>1, <2>2 DEF Timeout, QueueOK
  <2> QED BY <2>3, <2>4
<1>7. ASSUME NEW t \in Thread, WakeUp(t) PROVE SInv'
  <2> DEFINE q == sleepq_remove_waiter(sq, t)
  <2>1. CASE WaitOver(sq, th, t)
    <3>1. /\ sq' = q
          /\ th' = ChainWakeup(q, thread_resume(th, t))
          /\ bucket = Nobody /\ bucket' = t
          /\ UNCHANGED <<state, timed>>
          /\ pc[t] = "asleep" /\ t \notin th.asleep
      BY <1>7, <2>1 DEF WakeUp
    <3>2. /\ pc' \in [Thread -> Labels]
          /\ pc'[t] \in {"failed", "swap"}
          /\ \A u \in Thread \ {t} : pc'[u] = pc[u]
      BY <1>7, <2>1 DEF WakeUp, TypeOK, Labels
    <3>3. Sleepers' = Sleepers \ {t} /\ t \in Sleepers
      BY <3>1, <3>2 DEF Sleepers
    <3>4. /\ q.fresh = Without(sq.fresh, t)
          /\ q.woken = Without(sq.woken, t)
          /\ q.pending = sq.pending \ {t}
          /\ q = [fresh |-> q.fresh, woken |-> q.woken, pending |-> q.pending]
      BY DEF sleepq_remove_waiter
    <3>5. /\ q.fresh \in Seq(Sleepers') /\ q.woken \in Seq(Sleepers')
          /\ IsInjective(q.fresh) /\ IsInjective(q.woken)
          /\ ToSet(q.fresh) = ToSet(sq.fresh) \ {t}
          /\ ToSet(q.woken) = ToSet(sq.woken) \ {t}
      <4>1. /\ sq.fresh \in Seq(Sleepers) /\ IsInjective(sq.fresh)
            /\ sq.woken \in Seq(Sleepers) /\ IsInjective(sq.woken)
        BY DEF QueueOK, TypeOK
      <4>2. /\ Without(sq.fresh, t) \in Seq(Sleepers \ {t})
            /\ IsInjective(Without(sq.fresh, t))
            /\ ToSet(Without(sq.fresh, t)) = ToSet(sq.fresh) \ {t}
        BY <4>1, RemoveWaiter
      <4>3. /\ Without(sq.woken, t) \in Seq(Sleepers \ {t})
            /\ IsInjective(Without(sq.woken, t))
            /\ ToSet(Without(sq.woken, t)) = ToSet(sq.woken) \ {t}
        BY <4>1, RemoveWaiter
      <4> HIDE DEF q
      <4> QED BY <3>3, <3>4, <4>2, <4>3
    <3> HIDE DEF q
    <3>6. /\ th'.asleep \subseteq th.asleep
          /\ th'.timedout \subseteq th.timedout
          /\ th'.armed = th.armed \ {t}
          /\ th' = [asleep |-> th'.asleep, timedout |-> th'.timedout,
                    armed |-> th'.armed]
      BY <3>1 DEF ChainWakeup, sleepq_waiter_wakeup, thread_wakeup,
                  thread_wakeup_common, thread_resume, TypeOK
    <3>7. TypeOK'
      <4>1. sq' \in [fresh : Seq(Sleepers), woken : Seq(Sleepers),
                     pending : SUBSET Sleepers]'
        BY <3>1, <3>3, <3>4, <3>5 DEF TypeOK
      <4>2. th' \in [asleep : SUBSET Sleepers, timedout : SUBSET Thread,
                     armed : SUBSET Sleepers]'
        BY <3>1, <3>3, <3>6 DEF TypeOK
      <4>3. \A u \in Thread : bucket' = u <=> pc'[u] \in Inside
        BY <3>1, <3>2, NobodyAssumption DEF TypeOK, Inside
      <4> QED BY <3>1, <3>2, <4>1, <4>2, <4>3 DEF TypeOK
    <3>8. QueueOK'
      BY <3>1, <3>3, <3>4, <3>5, <3>6 DEF QueueOK
    <3> QED BY <3>7, <3>8
  <2>2. CASE ~WaitOver(sq, th, t)
    <3>1. /\ UNCHANGED <<pc, sq, bucket, state, timed>>
          /\ th' = thread_sleep(thread_resume(th, t), t, t \in timed)
          /\ pc[t] = "asleep"
      BY <1>7, <2>2 DEF WakeUp
    <3>2. /\ th'.asleep = th.asleep \cup {t}
          /\ th'.timedout \subseteq th.timedout
          /\ th'.armed \subseteq th.armed \cup {t}
          /\ th' = [asleep |-> th'.asleep, timedout |-> th'.timedout,
                    armed |-> th'.armed]
      BY <3>1 DEF thread_sleep, thread_resume, TypeOK
    <3>3. Sleepers' = Sleepers /\ t \in Sleepers
      BY <3>1 DEF Sleepers
    <3>4. TypeOK'
      BY <3>1, <3>2, <3>3 DEF TypeOK
    <3>5. QueueOK'
      BY <2>2, <3>1, <3>2, <3>3 DEF QueueOK, WaitOver
    <3> QED BY <3>4, <3>5
  <2> QED BY <2>1, <2>2
<1>8. ASSUME NEW t \in Thread, Won(t) PROVE SInv'
  <2>1. Sleepers' = Sleepers
    BY <1>8 DEF Won, Goto, Sleepers, TypeOK
  <2>2. TypeOK'
    BY <1>8, <2>1, NobodyAssumption DEF Won, Goto, TypeOK, Inside, Labels
  <2>3. QueueOK'
    BY <1>8, <2>1 DEF Won, QueueOK
  <2> QED BY <2>2, <2>3
<1>9. ASSUME NEW t \in Thread, Failed(t) PROVE SInv'
  <2>1. Sleepers' = Sleepers
    BY <1>9 DEF Failed, Goto, Sleepers, TypeOK
  <2>2. TypeOK'
    BY <1>9, <2>1, NobodyAssumption DEF Failed, Goto, TypeOK, Inside, Labels
  <2>3. QueueOK'
    BY <1>9, <2>1 DEF Failed, QueueOK
  <2> QED BY <2>2, <2>3
<1>10. ASSUME NEW t \in Thread, UnlockFast(t) PROVE SInv'
  <2>1. Sleepers' = Sleepers
    BY <1>10 DEF UnlockFast, Goto, Sleepers, TypeOK
  <2>2. TypeOK'
    BY <1>10, <2>1 DEF UnlockFast, Goto, TypeOK, Inside, Labels
  <2>3. QueueOK'
    BY <1>10, <2>1 DEF UnlockFast, QueueOK
  <2> QED BY <2>2, <2>3
<1>11. ASSUME NEW t \in Thread, UnlockSlow(t) PROVE SInv'
  <2>1. Sleepers' = Sleepers
    BY <1>11 DEF UnlockSlow, Goto, Sleepers, TypeOK
  <2>2. CASE sq.fresh = <<>>
    <3>1. sq' = sq /\ th' = th
      BY <1>11, <2>2 DEF UnlockSlow, sleepq_signal, sleepq_signal_wakeup
    <3>2. TypeOK'
      BY <1>11, <2>1, <3>1 DEF UnlockSlow, Goto, TypeOK, Inside, Labels
    <3>3. QueueOK'
      BY <2>1, <3>1 DEF QueueOK
    <3> QED BY <3>2, <3>3
  <2>3. CASE sq.fresh /= <<>>
    <3> DEFINE w == Last(sq.fresh)
    <3>1. /\ sq' = [fresh |-> Front(sq.fresh), woken |-> <<w>> \o sq.woken,
                    pending |-> sq.pending \cup {w}]
          /\ th' = thread_wakeup(th, w)
      BY <1>11, <2>3 DEF UnlockSlow, sleepq_signal, sleepq_signal_wakeup
    <3>2. /\ Front(sq.fresh) \in Seq(Sleepers)
          /\ IsInjective(Front(sq.fresh))
          /\ w \in ToSet(sq.fresh)
          /\ ToSet(Front(sq.fresh)) = ToSet(sq.fresh) \ {w}
      BY <2>3, TakeLast DEF QueueOK, TypeOK
    <3>3. w \in Sleepers /\ w \notin ToSet(sq.woken)
      BY <3>2 DEF QueueOK
    <3> HIDE DEF w
    <3>4. /\ <<w>> \o sq.woken \in Seq(Sleepers)
          /\ IsInjective(<<w>> \o sq.woken)
          /\ ToSet(<<w>> \o sq.woken) = ToSet(sq.woken) \cup {w}
      BY <3>3, AddHead DEF QueueOK, TypeOK
    <3>5. /\ th'.asleep = th.asleep \ {w}
          /\ th'.timedout \subseteq th.timedout
          /\ th'.armed = th.armed
          /\ th' = [asleep |-> th'.asleep, timedout |-> th'.timedout,
                    armed |-> th'.armed]
      BY <3>1 DEF thread_wakeup, thread_wakeup_common, TypeOK
    <3>6. TypeOK'
      <4>1. sq' \in [fresh : Seq(Sleepers), woken : Seq(Sleepers),
                     pending : SUBSET Sleepers]'
        BY <2>1, <3>1, <3>2, <3>3, <3>4 DEF TypeOK
      <4>2. th' \in [asleep : SUBSET Sleepers, timedout : SUBSET Thread,
                     armed : SUBSET Sleepers]'
        BY <2>1, <3>5 DEF TypeOK
      <4> QED BY <1>11, <4>1, <4>2 DEF UnlockSlow, Goto, TypeOK, Inside, Labels
    <3>7. QueueOK'
      <4>1. /\ sq'.fresh = Front(sq.fresh)
            /\ sq'.woken = <<w>> \o sq.woken
            /\ sq'.pending = sq.pending \cup {w}
        BY <3>1
      <4> QED BY <2>1, <3>2, <3>3, <3>4, <3>5, <4>1 DEF QueueOK
    <3> QED BY <3>6, <3>7
  <2> QED BY <2>2, <2>3
<1>12. CASE UNCHANGED vars
  BY <1>12 DEF vars, TypeOK, QueueOK, Sleepers
<1> QED BY <1>1, <1>2, <1>3, <1>4, <1>5, <1>6, <1>7, <1>8, <1>9, <1>10, <1>11,
           <1>12 DEF Next, Progress

(* The list of waiters stays sound and the bucket's lock is held where the *)
(* code relies on it, whatever the interleaving of locks, unlocks, signals *)
(* and timeouts.                                                           *)
THEOREM Soundness == Spec => [](TypeOK /\ QueueOK)
<1>1. Init => SInv
  BY SoundInit
<1>2. SInv /\ [Next]_vars => SInv'
  BY SoundStep
<1>3. SInv => TypeOK /\ QueueOK
  BY DEF SInv
<1> QED BY <1>1, <1>2, <1>3, PTL DEF Spec

--------------------------------------------------------------------------------

LEMMA ExclusionStep ==
    TypeOK /\ MutualExclusion /\ [Next]_vars => MutualExclusion'
<1> SUFFICES ASSUME TypeOK, MutualExclusion, [Next]_vars
             PROVE  MutualExclusion'
  OBVIOUS
<1>1. ASSUME NEW t \in Thread, LockFast(t) PROVE MutualExclusion'
  BY <1>1 DEF LockFast, Goto, MutualExclusion, Owns, TypeOK
<1>2. ASSUME NEW t \in Thread, LockSlow(t) PROVE MutualExclusion'
  BY <1>2 DEF LockSlow, Goto, MutualExclusion, Owns, TypeOK
<1>3. ASSUME NEW t \in Thread, Lend(t) PROVE MutualExclusion'
  BY <1>3 DEF Lend, Goto, MutualExclusion, Owns, TypeOK
<1>4. ASSUME NEW t \in Thread, Swap(t) PROVE MutualExclusion'
  BY <1>4 DEF Swap, Goto, MutualExclusion, Owns, TypeOK
<1>5. ASSUME NEW t \in Thread, Wait(t) PROVE MutualExclusion'
  BY <1>5 DEF Wait, Goto, MutualExclusion, Owns, TypeOK
<1>6. ASSUME NEW t \in Thread, Timeout(t) PROVE MutualExclusion'
  BY <1>6 DEF Timeout, MutualExclusion, Owns
<1>7. ASSUME NEW t \in Thread, WakeUp(t) PROVE MutualExclusion'
  <2>1. /\ pc[t] = "asleep" /\ state' = state
        /\ pc' \in {pc, [pc EXCEPT ![t] = "failed"], [pc EXCEPT ![t] = "swap"]}
    BY <1>7 DEF WakeUp
  <2> QED BY <2>1 DEF MutualExclusion, Owns, TypeOK
<1>8. ASSUME NEW t \in Thread, Won(t) PROVE MutualExclusion'
  BY <1>8 DEF Won, Goto, MutualExclusion, Owns, TypeOK
<1>9. ASSUME NEW t \in Thread, Failed(t) PROVE MutualExclusion'
  BY <1>9 DEF Failed, Goto, MutualExclusion, Owns, TypeOK
<1>10. ASSUME NEW t \in Thread, UnlockFast(t) PROVE MutualExclusion'
  BY <1>10 DEF UnlockFast, Goto, MutualExclusion, Owns, TypeOK
<1>11. ASSUME NEW t \in Thread, UnlockSlow(t) PROVE MutualExclusion'
  BY <1>11 DEF UnlockSlow, Goto, MutualExclusion, Owns, TypeOK
<1>12. CASE UNCHANGED vars
  BY <1>12 DEF vars, MutualExclusion, Owns
<1> QED BY <1>1, <1>2, <1>3, <1>4, <1>5, <1>6, <1>7, <1>8, <1>9, <1>10, <1>11,
           <1>12 DEF Next, Progress

(* Two threads never hold the mutex at the same time, and its state word   *)
(* says so, through fast paths, contention, timeouts and downgrades.       *)
THEOREM Exclusion == Spec => []MutualExclusion
<1>1. Init => MutualExclusion
  BY DEF Init, MutualExclusion, Owns
<1>2. TypeOK /\ MutualExclusion /\ [Next]_vars => MutualExclusion'
  BY ExclusionStep
<1> QED BY <1>1, <1>2, Soundness, PTL DEF Spec

--------------------------------------------------------------------------------

(* Somebody is going to mark the mutex contended or to signal its queue. *)
HelpComing ==
    \/ state = "contended"
    \/ sq.woken /= <<>>
    \/ \E t \in Thread : pc[t] \in {"swap", "unlock"}

(* A thread between its swap and its sleep counts as a waiter already: the *)
(* owner may unlock in between, and has to wait for the bucket then.       *)
WInv == (sq.fresh /= <<>> \/ \E t \in Thread : pc[t] = "wait") => HelpComing

LEMMA WakeupStep == SInv /\ WInv /\ [Next]_vars => WInv'
<1> SUFFICES ASSUME SInv, WInv, [Next]_vars,
                    sq.fresh' /= <<>> \/ \E t \in Thread : pc[t]' = "wait"
             PROVE  HelpComing'
  BY DEF WInv
<1> USE DEF SInv
<1>1. ASSUME NEW t \in Thread, LockFast(t) PROVE HelpComing'
  BY <1>1 DEF LockFast, Goto, WInv, HelpComing, TypeOK
<1>2. ASSUME NEW t \in Thread, LockSlow(t) PROVE HelpComing'
  BY <1>2 DEF LockSlow, Goto, WInv, HelpComing, TypeOK
<1>3. ASSUME NEW t \in Thread, Lend(t) PROVE HelpComing'
  BY <1>3 DEF Lend, Goto, WInv, HelpComing, TypeOK
<1>4. ASSUME NEW t \in Thread, Swap(t) PROVE HelpComing'
  BY <1>4 DEF Swap, HelpComing
<1>5. ASSUME NEW t \in Thread, Wait(t) PROVE HelpComing'
  <2>1. sq'.woken = sq.woken /\ state' = state /\ pc[t] = "wait"
    BY <1>5 DEF Wait, Goto, sleepq_add_waiter, TypeOK
  <2>2. HelpComing
    BY <2>1 DEF WInv
  <2>3. \A u \in Thread : pc[u] \in {"swap", "unlock"} => pc'[u] = pc[u]
    BY <1>5 DEF Wait, Goto, TypeOK
  <2> QED BY <2>1, <2>2, <2>3 DEF HelpComing
<1>6. ASSUME NEW t \in Thread, Timeout(t) PROVE HelpComing'
  BY <1>6 DEF Timeout, WInv, HelpComing
<1>7. ASSUME NEW t \in Thread, WakeUp(t) PROVE HelpComing'
  <2>1. CASE WaitOver(sq, th, t) /\ t \in sq.pending
    <3>1. pc' = [pc EXCEPT ![t] = "swap"]
      BY <1>7, <2>1 DEF WakeUp, WaitTimedOut
    <3> QED BY <3>1 DEF HelpComing, TypeOK
  <2>2. CASE WaitOver(sq, th, t) /\ t \notin sq.pending
    <3>1. /\ pc[t] = "asleep" /\ pc' = [pc EXCEPT ![t] = "failed"]
          /\ state' = state
          /\ sq'.fresh = Without(sq.fresh, t)
          /\ sq'.woken = Without(sq.woken, t)
      BY <1>7, <2>2 DEF WakeUp, WaitTimedOut, sleepq_remove_waiter
    <3>2. sq'.woken = sq.woken
      <4>1. sq.woken \in Seq(Sleepers) /\ IsInjective(sq.woken)
            /\ t \notin ToSet(sq.woken)
        BY <2>2 DEF QueueOK, TypeOK
      <4>2. Without(sq.woken, t) = sq.woken
        BY <4>1, RemoveWaiter
      <4> QED BY <3>1, <4>2
    <3>3. sq.fresh = <<>> => sq'.fresh = <<>>
      <4>1. ASSUME sq.fresh = <<>> PROVE Without(sq.fresh, t) = sq.fresh
        BY <4>1 DEF Without
      <4> QED BY <3>1, <4>1
    <3>4. HelpComing
      BY <3>1, <3>3 DEF WInv, TypeOK
    <3>5. \A u \in Thread : pc[u] \in {"swap", "unlock"} => pc'[u] = pc[u]
      BY <3>1 DEF TypeOK
    <3> QED BY <3>1, <3>2, <3>4, <3>5 DEF HelpComing
  <2>3. CASE ~WaitOver(sq, th, t)
    <3>1. UNCHANGED <<pc, sq, state>>
      BY <1>7, <2>3 DEF WakeUp
    <3> QED BY <3>1 DEF WInv, HelpComing
  <2> QED BY <2>1, <2>2, <2>3
<1>8. ASSUME NEW t \in Thread, Won(t) PROVE HelpComing'
  <2>1. CASE sleepq_empty(sq)
    <3>1. sq'.fresh = <<>>
      BY <1>8, <2>1 DEF Won, sleepq_empty
    <3>2. ~ \E u \in Thread : pc'[u] = "wait"
      BY <1>8, NobodyAssumption DEF Won, Goto, TypeOK, Inside
    <3> QED BY <3>1, <3>2
  <2>2. CASE ~sleepq_empty(sq)
    BY <1>8, <2>2 DEF Won, Goto, WInv, HelpComing, TypeOK
  <2> QED BY <2>1, <2>2
<1>9. ASSUME NEW t \in Thread, Failed(t) PROVE HelpComing'
  <2>1. CASE sleepq_empty(sq)
    <3>1. sq'.fresh = <<>>
      BY <1>9, <2>1 DEF Failed, sleepq_empty
    <3>2. ~ \E u \in Thread : pc'[u] = "wait"
      BY <1>9, NobodyAssumption DEF Failed, Goto, TypeOK, Inside
    <3> QED BY <3>1, <3>2
  <2>2. CASE ~sleepq_empty(sq)
    BY <1>9, <2>2 DEF Failed, Goto, WInv, HelpComing, TypeOK
  <2> QED BY <2>1, <2>2
<1>10. ASSUME NEW t \in Thread, UnlockFast(t) PROVE HelpComing'
  BY <1>10 DEF UnlockFast, Goto, WInv, HelpComing, TypeOK
<1>11. ASSUME NEW t \in Thread, UnlockSlow(t) PROVE HelpComing'
  <2>1. CASE sq.fresh = <<>>
    <3>1. sq'.fresh = <<>>
      BY <1>11, <2>1 DEF UnlockSlow, sleepq_signal
    <3>2. ~ \E u \in Thread : pc'[u] = "wait"
      BY <1>11, NobodyAssumption DEF UnlockSlow, Goto, TypeOK, Inside
    <3> QED BY <3>1, <3>2
  <2>2. CASE sq.fresh /= <<>>
    <3> DEFINE w == Last(sq.fresh)
    <3>1. sq'.woken = <<w>> \o sq.woken
      BY <1>11, <2>2 DEF UnlockSlow, sleepq_signal
    <3>2. w \in Sleepers
      BY <2>2, TakeLast DEF QueueOK, TypeOK
    <3> HIDE DEF w
    <3>3. <<w>> \o sq.woken /= <<>>
      BY <3>2 DEF TypeOK
    <3> QED BY <3>1, <3>3 DEF HelpComing
  <2> QED BY <2>1, <2>2
<1>12. CASE UNCHANGED vars
  BY <1>12 DEF vars, WInv, HelpComing
<1> QED BY <1>1, <1>2, <1>3, <1>4, <1>5, <1>6, <1>7, <1>8, <1>9, <1>10, <1>11,
           <1>12 DEF Next, Progress

(* No waiter is forgotten: neither downgrade of the state word, nor a      *)
(* timeout racing a signal, nor an unlock between the swap and the sleep   *)
(* of a waiter, leaves one behind that no thread is going to wake up.      *)
THEOREM NoForgottenWaiter == Spec => []NoLostWakeup
<1>1. Init => WInv
  BY DEF Init, EmptyQueue, WInv
<1>2. SInv /\ WInv /\ [Next]_vars => WInv'
  BY WakeupStep
<1>3. SInv <=> TypeOK /\ QueueOK
  BY DEF SInv
<1>4. WInv => NoLostWakeup
  BY DEF WInv, HelpComing, NoLostWakeup
<1> QED BY <1>1, <1>2, <1>3, <1>4, Soundness, PTL DEF Spec

--------------------------------------------------------------------------------

(* A sleeper without time boundary has no timer, so that only a signal     *)
(* ends its sleep.                                                         *)
TInv ==
    \A t \in Thread \ timed :
        /\ pc[t] /= "failed"
        /\ t \notin th.armed
        /\ pc[t] = "asleep" => t \in th.asleep \cup sq.pending

LEMMA UntimedStep == SInv /\ TInv /\ [Next]_vars => TInv'
<1> SUFFICES ASSUME SInv, TInv, [Next]_vars PROVE TInv'
  OBVIOUS
<1> USE DEF SInv
<1>1. ASSUME NEW t \in Thread, LockFast(t) PROVE TInv'
  BY <1>1 DEF LockFast, Goto, TInv, TypeOK
<1>2. ASSUME NEW t \in Thread, LockSlow(t) PROVE TInv'
  <2>1. \A u \in Thread \ timed' : u = t \/ u \in Thread \ timed
    BY <1>2 DEF LockSlow
  <2>2. pc'[t] = "lend" /\ t \notin th'.armed
    BY <1>2 DEF LockSlow, Goto, TypeOK, Sleepers
  <2> QED BY <1>2, <2>1, <2>2 DEF LockSlow, Goto, TInv, TypeOK
<1>3. ASSUME NEW t \in Thread, Lend(t) PROVE TInv'
  BY <1>3 DEF Lend, Goto, TInv, TypeOK
<1>4. ASSUME NEW t \in Thread, Swap(t) PROVE TInv'
  BY <1>4 DEF Swap, Goto, TInv, TypeOK
<1>5. ASSUME NEW t \in Thread, Wait(t) PROVE TInv'
  <2>1. /\ th'.asleep = th.asleep \cup {t}
        /\ sq'.pending = sq.pending
        /\ th'.armed = IF t \in timed THEN th.armed \cup {t} ELSE th.armed
        /\ timed' = timed
        /\ pc' = [pc EXCEPT ![t] = "asleep"]
    BY <1>5 DEF Wait, Goto, sleepq_add_waiter, thread_sleep, TypeOK
  <2> QED BY <2>1 DEF TInv, TypeOK
<1>6. ASSUME NEW t \in Thread, Timeout(t) PROVE TInv'
  <2>1. t \in timed
    BY <1>6 DEF Timeout, TInv
  <2>2. /\ th'.armed \subseteq th.armed
        /\ \A u \in th.asleep : u /= t => u \in th'.asleep
    BY <1>6 DEF Timeout, thread_timeout, thread_wakeup_common, TypeOK
  <2> QED BY <1>6, <2>1, <2>2 DEF Timeout, TInv
<1>7. ASSUME NEW t \in Thread, WakeUp(t) PROVE TInv'
  <2> DEFINE q == sleepq_remove_waiter(sq, t)
  <2>1. CASE WaitOver(sq, th, t)
    <3>1. /\ pc' = [pc EXCEPT ![t] = IF t \in sq.pending THEN "swap" ELSE "failed"]
          /\ sq'.pending = sq.pending \ {t}
          /\ sq' = q
          /\ th' = ChainWakeup(q, thread_resume(th, t))
          /\ timed' = timed
          /\ pc[t] = "asleep" /\ t \notin th.asleep
      BY <1>7, <2>1 DEF WakeUp, WaitTimedOut, sleepq_remove_waiter
    <3> HIDE DEF q
    <3>2. /\ th'.armed = th.armed \ {t}
          /\ \A u \in th.asleep : u \in th'.asleep \/ u \in sq'.pending
      BY <3>1 DEF ChainWakeup, sleepq_waiter_wakeup, thread_wakeup,
                  thread_wakeup_common, thread_resume, TypeOK
    <3>3. t \in timed \/ pc'[t] = "swap"
      BY <3>1 DEF TInv, TypeOK
    <3> QED BY <3>1, <3>2, <3>3 DEF TInv, TypeOK
  <2>2. CASE ~WaitOver(sq, th, t)
    <3>1. /\ UNCHANGED <<pc, sq, timed>>
          /\ th' = thread_sleep(thread_resume(th, t), t, t \in timed)
      BY <1>7, <2>2 DEF WakeUp
    <3>2. /\ th'.asleep = th.asleep \cup {t}
          /\ t \in timed => th'.armed \subseteq th.armed \cup {t}
          /\ t \notin timed => th'.armed \subseteq th.armed
      BY <3>1 DEF thread_sleep, thread_resume, TypeOK
    <3> QED BY <3>1, <3>2 DEF TInv
  <2> QED BY <2>1, <2>2
<1>8. ASSUME NEW t \in Thread, Won(t) PROVE TInv'
  BY <1>8 DEF Won, Goto, TInv, TypeOK
<1>9. ASSUME NEW t \in Thread, Failed(t) PROVE TInv'
  BY <1>9 DEF Failed, Goto, TInv, TypeOK
<1>10. ASSUME NEW t \in Thread, UnlockFast(t) PROVE TInv'
  BY <1>10 DEF UnlockFast, Goto, TInv, TypeOK
<1>11. ASSUME NEW t \in Thread, UnlockSlow(t) PROVE TInv'
  <2>1. /\ pc' = [pc EXCEPT ![t] = "idle"]
        /\ timed' = timed
        /\ th'.armed = th.armed
        /\ \A u \in th.asleep \cup sq.pending : u \in th'.asleep \cup sq'.pending
    BY <1>11 DEF UnlockSlow, Goto, sleepq_signal, sleepq_signal_wakeup,
                 thread_wakeup, thread_wakeup_common, TypeOK
  <2> QED BY <2>1 DEF TInv, TypeOK
<1>12. CASE UNCHANGED vars
  BY <1>12 DEF vars, TInv
<1> QED BY <1>1, <1>2, <1>3, <1>4, <1>5, <1>6, <1>7, <1>8, <1>9, <1>10, <1>11,
           <1>12 DEF Next, Progress

(* mutex_lock() never fails: no timer outlives the timed sleep it was      *)
(* armed for, and a signalled waiter does not report a timeout.            *)
THEOREM UntimedLocksSucceed == Spec => []OnlyTimedCallsFail
<1>1. Init => TInv
  BY DEF Init, AllRunning, TInv
<1>2. SInv /\ TInv /\ [Next]_vars => TInv'
  BY UntimedStep
<1>3. SInv <=> TypeOK /\ QueueOK
  BY DEF SInv
<1>4. TInv => OnlyTimedCallsFail
  BY DEF TInv, OnlyTimedCallsFail
<1> QED BY <1>1, <1>2, <1>3, <1>4, Soundness, PTL DEF Spec

--------------------------------------------------------------------------------

(* The refinement mapping, once the owner is known to be unique. *)
OwnerDefined ==
    /\ \A t \in Thread : Owns(t) => owner = t
    /\ (\A t \in Thread : ~Owns(t)) => owner = Nobody
    /\ (state = "unlocked") <=> (owner = Nobody)

LEMMA OwnerIs == MutualExclusion => OwnerDefined
<1> SUFFICES ASSUME MutualExclusion PROVE OwnerDefined
  OBVIOUS
<1>1. ASSUME NEW t \in Thread, Owns(t) PROVE owner = t
  BY <1>1 DEF owner, MutualExclusion
<1>2. (\A t \in Thread : ~Owns(t)) => owner = Nobody
  BY DEF owner
<1>3. owner = Nobody => \A t \in Thread : ~Owns(t)
  BY <1>1, NobodyAssumption
<1> QED BY <1>1, <1>2, <1>3 DEF MutualExclusion, OwnerDefined

LEMMA OwnerIsNext == MutualExclusion' => OwnerDefined'
BY OwnerIs, PTL

(* Each step of the code is a step of the abstract lock, or none at all. *)
LEMMA MappingStep ==
    TypeOK /\ OnlyTimedCallsFail /\ MutualExclusion /\ MutualExclusion'
      /\ [Next]_vars => [Abs!MNext]_(Abs!mvars)
<1> SUFFICES ASSUME TypeOK, OnlyTimedCallsFail, MutualExclusion,
                    MutualExclusion', [Next]_vars
             PROVE  Abs!MNext \/ UNCHANGED <<owner, waiting, waiting \ timed>>
  BY DEF Abs!mvars
<1>a. OwnerDefined /\ OwnerDefined'
  BY OwnerIs, OwnerIsNext
<1>b. pc \in [Thread -> Labels]
  BY DEF TypeOK
<1> USE DEF waiting, Goto
(* The acquisitions: the fast path's, and the swap that finds it unlocked. *)
<1>1. ASSUME NEW t \in Thread, LockFast(t) PROVE Abs!MNext
  <2>1. owner = Nobody /\ owner' = t
    BY <1>a, <1>b, <1>1 DEF LockFast, OwnerDefined, Owns
  <2>2. t \notin waiting /\ waiting' = waiting /\ timed' = timed
    BY <1>b, <1>1 DEF LockFast
  <2>3. Abs!Acquire(t)
    BY <2>1, <2>2 DEF Abs!Acquire
  <2> QED BY <2>3 DEF Abs!MNext
<1>2. ASSUME NEW t \in Thread, Swap(t) PROVE
        Abs!MNext \/ UNCHANGED <<owner, waiting, waiting \ timed>>
  <2>1. CASE state = "unlocked"
    <3>1. owner = Nobody /\ owner' = t
      BY <1>a, <1>b, <1>2, <2>1 DEF Swap, OwnerDefined, Owns
    <3>2. waiting' = waiting \ {t} /\ timed' = timed
      BY <1>b, <1>2, <2>1 DEF Swap
    <3>3. Abs!Acquire(t)
      BY <3>1, <3>2 DEF Abs!Acquire
    <3> QED BY <3>3 DEF Abs!MNext
  <2>2. CASE state /= "unlocked"
    <3>1. \A u \in Thread : Owns(u)' <=> Owns(u)
      BY <1>b, <1>2, <2>2 DEF Swap, Owns
    <3>2. owner' = owner
      BY <1>a, <3>1 DEF OwnerDefined
    <3>3. waiting' = waiting /\ timed' = timed
      BY <1>b, <1>2, <2>2 DEF Swap
    <3> QED BY <3>2, <3>3
  <2> QED BY <2>1, <2>2
<1>3. ASSUME NEW t \in Thread, LockSlow(t) PROVE Abs!MNext
  <2>1. \A u \in Thread : Owns(u)' <=> Owns(u)
    BY <1>b, <1>3 DEF LockSlow, Owns
  <2>2. owner' = owner
    BY <1>a, <2>1 DEF OwnerDefined
  <2>3. owner /= t
    BY <1>3, <1>a, NobodyAssumption DEF LockSlow, OwnerDefined, Owns, owner,
       MutualExclusion
  <2>4. t \notin waiting /\ waiting' = waiting \cup {t}
    BY <1>b, <1>3 DEF LockSlow
  <2>5. (waiting \ timed)' \in {waiting \ timed, (waiting \ timed) \cup {t}}
    BY <1>3, <2>4 DEF LockSlow
  <2>6. Abs!Request(t)
    BY <2>2, <2>3, <2>4, <2>5 DEF Abs!Request
  <2> QED BY <2>6 DEF Abs!MNext
<1>4. ASSUME NEW t \in Thread, Failed(t) PROVE Abs!MNext
  <2>1. \A u \in Thread : Owns(u)' <=> Owns(u)
    BY <1>b, <1>4 DEF Failed, Owns
  <2>2. owner' = owner
    BY <1>a, <2>1 DEF OwnerDefined
  <2>3. t \in waiting /\ waiting' = waiting \ {t} /\ timed' = timed
    BY <1>b, <1>4 DEF Failed
  <2>4. t \in timed
    BY <1>4 DEF Failed, OnlyTimedCallsFail
  <2>5. Abs!GiveUp(t)
    BY <2>2, <2>3, <2>4 DEF Abs!GiveUp
  <2> QED BY <2>5 DEF Abs!MNext
<1>5. ASSUME NEW t \in Thread, UnlockFast(t) PROVE Abs!MNext
  <2>1. owner = t /\ owner' = Nobody
    BY <1>a, <1>b, <1>5 DEF UnlockFast, OwnerDefined, Owns
  <2>2. waiting' = waiting /\ timed' = timed
    BY <1>b, <1>5 DEF UnlockFast
  <2>3. Abs!Release(t)
    BY <2>1, <2>2 DEF Abs!Release
  <2> QED BY <2>3 DEF Abs!MNext
(* Everything else is invisible to a user of the lock. *)
<1>6. ASSUME NEW t \in Thread,
             Lend(t) \/ Wait(t) \/ Timeout(t) \/ WakeUp(t) \/ Won(t) \/ UnlockSlow(t)
      PROVE  UNCHANGED <<owner, waiting, waiting \ timed>>
  <2>1. \A u \in Thread : Owns(u)' <=> Owns(u)
    BY <1>b, <1>6 DEF Lend, Wait, Timeout, WakeUp, Won, UnlockSlow, Owns
  <2>2. owner' = owner
    BY <1>a, <2>1 DEF OwnerDefined
  <2>3. waiting' = waiting
    BY <1>b, <1>6 DEF Lend, Wait, Timeout, WakeUp, Won, UnlockSlow
  <2>4. timed' = timed
    BY <1>6 DEF Lend, Wait, Timeout, WakeUp, Won, UnlockSlow
  <2> QED BY <2>2, <2>3, <2>4
<1>7. CASE UNCHANGED vars
  BY <1>7 DEF vars, owner, Owns
<1> QED BY <1>1, <1>2, <1>3, <1>4, <1>5, <1>6, <1>7 DEF Next, Progress

(* The plain mutex implements the lock kern/mutex.h promises: it has one   *)
(* owner, only a thread that asked gets it, and only timed calls give up.  *)
THEOREM Refinement == Spec => ImplementsMutex
<1>1. Init => Abs!MInit
  BY DEF Init, Abs!MInit, owner, Owns, waiting
<1>2. TypeOK /\ OnlyTimedCallsFail /\ MutualExclusion /\ MutualExclusion'
        /\ [Next]_vars => [Abs!MNext]_(Abs!mvars)
  BY MappingStep
<1> QED BY <1>1, <1>2, Soundness, Exclusion, UntimedLocksSucceed, PTL
        DEF Spec, ImplementsMutex, Abs!MSpec

--------------------------------------------------------------------------------
(* The adaptive mutex, in the variables of its instance: its word, the     *)
(* holder of the bucket, the sleep queue, the threads, their places, the   *)
(* owners that they have seen, those whose time is bounded, and those that *)
(* are off their processor.                                                *)
word == s1
holder == s2
queue == s3
threads == s4
place == s5
seen == s6
bounded == s7
off == s8

USE DEF word, holder, queue, threads, place, seen, bounded, off

AInv == Adaptive!TypeOK /\ Adaptive!QueueOK /\ Adaptive!WordOK

(* The types of what is not the sleep queue's.                             *)
Control ==
    /\ place \in [Thread -> Adaptive!Labels]
    /\ word \in [owner : Thread \cup {Nobody}, contended : BOOLEAN]
    /\ holder \in Thread \cup {Nobody}
    /\ \A t \in Thread : holder = t <=> place[t] \in Adaptive!Inside
    /\ seen \in [Thread -> Thread \cup {Nobody}]
    /\ \A t \in Thread : seen[t] /= Nobody <=> place[t] \in {"spin", "look", "asleep"}
    /\ bounded \subseteq Thread
    /\ off \subseteq {t \in Thread : place[t] \in Adaptive!Owning \cup Adaptive!Passing}

LEMMA AdaptiveStart ==
    Adaptive!Init => AInv /\ Adaptive!PassedOn /\ Adaptive!OnlyTimedCallsFail
<1> SUFFICES ASSUME Adaptive!Init
             PROVE  AInv /\ Adaptive!PassedOn /\ Adaptive!OnlyTimedCallsFail
  OBVIOUS
<1>1. Adaptive!Sleepers = {} /\ \A t \in Thread : place[t] = "idle"
  BY DEF Adaptive!Init, Adaptive!Sleepers
<1>2. Adaptive!TypeOK
  BY <1>1, NobodyAssumption
     DEF Adaptive!Init, Adaptive!TypeOK, Adaptive!Labels, Adaptive!Inside,
         Adaptive!Owning, Adaptive!Passing, Adaptive!Unlocked, Adaptive!Word,
         Adaptive!EmptyQueue, Adaptive!AllRunning
<1>3. Adaptive!QueueOK
  BY <1>1
     DEF Adaptive!Init, Adaptive!QueueOK, Adaptive!EmptyQueue, Adaptive!AllRunning,
         Adaptive!IsInjective, Adaptive!ToSet
<1>4. Adaptive!WordOK
  BY <1>1, NobodyAssumption
     DEF Adaptive!Init, Adaptive!WordOK, Adaptive!Inside, Adaptive!Owning,
         Adaptive!Unlocked, Adaptive!Word, Adaptive!EmptyQueue, Adaptive!sleepq_empty
<1>5. Adaptive!PassedOn /\ Adaptive!OnlyTimedCallsFail
  BY <1>1
     DEF Adaptive!Init, Adaptive!PassedOn, Adaptive!OnlyTimedCallsFail,
         Adaptive!EmptyQueue, Adaptive!AllRunning
<1> QED BY <1>2, <1>3, <1>4, <1>5 DEF AInv

(* The steps that touch neither the list of waiters nor their sleep.       *)
Quiet(t) ==
    \/ Adaptive!LockFast(t) \/ Adaptive!LockSlow(t) \/ Adaptive!Lend(t)
    \/ Adaptive!mutex_adaptive_set_contended(t) \/ Adaptive!Swap(t)
    \/ Adaptive!mutex_adaptive_is_owner(t) \/ Adaptive!Spin(t) \/ Adaptive!Won(t)
    \/ Adaptive!LeaveMarked(t) \/ Adaptive!Failed(t) \/ Adaptive!Clear(t) \/ Adaptive!Reset(t)
    \/ Adaptive!UnlockFast(t) \/ Adaptive!UnlockSlow(t) \/ Adaptive!Check(t)
    \/ Adaptive!Preempt(t) \/ Adaptive!Dispatch(t)

LEMMA QuietSteps ==
    ASSUME Adaptive!Next
    PROVE  \E t \in Thread :
               \/ Quiet(t) \/ Adaptive!Sleep(t) \/ Adaptive!Timeout(t)
               \/ Adaptive!WakeUp(t) \/ Adaptive!Signal(t)
BY DEF Adaptive!Next, Quiet

(* Either way the last waiter that gives up goes on with the mark.         *)
LEMMA ClearMoves ==
    ASSUME NEW t \in Thread, Adaptive!Clear(t)
    PROVE  /\ place[t] = "clear" /\ t \notin off
           /\ \/ /\ word.owner /= Nobody
                 /\ place' = [place EXCEPT ![t] = "idle"]
                 /\ word' = [owner |-> word.owner, contended |-> FALSE]
                 /\ holder' = Nobody
              \/ /\ word.owner = Nobody
                 /\ place' = [place EXCEPT ![t] = "reset"]
                 /\ UNCHANGED <<word, holder>>
           /\ UNCHANGED <<queue, threads, seen, bounded, off>>
<1>1. CASE word.owner /= Nobody
  BY <1>1 DEF Adaptive!Clear, Adaptive!Leave, Adaptive!Goto, Adaptive!Word
<1>2. CASE word.owner = Nobody
  BY <1>2 DEF Adaptive!Clear, Adaptive!Goto
<1> QED BY <1>1, <1>2

LEMMA QuietControl ==
    ASSUME Control, Adaptive!WordOK, NEW t \in Thread, Quiet(t)
    PROVE  Control' /\ UNCHANGED <<queue, threads>> /\ Adaptive!Sleepers' = Adaptive!Sleepers
<1> USE NobodyAssumption
        DEF Control, Adaptive!Goto, Adaptive!Labels, Adaptive!Inside, Adaptive!Owning,
            Adaptive!Passing, Adaptive!Sleepers
<1>1. CASE Adaptive!LockFast(t)
  BY <1>1 DEF Adaptive!LockFast, Adaptive!Word
<1>2. CASE Adaptive!LockSlow(t)
  BY <1>2 DEF Adaptive!LockSlow
<1>3. CASE Adaptive!Lend(t)
  BY <1>3 DEF Adaptive!Lend
<1>4. CASE Adaptive!mutex_adaptive_set_contended(t)
  BY <1>4 DEF Adaptive!mutex_adaptive_set_contended, Adaptive!Word
<1>5. CASE Adaptive!Swap(t)
  BY <1>5 DEF Adaptive!Swap, Adaptive!Word, Adaptive!Marked, Adaptive!WordOK
<1>6. CASE Adaptive!mutex_adaptive_is_owner(t)
  BY <1>6 DEF Adaptive!mutex_adaptive_is_owner
<1>7. CASE Adaptive!Spin(t)
  BY <1>7 DEF Adaptive!Spin
<1>8. CASE Adaptive!Won(t)
  BY <1>8 DEF Adaptive!Won, Adaptive!Word
<1>9. CASE Adaptive!LeaveMarked(t)
  BY <1>9 DEF Adaptive!LeaveMarked, Adaptive!Leave
<1>10. CASE Adaptive!Failed(t)
  BY <1>10 DEF Adaptive!Failed
<1>11. CASE Adaptive!Clear(t)
  <2>1. CASE word.owner /= Nobody
    <3>1. /\ place[t] = "clear" /\ t \notin off /\ place' = [place EXCEPT ![t] = "idle"]
          /\ word' = [owner |-> word.owner, contended |-> FALSE]
          /\ holder' = Nobody
          /\ UNCHANGED <<queue, threads, seen, bounded, off>>
      BY <1>11, <2>1, ClearMoves
    <3> QED BY <3>1
  <2>2. CASE word.owner = Nobody
    <3>1. /\ place[t] = "clear" /\ t \notin off /\ place' = [place EXCEPT ![t] = "reset"]
          /\ UNCHANGED <<word, holder, queue, threads, seen, bounded, off>>
      BY <1>11, <2>2, ClearMoves
    <3> QED BY <3>1
  <2> QED BY <2>1, <2>2
<1>12. CASE Adaptive!Reset(t)
  BY <1>12 DEF Adaptive!Reset, Adaptive!Leave, Adaptive!Unlocked, Adaptive!Word
<1>13. CASE Adaptive!UnlockFast(t)
  BY <1>13 DEF Adaptive!UnlockFast, Adaptive!Unlocked, Adaptive!Word
<1>14. CASE Adaptive!UnlockSlow(t)
  BY <1>14 DEF Adaptive!UnlockSlow, Adaptive!Marked, Adaptive!Word
<1>15. CASE Adaptive!Check(t)
  BY <1>15 DEF Adaptive!Check
<1>16. CASE Adaptive!Preempt(t)
  BY <1>16 DEF Adaptive!Preempt
<1>17. CASE Adaptive!Dispatch(t)
  BY <1>17 DEF Adaptive!Dispatch
<1> QED BY <1>1, <1>2, <1>3, <1>4, <1>5, <1>6, <1>7, <1>8, <1>9, <1>10, <1>11,
           <1>12, <1>13, <1>14, <1>15, <1>16, <1>17 DEF Quiet

(* What the list of waiters and the threads it has are made of.            *)
Queue ==
    /\ queue \in [fresh : Seq(Adaptive!Sleepers), woken : Seq(Adaptive!Sleepers),
               pending : SUBSET Adaptive!Sleepers]
    /\ threads \in [asleep : SUBSET Adaptive!Sleepers, timedout : SUBSET Thread,
               armed : SUBSET Adaptive!Sleepers]

LEMMA Parts == Adaptive!TypeOK <=> Control /\ Queue
BY DEF Adaptive!TypeOK, Control, Queue

(* A wake-up takes its thread out of those that sleep, and leaves timers.  *)
LEMMA WokenUp ==
    ASSUME NEW w, NEW h,
           h = [asleep |-> h.asleep, timedout |-> h.timedout, armed |-> h.armed]
    PROVE  \E k : /\ Adaptive!thread_wakeup(h, w) = k
                  /\ k.asleep = h.asleep \ {w}
                  /\ k.timedout \subseteq h.timedout
                  /\ k.armed = h.armed
                  /\ k = [asleep |-> k.asleep, timedout |-> k.timedout, armed |-> k.armed]
<1> DEFINE k == Adaptive!thread_wakeup(h, w)
<1>1. CASE w \in h.asleep
  <2>1. k = [h EXCEPT !.asleep = @ \ {w}, !.timedout = @ \ {w}]
    BY <1>1 DEF Adaptive!thread_wakeup, Adaptive!thread_wakeup_common
  <2>2. k = [asleep |-> h.asleep \ {w}, timedout |-> h.timedout \ {w}, armed |-> h.armed]
    BY <2>1
  <2> QED BY <2>2
<1>2. CASE w \notin h.asleep
  <2>1. k = h
    BY <1>2 DEF Adaptive!thread_wakeup, Adaptive!thread_wakeup_common
  <2> QED BY <1>2, <2>1
<1> QED BY <1>1, <1>2

LEMMA SleepSound ==
    ASSUME AInv, NEW t \in Thread, Adaptive!Sleep(t)
    PROVE  (Adaptive!TypeOK /\ Adaptive!QueueOK)'
<1> USE DEF AInv
<1>1. /\ place' = [place EXCEPT ![t] = "asleep"] /\ place[t] = "look" /\ t \notin off
      /\ holder' = Nobody
      /\ UNCHANGED <<word, seen, bounded, off>>
  BY DEF Adaptive!Sleep, Adaptive!Goto
<1>2. Control'
  BY <1>1, NobodyAssumption, Parts
     DEF Control, Adaptive!Labels, Adaptive!Inside, Adaptive!Owning, Adaptive!Passing
<1>3. Adaptive!Sleepers' = Adaptive!Sleepers \cup {t} /\ t \notin Adaptive!Sleepers
  BY <1>1 DEF Adaptive!Sleepers, Adaptive!TypeOK
<1>4. queue.fresh \in Seq(Adaptive!Sleepers') /\ queue.woken \in Seq(Adaptive!Sleepers')
  BY <1>3, Adaptive!SeqOfMembers DEF Adaptive!TypeOK
<1>5. t \notin Adaptive!ToSet(queue.fresh) /\ t \notin Adaptive!ToSet(queue.woken)
  BY <1>3, Adaptive!SeqOfMembers DEF Adaptive!TypeOK
<1>6. /\ queue'.fresh = <<t>> \o queue.fresh
      /\ queue'.woken = queue.woken
      /\ queue'.pending = queue.pending
      /\ queue' = [fresh |-> <<t>> \o queue.fresh, woken |-> queue.woken,
                pending |-> queue.pending]
  BY DEF Adaptive!Sleep, Adaptive!sleepq_add_waiter, Adaptive!TypeOK
<1>7. /\ <<t>> \o queue.fresh \in Seq(Adaptive!Sleepers')
      /\ Adaptive!IsInjective(<<t>> \o queue.fresh)
      /\ Adaptive!ToSet(<<t>> \o queue.fresh) = Adaptive!ToSet(queue.fresh) \cup {t}
  BY <1>3, <1>4, <1>5, Adaptive!AddHead DEF Adaptive!QueueOK
<1>8. /\ threads'.asleep = threads.asleep \cup {t}
      /\ threads'.timedout = threads.timedout
      /\ threads'.armed \subseteq threads.armed \cup {t}
      /\ threads' = [asleep |-> threads'.asleep, timedout |-> threads'.timedout,
                armed |-> threads'.armed]
  BY DEF Adaptive!Sleep, Adaptive!thread_sleep, Adaptive!TypeOK
<1>9. Queue'
  <2>1. queue' \in [fresh : Seq(Adaptive!Sleepers), woken : Seq(Adaptive!Sleepers),
                 pending : SUBSET Adaptive!Sleepers]'
    BY <1>3, <1>4, <1>6, <1>7 DEF Adaptive!TypeOK
  <2>2. threads' \in [asleep : SUBSET Adaptive!Sleepers, timedout : SUBSET Thread,
                 armed : SUBSET Adaptive!Sleepers]'
    BY <1>3, <1>8 DEF Adaptive!TypeOK
  <2> QED BY <2>1, <2>2 DEF Queue
<1>10. Adaptive!QueueOK'
  BY <1>3, <1>5, <1>6, <1>7, <1>8 DEF Adaptive!QueueOK, Adaptive!TypeOK
<1>11. Adaptive!TypeOK'
  BY <1>2, <1>9, Parts DEF Adaptive!TypeOK, Control, Queue
<1> QED BY <1>10, <1>11

LEMMA TimeoutSound ==
    ASSUME AInv, NEW t \in Thread, Adaptive!Timeout(t)
    PROVE  (Adaptive!TypeOK /\ Adaptive!QueueOK)'
<1> USE DEF AInv
<1>1. Adaptive!Sleepers' = Adaptive!Sleepers
  BY DEF Adaptive!Timeout, Adaptive!Sleepers
<1>2. /\ threads'.asleep \subseteq threads.asleep
      /\ threads'.timedout \subseteq Thread
      /\ threads'.armed \subseteq threads.armed
      /\ threads' = [asleep |-> threads'.asleep, timedout |-> threads'.timedout,
                armed |-> threads'.armed]
  BY DEF Adaptive!Timeout, Adaptive!thread_timeout, Adaptive!thread_wakeup_common,
         Adaptive!TypeOK
<1>3. Adaptive!TypeOK'
  BY <1>1, <1>2 DEF Adaptive!Timeout, Adaptive!TypeOK
<1>4. Adaptive!QueueOK'
  BY <1>1, <1>2 DEF Adaptive!Timeout, Adaptive!QueueOK
<1> QED BY <1>3, <1>4

(* What a waiter that leaves the list leaves behind. *)
LEMMA WaiterGone ==
    ASSUME AInv, NEW t \in Thread, Adaptive!WakeUp(t), Adaptive!WaitOver(queue, threads, t)
    PROVE  /\ place[t] = "asleep" /\ t \notin threads.asleep /\ t \notin off
           /\ place' = [place EXCEPT ![t] = IF t \in queue.pending THEN "spin" ELSE "failed"]
           /\ holder = Nobody /\ holder' = t
           /\ seen' = IF t \in queue.pending THEN seen ELSE [seen EXCEPT ![t] = Nobody]
           /\ UNCHANGED <<word, bounded, off>>
           /\ queue'.fresh = Adaptive!Without(queue.fresh, t)
           /\ queue'.woken = Adaptive!Without(queue.woken, t)
           /\ queue'.pending = queue.pending \ {t}
           /\ queue' = [fresh |-> queue'.fresh, woken |-> queue'.woken, pending |-> queue'.pending]
           /\ threads'.asleep \subseteq threads.asleep
           /\ threads.asleep \subseteq threads'.asleep \cup queue'.pending
           /\ threads'.timedout \subseteq threads.timedout
           /\ threads'.armed = threads.armed \ {t}
           /\ threads' = [asleep |-> threads'.asleep,
                          timedout |-> threads'.timedout, armed |-> threads'.armed]
<1> DEFINE q == Adaptive!sleepq_remove_waiter(queue, t)
<1>1. /\ queue' = q
      /\ threads' = Adaptive!ChainWakeup(q, Adaptive!thread_resume(threads, t))
      /\ holder = Nobody /\ holder' = t
      /\ UNCHANGED <<word, bounded, off>>
      /\ t \notin threads.asleep
      /\ Adaptive!Goto(t, "asleep", IF Adaptive!WaitTimedOut(queue, t) THEN "failed" ELSE "spin")
      /\ seen' = IF Adaptive!WaitTimedOut(queue, t) THEN [seen EXCEPT ![t] = Nobody] ELSE seen
  BY DEF Adaptive!WakeUp
<1>2. /\ place[t] = "asleep" /\ t \notin off
      /\ place' = [place EXCEPT ![t] = IF t \in queue.pending THEN "spin" ELSE "failed"]
      /\ seen' = IF t \in queue.pending THEN seen ELSE [seen EXCEPT ![t] = Nobody]
  BY <1>1 DEF Adaptive!Goto, Adaptive!WaitTimedOut
<1>3. /\ q.fresh = Adaptive!Without(queue.fresh, t)
      /\ q.woken = Adaptive!Without(queue.woken, t)
      /\ q.pending = queue.pending \ {t}
      /\ q = [fresh |-> q.fresh, woken |-> q.woken, pending |-> q.pending]
  BY DEF Adaptive!sleepq_remove_waiter
<1> HIDE DEF q
<1>4. /\ threads'.asleep \subseteq threads.asleep
      /\ threads.asleep \subseteq threads'.asleep \cup q.pending
      /\ threads'.timedout \subseteq threads.timedout
      /\ threads'.armed = threads.armed \ {t}
      /\ threads' = [asleep |-> threads'.asleep,
                     timedout |-> threads'.timedout, armed |-> threads'.armed]
  <2> DEFINE h == Adaptive!thread_resume(threads, t)
             w == Adaptive!Last(Adaptive!Waiters(q))
  <2>1. /\ h = [asleep |-> h.asleep, timedout |-> h.timedout, armed |-> h.armed]
        /\ h.asleep = threads.asleep /\ h.timedout \subseteq threads.timedout
        /\ h.armed = threads.armed \ {t}
    <3>1. h = [threads EXCEPT !.armed = @ \ {t}, !.timedout = @ \ {t}]
      BY DEF Adaptive!thread_resume
    <3>2. threads = [asleep |-> threads.asleep,
                     timedout |-> threads.timedout, armed |-> threads.armed]
      BY DEF AInv, Adaptive!TypeOK
    <3>3. h = [asleep |-> threads.asleep, timedout |-> threads.timedout \ {t},
               armed |-> threads.armed \ {t}]
      BY <3>1, <3>2
    <3> HIDE DEF h
    <3> QED BY <3>3
  <2>2. threads' = h \/ (w \in q.pending /\ threads' = Adaptive!thread_wakeup(h, w))
    BY <1>1 DEF Adaptive!ChainWakeup, Adaptive!sleepq_waiter_wakeup
  <2> HIDE DEF h, w
  <2>3. CASE threads' = h
    BY <2>1, <2>3
  <2>4. CASE w \in q.pending /\ threads' = Adaptive!thread_wakeup(h, w)
    <3>1. h = [asleep |-> h.asleep, timedout |-> h.timedout, armed |-> h.armed]
      BY <2>1
    <3>2. PICK k : /\ Adaptive!thread_wakeup(h, w) = k
                   /\ k.asleep = h.asleep \ {w}
                   /\ k.timedout \subseteq h.timedout
                   /\ k.armed = h.armed
                   /\ k = [asleep |-> k.asleep, timedout |-> k.timedout, armed |-> k.armed]
      BY <3>1, WokenUp
    <3>3. threads' = k
      BY <2>4, <3>2
    <3> QED BY <2>1, <2>4, <3>2, <3>3
  <2> QED BY <2>2, <2>3, <2>4
<1> QED BY <1>1, <1>2, <1>3, <1>4

LEMMA WakeUpSound ==
    ASSUME AInv, NEW t \in Thread, Adaptive!WakeUp(t)
    PROVE  (Adaptive!TypeOK /\ Adaptive!QueueOK)'
<1> USE DEF AInv
<1>1. CASE Adaptive!WaitOver(queue, threads, t)
  <2>1. /\ place[t] = "asleep" /\ t \notin threads.asleep /\ t \notin off
        /\ place' = [place EXCEPT ![t] = IF t \in queue.pending THEN "spin" ELSE "failed"]
        /\ holder = Nobody /\ holder' = t
        /\ seen' = IF t \in queue.pending THEN seen ELSE [seen EXCEPT ![t] = Nobody]
        /\ UNCHANGED <<word, bounded, off>>
    BY <1>1, WaiterGone
  <2>2. Control'
    BY <2>1, NobodyAssumption, Parts
       DEF Control, Adaptive!Labels, Adaptive!Inside, Adaptive!Owning, Adaptive!Passing
  <2>3. Adaptive!Sleepers' = Adaptive!Sleepers \ {t} /\ t \in Adaptive!Sleepers
    BY <2>1 DEF Adaptive!Sleepers, Adaptive!TypeOK
  <2>4. /\ queue'.fresh = Adaptive!Without(queue.fresh, t)
        /\ queue'.woken = Adaptive!Without(queue.woken, t)
        /\ queue'.pending = queue.pending \ {t}
        /\ queue' = [fresh |-> queue'.fresh, woken |-> queue'.woken, pending |-> queue'.pending]
    BY <1>1, WaiterGone
  <2>5. /\ queue'.fresh \in Seq(Adaptive!Sleepers') /\ Adaptive!IsInjective(queue'.fresh)
        /\ Adaptive!ToSet(queue'.fresh) = Adaptive!ToSet(queue.fresh) \ {t}
    <3>1. queue.fresh \in Seq(Adaptive!Sleepers) /\ Adaptive!IsInjective(queue.fresh)
      BY DEF Adaptive!QueueOK, Adaptive!TypeOK
    <3>2. /\ Adaptive!Without(queue.fresh, t) \in Seq(Adaptive!Sleepers \ {t})
          /\ Adaptive!IsInjective(Adaptive!Without(queue.fresh, t))
          /\ Adaptive!ToSet(Adaptive!Without(queue.fresh, t)) = Adaptive!ToSet(queue.fresh) \ {t}
      BY <3>1, Adaptive!RemoveWaiter
    <3> QED BY <2>3, <2>4, <3>2
  <2>6. /\ queue'.woken \in Seq(Adaptive!Sleepers') /\ Adaptive!IsInjective(queue'.woken)
        /\ Adaptive!ToSet(queue'.woken) = Adaptive!ToSet(queue.woken) \ {t}
    <3>1. queue.woken \in Seq(Adaptive!Sleepers) /\ Adaptive!IsInjective(queue.woken)
      BY DEF Adaptive!QueueOK, Adaptive!TypeOK
    <3>2. /\ Adaptive!Without(queue.woken, t) \in Seq(Adaptive!Sleepers \ {t})
          /\ Adaptive!IsInjective(Adaptive!Without(queue.woken, t))
          /\ Adaptive!ToSet(Adaptive!Without(queue.woken, t)) = Adaptive!ToSet(queue.woken) \ {t}
      BY <3>1, Adaptive!RemoveWaiter
    <3> QED BY <2>3, <2>4, <3>2
  <2>7. /\ threads'.asleep \subseteq threads.asleep
        /\ threads'.timedout \subseteq threads.timedout
        /\ threads'.armed = threads.armed \ {t}
        /\ threads' = [asleep |-> threads'.asleep,
                       timedout |-> threads'.timedout, armed |-> threads'.armed]
    BY <1>1, WaiterGone
  <2>8. Queue'
    <3>1. queue' \in [fresh : Seq(Adaptive!Sleepers), woken : Seq(Adaptive!Sleepers),
                   pending : SUBSET Adaptive!Sleepers]'
      BY <2>3, <2>4, <2>5, <2>6 DEF Adaptive!TypeOK
    <3>2. threads' \in [asleep : SUBSET Adaptive!Sleepers, timedout : SUBSET Thread,
                   armed : SUBSET Adaptive!Sleepers]'
      BY <2>1, <2>3, <2>7 DEF Adaptive!TypeOK
    <3> QED BY <3>1, <3>2 DEF Queue
  <2>9. Adaptive!QueueOK'
    BY <2>1, <2>3, <2>4, <2>5, <2>6, <2>7 DEF Adaptive!QueueOK
  <2>10. Adaptive!TypeOK'
    BY <2>2, <2>8 DEF Adaptive!TypeOK, Control, Queue
  <2> QED BY <2>9, <2>10
<1>2. CASE ~Adaptive!WaitOver(queue, threads, t)
  <2>1. /\ place' = [place EXCEPT ![t] = "asleep"] /\ place[t] = "asleep"
        /\ UNCHANGED <<queue, holder, seen, word, bounded, off>>
        /\ threads' = Adaptive!thread_sleep(Adaptive!thread_resume(threads, t), t, t \in bounded)
    BY <1>2 DEF Adaptive!WakeUp, Adaptive!Goto
  <2>2. place' = place
    BY <2>1 DEF Adaptive!TypeOK
  <2>3. /\ threads'.asleep = threads.asleep \cup {t}
        /\ threads'.timedout \subseteq threads.timedout
        /\ threads'.armed \subseteq threads.armed \cup {t}
        /\ threads' = [asleep |-> threads'.asleep, timedout |-> threads'.timedout,
                  armed |-> threads'.armed]
    BY <2>1 DEF Adaptive!thread_sleep, Adaptive!thread_resume, Adaptive!TypeOK
  <2>4. Adaptive!Sleepers' = Adaptive!Sleepers /\ t \in Adaptive!Sleepers
    BY <2>1, <2>2 DEF Adaptive!Sleepers
  <2>5. Adaptive!TypeOK'
    BY <2>1, <2>2, <2>3, <2>4 DEF Adaptive!TypeOK
  <2>6. Adaptive!QueueOK'
    BY <1>2, <2>1, <2>3, <2>4 DEF Adaptive!QueueOK, Adaptive!WaitOver
  <2> QED BY <2>5, <2>6
<1> QED BY <1>1, <1>2

(* What the signal of an unlock does, if there is somebody to pick. *)
LEMMA Signalled ==
    ASSUME AInv, NEW t \in Thread, Adaptive!Signal(t), holder = Nobody, queue.fresh /= <<>>
    PROVE  \E w \in Adaptive!Sleepers :
           /\ w \in Adaptive!ToSet(queue.fresh)
           /\ queue' = [fresh |-> Adaptive!Front(queue.fresh), woken |-> <<w>> \o queue.woken,
                     pending |-> queue.pending \cup {w}]
           /\ Adaptive!Front(queue.fresh) \in Seq(Adaptive!Sleepers)
           /\ Adaptive!IsInjective(Adaptive!Front(queue.fresh))
           /\ Adaptive!ToSet(Adaptive!Front(queue.fresh)) = Adaptive!ToSet(queue.fresh) \ {w}
           /\ <<w>> \o queue.woken \in Seq(Adaptive!Sleepers)
           /\ Adaptive!IsInjective(<<w>> \o queue.woken)
           /\ Adaptive!ToSet(<<w>> \o queue.woken) = Adaptive!ToSet(queue.woken) \cup {w}
           /\ <<w>> \o queue.woken /= <<>>
           /\ threads'.asleep = threads.asleep \ {w}
           /\ threads'.timedout \subseteq threads.timedout
           /\ threads'.armed = threads.armed
           /\ threads' = [asleep |-> threads'.asleep,
                          timedout |-> threads'.timedout, armed |-> threads'.armed]
<1> USE DEF AInv
<1> DEFINE w == Adaptive!Last(queue.fresh)
<1>1. /\ queue' = [fresh |-> Adaptive!Front(queue.fresh), woken |-> <<w>> \o queue.woken,
                pending |-> queue.pending \cup {w}]
      /\ threads' = Adaptive!thread_wakeup(threads, w)
  BY DEF Adaptive!Signal, Adaptive!sleepq_empty, Adaptive!sleepq_signal,
         Adaptive!sleepq_signal_wakeup
<1>2. /\ Adaptive!Front(queue.fresh) \in Seq(Adaptive!Sleepers)
      /\ Adaptive!IsInjective(Adaptive!Front(queue.fresh))
      /\ w \in Adaptive!ToSet(queue.fresh)
      /\ Adaptive!ToSet(Adaptive!Front(queue.fresh)) = Adaptive!ToSet(queue.fresh) \ {w}
  BY Adaptive!TakeLast DEF Adaptive!QueueOK, Adaptive!TypeOK
<1>3. w \in Adaptive!Sleepers /\ w \notin Adaptive!ToSet(queue.woken)
  BY <1>2 DEF Adaptive!QueueOK
<1> HIDE DEF w
<1>4. /\ <<w>> \o queue.woken \in Seq(Adaptive!Sleepers)
      /\ Adaptive!IsInjective(<<w>> \o queue.woken)
      /\ Adaptive!ToSet(<<w>> \o queue.woken) = Adaptive!ToSet(queue.woken) \cup {w}
      /\ <<w>> \o queue.woken /= <<>>
  BY <1>3, Adaptive!AddHead DEF Adaptive!QueueOK, Adaptive!TypeOK
<1>5. /\ threads'.asleep = threads.asleep \ {w}
      /\ threads'.timedout \subseteq threads.timedout
      /\ threads'.armed = threads.armed
      /\ threads' = [asleep |-> threads'.asleep, timedout |-> threads'.timedout,
                armed |-> threads'.armed]
  <2>1. threads = [asleep |-> threads.asleep,
                   timedout |-> threads.timedout, armed |-> threads.armed]
    BY DEF Adaptive!TypeOK
  <2> QED BY <1>1, <2>1, WokenUp
<1> QED BY <1>1, <1>2, <1>3, <1>4, <1>5

LEMMA SignalSound ==
    ASSUME AInv, NEW t \in Thread, Adaptive!Signal(t)
    PROVE  (Adaptive!TypeOK /\ Adaptive!QueueOK)'
<1> USE DEF AInv
<1>1. /\ place[t] = "signal" /\ t \notin off
      /\ \/ place' = [place EXCEPT ![t] = "idle"]
         \/ place' = [place EXCEPT ![t] = "check"]
      /\ UNCHANGED <<word, holder, seen, bounded, off>>
  BY DEF Adaptive!Signal, Adaptive!Goto
<1>2. Control' /\ Adaptive!Sleepers' = Adaptive!Sleepers
  BY <1>1, Parts
     DEF Control, Adaptive!Labels, Adaptive!Inside, Adaptive!Owning, Adaptive!Passing,
         Adaptive!Sleepers
<1>3. CASE holder = Nobody /\ queue.fresh /= <<>>
  <2>1. PICK w \in Adaptive!Sleepers :
           /\ w \in Adaptive!ToSet(queue.fresh)
           /\ queue' = [fresh |-> Adaptive!Front(queue.fresh), woken |-> <<w>> \o queue.woken,
                     pending |-> queue.pending \cup {w}]
           /\ Adaptive!Front(queue.fresh) \in Seq(Adaptive!Sleepers)
           /\ Adaptive!IsInjective(Adaptive!Front(queue.fresh))
           /\ Adaptive!ToSet(Adaptive!Front(queue.fresh)) = Adaptive!ToSet(queue.fresh) \ {w}
           /\ <<w>> \o queue.woken \in Seq(Adaptive!Sleepers)
           /\ Adaptive!IsInjective(<<w>> \o queue.woken)
           /\ Adaptive!ToSet(<<w>> \o queue.woken) = Adaptive!ToSet(queue.woken) \cup {w}
           /\ threads'.asleep = threads.asleep \ {w}
           /\ threads'.timedout \subseteq threads.timedout
           /\ threads'.armed = threads.armed
           /\ threads' = [asleep |-> threads'.asleep,
                          timedout |-> threads'.timedout, armed |-> threads'.armed]
    BY <1>3, Signalled
  <2>2. queue' \in [fresh : Seq(Adaptive!Sleepers), woken : Seq(Adaptive!Sleepers),
                 pending : SUBSET Adaptive!Sleepers]'
    BY <1>2, <2>1 DEF Adaptive!TypeOK
  <2>3. threads' \in [asleep : SUBSET Adaptive!Sleepers, timedout : SUBSET Thread,
                 armed : SUBSET Adaptive!Sleepers]'
    BY <1>2, <2>1 DEF Adaptive!TypeOK
  <2>4. /\ queue'.fresh = Adaptive!Front(queue.fresh)
        /\ queue'.woken = <<w>> \o queue.woken
        /\ queue'.pending = queue.pending \cup {w}
    BY <2>1
  <2>5. Adaptive!QueueOK'
    BY <1>2, <2>1, <2>4 DEF Adaptive!QueueOK
  <2>6. Adaptive!TypeOK'
    BY <1>2, <2>2, <2>3 DEF Adaptive!TypeOK, Control
  <2> QED BY <2>5, <2>6
<1>4. CASE ~(holder = Nobody /\ queue.fresh /= <<>>)
  <2>1. UNCHANGED <<queue, threads>>
    BY <1>4 DEF Adaptive!Signal, Adaptive!sleepq_signal, Adaptive!sleepq_signal_wakeup
  <2>2. Adaptive!QueueOK'
    BY <1>2, <2>1 DEF Adaptive!QueueOK
  <2>3. Adaptive!TypeOK'
    BY <1>2, <2>1, Parts DEF Adaptive!TypeOK, Control
  <2> QED BY <2>2, <2>3
<1> QED BY <1>3, <1>4

LEMMA AdaptiveSoundStep ==
    AInv /\ [Adaptive!Next]_Adaptive!vars => (Adaptive!TypeOK /\ Adaptive!QueueOK)'
<1> SUFFICES ASSUME AInv, [Adaptive!Next]_Adaptive!vars
             PROVE  (Adaptive!TypeOK /\ Adaptive!QueueOK)'
  OBVIOUS
<1>1. ASSUME NEW t \in Thread, Quiet(t) PROVE (Adaptive!TypeOK /\ Adaptive!QueueOK)'
  <2>1. Control' /\ UNCHANGED <<queue, threads>> /\ Adaptive!Sleepers' = Adaptive!Sleepers
    BY <1>1, QuietControl, Parts DEF AInv
  <2>2. Adaptive!TypeOK'
    BY <2>1 DEF AInv, Adaptive!TypeOK, Control
  <2>3. Adaptive!QueueOK'
    BY <2>1 DEF AInv, Adaptive!QueueOK
  <2> QED BY <2>2, <2>3
<1>2. ASSUME NEW t \in Thread,
             \/ Adaptive!Sleep(t) \/ Adaptive!Timeout(t)
             \/ Adaptive!WakeUp(t) \/ Adaptive!Signal(t)
      PROVE  (Adaptive!TypeOK /\ Adaptive!QueueOK)'
  BY <1>2, SleepSound, TimeoutSound, WakeUpSound, SignalSound
<1>3. CASE UNCHANGED Adaptive!vars
  BY <1>3 DEF Adaptive!vars, AInv, Adaptive!TypeOK, Adaptive!QueueOK, Adaptive!Sleepers
<1> QED BY <1>1, <1>2, <1>3, QuietSteps

--------------------------------------------------------------------------------

(* The word is kept by those who own the mutex or hold the bucket. *)
LEMMA WordStep == AInv /\ [Adaptive!Next]_Adaptive!vars => Adaptive!WordOK'
<1> SUFFICES ASSUME AInv, [Adaptive!Next]_Adaptive!vars PROVE Adaptive!WordOK'
  OBVIOUS
<1>a. Control
  BY Parts DEF AInv
<1>b. Adaptive!WordOK
  BY DEF AInv
<1>1. ASSUME NEW t \in Thread, Quiet(t) PROVE Adaptive!WordOK'
  <2>a. UNCHANGED <<queue, threads>>
    BY <1>a, <1>b, <1>1, QuietControl
  <2>b. Adaptive!sleepq_empty(queue)' <=> Adaptive!sleepq_empty(queue)
    BY <2>a DEF Adaptive!sleepq_empty
  <2> USE <1>a, <1>b, <2>b, NobodyAssumption
          DEF Control, Adaptive!WordOK, Adaptive!Goto, Adaptive!Inside, Adaptive!Owning
  <2>1. CASE Adaptive!LockFast(t)
    BY <2>1 DEF Adaptive!LockFast, Adaptive!Word, Adaptive!Unlocked
  <2>2. CASE Adaptive!LockSlow(t)
    BY <2>2 DEF Adaptive!LockSlow
  <2>3. CASE Adaptive!Lend(t)
    BY <2>3 DEF Adaptive!Lend
  <2>4. CASE Adaptive!mutex_adaptive_set_contended(t)
    BY <2>4 DEF Adaptive!mutex_adaptive_set_contended, Adaptive!Word
  <2>5. CASE Adaptive!Swap(t)
    BY <2>5 DEF Adaptive!Swap, Adaptive!Word, Adaptive!Marked
  <2>6. CASE Adaptive!mutex_adaptive_is_owner(t)
    BY <2>6 DEF Adaptive!mutex_adaptive_is_owner
  <2>7. CASE Adaptive!Spin(t)
    BY <2>7 DEF Adaptive!Spin
  <2>8. CASE Adaptive!Won(t)
    BY <2>8 DEF Adaptive!Won, Adaptive!Word
  <2>9. CASE Adaptive!LeaveMarked(t)
    BY <2>9 DEF Adaptive!LeaveMarked, Adaptive!Leave
  <2>10. CASE Adaptive!Failed(t)
    BY <2>10 DEF Adaptive!Failed
  <2>11. CASE Adaptive!Clear(t)
    BY <2>11, ClearMoves
  <2>12. CASE Adaptive!Reset(t)
    BY <2>12 DEF Adaptive!Reset, Adaptive!Leave, Adaptive!Unlocked, Adaptive!Word
  <2>13. CASE Adaptive!UnlockFast(t)
    BY <2>13 DEF Adaptive!UnlockFast, Adaptive!Unlocked, Adaptive!Word
  <2>14. CASE Adaptive!UnlockSlow(t)
    BY <2>14 DEF Adaptive!UnlockSlow, Adaptive!Marked, Adaptive!Word
  <2>15. CASE Adaptive!Check(t)
    BY <2>15 DEF Adaptive!Check
  <2>16. CASE Adaptive!Preempt(t)
    BY <2>16 DEF Adaptive!Preempt
  <2>17. CASE Adaptive!Dispatch(t)
    BY <2>17 DEF Adaptive!Dispatch
  <2> QED BY <1>1, <2>1, <2>2, <2>3, <2>4, <2>5, <2>6, <2>7, <2>8, <2>9, <2>10, <2>11,
             <2>12, <2>13, <2>14, <2>15, <2>16, <2>17 DEF Quiet
<1>2. ASSUME NEW t \in Thread, Adaptive!Sleep(t) PROVE Adaptive!WordOK'
  <2>1. /\ place' = [place EXCEPT ![t] = "asleep"] /\ place[t] = "look" /\ word' = word
        /\ holder = t
    BY <1>a, <1>2 DEF Adaptive!Sleep, Adaptive!Goto, Control, Adaptive!Inside
  <2>2. \A u \in Thread : place'[u] \notin {"clear", "reset"}
    BY <1>a, <2>1 DEF Control, Adaptive!Inside
  <2> QED BY <1>a, <1>b, <2>1, <2>2
             DEF Control, Adaptive!WordOK, Adaptive!Inside, Adaptive!Owning
<1>3. ASSUME NEW t \in Thread, Adaptive!Timeout(t) PROVE Adaptive!WordOK'
  <2>1. UNCHANGED <<place, word, queue>>
    BY <1>3 DEF Adaptive!Timeout
  <2> QED BY <1>b, <2>1 DEF Adaptive!WordOK, Adaptive!sleepq_empty
<1>4. ASSUME NEW t \in Thread, Adaptive!WakeUp(t) PROVE Adaptive!WordOK'
  <2>1. CASE Adaptive!WaitOver(queue, threads, t)
    <3>1. /\ place[t] = "asleep" /\ word' = word /\ holder = Nobody
          /\ place' = [place EXCEPT ![t] = IF t \in queue.pending THEN "spin" ELSE "failed"]
      BY <1>4, <2>1, WaiterGone
    <3>2. word.contended
      <4>1. t \in Adaptive!ToSet(queue.fresh) \cup Adaptive!ToSet(queue.woken)
        BY <3>1 DEF AInv, Adaptive!QueueOK, Adaptive!Sleepers
      <4>2. queue.fresh /= <<>> \/ queue.woken /= <<>>
        BY <4>1 DEF Adaptive!ToSet
      <4> QED BY <1>b, <4>2 DEF Adaptive!WordOK, Adaptive!sleepq_empty
    <3>3. \A u \in Thread : place'[u] \notin {"clear", "reset"}
      BY <1>a, <3>1, NobodyAssumption DEF Control, Adaptive!Inside
    <3> QED BY <1>a, <1>b, <3>1, <3>2, <3>3
               DEF Control, Adaptive!WordOK, Adaptive!Inside, Adaptive!Owning
  <2>2. CASE ~Adaptive!WaitOver(queue, threads, t)
    <3>1. /\ place' = [place EXCEPT ![t] = "asleep"] /\ place[t] = "asleep"
          /\ UNCHANGED <<queue, word>>
      BY <1>4, <2>2 DEF Adaptive!WakeUp, Adaptive!Goto
    <3>2. place' = place
      BY <1>a, <3>1 DEF Control
    <3> QED BY <1>b, <3>1, <3>2 DEF Adaptive!WordOK, Adaptive!sleepq_empty
  <2> QED BY <2>1, <2>2
<1>5. ASSUME NEW t \in Thread, Adaptive!Signal(t) PROVE Adaptive!WordOK'
  <2>1. /\ place[t] = "signal" /\ word' = word
        /\ \/ place' = [place EXCEPT ![t] = "idle"]
           \/ place' = [place EXCEPT ![t] = "check"]
    BY <1>5 DEF Adaptive!Signal, Adaptive!Goto
  <2>2. Adaptive!sleepq_empty(queue) => Adaptive!sleepq_empty(queue)'
    BY <1>5 DEF Adaptive!Signal, Adaptive!sleepq_empty
  <2> QED BY <1>a, <1>b, <2>1, <2>2
             DEF Control, Adaptive!WordOK, Adaptive!Inside, Adaptive!Owning
<1>6. CASE UNCHANGED Adaptive!vars
  BY <1>b, <1>6 DEF Adaptive!vars, Adaptive!WordOK, Adaptive!sleepq_empty
<1> QED BY <1>1, <1>2, <1>3, <1>4, <1>5, <1>6, QuietSteps

--------------------------------------------------------------------------------

(* A waiter that saw an owner finds the mutex passed on when it sleeps:    *)
(* the owner can release it only with the mark left on it, and then goes   *)
(* on trying until it has signalled a waiter or somebody owns it.          *)
LEMMA PassedStep ==
    AInv /\ Adaptive!PassedOn /\ [Adaptive!Next]_Adaptive!vars => Adaptive!PassedOn'
<1> SUFFICES ASSUME AInv, Adaptive!PassedOn, [Adaptive!Next]_Adaptive!vars
             PROVE  Adaptive!PassedOn'
  OBVIOUS
<1>a. Control /\ Adaptive!WordOK
  BY Parts DEF AInv
<1>b. word.contended \/ (queue.fresh = <<>> /\ \A t \in Thread : place[t] /= "look")
  BY <1>a DEF Adaptive!WordOK, Adaptive!sleepq_empty, Adaptive!Inside
<1>1. ASSUME NEW t \in Thread, Quiet(t) PROVE Adaptive!PassedOn'
  <2>a. UNCHANGED <<queue, threads>>
    BY <1>a, <1>1, QuietControl
  <2> USE <1>a, <1>b, <2>a
          DEF Control, Adaptive!PassedOn, Adaptive!Goto, Adaptive!Passing
  <2>1. CASE Adaptive!LockFast(t)
    BY <2>1 DEF Adaptive!LockFast, Adaptive!Word, Adaptive!Unlocked
  <2>2. CASE Adaptive!LockSlow(t)
    BY <2>2 DEF Adaptive!LockSlow
  <2>3. CASE Adaptive!Lend(t)
    BY <2>3 DEF Adaptive!Lend
  <2>4. CASE Adaptive!mutex_adaptive_set_contended(t)
    BY <2>4 DEF Adaptive!mutex_adaptive_set_contended, Adaptive!Word
  <2>5. CASE Adaptive!Swap(t)
    BY <2>5, NobodyAssumption DEF Adaptive!Swap, Adaptive!Word, Adaptive!Marked
  <2>6. CASE Adaptive!mutex_adaptive_is_owner(t)
    BY <2>6 DEF Adaptive!mutex_adaptive_is_owner
  <2>7. CASE Adaptive!Spin(t)
    BY <2>7 DEF Adaptive!Spin
  <2>8. CASE Adaptive!Won(t)
    BY <2>8, NobodyAssumption
       DEF Adaptive!Won, Adaptive!Word, Adaptive!WordOK, Adaptive!Owning
  <2>9. CASE Adaptive!LeaveMarked(t)
    BY <2>9 DEF Adaptive!LeaveMarked, Adaptive!Leave
  <2>10. CASE Adaptive!Failed(t)
    BY <2>10 DEF Adaptive!Failed
  <2>11. CASE Adaptive!Clear(t)
    <3>1. queue.fresh = <<>>
      BY <2>11, ClearMoves DEF Adaptive!WordOK, Adaptive!sleepq_empty
    <3>2. \A u \in Thread : place'[u] /= "look"
      BY <2>11, ClearMoves DEF Adaptive!Inside
    <3> QED BY <3>1, <3>2
  <2>12. CASE Adaptive!Reset(t)
    <3>1. queue.fresh = <<>>
      BY <2>12
         DEF Adaptive!Reset, Adaptive!Leave, Adaptive!WordOK, Adaptive!sleepq_empty
    <3>2. \A u \in Thread : place'[u] /= "look"
      BY <2>12 DEF Adaptive!Reset, Adaptive!Leave, Adaptive!Inside
    <3> QED BY <3>1, <3>2
  <2>13. CASE Adaptive!UnlockFast(t)
    BY <2>13 DEF Adaptive!UnlockFast, Adaptive!Unlocked, Adaptive!Word
  <2>14. CASE Adaptive!UnlockSlow(t)
    BY <2>14 DEF Adaptive!UnlockSlow, Adaptive!Marked, Adaptive!Word
  <2>15. CASE Adaptive!Check(t)
    BY <2>15 DEF Adaptive!Check, Adaptive!Marked, Adaptive!Word
  <2>16. CASE Adaptive!Preempt(t)
    BY <2>16 DEF Adaptive!Preempt
  <2>17. CASE Adaptive!Dispatch(t)
    BY <2>17 DEF Adaptive!Dispatch
  <2> QED BY <1>1, <2>1, <2>2, <2>3, <2>4, <2>5, <2>6, <2>7, <2>8, <2>9, <2>10, <2>11,
             <2>12, <2>13, <2>14, <2>15, <2>16, <2>17 DEF Quiet
<1>2. ASSUME NEW t \in Thread, Adaptive!Sleep(t) PROVE Adaptive!PassedOn'
  <2>1. /\ place' = [place EXCEPT ![t] = "asleep"] /\ place[t] = "look" /\ word' = word
        /\ holder = t /\ queue'.woken = queue.woken
    BY <1>a, <1>2
       DEF Adaptive!Sleep, Adaptive!Goto, Control, Adaptive!Inside,
           Adaptive!sleepq_add_waiter, AInv, Adaptive!TypeOK
  <2> QED BY <1>a, <2>1 DEF Adaptive!PassedOn, Control, Adaptive!Passing
<1>3. ASSUME NEW t \in Thread, Adaptive!Timeout(t) PROVE Adaptive!PassedOn'
  BY <1>3 DEF Adaptive!Timeout, Adaptive!PassedOn
<1>4. ASSUME NEW t \in Thread, Adaptive!WakeUp(t) PROVE Adaptive!PassedOn'
  <2>1. CASE Adaptive!WaitOver(queue, threads, t)
    <3>1. /\ place[t] = "asleep" /\ word' = word
          /\ place' = [place EXCEPT ![t] = IF t \in queue.pending THEN "spin" ELSE "failed"]
          /\ queue'.fresh = Adaptive!Without(queue.fresh, t)
          /\ queue'.woken = Adaptive!Without(queue.woken, t)
      BY <1>4, <2>1, WaiterGone
    <3>2. CASE t \in queue.pending
      <4>1. place'[t] = "spin"
        BY <1>a, <3>1, <3>2 DEF Control
      <4> QED BY <4>1 DEF Adaptive!PassedOn
    <3>3. CASE t \notin queue.pending
      <4>1. queue'.woken = queue.woken
        <5>1. /\ queue.woken \in Seq(Adaptive!Sleepers) /\ Adaptive!IsInjective(queue.woken)
              /\ t \notin Adaptive!ToSet(queue.woken)
          BY <3>3 DEF AInv, Adaptive!QueueOK, Adaptive!TypeOK
        <5>2. Adaptive!Without(queue.woken, t) = queue.woken
          BY <5>1, Adaptive!RemoveWaiter
        <5> QED BY <3>1, <5>2
      <4>2. queue.fresh = <<>> => queue'.fresh = <<>>
        BY <3>1 DEF Adaptive!Without
      <4> QED BY <1>a, <3>1, <3>3, <4>1, <4>2
                 DEF Adaptive!PassedOn, Control, Adaptive!Passing
    <3> QED BY <3>2, <3>3
  <2>2. CASE ~Adaptive!WaitOver(queue, threads, t)
    <3>1. /\ place' = [place EXCEPT ![t] = "asleep"] /\ place[t] = "asleep"
          /\ UNCHANGED <<queue, word>>
      BY <1>4, <2>2 DEF Adaptive!WakeUp, Adaptive!Goto
    <3>2. place' = place
      BY <1>a, <3>1 DEF Control
    <3> QED BY <3>1, <3>2 DEF Adaptive!PassedOn
  <2> QED BY <2>1, <2>2
<1>5. ASSUME NEW t \in Thread, Adaptive!Signal(t) PROVE Adaptive!PassedOn'
  <2>1. CASE holder = Nobody /\ queue.fresh /= <<>>
    <3>1. PICK w \in Adaptive!Sleepers :
              /\ queue' = [fresh |-> Adaptive!Front(queue.fresh), woken |-> <<w>> \o queue.woken,
                        pending |-> queue.pending \cup {w}]
              /\ <<w>> \o queue.woken /= <<>>
      BY <1>5, <2>1, Signalled
    <3>2. queue'.woken /= <<>>
      BY <3>1
    <3> QED BY <3>2 DEF Adaptive!PassedOn
  <2>2. CASE ~(holder = Nobody /\ queue.fresh /= <<>>)
    <3>1. UNCHANGED <<queue, word>>
      BY <1>5, <2>2 DEF Adaptive!Signal, Adaptive!sleepq_signal
    <3>2. CASE holder = Nobody
      <4>1. queue.fresh = <<>>
        BY <2>2, <3>2
      <4>2. \A u \in Thread : place'[u] /= "look"
        BY <1>a, <1>5, <3>2, NobodyAssumption
           DEF Adaptive!Signal, Adaptive!Goto, Control, Adaptive!Inside
      <4> QED BY <3>1, <4>1, <4>2 DEF Adaptive!PassedOn
    <3>3. CASE holder /= Nobody
      <4>1. place' = [place EXCEPT ![t] = "check"]
        BY <1>5, <3>3 DEF Adaptive!Signal, Adaptive!Goto
      <4>2. place'[t] \in Adaptive!Passing
        BY <1>a, <4>1 DEF Control, Adaptive!Passing
      <4> QED BY <4>2 DEF Adaptive!PassedOn
    <3> QED BY <3>2, <3>3
  <2> QED BY <2>1, <2>2
<1>6. CASE UNCHANGED Adaptive!vars
  BY <1>6 DEF Adaptive!vars, Adaptive!PassedOn
<1> QED BY <1>1, <1>2, <1>3, <1>4, <1>5, <1>6, QuietSteps

--------------------------------------------------------------------------------

(* A call without time boundary has no timer, and does not fail. *)
LEMMA BoundedStep ==
    AInv /\ Adaptive!OnlyTimedCallsFail /\ [Adaptive!Next]_Adaptive!vars
        => Adaptive!OnlyTimedCallsFail'
<1> SUFFICES ASSUME AInv, Adaptive!OnlyTimedCallsFail, [Adaptive!Next]_Adaptive!vars
             PROVE  Adaptive!OnlyTimedCallsFail'
  OBVIOUS
<1>a. Control /\ Queue /\ Adaptive!WordOK
  BY Parts DEF AInv
<1>1. ASSUME NEW t \in Thread, Quiet(t) PROVE Adaptive!OnlyTimedCallsFail'
  <2>a. UNCHANGED <<queue, threads>>
    BY <1>a, <1>1, QuietControl
  <2> USE <1>a, <2>a DEF Control, Adaptive!OnlyTimedCallsFail, Adaptive!Goto
  <2>1. CASE Adaptive!LockFast(t)
    BY <2>1 DEF Adaptive!LockFast
  <2>2. CASE Adaptive!LockSlow(t)
    <3>1. \A u \in Thread \ bounded' : u = t \/ u \in Thread \ bounded
      BY <2>2 DEF Adaptive!LockSlow
    <3>2. place'[t] = "lend" /\ t \notin threads.armed
      BY <2>2 DEF Adaptive!LockSlow, Queue, Adaptive!Sleepers
    <3> QED BY <2>2, <3>1, <3>2 DEF Adaptive!LockSlow
  <2>3. CASE Adaptive!Lend(t)
    BY <2>3 DEF Adaptive!Lend
  <2>4. CASE Adaptive!mutex_adaptive_set_contended(t)
    BY <2>4 DEF Adaptive!mutex_adaptive_set_contended
  <2>5. CASE Adaptive!Swap(t)
    BY <2>5 DEF Adaptive!Swap
  <2>6. CASE Adaptive!mutex_adaptive_is_owner(t)
    BY <2>6 DEF Adaptive!mutex_adaptive_is_owner
  <2>7. CASE Adaptive!Spin(t)
    BY <2>7 DEF Adaptive!Spin
  <2>8. CASE Adaptive!Won(t)
    BY <2>8 DEF Adaptive!Won
  <2>9. CASE Adaptive!LeaveMarked(t)
    BY <2>9 DEF Adaptive!LeaveMarked, Adaptive!Leave
  <2>10. CASE Adaptive!Failed(t)
    BY <2>10 DEF Adaptive!Failed
  <2>11. CASE Adaptive!Clear(t)
    BY <2>11, ClearMoves
  <2>12. CASE Adaptive!Reset(t)
    BY <2>12 DEF Adaptive!Reset, Adaptive!Leave
  <2>13. CASE Adaptive!UnlockFast(t)
    BY <2>13 DEF Adaptive!UnlockFast
  <2>14. CASE Adaptive!UnlockSlow(t)
    BY <2>14 DEF Adaptive!UnlockSlow
  <2>15. CASE Adaptive!Check(t)
    BY <2>15 DEF Adaptive!Check
  <2>16. CASE Adaptive!Preempt(t)
    BY <2>16 DEF Adaptive!Preempt
  <2>17. CASE Adaptive!Dispatch(t)
    BY <2>17 DEF Adaptive!Dispatch
  <2> QED BY <1>1, <2>1, <2>2, <2>3, <2>4, <2>5, <2>6, <2>7, <2>8, <2>9, <2>10, <2>11,
             <2>12, <2>13, <2>14, <2>15, <2>16, <2>17 DEF Quiet
<1>2. ASSUME NEW t \in Thread, Adaptive!Sleep(t) PROVE Adaptive!OnlyTimedCallsFail'
  <2>1. /\ threads'.asleep = threads.asleep \cup {t}
        /\ queue'.pending = queue.pending
        /\ threads'.armed = IF t \in bounded THEN threads.armed \cup {t} ELSE threads.armed
        /\ bounded' = bounded
        /\ place' = [place EXCEPT ![t] = "asleep"]
    BY <1>a, <1>2
       DEF Adaptive!Sleep, Adaptive!Goto, Adaptive!sleepq_add_waiter,
           Adaptive!thread_sleep, Queue
  <2> QED BY <1>a, <2>1 DEF Adaptive!OnlyTimedCallsFail, Control
<1>3. ASSUME NEW t \in Thread, Adaptive!Timeout(t) PROVE Adaptive!OnlyTimedCallsFail'
  <2>1. t \in bounded
    BY <1>3 DEF Adaptive!Timeout, Adaptive!OnlyTimedCallsFail
  <2>2. /\ threads'.armed \subseteq threads.armed
        /\ \A u \in threads.asleep : u /= t => u \in threads'.asleep
    BY <1>a, <1>3
       DEF Adaptive!Timeout, Adaptive!thread_timeout, Adaptive!thread_wakeup_common,
           Queue
  <2> QED BY <1>3, <2>1, <2>2 DEF Adaptive!Timeout, Adaptive!OnlyTimedCallsFail
<1>4. ASSUME NEW t \in Thread, Adaptive!WakeUp(t) PROVE Adaptive!OnlyTimedCallsFail'
  <2>1. CASE Adaptive!WaitOver(queue, threads, t)
    <3>1. /\ place[t] = "asleep" /\ t \notin threads.asleep
          /\ place' = [place EXCEPT ![t] = IF t \in queue.pending THEN "spin" ELSE "failed"]
          /\ bounded' = bounded
          /\ queue'.pending = queue.pending \ {t}
          /\ threads.asleep \subseteq threads'.asleep \cup queue'.pending
          /\ threads'.armed = threads.armed \ {t}
      BY <1>4, <2>1, WaiterGone
    <3>2. t \in bounded \/ place'[t] = "spin"
      BY <1>a, <3>1 DEF Adaptive!OnlyTimedCallsFail, Control
    <3> QED BY <1>a, <3>1, <3>2 DEF Adaptive!OnlyTimedCallsFail, Control
  <2>2. CASE ~Adaptive!WaitOver(queue, threads, t)
    <3>1. /\ place' = [place EXCEPT ![t] = "asleep"] /\ place[t] = "asleep"
          /\ UNCHANGED <<queue, bounded>>
          /\ threads' = Adaptive!thread_sleep(Adaptive!thread_resume(threads, t), t, t \in bounded)
      BY <1>4, <2>2 DEF Adaptive!WakeUp, Adaptive!Goto
    <3>2. place' = place
      BY <1>a, <3>1 DEF Control
    <3>3. /\ threads'.asleep = threads.asleep \cup {t}
          /\ t \in bounded => threads'.armed \subseteq threads.armed \cup {t}
          /\ t \notin bounded => threads'.armed \subseteq threads.armed
      BY <1>a, <3>1 DEF Adaptive!thread_sleep, Adaptive!thread_resume, Queue
    <3> QED BY <3>1, <3>2, <3>3 DEF Adaptive!OnlyTimedCallsFail
  <2> QED BY <2>1, <2>2
<1>5. ASSUME NEW t \in Thread, Adaptive!Signal(t) PROVE Adaptive!OnlyTimedCallsFail'
  <2>1. /\ \/ place' = [place EXCEPT ![t] = "idle"]
           \/ place' = [place EXCEPT ![t] = "check"]
        /\ bounded' = bounded
    BY <1>5 DEF Adaptive!Signal, Adaptive!Goto
  <2>2. CASE holder = Nobody /\ queue.fresh /= <<>>
    <3>1. PICK w \in Adaptive!Sleepers :
              /\ queue' = [fresh |-> Adaptive!Front(queue.fresh), woken |-> <<w>> \o queue.woken,
                        pending |-> queue.pending \cup {w}]
              /\ threads'.asleep = threads.asleep \ {w}
              /\ threads'.armed = threads.armed
      BY <1>5, <2>2, Signalled
    <3>2. queue'.pending = queue.pending \cup {w}
      BY <3>1
    <3> QED BY <1>a, <2>1, <3>1, <3>2 DEF Adaptive!OnlyTimedCallsFail, Control
  <2>3. CASE ~(holder = Nobody /\ queue.fresh /= <<>>)
    <3>1. UNCHANGED <<queue, threads>>
      BY <1>5, <2>3
         DEF Adaptive!Signal, Adaptive!sleepq_signal, Adaptive!sleepq_signal_wakeup
    <3> QED BY <1>a, <2>1, <3>1 DEF Adaptive!OnlyTimedCallsFail, Control
  <2> QED BY <2>2, <2>3
<1>6. CASE UNCHANGED Adaptive!vars
  BY <1>6 DEF Adaptive!vars, Adaptive!OnlyTimedCallsFail
<1> QED BY <1>1, <1>2, <1>3, <1>4, <1>5, <1>6, QuietSteps

--------------------------------------------------------------------------------

(* The owner that callers see is the one in the word. *)
OwnerNamed == Adaptive!owner = word.owner

LEMMA WordIsOwner == Adaptive!TypeOK /\ Adaptive!WordOK => OwnerNamed
<1> SUFFICES ASSUME Adaptive!TypeOK, Adaptive!WordOK PROVE Adaptive!owner = word.owner
  BY DEF OwnerNamed
<1> DEFINE Has(t) == place[t] \in Adaptive!Owning \cup {"won"}
<1>1. CASE word.owner \in Thread
  <2>1. \A t \in Thread : Has(t) <=> t = word.owner
    BY <1>1 DEF Adaptive!WordOK
  <2>2. (CHOOSE t \in Thread : Has(t)) = word.owner
    BY <1>1, <2>1
  <2> QED BY <1>1, <2>1, <2>2 DEF Adaptive!owner
<1>2. CASE word.owner = Nobody
  <2>1. \A t \in Thread : ~Has(t)
    BY <1>2, NobodyAssumption DEF Adaptive!WordOK
  <2> QED BY <1>2, <2>1 DEF Adaptive!owner
<1> QED BY <1>1, <1>2 DEF Adaptive!TypeOK

LEMMA WordIsOwnerNext == Adaptive!TypeOK' /\ Adaptive!WordOK' => OwnerNamed'
BY WordIsOwner, PTL

(* What callers see of the mutex. *)
Public == <<Adaptive!owner, Adaptive!waiting, Adaptive!waiting \ bounded>>

(* Each step of the code is a step of the abstract lock, or none at all. *)
LEMMA AdaptiveMapping ==
    AInv /\ Adaptive!OnlyTimedCallsFail /\ AInv' /\ [Adaptive!Next]_Adaptive!vars
        => Adaptive!MutexStep
<1> SUFFICES ASSUME AInv, Adaptive!OnlyTimedCallsFail, AInv',
                    [Adaptive!Next]_Adaptive!vars
             PROVE  Adaptive!Abs!MNext \/ UNCHANGED Public
  BY DEF Public, Adaptive!MutexStep, Adaptive!Abs!mvars
<1>a. Adaptive!owner = word.owner /\ Adaptive!owner' = word'.owner
  BY WordIsOwner, WordIsOwnerNext DEF AInv, OwnerNamed
<1>b. Control /\ Adaptive!WordOK
  BY Parts DEF AInv
<1> USE <1>a, <1>b DEF Control, Public, Adaptive!waiting, Adaptive!Goto, Adaptive!Inside
(* The acquisitions: the fast path's, and the swap that finds it free. *)
<1>1. ASSUME NEW t \in Thread, Adaptive!LockFast(t) PROVE Adaptive!Abs!MNext
  <2>1. Adaptive!owner = Nobody /\ Adaptive!owner' = t
    BY <1>1 DEF Adaptive!LockFast, Adaptive!Unlocked, Adaptive!Word
  <2>2. t \notin Adaptive!waiting /\ Adaptive!waiting' = Adaptive!waiting /\ bounded' = bounded
    BY <1>1 DEF Adaptive!LockFast
  <2>3. Adaptive!Abs!Acquire(t)
    BY <2>1, <2>2 DEF Adaptive!Abs!Acquire
  <2> QED BY <2>3 DEF Adaptive!Abs!MNext
<1>2. ASSUME NEW t \in Thread, Adaptive!Swap(t) PROVE
        Adaptive!Abs!MNext \/ UNCHANGED Public
  <2>1. CASE word = Adaptive!Marked
    <3>1. Adaptive!owner = Nobody /\ Adaptive!owner' = t
      BY <1>2, <2>1 DEF Adaptive!Swap, Adaptive!Marked, Adaptive!Word
    <3>2. Adaptive!waiting' = Adaptive!waiting \ {t} /\ bounded' = bounded
      BY <1>2, <2>1 DEF Adaptive!Swap
    <3>3. Adaptive!Abs!Acquire(t)
      BY <3>1, <3>2 DEF Adaptive!Abs!Acquire
    <3> QED BY <3>3 DEF Adaptive!Abs!MNext
  <2>2. CASE word /= Adaptive!Marked
    <3>1. Adaptive!owner' = Adaptive!owner
      BY <1>2, <2>2 DEF Adaptive!Swap
    <3>2. Adaptive!waiting' = Adaptive!waiting /\ bounded' = bounded
      BY <1>2, <2>2 DEF Adaptive!Swap
    <3> QED BY <3>1, <3>2
  <2> QED BY <2>1, <2>2
<1>3. ASSUME NEW t \in Thread, Adaptive!LockSlow(t) PROVE Adaptive!Abs!MNext
  <2>1. Adaptive!owner' = Adaptive!owner /\ Adaptive!owner /= t
    BY <1>3 DEF Adaptive!LockSlow, Adaptive!WordOK, Adaptive!Owning
  <2>2. t \notin Adaptive!waiting /\ Adaptive!waiting' = Adaptive!waiting \cup {t}
    BY <1>3 DEF Adaptive!LockSlow
  <2>3. (Adaptive!waiting \ bounded)'
            \in {Adaptive!waiting \ bounded, (Adaptive!waiting \ bounded) \cup {t}}
    BY <1>3, <2>2 DEF Adaptive!LockSlow
  <2>4. Adaptive!Abs!Request(t)
    BY <2>1, <2>2, <2>3 DEF Adaptive!Abs!Request
  <2> QED BY <2>4 DEF Adaptive!Abs!MNext
(* The returns of a call whose time is over. *)
<1>4. ASSUME NEW t \in Thread, NEW from \in {"failed", "clear", "reset"},
             Adaptive!Leave(t, from), word'.owner = word.owner
      PROVE  Adaptive!Abs!MNext
  <2>1. Adaptive!owner' = Adaptive!owner
    BY <1>4
  <2>2. t \in Adaptive!waiting /\ Adaptive!waiting' = Adaptive!waiting \ {t} /\ bounded' = bounded
    BY <1>4 DEF Adaptive!Leave
  <2>3. t \in bounded
    BY <1>4 DEF Adaptive!Leave, Adaptive!OnlyTimedCallsFail
  <2>4. Adaptive!Abs!GiveUp(t)
    BY <2>1, <2>2, <2>3 DEF Adaptive!Abs!GiveUp
  <2> QED BY <2>4 DEF Adaptive!Abs!MNext
<1>5. ASSUME NEW t \in Thread, Adaptive!LeaveMarked(t) \/ Adaptive!Reset(t) PROVE Adaptive!Abs!MNext
  <2>1. CASE Adaptive!LeaveMarked(t)
    BY <1>4, <2>1 DEF Adaptive!LeaveMarked
  <2>2. CASE Adaptive!Reset(t)
    <3>1. Adaptive!Leave(t, "reset") /\ word'.owner = Nobody
      BY <2>2 DEF Adaptive!Reset, Adaptive!Unlocked, Adaptive!Word
    <3>2. word.owner = Nobody
      BY <3>1 DEF Adaptive!Leave, Adaptive!WordOK
    <3> QED BY <1>4, <3>1, <3>2
  <2> QED BY <1>5, <2>1, <2>2
<1>6. ASSUME NEW t \in Thread, Adaptive!Clear(t) PROVE
        Adaptive!Abs!MNext \/ UNCHANGED Public
  <2>1. CASE word.owner /= Nobody
    <3>1. Adaptive!Leave(t, "clear") /\ word'.owner = word.owner
      BY <1>6, <2>1 DEF Adaptive!Clear, Adaptive!Word
    <3> QED BY <1>4, <3>1
  <2>2. CASE word.owner = Nobody
    <3>1. /\ Adaptive!owner' = Adaptive!owner /\ bounded' = bounded
          /\ Adaptive!waiting' = Adaptive!waiting
      BY <1>6, <2>2 DEF Adaptive!Clear
    <3> QED BY <3>1
  <2> QED BY <2>1, <2>2
(* The releases, on the fast path and on the slow one. *)
<1>7. ASSUME NEW t \in Thread, Adaptive!UnlockFast(t) PROVE
        Adaptive!Abs!MNext \/ UNCHANGED Public
  <2>1. Adaptive!waiting' = Adaptive!waiting /\ bounded' = bounded
    BY <1>7 DEF Adaptive!UnlockFast
  <2>2. CASE word.contended
    <3>1. Adaptive!owner' = Adaptive!owner
      BY <1>7, <2>2 DEF Adaptive!UnlockFast
    <3> QED BY <2>1, <3>1
  <2>3. CASE ~word.contended
    <3>1. Adaptive!owner = t /\ Adaptive!owner' = Nobody
      BY <1>7, <2>3
         DEF Adaptive!UnlockFast, Adaptive!WordOK, Adaptive!Owning, Adaptive!Unlocked,
             Adaptive!Word
    <3>2. Adaptive!Abs!Release(t)
      BY <2>1, <3>1 DEF Adaptive!Abs!Release
    <3> QED BY <3>2 DEF Adaptive!Abs!MNext
  <2> QED BY <2>2, <2>3
<1>8. ASSUME NEW t \in Thread, Adaptive!UnlockSlow(t) PROVE
        Adaptive!Abs!MNext \/ UNCHANGED Public
  <2>1. Adaptive!waiting' = Adaptive!waiting /\ bounded' = bounded
    BY <1>8 DEF Adaptive!UnlockSlow
  <2>2. CASE ~word.contended
    <3>1. Adaptive!owner' = Adaptive!owner
      BY <1>8, <2>2 DEF Adaptive!UnlockSlow
    <3> QED BY <2>1, <3>1
  <2>3. CASE word.contended
    <3>1. Adaptive!owner = t /\ Adaptive!owner' = Nobody
      BY <1>8, <2>3
         DEF Adaptive!UnlockSlow, Adaptive!WordOK, Adaptive!Owning, Adaptive!Marked,
             Adaptive!Word
    <3>2. Adaptive!Abs!Release(t)
      BY <2>1, <3>1 DEF Adaptive!Abs!Release
    <3> QED BY <3>2 DEF Adaptive!Abs!MNext
  <2> QED BY <2>2, <2>3
(* Everything else is invisible to a user of the lock. *)
<1>9. ASSUME NEW t \in Thread,
             \/ Adaptive!Lend(t) \/ Adaptive!mutex_adaptive_is_owner(t)
             \/ Adaptive!Spin(t) \/ Adaptive!Sleep(t)
             \/ Adaptive!Failed(t) \/ Adaptive!Check(t) \/ Adaptive!Signal(t)
      PROVE  UNCHANGED Public
  <2>1. Adaptive!owner' = Adaptive!owner
    BY <1>9
       DEF Adaptive!Lend, Adaptive!mutex_adaptive_is_owner, Adaptive!Spin,
           Adaptive!Sleep, Adaptive!Failed, Adaptive!Check, Adaptive!Signal
  <2>2. bounded' = bounded
    BY <1>9
       DEF Adaptive!Lend, Adaptive!mutex_adaptive_is_owner, Adaptive!Spin,
           Adaptive!Sleep, Adaptive!Failed, Adaptive!Check, Adaptive!Signal
  <2>3. Adaptive!waiting' = Adaptive!waiting
    BY <1>9
       DEF Adaptive!Lend, Adaptive!mutex_adaptive_is_owner, Adaptive!Spin,
           Adaptive!Sleep, Adaptive!Failed, Adaptive!Check, Adaptive!Signal
  <2> QED BY <2>1, <2>2, <2>3
<1>10. ASSUME NEW t \in Thread,
              \/ Adaptive!mutex_adaptive_set_contended(t) \/ Adaptive!Won(t)
              \/ Adaptive!Timeout(t) \/ Adaptive!Preempt(t) \/ Adaptive!Dispatch(t)
      PROVE  UNCHANGED Public
  <2>1. Adaptive!owner' = Adaptive!owner
    BY <1>10
       DEF Adaptive!mutex_adaptive_set_contended, Adaptive!Won, Adaptive!Timeout,
           Adaptive!Preempt, Adaptive!Dispatch, Adaptive!Word,
                 Adaptive!WordOK, Adaptive!Owning
  <2>2. bounded' = bounded
    BY <1>10
       DEF Adaptive!mutex_adaptive_set_contended, Adaptive!Won, Adaptive!Timeout,
           Adaptive!Preempt, Adaptive!Dispatch
  <2>3. Adaptive!waiting' = Adaptive!waiting
    BY <1>10
       DEF Adaptive!mutex_adaptive_set_contended, Adaptive!Won, Adaptive!Timeout,
           Adaptive!Preempt, Adaptive!Dispatch
  <2> QED BY <2>1, <2>2, <2>3
<1>11. ASSUME NEW t \in Thread, Adaptive!WakeUp(t)
       PROVE  UNCHANGED Public
  <2>1. UNCHANGED <<word, bounded>>
    BY <1>11 DEF Adaptive!WakeUp
  <2>2. \E to \in {"failed", "spin", "asleep"} : Adaptive!Goto(t, "asleep", to)
    BY <1>11 DEF Adaptive!WakeUp
  <2>3. Adaptive!waiting' = Adaptive!waiting
    BY <2>2
  <2> QED BY <2>1, <2>3
<1>12. CASE UNCHANGED Adaptive!vars
  <2>1. Adaptive!waiting' = Adaptive!waiting
    BY <1>12 DEF Adaptive!vars
  <2>2. Adaptive!owner' = Adaptive!owner /\ bounded' = bounded
    BY <1>12 DEF Adaptive!vars
  <2> QED BY <2>1, <2>2
<1> QED BY <1>1, <1>2, <1>3, <1>5, <1>6, <1>7, <1>8, <1>9, <1>10, <1>11, <1>12
           DEF Adaptive!Next

--------------------------------------------------------------------------------

(* A waiter on the list is not forgotten, and the assertions hold.         *)
LEMMA AdaptiveHolds ==
    ASSUME AInv, Adaptive!PassedOn
    PROVE  Adaptive!QueueOK /\ Adaptive!NoLostWakeup /\ Adaptive!AssertsHold
<1>1. Adaptive!TypeOK /\ Adaptive!QueueOK /\ Adaptive!WordOK
  BY DEF AInv
<1>2. Adaptive!NoLostWakeup
  <2> SUFFICES ASSUME queue.fresh /= <<>> PROVE Adaptive!NoLostWakeup
    BY DEF Adaptive!NoLostWakeup
  <2>1. word.contended
    BY <1>1 DEF Adaptive!WordOK, Adaptive!sleepq_empty
  <2>2. \/ word.owner /= Nobody
        \/ queue.woken /= <<>>
        \/ \E t \in Thread : place[t] \in Adaptive!Passing \cup {"mark", "swap", "spin"}
    BY DEF Adaptive!PassedOn
  <2> QED BY <2>1, <2>2 DEF Adaptive!NoLostWakeup
<1>3. Adaptive!AssertsHold
  <2>1. ASSUME NEW t \in Thread, place[t] = "reset" PROVE word = Adaptive!Marked
    <3>1. word.contended /\ word.owner = Nobody
      BY <1>1, <2>1 DEF Adaptive!WordOK, Adaptive!Inside
    <3> QED BY <1>1, <3>1 DEF Adaptive!TypeOK, Adaptive!Marked, Adaptive!Word
  <2> QED
    BY <1>1, <2>1 DEF Adaptive!AssertsHold, Adaptive!WordOK, Adaptive!Inside, Adaptive!Owning
<1> QED BY <1>1, <1>2, <1>3

HIDE DEF word, holder, queue, threads, place, seen, bounded, off

--------------------------------------------------------------------------------
(* Both mutexes in the system that has them all. *)

AdaptiveInv ==
    which = "adaptive" => AInv /\ Adaptive!PassedOn /\ Adaptive!OnlyTimedCallsFail

LEMMA AdaptiveInit == ASSUME AllInit PROVE AdaptiveInv
BY AdaptiveStart DEF AllInit, AdaptiveInv

LEMMA AdaptiveMoves ==
    ASSUME [AllNext]_all, which = "adaptive"
    PROVE  [Adaptive!Next]_Adaptive!vars
BY DEF AllNext, all, others, Adaptive!vars

LEMMA AdaptiveStep == ASSUME AdaptiveInv, [AllNext]_all PROVE AdaptiveInv'
<1> SUFFICES ASSUME which' = "adaptive"
             PROVE  (AInv /\ Adaptive!PassedOn /\ Adaptive!OnlyTimedCallsFail)'
  BY DEF AdaptiveInv
<1>1. which = "adaptive"
  BY DEF AllNext, Rest, all, others
<1>2. AInv /\ Adaptive!PassedOn /\ Adaptive!OnlyTimedCallsFail
  BY <1>1 DEF AdaptiveInv
<1>3. [Adaptive!Next]_Adaptive!vars
  BY <1>1, AdaptiveMoves
<1>4. AInv'
  BY <1>2, <1>3, AdaptiveSoundStep, WordStep DEF AInv
<1> QED BY <1>2, <1>3, <1>4, PassedStep, BoundedStep

LEMMA AdaptiveInvKept == AllSpec => []AdaptiveInv
<1>1. AllInit => AdaptiveInv
  BY AdaptiveInit
<1>2. AdaptiveInv /\ [AllNext]_all => AdaptiveInv'
  BY AdaptiveStep
<1> QED BY <1>1, <1>2, PTL DEF AllSpec

(* Whatever the waiters of an adaptive mutex read of its owner before they *)
(* decide to spin or to sleep, none sleeps while nobody will wake it up;   *)
(* the mark is on the word whenever the slow paths assert that it is.      *)
THEOREM AdaptiveKept == AllSpec => []AdaptiveSound
<1>1. AdaptiveInv => AdaptiveSound
  BY AdaptiveHolds DEF AdaptiveInv, AdaptiveSound
<1> QED BY <1>1, AdaptiveInvKept, PTL

(* Both mutexes implement the lock that kern/mutex.h promises: it has one  *)
(* owner, only a thread that asked gets it, and only timed calls give up.  *)
THEOREM MutexesKept == AllSpec => ImplementsMutexes
<1>1. AllInit => Init
  BY DEF AllInit
<1>2. [AllNext]_all => [Next]_vars
  BY DEF AllNext, Rest, all, others, vars
<1>3. AllInit => (which = "adaptive" => Adaptive!MutexInit)
  <2>1. ASSUME Adaptive!Init PROVE Adaptive!MutexInit
    BY <2>1 DEF Adaptive!Init, Adaptive!MutexInit, Adaptive!Abs!MInit,
                Adaptive!owner, Adaptive!waiting, Adaptive!Owning, Adaptive!Inside
  <2> QED BY <2>1 DEF AllInit
<1>4. AdaptiveInv /\ AdaptiveInv' /\ [AllNext]_all
        => [which = "adaptive" => Adaptive!MutexStep]_all
  <2> SUFFICES ASSUME AdaptiveInv, AdaptiveInv', [AllNext]_all, which = "adaptive"
               PROVE  Adaptive!MutexStep
    OBVIOUS
  <2>1. [Adaptive!Next]_Adaptive!vars
    BY AdaptiveMoves
  <2>2. which' = "adaptive"
    BY DEF AllNext, Rest, all, others
  <2>3. AInv /\ Adaptive!OnlyTimedCallsFail /\ AInv'
    BY <2>2 DEF AdaptiveInv
  <2> QED BY <2>1, <2>3, AdaptiveMapping
<1> QED BY <1>1, <1>2, <1>3, <1>4, Refinement, AdaptiveInvKept, PTL
        DEF AllSpec, Spec, ImplementsMutexes

--------------------------------------------------------------------------------
(* The table of sleep queues. *)

TableInv == which = "table" => Table!IInv

LEMMA TableInit == ASSUME AllInit PROVE TableInv
BY TableAssumption, Table!TableInit DEF AllInit, TableInv

LEMMA TableStep == ASSUME TableInv, [AllNext]_all PROVE TableInv'
<1> SUFFICES ASSUME which' = "table" PROVE Table!IInv'
  BY DEF TableInv
<1>1. which = "table"
  BY DEF AllNext, Rest, all, others
<1>2. Table!IInv
  BY <1>1 DEF TableInv
<1>3. [Table!Next]_Table!vars
  BY <1>1 DEF AllNext, all, others, Table!vars
<1> QED BY <1>2, <1>3, TableAssumption, Table!TableStep

(* The invariant of the table holds while the table is what moves. *)
LEMMA TableKept == AllSpec => []TableInv
<1>1. AllInit => TableInv
  BY TableInit
<1>2. TableInv /\ [AllNext]_all => TableInv'
  BY TableStep
<1> QED BY <1>1, <1>2, PTL DEF AllSpec

(* No sleep queue is lost, lent twice, or given back in use: each one is   *)
(* the private queue of one thread, that of one object, or on one free     *)
(* list, and an object's has as many users as it has queues behind it.     *)
THEOREM Conservation == AllSpec => []QueuesConserved
<1>1. TableInv => QueuesConserved
  BY TableAssumption, Table!InvConserves
     DEF TableInv, QueuesConserved
<1> QED BY <1>1, TableKept, PTL

(* From sleepq_lend() to sleepq_return() a thread's object keeps the queue *)
(* that the thread found, and the thread has no queue of its own.          *)
THEOREM Staying == AllSpec => []QueueStays
<1>1. TableInv => QueueStays
  BY TableAssumption, Table!InvStays
     DEF TableInv, QueueStays
<1> QED BY <1>1, TableKept, PTL

(* The waiters of a queue are the threads in sleepq_wait_common() on its   *)
(* object, each once, and those with pending_wakeup set are awake.         *)
THEOREM Waiting == AllSpec => []WaitersSound
<1>1. TableInv => WaitersSound
  BY Table!InvWaiters DEF TableInv, WaitersSound
<1> QED BY <1>1, TableKept, PTL

--------------------------------------------------------------------------------
(* The timers. *)

TimersInv ==
    which = "timers" =>
        Timers!TypeOK /\ Timers!OnTime /\ Timers!Placed /\ Timers!Canceling

LEMMA TimersInit == ASSUME AllInit PROVE TimersInv
BY TimersAssumption, Timers!TypeInit, Timers!OnTimeInit, Timers!PlacedInit
   DEF AllInit, TimersInv

LEMMA TimersStep == ASSUME TimersInv, [AllNext]_all PROVE TimersInv'
<1> SUFFICES ASSUME which' = "timers"
             PROVE  (Timers!TypeOK /\ Timers!OnTime /\ Timers!Placed /\ Timers!Canceling)'
  BY DEF TimersInv
<1>1. which = "timers"
  BY DEF AllNext, Rest, all, others
<1>2. Timers!TypeOK /\ Timers!OnTime /\ Timers!Placed /\ Timers!Canceling
  BY <1>1 DEF TimersInv
<1>3. [Timers!Next]_Timers!vars
  BY <1>1 DEF AllNext, all, others, Timers!vars
<1>4. {1, 2} \subseteq Nat \ {0}
  OBVIOUS
<1> QED BY <1>2, <1>3, <1>4, TimersAssumption, Timers!TypeStep, Timers!OnTimeStep,
           Timers!PlacedStep

(* The invariant of the timers holds while they are what moves. *)
LEMMA TimersKept == AllSpec => []TimersInv
<1>1. AllInit => TimersInv
  BY TimersInit
<1>2. TimersInv /\ [AllNext]_all => TimersInv'
  BY TimersStep
<1> QED BY <1>1, <1>2, PTL DEF AllSpec

(* No event passes over a timer whose time has come, nor takes one early,  *)
(* see WheelOnTime of Timer_proofs.                                        *)
THEOREM TimersOnTime == AllSpec => []OnTime
<1>1. TimersInv => OnTime
  BY DEF TimersInv, OnTime
<1> QED BY <1>1, TimersKept, PTL

(* The handler of a timer is called once for each expiration.              *)
THEOREM TimersOnce == AllSpec => []OneExpiration
<1>1. TimersInv => OneExpiration
  BY Timers!PlacedOnce DEF TimersInv, OneExpiration
<1> QED BY <1>1, TimersKept, PTL

(* No handler of a timer runs or will run once timer_cancel() returned.    *)
THEOREM TimersCanceled == AllSpec => []CancelWaits
<1>1. TimersInv => CancelWaits
  BY Timers!CanceledNowhere DEF TimersInv, CancelWaits
<1> QED BY <1>1, TimersKept, PTL

--------------------------------------------------------------------------------
(* The history of the shell. *)

HistoryInv == which = "history" => History!HistoryInv

LEMMA HistoryStep == ASSUME HistoryInv, [AllNext]_all PROVE HistoryInv'
<1> SUFFICES ASSUME which' = "history" PROVE History!HistoryInv'
  BY DEF HistoryInv
<1>1. which = "history"
  BY DEF AllNext, Rest, all, others
<1>2. History!HistoryInv
  BY <1>1 DEF HistoryInv
<1>3. [History!Next]_History!vars
  BY <1>1 DEF AllNext, all, others, History!vars
<1>4. History!HistoryAssumption
  BY DEF History!HistoryAssumption
<1> QED BY <1>2, <1>3, <1>4, History!HistoryStep

(* The history of the shell has the lines that were entered last: editing, *)
(* browsing and running over the end of the array change none of them.     *)
THEOREM HistoryKept == AllSpec => []HistorySound
<1>1. AllInit => HistoryInv
  BY History!HistoryInit DEF AllInit, HistoryInv, History!HistoryAssumption
<1>2. HistoryInv /\ [AllNext]_all => HistoryInv'
  BY HistoryStep
<1>3. HistoryInv => HistorySound
  BY DEF HistoryInv, HistorySound, History!HistoryInv
<1> QED BY <1>1, <1>2, <1>3, PTL DEF AllSpec

--------------------------------------------------------------------------------
(* The lists that are read while they change.                              *)

ReadersInv ==
    /\ which = "singly" => Singly!LinksInv /\ Singly!ReadInv
    /\ which = "hashed" => Hashed!LinksInv /\ Hashed!ReadInv

LEMMA ReadersInit == ASSUME AllInit PROVE ReadersInv
BY ListsAssumptions, Singly!LinksInit, Singly!ReadInit, Hashed!LinksInit, Hashed!ReadInit
   DEF AllInit, ReadersInv

LEMMA ReadersStep == ASSUME ReadersInv, [AllNext]_all PROVE ReadersInv'
<1>1. ASSUME which' = "singly" PROVE (Singly!LinksInv /\ Singly!ReadInv)'
  <2>1. which = "singly"
    BY <1>1 DEF AllNext, Rest, all, others
  <2>2. [Singly!Next]_Singly!vars
    BY <2>1 DEF AllNext, all, others, Singly!vars
  <2>3. Singly!LinksInv /\ Singly!ReadInv
    BY <2>1 DEF ReadersInv
  <2> QED BY <2>2, <2>3, ListsAssumptions, Singly!LinksStep, Singly!ReadStep
<1>2. ASSUME which' = "hashed" PROVE (Hashed!LinksInv /\ Hashed!ReadInv)'
  <2>1. which = "hashed"
    BY <1>2 DEF AllNext, Rest, all, others
  <2>2. [Hashed!Next]_Hashed!vars
    BY <2>1 DEF AllNext, all, others, Hashed!vars
  <2>3. Hashed!LinksInv /\ Hashed!ReadInv
    BY <2>1 DEF ReadersInv
  <2> QED BY <2>2, <2>3, ListsAssumptions, Hashed!LinksStep, Hashed!ReadStep
<1> QED BY <1>1, <1>2 DEF ReadersInv

(* A reader of a list of slist.h or of hlist.h sees each node once, all    *)
(* that stay in the list and in their order, while nodes are inserted and  *)
(* removed around it, the one that it is on included; and the links of     *)
(* each list, its last node or the links back are those of its members.    *)
THEOREM ReadersKept == AllSpec => []ReadersSound
<1>1. AllInit => ReadersInv
  BY ReadersInit
<1>2. ReadersInv /\ [AllNext]_all => ReadersInv'
  BY ReadersStep
<1>3. ReadersInv => ReadersSound
  BY ListsAssumptions, Singly!LinksHold, Singly!ReadHold, Hashed!LinksHold, Hashed!ReadHold
     DEF ReadersInv, ReadersSound
<1> QED BY <1>1, <1>2, <1>3, PTL DEF AllSpec
================================================================================
