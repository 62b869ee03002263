---------------------------------- MODULE Console ----------------------------------
(***************************************************************************)
(* kern/console.c: the input of a console.  The interrupt handler of the   *)
(* device pushes the characters of a string in a circular buffer, and the  *)
(* thread that waits for one takes them.  Sections with the lock of the    *)
(* console held are one step; a thread sleeps in the middle of one and     *)
(* resumes it when it is woken up.                                         *)
(***************************************************************************)
EXTENDS Cbuf

CONSTANTS
    Thread,
    Control,    \* the characters the console processes itself
    Nobody

VARIABLES
    waiter,     \* console->waiter
    pc,         \* where each thread is
    blind       \* history: the waiter sleeps though there are characters

kvars == <<waiter, pc, blind>>
vars == <<cvars, kvars>>

TypeOK ==
    /\ CTypeOK
    /\ waiter \in Thread \cup {Nobody}
    /\ pc \in [Thread -> {"idle", "loop", "asleep"}]
    /\ blind \in BOOLEAN

Init ==
    /\ CInit
    /\ waiter = Nobody
    /\ pc = [t \in Thread |-> "idle"]
    /\ blind = FALSE

(* The loop of console_getc(), up to where the thread sleeps or returns:   *)
(* after a character that the console has processed, it sleeps without     *)
(* looking at the buffer again.                                            *)
Loop(t) ==
    LET c == cbuf_read(cbuf, cbuf.start, 1) IN
    \/ /\ cbuf_size(cbuf) = 0
       /\ pc' = [pc EXCEPT ![t] = "asleep"]
       /\ waiter' = t
       /\ blind' = FALSE
       /\ UNCHANGED cvars
    \/ /\ cbuf_pop(1)
       /\ IF c[1] \in Control
          THEN /\ pc' = [pc EXCEPT ![t] = "asleep"]
               /\ waiter' = t
               /\ blind' = (cbuf_size(cbuf) > 1)
          ELSE /\ pc' = [pc EXCEPT ![t] = "idle"]
               /\ waiter' = Nobody
               /\ UNCHANGED blind

(* A console has one waiter at a time, another thread gets EOF. *)
console_getc(t) == pc[t] = "idle" /\ waiter = Nobody /\ Loop(t)

Resume(t) == pc[t] = "loop" /\ Loop(t)

(* Characters that do not fit are dropped, and the waiter is not woken up  *)
(* then.                                                                   *)
console_intr(s) ==
    LET room == Capacity - cbuf_size(cbuf) IN
    /\ cbuf_push(SubSeq(s, 1, Least(room, Len(s))), FALSE)
    /\ IF Len(s) <= room /\ waiter /= Nobody /\ pc[waiter] = "asleep"
       THEN pc' = [pc EXCEPT ![waiter] = "loop"] /\ blind' = FALSE
       ELSE UNCHANGED <<pc, blind>>
    /\ UNCHANGED waiter

Next ==
    \/ \E t \in Thread : console_getc(t) \/ Resume(t)
    \/ \E n \in Sizes : \E s \in [1..n -> Byte] : console_intr(s)

Spec == Init /\ [][Next]_vars

--------------------------------------------------------------------------------

(* The thread that sleeps is the waiter, and a waiter that the console has *)
(* characters for is on its way, unless it has gone to sleep blindly.      *)
WaiterSound ==
    /\ \A t \in Thread : pc[t] /= "idle" <=> t = waiter
    /\ \A t \in Thread : pc[t] = "asleep" /\ queue /= <<>> => blind
================================================================================
