-------------------------------- MODULE PmapUpdate --------------------------------
(***************************************************************************)
(* arch/x86/machine/pmap.c: how a list of mapping operations is applied to *)
(* the page tables of other processors.  The sender queues one request per *)
(* processor, from the array of requests of the processor it is pinned to, *)
(* and waits for the syncer thread of each.  Queues and requests have spin *)
(* locks: a step is what runs with one of them held, and sleeping releases *)
(* it.                                                                     *)
(***************************************************************************)
EXTENDS Sequences, FiniteSets, Naturals

CONSTANTS
    Sender,     \* threads that update a pmap
    NrCpus,
    None

CPU == 1..NrCpus

VARIABLES
    array,      \* the owner of the array of requests of each processor
    request,    \* the requests of the array, one for each processor
    queue,      \* for each syncer, the arrays it has a request from
    syncer,     \* the array each syncer has taken a request from
    cpumap,     \* the operation list of each sender: processors it affects
    done,       \* history: the processors that have applied the list
    pc, at, next,   \* step of each sender, its processor, the next request
    error,      \* result of the update of each sender
    asleep      \* threads that sleep

vars == <<array, request, queue, syncer, cpumap, done, pc, at, next, error, asleep>>

Syncer(c) == <<"syncer", c>>

TypeOK ==
    /\ array \in [CPU -> Sender \cup {None}]
    /\ request \in [CPU \X CPU -> [sender : Sender \cup {None}, done : BOOLEAN,
                                   error : BOOLEAN]]
    /\ queue \in [CPU -> Seq(CPU)]
    /\ syncer \in [CPU -> CPU \cup {None}]
    /\ cpumap \in [Sender -> SUBSET CPU] /\ done \in [Sender -> SUBSET CPU]
    /\ pc \in [Sender -> {"idle", "queue", "wait"}]
    /\ at \in [Sender -> CPU \cup {None}]
    /\ next \in [Sender -> SUBSET CPU]
    /\ error \in [Sender -> BOOLEAN]
    /\ asleep \subseteq (Sender \cup {Syncer(c) : c \in CPU})

Unused == [sender |-> None, done |-> FALSE, error |-> FALSE]

Init ==
    /\ array = [c \in CPU |-> None]
    /\ request = [r \in CPU \X CPU |-> Unused]
    /\ queue = [c \in CPU |-> <<>>]
    /\ syncer = [c \in CPU |-> None]
    /\ cpumap = [s \in Sender |-> {}] /\ done = [s \in Sender |-> {}]
    /\ pc = [s \in Sender |-> "idle"]
    /\ at = [s \in Sender |-> None]
    /\ next = [s \in Sender |-> {}]
    /\ error = [s \in Sender |-> FALSE]
    /\ asleep = {}

First(S) == CHOOSE c \in S : \A d \in S : c <= d

--------------------------------------------------------------------------------
(* The sender. *)

(* Operations were prepared, for some of the processors. *)
pmap_update_request_array_acquire(s) ==
    /\ pc[s] = "idle"
    /\ \E a \in CPU, map \in (SUBSET CPU) \ {{}} :
          /\ array[a] = None
          /\ array' = [array EXCEPT ![a] = s]
          /\ at' = [at EXCEPT ![s] = a]
          /\ cpumap' = [cpumap EXCEPT ![s] = map]
          /\ next' = [next EXCEPT ![s] = map]
    /\ pc' = [pc EXCEPT ![s] = "queue"]
    /\ UNCHANGED <<request, queue, syncer, done, error, asleep>>

(* The request is filled before it is queued; the last one was queued.     *)
QueueRequest(s) ==
    LET c == First(next[s]) IN
    /\ pc[s] = "queue"
    /\ request' = [request EXCEPT ![<<at[s], c>>] =
                       [sender |-> s, done |-> FALSE, error |-> FALSE]]
    /\ queue' = [queue EXCEPT ![c] = Append(@, at[s])]
    /\ asleep' = asleep \ {Syncer(c)}
    /\ IF next[s] = {c}
       THEN /\ next' = [next EXCEPT ![s] = cpumap[s]]
            /\ pc' = [pc EXCEPT ![s] = "wait"]
       ELSE next' = [next EXCEPT ![s] = @ \ {c}] /\ UNCHANGED pc
    /\ UNCHANGED <<array, syncer, cpumap, done, at, error>>

(* The sender has found the next request done, or all of them. *)
Found(s, c) ==
    /\ error' = [error EXCEPT ![s] = @ \/ request[<<at[s], c>>].error]
    /\ next' = [next EXCEPT ![s] = @ \ {c}]
    /\ UNCHANGED <<request, queue, syncer, cpumap, done, pc, at, array, asleep>>

(* Broken: whoever wakes the sender up has finished its request. *)
WaitOnce(s) ==
    LET c == First(next[s]) IN
    /\ pc[s] = "wait" /\ s \notin asleep /\ next[s] /= {}
    /\ \/ request[<<at[s], c>>].done /\ Found(s, c)
       \/ /\ ~request[<<at[s], c>>].done
          /\ asleep' = asleep \cup {s}
          /\ next' = [next EXCEPT ![s] = @ \ {c}]
          /\ UNCHANGED <<array, request, queue, syncer, cpumap, done, pc, at, error>>

(* Requests are waited for in turn: the sender may be woken up for another *)
(* one than it sleeps for.                                                 *)
Wait(s) ==
    LET c == First(next[s]) IN
    /\ pc[s] = "wait" /\ s \notin asleep /\ next[s] /= {}
    /\ \/ request[<<at[s], c>>].done /\ Found(s, c)
       \/ /\ ~request[<<at[s], c>>].done
          /\ asleep' = asleep \cup {s}
          /\ UNCHANGED <<array, request, queue, syncer, cpumap, done, pc, at,
                         next, error>>

(* The list is empty again when the update returns.  What is left in the   *)
(* array is not read before it is filled again.                            *)
pmap_update_request_array_release(s) ==
    /\ pc[s] = "wait" /\ s \notin asleep /\ next[s] = {}
    /\ array' = [array EXCEPT ![at[s]] = None]
    /\ pc' = [pc EXCEPT ![s] = "idle"]
    /\ at' = [at EXCEPT ![s] = None]
    /\ cpumap' = [cpumap EXCEPT ![s] = {}]
    /\ request' = [r \in CPU \X CPU |-> IF r[1] = at[s] THEN Unused ELSE request[r]]
    /\ done' = [done EXCEPT ![s] = {}]
    /\ error' = [error EXCEPT ![s] = FALSE]
    /\ UNCHANGED <<queue, syncer, next, asleep>>

pmap_update(s) ==
    \/ pmap_update_request_array_acquire(s) \/ QueueRequest(s) \/ Wait(s)
    \/ pmap_update_request_array_release(s)

--------------------------------------------------------------------------------
(* The syncer of a processor. *)

TakeRequest(c) ==
    /\ syncer[c] = None /\ Syncer(c) \notin asleep
    /\ IF queue[c] = <<>>
       THEN asleep' = asleep \cup {Syncer(c)} /\ UNCHANGED <<queue, syncer>>
       ELSE /\ syncer' = [syncer EXCEPT ![c] = Head(queue[c])]
            /\ queue' = [queue EXCEPT ![c] = Tail(@)]
            /\ UNCHANGED asleep
    /\ UNCHANGED <<array, request, cpumap, done, pc, at, next, error>>

(* The list of the sender is applied to the local page table.  A mapping   *)
(* may need a page table page that cannot be allocated.                    *)
pmap_update_local(c) ==
    LET r == <<syncer[c], c>>
        s == request[r].sender
    IN  /\ syncer[c] /= None
        /\ \E failed \in BOOLEAN :
              /\ request' = [request EXCEPT ![r].done = TRUE, ![r].error = failed]
              /\ done' = [done EXCEPT ![s] = IF failed THEN @ ELSE @ \cup {c}]
        /\ asleep' = asleep \ {s}
        /\ syncer' = [syncer EXCEPT ![c] = None]
        /\ UNCHANGED <<array, queue, cpumap, pc, at, next, error>>

pmap_sync(c) == TakeRequest(c) \/ pmap_update_local(c)

Next == (\E s \in Sender : pmap_update(s)) \/ (\E c \in CPU : pmap_sync(c))

Spec == Init /\ [][Next]_vars

--------------------------------------------------------------------------------

(* A list is only read while its sender is in the update that needs it, by *)
(* a request that was not finished, from an array that the sender owns.    *)
AssertsHold ==
    \A c \in CPU, a \in CPU :
        a \in {syncer[c]} \cup {queue[c][i] : i \in 1..Len(queue[c])} =>
            LET r == request[<<a, c>>] IN
            /\ array[a] = r.sender /\ at[r.sender] = a
            /\ c \in cpumap[r.sender] /\ c \notin done[r.sender]
            /\ ~r.done /\ pc[r.sender] \in {"queue", "wait"}

(* An update that succeeds was applied by each processor it affects, when  *)
(* the sender is still there to tell so.                                   *)
UpdatesApplied ==
    \A s \in Sender :
        pc[s] = "wait" /\ next[s] = {} /\ s \notin asleep /\ ~error[s]
        => done[s] = cpumap[s]

(* Updates return, whoever else updates: no wake-up is lost. *)
Owed(s) == pc[s] = "queue"
Given(s) == pc[s] = "idle"
================================================================================
