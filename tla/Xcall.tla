----------------------------------- MODULE Xcall -----------------------------------
(***************************************************************************)
(* kern/xcall.c: cross calls.  A sender stores the address of a call that  *)
(* is on its stack in the slot of a processor, interrupts it, and spins    *)
(* until the slot is empty.  The slot is protected by a lock that is held  *)
(* meanwhile, and interrupts are enabled.                                  *)
(***************************************************************************)
EXTENDS Naturals, FiniteSets

CONSTANTS Sender, CPU, None

VARIABLES
    lock,       \* cpu_data->lock: the sender that holds it, for each processor
    recv_call,  \* the call in the slot, as its sender
    interrupt,  \* the processors with a pending interrupt
    pc, target, \* step of each sender, and the processor it calls
    handler,    \* the step of each processor in xcall_intr()
    call,       \* the call it has loaded
    calls       \* history: how often the function of each sender was called

vars == <<lock, recv_call, interrupt, pc, target, handler, call, calls>>

TypeOK ==
    /\ lock \in [CPU -> Sender \cup {None}]
    /\ recv_call \in [CPU -> Sender \cup {None}]
    /\ interrupt \subseteq CPU
    /\ pc \in [Sender -> {"idle", "lock", "set", "send", "wait"}]
    /\ target \in [Sender -> CPU]
    /\ handler \in [CPU -> {"none", "load", "process", "clear"}]
    /\ call \in [CPU -> Sender \cup {None}]
    /\ calls \in [Sender -> 0..1]

Init ==
    /\ lock = [c \in CPU |-> None]
    /\ recv_call = [c \in CPU |-> None]
    /\ interrupt = {}
    /\ pc = [s \in Sender |-> "idle"]
    /\ target = [s \in Sender |-> CHOOSE c \in CPU : TRUE]
    /\ handler = [c \in CPU |-> "none"]
    /\ call = [c \in CPU |-> None]
    /\ calls = [s \in Sender |-> 0]

Goto(s, l) == pc' = [pc EXCEPT ![s] = l]
slots == <<lock, recv_call>>
local == <<handler, call>>

(* xcall_call() *)

xcall_call(s, c) ==
    /\ pc[s] = "idle"
    /\ target' = [target EXCEPT ![s] = c]
    /\ calls' = [calls EXCEPT ![s] = 0]
    /\ Goto(s, "lock")
    /\ UNCHANGED <<slots, interrupt, local>>

Lock(s) ==
    /\ pc[s] = "lock" /\ lock[target[s]] = None
    /\ lock' = [lock EXCEPT ![target[s]] = s]
    /\ Goto(s, "set")
    /\ UNCHANGED <<recv_call, interrupt, target, local, calls>>

SetCall(s) ==
    /\ pc[s] = "set"
    /\ recv_call' = [recv_call EXCEPT ![target[s]] = s]
    /\ Goto(s, "send")
    /\ UNCHANGED <<lock, interrupt, target, local, calls>>

cpu_send_xcall(s) ==
    /\ pc[s] = "send"
    /\ interrupt' = interrupt \cup {target[s]}
    /\ Goto(s, "wait")
    /\ UNCHANGED <<slots, target, local, calls>>

(* The call is over when the slot is empty. *)
Return(s) ==
    /\ pc[s] = "wait" /\ recv_call[target[s]] = None
    /\ lock' = [lock EXCEPT ![target[s]] = None]
    /\ Goto(s, "idle")
    /\ UNCHANGED <<recv_call, interrupt, target, local, calls>>

(* xcall_intr() *)

xcall_intr(c) ==
    /\ handler[c] = "none" /\ c \in interrupt
    /\ interrupt' = interrupt \ {c}
    /\ handler' = [handler EXCEPT ![c] = "load"]
    /\ UNCHANGED <<slots, pc, target, call, calls>>

Load(c) ==
    /\ handler[c] = "load"
    /\ call' = [call EXCEPT ![c] = recv_call[c]]
    /\ handler' = [handler EXCEPT ![c] = "process"]
    /\ UNCHANGED <<slots, interrupt, pc, target, calls>>

xcall_process(c) ==
    /\ handler[c] = "process"
    /\ calls' = IF call[c] = None THEN calls ELSE [calls EXCEPT ![call[c]] = @ + 1]
    /\ handler' = [handler EXCEPT ![c] = "clear"]
    /\ UNCHANGED <<slots, interrupt, pc, target, call>>

ClearCall(c) ==
    /\ handler[c] = "clear"
    /\ recv_call' = [recv_call EXCEPT ![c] = None]
    /\ call' = [call EXCEPT ![c] = None]
    /\ handler' = [handler EXCEPT ![c] = "none"]
    /\ UNCHANGED <<lock, interrupt, pc, target, calls>>

Send(s) == Lock(s) \/ SetCall(s) \/ cpu_send_xcall(s) \/ Return(s)
Handle(c) == xcall_intr(c) \/ Load(c) \/ xcall_process(c) \/ ClearCall(c)

Next ==
    \/ \E s \in Sender : Send(s) \/ \E c \in CPU : xcall_call(s, c)
    \/ \E c \in CPU : Handle(c)

Spec == Init /\ [][Next]_vars

--------------------------------------------------------------------------------

(* A call returns when its function was called once, and no processor uses *)
(* it any more, as it is on the stack of its sender; the slot is never     *)
(* overwritten nor cleared under a call that was not processed.            *)
CallsDone ==
    /\ \A s \in Sender :
        /\ pc[s] = "idle" /\ lock[target[s]] /= s
           => \A c \in CPU : call[c] /= s /\ recv_call[c] /= s
        /\ pc[s] = "wait" /\ recv_call[target[s]] = None => calls[s] = 1
    /\ \A c \in CPU : handler[c] \in {"process", "clear"} => recv_call[c] = call[c]
    /\ \A s \in Sender : pc[s] = "set" => recv_call[target[s]] = None

(* Calls return, also those of processors that call each other. *)
Owed(s) == pc[s] = "lock"
Given(s) == pc[s] = "idle"
================================================================================
