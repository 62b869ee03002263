--------------------------------- MODULE Bulletin ---------------------------------
(***************************************************************************)
(* kern/bulletin.c: publishers call the notification functions of those    *)
(* that have subscribed, on a list that they walk in a read-side critical  *)
(* section while others are added and removed.  The end of a grace period, *)
(* here when those that were inside have left, is what Rcu shows.          *)
(***************************************************************************)
EXTENDS FiniteSets

CONSTANTS
    Sub,
    Publisher,
    ListHead    \* the head of the list, outside Sub

VARIABLES
    next,       \* links of the list, which a removed node keeps
    prev,
    pc,         \* where each publisher and the owner of each subscriber are
    at,         \* the node a publisher has come to
    wait,       \* the publishers that rcu_wait() waits for
    told,       \* history: the subscribers a publisher has notified
    due         \* history: those it has to, subscribed all the time

vars == <<next, prev, pc, at, wait, told, due>>

Nodes == Sub \cup {ListHead}

Init ==
    /\ next = [n \in Nodes |-> n]
    /\ prev = [n \in Nodes |-> n]
    /\ pc = [a \in Sub \cup Publisher |-> "idle"]
    /\ at = [p \in Publisher |-> ListHead]
    /\ wait = [s \in Sub |-> {}]
    /\ told = [p \in Publisher |-> {}]
    /\ due = [p \in Publisher |-> {}]

Goto(a, from, to) == pc[a] = from /\ pc' = [pc EXCEPT ![a] = to]

--------------------------------------------------------------------------------

(* list_rcu_insert_tail(), under the lock: the node is complete before a   *)
(* publisher can come to it.                                               *)
bulletin_subscribe(s) ==
    /\ Goto(s, "idle", "subscribed")
    /\ next' = [next EXCEPT ![s] = ListHead, ![prev[ListHead]] = s]
    /\ prev' = [prev EXCEPT ![s] = prev[ListHead], ![ListHead] = s]
    /\ UNCHANGED <<at, wait, told, due>>

Inside == {p \in Publisher : pc[p] /= "idle"}

(* list_rcu_remove(), then rcu_wait(). *)
bulletin_unsubscribe(s) ==
    /\ Goto(s, "subscribed", "waits")
    /\ next' = [next EXCEPT ![prev[s]] = next[s]]
    /\ prev' = [prev EXCEPT ![next[s]] = prev[s]]
    /\ wait' = [wait EXCEPT ![s] = Inside]
    /\ due' = [p \in Publisher |-> due[p] \ {s}]
    /\ UNCHANGED <<at, told>>

(* The subscriber may be freed, or subscribe again, from now on. *)
Unsubscribed(s) ==
    /\ wait[s] = {}
    /\ Goto(s, "waits", "idle")
    /\ UNCHANGED <<next, prev, at, wait, told, due>>

--------------------------------------------------------------------------------

Leave(p) ==
    /\ pc' = [pc EXCEPT ![p] = "idle"]
    /\ wait' = [s \in Sub |-> wait[s] \ {p}]
    /\ at' = [at EXCEPT ![p] = ListHead]
    /\ told' = [told EXCEPT ![p] = {}]
    /\ due' = [due EXCEPT ![p] = {}]

(* bulletin_publish(): the reader enters, ... *)
bulletin_publish(p) ==
    /\ Goto(p, "idle", "inside")
    /\ due' = [due EXCEPT ![p] = {s \in Sub : pc[s] = "subscribed"}]
    /\ UNCHANGED <<next, prev, at, wait, told>>

(* ... goes from one node to the next, whose function it calls, ... *)
bulletin_sub_notify(p) ==
    LET s == next[at[p]] IN
    /\ pc[p] = "inside" /\ s /= ListHead
    /\ at' = [at EXCEPT ![p] = s]
    /\ told' = [told EXCEPT ![p] = @ \cup {s}]
    /\ UNCHANGED <<next, prev, pc, wait, due>>

(* ... and leaves when it is back at the head. *)
Published(p) ==
    /\ pc[p] = "inside" /\ next[at[p]] = ListHead
    /\ Leave(p)
    /\ UNCHANGED <<next, prev>>

Next ==
    \/ \E s \in Sub :
           bulletin_subscribe(s) \/ bulletin_unsubscribe(s) \/ Unsubscribed(s)
    \/ \E p \in Publisher :
           bulletin_publish(p) \/ bulletin_sub_notify(p) \/ Published(p)

Spec == Init /\ [][Next]_vars

--------------------------------------------------------------------------------

TypeOK ==
    /\ next \in [Nodes -> Nodes] /\ prev \in [Nodes -> Nodes]
    /\ \A s \in Sub : pc[s] \in {"idle", "subscribed", "waits"}
    /\ \A p \in Publisher : pc[p] \in {"idle", "inside"}
    /\ at \in [Publisher -> Nodes]
    /\ wait \in [Sub -> SUBSET Publisher]
    /\ \A p \in Publisher : told[p] \subseteq Sub /\ due[p] \subseteq Sub

(* Once bulletin_unsubscribe() has returned, no publisher is at the        *)
(* subscriber, nor will it come there: its function is not called any more.*)
NobodyNotified ==
    \A s \in Sub, p \in Inside :
        pc[s] = "idle" =>
            /\ at[p] /= s
            /\ next[at[p]] /= s

(* A publisher calls everyone who is subscribed all the time.              *)
AllNotified ==
    \A p \in Inside : next[at[p]] = ListHead => due[p] \subseteq told[p]
================================================================================
