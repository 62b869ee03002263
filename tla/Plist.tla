--------------------------------- MODULE Plist ---------------------------------
(***************************************************************************)
(* kern/plist.c: a list sorted by priority, on two lists of list.h, one    *)
(* with all nodes and one that is meant to have the first of each          *)
(* priority, see OneEntryPerPriority.  The loop of plist_add() goes past   *)
(* the nodes of the same priority; RtMutex uses what PlistSound says of    *)
(* it, that a node goes after those of its priority.                       *)
(***************************************************************************)
EXTENDS Integers, Sequences, SequencesExt, FiniteSetsExt

CONSTANTS
    Node,           \* the nodes
    Prio,           \* their priorities
    Plist,          \* the heads of both lists
    Null            \* the null pointer

VARIABLES
    plist,          \* both lists
    priority,       \* of each node
    members         \* history: the nodes, in order

vars == <<plist, priority, members>>

L == INSTANCE Lists WITH
    Heads <- {Plist}, Stale <- Null, list <- plist, members <- [h \in {Plist} |-> members]

(* Where a node of priority p goes in the list of priorities. *)
After(p) ==
    LET w == L!Walk(plist.prio.next, Plist)
        higher == {i \in DOMAIN w : p < priority[w[i]]}
    IN  IF higher = {} THEN Plist ELSE w[Min(higher)]

(* The last case, a node that shares the place of next, does not occur. *)
plist_add(x) ==
    IF L!list_empty(plist.all, Plist)
    THEN [all |-> L!list_insert_head(plist.all, Plist, x),
          prio |-> L!list_insert_head(plist.prio, Plist, x)]
    ELSE LET next == After(priority[x])
         IN  [all |-> L!list_insert_before(plist.all, x, next),
              prio |-> IF next = Plist \/ priority[x] /= priority[next]
                       THEN L!list_insert_before(plist.prio, x, next)
                       ELSE L!list_init(plist.prio, x)]

(* Nor does that of a next node without a link. *)
plist_remove(x) ==
    LET next == plist.all.next[x]
        alone == next /= Plist /\ L!list_node_unlinked(plist.prio, next)
        prio == IF alone THEN L!list_insert_after(plist.prio, x, next) ELSE plist.prio
    IN  [all |-> L!list_remove(plist.all, x),
         prio |-> IF L!list_node_unlinked(plist.prio, x) THEN plist.prio
                  ELSE L!list_remove(prio, x)]

--------------------------------------------------------------------------------

Unlinked == [next |-> [c \in L!Cell |-> Null], prev |-> [c \in L!Cell |-> Null]]

Init ==
    /\ plist = [all |-> L!list_init(Unlinked, Plist), prio |-> L!list_init(Unlinked, Plist)]
    /\ priority \in [Node -> Prio]
    /\ members = <<>>

Unused == Node \ ToSet(members)

AddNode(x) ==
    /\ x \in Unused
    /\ UNCHANGED priority
    /\ plist' = plist_add(x)
    /\ members' = InsertAt(members,
           1 + Cardinality({y \in ToSet(members) : priority[y] <= priority[x]}), x)

RemoveNode(x) ==
    /\ x \notin Unused
    /\ plist' = plist_remove(x)
    /\ members' = Remove(members, x)
    /\ UNCHANGED priority

plist_node_init(x, p) ==
    /\ x \in Unused
    /\ plist' = [all |-> L!list_node_init(plist.all, x),
                 prio |-> L!list_node_init(plist.prio, x)]
    /\ priority' = [priority EXCEPT ![x] = p]
    /\ UNCHANGED members

(* As turnstile_requeue_waiter() does, on a node that is stale. *)
plist_node_set_priority(x, p) ==
    /\ x \in Unused
    /\ priority' = [priority EXCEPT ![x] = p]
    /\ UNCHANGED <<plist, members>>

Next ==
    \E x \in Node :
        \/ AddNode(x) \/ RemoveNode(x)
        \/ \E p \in Prio : plist_node_init(x, p) \/ plist_node_set_priority(x, p)

Spec == Init /\ [][Next]_vars

--------------------------------------------------------------------------------

TypeOK ==
    /\ \A s \in {plist.all, plist.prio} :
           s \in [next : [L!Cell -> L!Cell \cup {Null}], prev : [L!Cell -> L!Cell \cup {Null}]]
    /\ priority \in [Node -> Prio]

(* The list has its nodes by priority, those of one priority in the order  *)
(* in which they came, though plist.h says the opposite of them.  The list *)
(* of priorities has some of these nodes, in this order, and misses no     *)
(* priority; both are linked in both directions after any removals.        *)
PlistSound ==
    LET prio == L!Walk(plist.prio.next, Plist)
    IN  /\ \A i \in 1..(Len(members) - 1) :
               priority[members[i]] <= priority[members[i + 1]]
        /\ L!Walk(plist.all.next, Plist) = members
        /\ L!Walk(plist.all.prev, Plist) = Reverse(members)
        /\ L!Walk(plist.prio.prev, Plist) = Reverse(prio)
        /\ prio = SelectSeq(members, LAMBDA x : x \in ToSet(prio))
        /\ {priority[x] : x \in ToSet(prio)} = {priority[x] : x \in ToSet(members)}

(* kern/plist_types.h: the list of priorities "contains exactly one entry  *)
(* for each priority present", which "is the first entry in list for that  *)
(* priority".                                                              *)
OneEntryPerPriority ==
    LET all == L!Walk(plist.all.next, Plist)
    IN  ToSet(L!Walk(plist.prio.next, Plist)) =
            {all[i] : i \in {j \in DOMAIN all :
                \A k \in 1..(j - 1) : priority[all[k]] < priority[all[j]]}}
================================================================================
