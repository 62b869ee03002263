------------------------------- MODULE ReadLists -------------------------------
(***************************************************************************)
(* kern/slist.h: singly linked lists with a pointer to the last node; and  *)
(* kern/hlist.h: singly linked lists whose nodes also point to the link    *)
(* that points to them, the one of the list or that of the node before.    *)
(* The caller locks them; a reader in a read-side critical section goes    *)
(* along one of the lists meanwhile, on which writers then use the         *)
(* variants for RCU only.  They link a node before they publish it in one  *)
(* store, the one step that the reader can see, and use a node again after *)
(* the reader has left.                                                    *)
(***************************************************************************)
EXTENDS Integers, Sequences, SequencesExt, FiniteSetsExt

CONSTANTS
    Slist, Hlist,   \* the lists of each kind
    Shared,         \* the one that is read
    Node,           \* the nodes
    Null,           \* the null pointer
    Stale           \* what a list is until it is initialised again

VARIABLES
    link,           \* the member first of each list, and next of each node
    last,           \* the member last of each list of slist.h
    pprev,          \* of each node, the link of hlist.h that points to it
    members,        \* history: the nodes of each list
    reader,         \* the reader: where it is, and the nodes it has seen
    during          \* history: the nodes of the shared list all the while, and
                    \* those removed meanwhile

vars == <<link, last, pprev, members, reader, during>>

List == Slist \cup Hlist

ListsAssumption ==
    /\ Slist \cap Hlist = {} /\ List \cap Node = {} /\ Shared \in List
    /\ Null \notin List \cup Node /\ Stale \notin Seq(Node)
    /\ "idle" \notin Node \cup {Null}

Live == {h \in List : members[h] /= Stale}
Nodes(h) == ToSet(members[h])
Used == UNION {Nodes(h) : h \in Live}
ListOf(x) == CHOOSE h \in Live : x \in Nodes(h)
Place(x) == CHOOSE i \in DOMAIN members[ListOf(x)] : members[ListOf(x)][i] = x
Reading == reader.at /= "idle"

Free == Node \ (Used \cup during.removed)

(* Where a reader may be, lists are changed one node at a time. *)
Quiet(h) == h = Shared => ~Reading

Idle == [at |-> "idle", seen |-> <<>>]
Nothing == [stays |-> {}, removed |-> {}]

Init ==
    /\ link = [c \in List \cup Node |-> Null]
    /\ last = [h \in Slist |-> Null]
    /\ pprev = [x \in Node |-> Null]
    /\ members = [h \in List |-> <<>>]
    /\ reader = Idle
    /\ during = Nothing

(* The list h is empty. *)
Emptied(h) ==
    /\ h \notin Live
    /\ members' = [members EXCEPT ![h] = <<>>]
    /\ UNCHANGED <<reader, during>>

(* The node x is inserted at the place i of h. *)
Inserted(h, i, x) ==
    /\ h \in Live /\ x \in Free
    /\ members' = [members EXCEPT ![h] = InsertAt(@, i, x)]
    /\ UNCHANGED <<reader, during>>

Taken(x) ==
    /\ members' = [members EXCEPT ![ListOf(x)] = RemoveAt(@, Place(x))]
    /\ during' = IF Reading /\ ListOf(x) = Shared
                 THEN [stays |-> during.stays \ {x}, removed |-> during.removed \cup {x}]
                 ELSE during
    /\ UNCHANGED reader

(* The list new gets the nodes of old, which is initialised afterwards. *)
Moved(new, old) ==
    /\ new /= old /\ old \in Live /\ members[new] \in {Stale, <<>>}
    /\ Quiet(new) /\ Quiet(old)
    /\ members' = [members EXCEPT ![new] = members[old], ![old] = Stale]
    /\ UNCHANGED <<reader, during>>

--------------------------------------------------------------------------------
(* slist.h *)

slist_empty(h) == link[h] = Null
slist_singular(h) == ~slist_empty(h) /\ link[h] = last[h]

slist_init(h) ==
    /\ Emptied(h)
    /\ link' = [link EXCEPT ![h] = Null]
    /\ last' = [last EXCEPT ![h] = Null]
    /\ UNCHANGED pprev

slist_rcu_insert_head(h, x) ==
    /\ Inserted(h, 1, x)
    /\ link' = [link EXCEPT ![x] = link[h], ![h] = x]
    /\ last' = [last EXCEPT ![h] = IF slist_empty(h) THEN x ELSE @]
    /\ UNCHANGED pprev

slist_rcu_insert_tail(h, x) ==
    /\ Inserted(h, Len(members[h]) + 1, x)
    /\ link' = [link EXCEPT ![x] = Null, ![IF slist_empty(h) THEN h ELSE last[h]] = x]
    /\ last' = [last EXCEPT ![h] = x]
    /\ UNCHANGED pprev

slist_rcu_insert_after(h, x, p) ==
    /\ h \in Live /\ p \in Nodes(h) /\ Inserted(h, Place(p) + 1, x)
    /\ link' = [link EXCEPT ![x] = link[p], ![p] = x]
    /\ last' = [last EXCEPT ![h] = IF @ = p THEN x ELSE @]
    /\ UNCHANGED pprev

(* The node after p, or the first one if p is Null. *)
slist_rcu_remove(h, p) ==
    LET l == IF p = Null THEN h ELSE p
        x == link[l]
    IN  /\ h \in Live /\ p \in Nodes(h) \cup {Null}
        /\ x \in Node
        /\ link' = [link EXCEPT ![l] = link[x]]
        /\ last' = [last EXCEPT ![h] = IF @ = x THEN p ELSE @]
        /\ Taken(x)
        /\ UNCHANGED pprev

slist_concat(h1, h2) ==
    /\ h1 /= h2 /\ {h1, h2} \subseteq Live /\ Quiet(h1) /\ Quiet(h2)
    /\ ~slist_empty(h2)
    /\ link' = [link EXCEPT ![IF slist_empty(h1) THEN h1 ELSE last[h1]] = link[h2]]
    /\ last' = [last EXCEPT ![h1] = last[h2]]
    /\ members' = [members EXCEPT ![h1] = @ \o members[h2], ![h2] = Stale]
    /\ UNCHANGED <<pprev, reader, during>>

slist_set_head(new, old) ==
    /\ Moved(new, old)
    /\ link' = [link EXCEPT ![new] = link[old]]
    /\ last' = [last EXCEPT ![new] = last[old]]
    /\ UNCHANGED pprev

--------------------------------------------------------------------------------
(* hlist.h *)

hlist_empty(h) == link[h] = Null
hlist_singular(h) == ~hlist_empty(h) /\ link[link[h]] = Null
hlist_node_unlinked(x) == pprev[x] = Null

hlist_init(h) ==
    /\ Emptied(h)
    /\ link' = [link EXCEPT ![h] = Null]
    /\ UNCHANGED <<last, pprev>>

(* Broken: the node that follows keeps its link. *)
InsertForward(l, x) ==
    /\ link' = [link EXCEPT ![l] = x, ![x] = link[l]]
    /\ pprev' = [pprev EXCEPT ![x] = l]
    /\ UNCHANGED last

(* The node x at the link l, before what it pointed to. *)
InsertAtLink(l, x) ==
    /\ link' = [link EXCEPT ![l] = x, ![x] = link[l]]
    /\ pprev' = IF link[l] = Null THEN [pprev EXCEPT ![x] = l]
                ELSE [pprev EXCEPT ![x] = l, ![link[l]] = x]
    /\ UNCHANGED last

hlist_rcu_insert_head(h, x) ==
    /\ Inserted(h, 1, x)
    /\ InsertAtLink(h, x)

hlist_rcu_insert_before(x, n) ==
    /\ \E h \in Hlist \cap Live : n \in Nodes(h) /\ Inserted(h, Place(n), x)
    /\ InsertAtLink(pprev[n], x)

hlist_rcu_insert_after(x, p) ==
    /\ \E h \in Hlist \cap Live : p \in Nodes(h) /\ Inserted(h, Place(p) + 1, x)
    /\ InsertAtLink(p, x)

hlist_rcu_remove(x) ==
    /\ \E h \in Hlist \cap Live : x \in Nodes(h)
    /\ link' = [link EXCEPT ![pprev[x]] = link[x]]
    /\ pprev' = IF link[x] = Null THEN pprev ELSE [pprev EXCEPT ![link[x]] = pprev[x]]
    /\ Taken(x)
    /\ UNCHANGED last

hlist_set_head(new, old) ==
    /\ Moved(new, old)
    /\ link' = [link EXCEPT ![new] = link[old]]
    /\ pprev' = IF hlist_empty(old) THEN pprev ELSE [pprev EXCEPT ![link[old]] = new]
    /\ UNCHANGED last

hlist_node_init(x) ==
    /\ x \in Free /\ Hlist /= {}
    /\ pprev' = [pprev EXCEPT ![x] = Null]
    /\ UNCHANGED <<link, last, members, reader, during>>

--------------------------------------------------------------------------------
(* slist_rcu_for_each(), hlist_rcu_for_each() *)

Enter ==
    /\ ~Reading /\ Shared \in Live
    /\ reader' = [at |-> link[Shared], seen |-> <<>>]
    /\ during' = [stays |-> Nodes(Shared), removed |-> {}]
    /\ UNCHANGED <<link, last, pprev, members>>

rcu_next ==
    /\ Reading /\ reader.at /= Null
    /\ reader' = [at |-> link[reader.at], seen |-> Append(reader.seen, reader.at)]
    /\ UNCHANGED <<link, last, pprev, members, during>>

Leave ==
    /\ Reading /\ reader.at = Null
    /\ reader' = Idle /\ during' = Nothing
    /\ UNCHANGED <<link, last, pprev, members>>

Next ==
    \/ \E h \in Slist :
          \/ slist_init(h)
          \/ \E x \in Node : slist_rcu_insert_head(h, x) \/ slist_rcu_insert_tail(h, x)
          \/ \E x, p \in Node : slist_rcu_insert_after(h, x, p)
          \/ \E p \in Node \cup {Null} : slist_rcu_remove(h, p)
          \/ \E h2 \in Slist : slist_concat(h, h2) \/ slist_set_head(h, h2)
    \/ \E h \in Hlist :
          \/ hlist_init(h)
          \/ \E x \in Node : hlist_rcu_insert_head(h, x)
          \/ \E h2 \in Hlist : hlist_set_head(h, h2)
    \/ \E x, y \in Node : hlist_rcu_insert_before(x, y) \/ hlist_rcu_insert_after(x, y)
    \/ \E x \in Node : hlist_rcu_remove(x) \/ hlist_node_init(x)
    \/ Enter \/ rcu_next \/ Leave

Spec == Init /\ [][Next]_vars

--------------------------------------------------------------------------------

TypeOK ==
    /\ link \in [List \cup Node -> Node \cup {Null}]
    /\ last \in [Slist -> Node \cup {Null}]
    /\ pprev \in [Node -> List \cup Node \cup {Null}]
    /\ \A h \in Live : members[h] \in Seq(Node) /\ IsInjective(members[h])

(* The links of each list, and its last node or the links back, are those  *)
(* of its members.                                                         *)
ListsSound ==
    \A h \in Live :
        LET s == members[h]
            n == Len(s)
        IN  /\ link[h] = IF s = <<>> THEN Null ELSE s[1]
            /\ \A i \in 1..n : link[s[i]] = IF i = n THEN Null ELSE s[i + 1]
            /\ h \in Slist => /\ last[h] = IF s = <<>> THEN Null ELSE s[n]
                              /\ slist_singular(h) <=> n = 1
            /\ h \in Hlist => /\ \A i \in 1..n : /\ pprev[s[i]] = IF i = 1 THEN h ELSE s[i - 1]
                                                 /\ ~hlist_node_unlinked(s[i])
                              /\ hlist_singular(h) <=> n = 1

(* A reader sees each node once, all those that are in the list while it   *)
(* reads, in their order, and others only if they are in it at some time.  *)
ReaderSound ==
    Reading =>
        /\ IsInjective(reader.seen)
        /\ reader.at = Null => during.stays \subseteq ToSet(reader.seen)
        /\ ToSet(reader.seen) \subseteq Nodes(Shared) \cup during.removed
        /\ \A i, j \in DOMAIN reader.seen : \A m, n \in DOMAIN members[Shared] :
               /\ i < j
               /\ reader.seen[i] = members[Shared][m] /\ reader.seen[j] = members[Shared][n]
               => m < n
================================================================================
