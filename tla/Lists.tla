--------------------------------- MODULE Lists ---------------------------------
(***************************************************************************)
(* kern/list.h: doubly linked lists, in which heads and nodes are cells of *)
(* the same type and an empty list is a cell linked to itself.  The caller *)
(* provides all locking; what readers without locks see is in Bulletin.    *)
(* A list is its cells, members the sequences they stand for.              *)
(***************************************************************************)
EXTENDS Integers, Sequences, SequencesExt, FiniteSetsExt

CONSTANTS
    Heads,          \* the lists
    Node,           \* the nodes
    Null,           \* the null pointer
    Stale           \* what a list is until it is initialised again

VARIABLES
    list,           \* the members next and prev of every cell
    members         \* history: the nodes of each list

vars == <<list, members>>

Cell == Heads \cup Node

Joined(s, a, b) == [s EXCEPT !.next[a] = b, !.prev[b] = a]

list_init(s, h) == Joined(s, h, h)
list_node_init(s, n) == [s EXCEPT !.next[n] = Null, !.prev[n] = Null]
list_node_unlinked(s, n) == s.prev[n] = Null
list_empty(s, h) == s.next[h] = h
list_singular(s, h) == ~list_empty(s, h) /\ s.next[h] = s.prev[h]

(* Broken: the next node keeps its link to the previous one. *)
AddForward(s, p, n, x) ==
    [s EXCEPT !.next[x] = n, !.next[p] = x, !.prev[x] = p]

list_add(s, p, n, x) == Joined(Joined(s, x, n), p, x)

list_insert_head(s, h, x) == list_add(s, h, s.next[h], x)
list_insert_tail(s, h, x) == list_add(s, s.prev[h], h, x)
list_insert_before(s, x, n) == list_add(s, s.prev[n], n, x)
list_insert_after(s, x, p) == list_add(s, p, s.next[p], x)

(* The node keeps its links. *)
list_remove(s, x) == Joined(s, s.prev[x], s.next[x])

(* The nodes of h2 before x go to h1. *)
list_split(s, h1, h2, x) ==
    IF list_empty(s, h2) \/ s.next[h2] = x \/ x = h2 THEN list_init(s, h1)
    ELSE Joined(Joined(Joined(s, h1, s.next[h2]), s.prev[x], h1), h2, x)

list_concat(s, h1, h2) ==
    IF list_empty(s, h2) THEN s
    ELSE Joined(Joined(s, s.prev[h1], s.next[h2]), s.prev[h2], h1)

list_set_head(s, new, old) ==
    IF list_empty(s, old) THEN list_init(s, new)
    ELSE Joined(Joined(s, new, s.next[old]), s.prev[old], new)

(* The nodes a loop finds, list_for_each() forward and                     *)
(* list_for_each_reverse() backward, and Null if it leaves the list.       *)
Walk(link, h) ==
    LET Visit[n \in 0..(Cardinality(Cell) + 1)] ==
            IF n = 0 THEN <<link[h]>>
            ELSE LET w == Visit[n - 1] IN
                 IF Last(w) \in {h, Null} THEN w ELSE Append(w, link[Last(w)])
        w == Visit[Cardinality(Cell) + 1]
    IN  IF Last(w) = h THEN Front(w) ELSE Append(w, Null)

--------------------------------------------------------------------------------

Live == {h \in Heads : members[h] /= Stale}
Used == UNION {ToSet(members[h]) : h \in Live}
ListOf(x) == CHOOSE h \in Live : x \in ToSet(members[h])
Place(x) == CHOOSE i \in DOMAIN members[ListOf(x)] : members[ListOf(x)][i] = x

Init ==
    /\ list = [next |-> [c \in Cell |-> Null], prev |-> [c \in Cell |-> Null]]
    /\ members = [h \in Heads |-> Stale]

Initialise(h) ==
    /\ h \notin Live
    /\ list' = list_init(list, h)
    /\ members' = [members EXCEPT ![h] = <<>>]

InsertEnd(h, x) ==
    /\ h \in Live /\ x \notin Used
    /\ \/ /\ list' = list_insert_head(list, h, x)
          /\ members' = [members EXCEPT ![h] = <<x>> \o @]
       \/ /\ list' = list_insert_tail(list, h, x)
          /\ members' = [members EXCEPT ![h] = Append(@, x)]

InsertNear(x, y) ==
    /\ x \notin Used /\ y \in Used
    /\ \/ /\ list' = list_insert_before(list, x, y)
          /\ members' = [members EXCEPT ![ListOf(y)] = InsertAt(@, Place(y), x)]
       \/ /\ list' = list_insert_after(list, x, y)
          /\ members' = [members EXCEPT ![ListOf(y)] = InsertAt(@, Place(y) + 1, x)]

(* A node that is removed may be initialised, and is stale otherwise. *)
RemoveNode(x) ==
    /\ x \in Used
    /\ \/ list' = list_remove(list, x)
       \/ list' = list_node_init(list_remove(list, x), x)
    /\ members' = [members EXCEPT ![ListOf(x)] = Remove(@, x)]

Split(h1, h2, x) ==
    /\ h1 /= h2 /\ h2 \in Live /\ members[h1] \in {Stale, <<>>}
    /\ x \in ToSet(members[h2]) \cup {h2}
    /\ list' = list_split(list, h1, h2, x)
    /\ members' =
           IF x = h2 THEN [members EXCEPT ![h1] = <<>>]
           ELSE [members EXCEPT ![h1] = SubSeq(members[h2], 1, Place(x) - 1),
                                ![h2] = SubSeq(@, Place(x), Len(@))]

(* An empty list stays as it is. *)
Concat(h1, h2) ==
    /\ h1 /= h2 /\ {h1, h2} \subseteq Live
    /\ list' = list_concat(list, h1, h2)
    /\ members' = [members EXCEPT ![h1] = @ \o members[h2],
                                  ![h2] = IF @ = <<>> THEN @ ELSE Stale]

SetHead(new, old) ==
    /\ new /= old /\ old \in Live /\ members[new] \in {Stale, <<>>}
    /\ list' = list_set_head(list, new, old)
    /\ members' = [members EXCEPT ![new] = members[old], ![old] = Stale]

Next ==
    \/ \E h \in Heads : Initialise(h)
    \/ \E h \in Heads, x \in Node : InsertEnd(h, x)
    \/ \E x, y \in Node : InsertNear(x, y)
    \/ \E x \in Node : RemoveNode(x)
    \/ \E h1, h2 \in Heads, x \in Cell : Split(h1, h2, x)
    \/ \E h1, h2 \in Heads : Concat(h1, h2) \/ SetHead(h1, h2)

Spec == Init /\ [][Next]_vars

--------------------------------------------------------------------------------

TypeOK ==
    /\ list \in [next : [Cell -> Cell \cup {Null}], prev : [Cell -> Cell \cup {Null}]]
    /\ \A h \in Live : members[h] \in Seq(Node) /\ IsInjective(members[h])

(* Both walks find the nodes of each list in order, and the tests say what *)
(* the list has.                                                           *)
ListsSound ==
    \A h \in Live :
        /\ Walk(list.next, h) = members[h]
        /\ Walk(list.prev, h) = Reverse(members[h])
        /\ list_empty(list, h) <=> members[h] = <<>>
        /\ list_singular(list, h) <=> Len(members[h]) = 1
        /\ \A x \in ToSet(members[h]) : ~list_node_unlinked(list, x)
================================================================================
