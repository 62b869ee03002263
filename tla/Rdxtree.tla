--------------------------------- MODULE Rdxtree ---------------------------------
(***************************************************************************)
(* kern/rdxtree.c: a radix tree from keys to pointers, whose height varies *)
(* with the largest key.  One writer at a time; lookups take no lock and   *)
(* run in read-side critical sections, so that they see the tree after     *)
(* each store of the writer, and a node that was unlinked stays as it is   *)
(* until the readers that may be in it have left (see Rcu).                *)
(*                                                                         *)
(* An operation is an operator on a state of the writer, which collects    *)
(* what each of its stores publishes; Store then makes one visible at a    *)
(* time.  Keys are numbers, and the nodes with a height h are indexed by   *)
(* their digit h in base Size.                                             *)
(***************************************************************************)
EXTENDS Integers, Sequences, FiniteSets

CONSTANTS
    Node,       \* memory for nodes
    Key,        \* the keys that users insert, remove and look up
    Value,      \* stored pointers
    Reader,
    Size,       \* RDXTREE_RADIX_SIZE
    MaxHeight,  \* bound on the height of the tree
    KeyAlloc,   \* the flags have RDXTREE_KEY_ALLOC
    None

Index == 0..(Size - 1)
Entry == Node \cup Value \cup {None}
max_key(height) == Size^height - 1
AnyKey == 0..max_key(MaxHeight)

VARIABLES
    tree,       \* the writer's state, at the end of its last operation
    seen,       \* what readers see: the root, and the nodes in memory
    stores,     \* what the stores left in the operation will publish
    deferred,   \* unlinked nodes, and the readers each of them waits for
    map,        \* history: contents of the tree before the operation
    target,     \* history: its contents afterwards
    reader

vars == <<tree, seen, stores, deferred, map, target, reader>>

Blank == [height |-> 0, entries |-> [i \in Index |-> None]]
Empty == [k \in AnyKey |-> None]
Outside == [pc |-> "idle", key |-> 0, at |-> None, height |-> 0, result |-> None,
            possible |-> {}]

Init ==
    /\ tree = [root |-> None, height |-> 0, node |-> [n \in Node |-> Blank],
               parent |-> [n \in Node |-> None], index |-> [n \in Node |-> 0],
               bm |-> [n \in Node |-> Index], free |-> Node, dead |-> {},
               budget |-> 0, error |-> "", key |-> 0, log |-> <<>>, ok |-> TRUE]
    /\ seen = [root |-> None, node |-> [n \in Node |-> Blank]]
    /\ stores = <<>>
    /\ deferred = {}
    /\ map = Empty /\ target = Empty
    /\ reader = [r \in Reader |-> Outside]

--------------------------------------------------------------------------------
(* Nodes *)

Check(s, b) == [s EXCEPT !.ok = @ /\ b]
Fails(s, error) == [s EXCEPT !.error = error]

(* A store that readers see: rcu_store_ptr(). *)
Stored(s) ==
    [s EXCEPT !.log = Append(@, [root |-> s.root, node |-> s.node, dead |-> s.dead])]

SetRoot(s, entry) == Stored([s EXCEPT !.root = entry])

nr_entries(s, n) == Cardinality({i \in Index : s.node[n].entries[i] /= None})

(* Memory may run out: budget is what the operation will get. *)
NodeCreate(s, n, height) ==
    [s EXCEPT !.free = @ \ {n}, !.budget = @ - 1,
              !.node[n].height = height, !.parent[n] = None]

NewNode(s) == CHOOSE n \in s.free : TRUE

rdxtree_node_schedule_destruction(s, n) ==
    Stored(Check([s EXCEPT !.dead = @ \cup {n}], s.parent[n] = None))

rdxtree_node_link(s, n, parent, i) ==
    [s EXCEPT !.parent[n] = parent, !.index[n] = i]

rdxtree_node_unlink(s, n) ==
    Check(rdxtree_node_link(s, n, None, 0), s.parent[n] /= None)

rdxtree_node_insert(s, n, i, entry) ==
    Stored(Check([s EXCEPT !.node[n].entries[i] = entry],
                 s.node[n].entries[i] = None))

rdxtree_node_remove(s, n, i) ==
    Stored(Check([s EXCEPT !.node[n].entries[i] = None],
                 s.node[n].entries[i] /= None))

(* The first entry from an index on, Size if there is none. *)
rdxtree_node_find(m, n, from) ==
    LET at == {i \in from..(Size - 1) : m.node[n].entries[i] /= None}
    IN IF at = {} THEN Size ELSE CHOOSE i \in at : \A j \in at : i <= j

Digit(key, height) == (key \div Size^height) % Size

(* A bit of a node is set if the entry is free, or the child has free      *)
(* entries below it.                                                       *)
RECURSIVE rdxtree_insert_bm_clear(_, _, _)
rdxtree_insert_bm_clear(s, n, i) ==
    LET cleared == [s EXCEPT !.bm[n] = @ \ {i}]
    IN IF nr_entries(s, n) < Size \/ s.parent[n] = None THEN cleared
       ELSE rdxtree_insert_bm_clear(cleared, s.parent[n], s.index[n])

RECURSIVE rdxtree_remove_bm_set(_, _, _)
rdxtree_remove_bm_set(s, n, i) ==
    LET set == [s EXCEPT !.bm[n] = @ \cup {i}]
        p == s.parent[n]
    IN IF p = None THEN set
       ELSE IF s.index[n] \in s.bm[p] THEN set
       ELSE rdxtree_remove_bm_set(set, p, s.index[n])

--------------------------------------------------------------------------------
(* The height of the tree *)

(* A root whose only entry is the first one is of no use.  The entry is    *)
(* not reset, as readers may be about to follow it.                        *)
RECURSIVE rdxtree_shrink(_)
rdxtree_shrink(s) ==
    IF s.height = 0 THEN s
    ELSE LET n == s.root
             first == s.node[n].entries[0]
         IN IF nr_entries(s, n) /= 1 \/ first = None THEN s
            ELSE LET unlinked == IF s.height > 1 THEN rdxtree_node_unlink(s, first) ELSE s
                     root == SetRoot([unlinked EXCEPT !.height = @ - 1], first)
                 IN rdxtree_shrink(rdxtree_node_schedule_destruction(root, n))

(* One turn of the loop of rdxtree_grow(). *)
GrowOnce(s) ==
    LET n == NewNode(s)
        created == NodeCreate(s, n, s.height)
        linked == IF s.height = 0 THEN created
                  ELSE rdxtree_node_link(created, s.root, n, 0)
        full == KeyAlloc /\ (s.height = 0 \/ s.bm[s.root] = {})
        marked == IF full THEN [linked EXCEPT !.bm[n] = @ \ {0}] ELSE linked
        \* not reachable yet, but a store all the same
        inserted == rdxtree_node_insert(marked, n, 0, s.root)
    IN SetRoot([inserted EXCEPT !.height = @ + 1], n)

RECURSIVE GrowTo(_, _)
GrowTo(s, height) ==
    IF s.height = height THEN s
    ELSE IF s.budget = 0 THEN Fails(rdxtree_shrink(s), "ENOMEM")
    ELSE GrowTo(GrowOnce(s), height)

rdxtree_grow(s, key) ==
    LET height == CHOOSE h \in 0..(MaxHeight + 1) :
                      /\ h > s.height /\ key <= max_key(h)
                      /\ h = s.height + 1 \/ key > max_key(h - 1)
    IN IF s.root = None THEN [s EXCEPT !.height = height] ELSE GrowTo(s, height)

(* Nodes without entries are removed from their parent. *)
RECURSIVE rdxtree_cleanup(_, _)
rdxtree_cleanup(s, n) ==
    LET p == s.parent[n] IN
    IF nr_entries(s, n) > 0 THEN IF p = None THEN rdxtree_shrink(s) ELSE s
    ELSE IF p = None
    THEN rdxtree_node_schedule_destruction(SetRoot([s EXCEPT !.height = 0], None), n)
    ELSE rdxtree_cleanup(
             rdxtree_node_schedule_destruction(
                 rdxtree_node_remove(rdxtree_node_unlink(s, n), p, s.index[n]), n), p)

--------------------------------------------------------------------------------
(* Insertion and removal *)

(* A child of prev, or a root, for the path of an insertion. *)
Extended(s, prev, i, height) ==
    LET n == NewNode(s)
        created == NodeCreate(s, n, height)
    IN IF prev = None THEN SetRoot(created, n)
       ELSE rdxtree_node_insert(rdxtree_node_link(created, n, prev, i), prev, i, n)

(* The way down of rdxtree_insert_common(), from a node with the given     *)
(* height, or from where one is missing.                                   *)
RECURSIVE Insert(_, _, _, _, _, _)
Insert(s, key, v, prev, n, height) ==
    IF n = None
    THEN IF s.budget > 0
         THEN LET extended == Extended(s, prev, Digit(key, height + 1), height)
              IN Insert(extended, key, v, prev, NewNode(s), height)
         ELSE Fails(IF prev = None THEN [s EXCEPT !.height = 0]
                    ELSE rdxtree_cleanup(s, prev), "ENOMEM")
    ELSE LET i == Digit(key, height)
             next == s.node[n].entries[i]
         IN IF height > 0 THEN Insert(s, key, v, n, next, height - 1)
            ELSE IF next /= None THEN Fails(s, "EBUSY")
            ELSE LET inserted == rdxtree_node_insert(s, n, i, v)
                 IN IF KeyAlloc THEN rdxtree_insert_bm_clear(inserted, n, i)
                    ELSE inserted

rdxtree_insert_common(s, key, v) ==
    LET grown == IF key > max_key(s.height) THEN rdxtree_grow(s, key) ELSE s IN
    IF grown.error /= "" THEN grown
    ELSE IF grown.height > 0 THEN Insert(grown, key, v, None, grown.root, grown.height - 1)
    ELSE IF grown.root /= None THEN Fails(grown, "EBUSY")
    ELSE SetRoot(grown, v)

(* The way down of rdxtree_insert_alloc_common(), along the first bits     *)
(* that are set.                                                           *)
RECURSIVE InsertAlloc(_, _, _, _, _, _, _)
InsertAlloc(s, key, v, prev, i, n, height) ==
    IF n = None
    THEN IF s.budget > 0
         THEN InsertAlloc(Extended(s, prev, i, height), key, v, prev, i, NewNode(s), height)
         ELSE Fails(rdxtree_cleanup(s, prev), "ENOMEM")
    ELSE IF s.bm[n] = {}
    THEN LET above == max_key(height + 1) + 1
         IN [rdxtree_insert_common(s, above, v) EXCEPT !.key = above]
    ELSE LET first == CHOOSE j \in s.bm[n] : \A k \in s.bm[n] : j <= k
             below == key + first * Size^height
         IN IF height > 0
            THEN InsertAlloc(s, below, v, n, first, s.node[n].entries[first], height - 1)
            ELSE [rdxtree_insert_bm_clear(rdxtree_node_insert(s, n, first, v), n, first)
                  EXCEPT !.key = below]

rdxtree_insert_alloc_common(s, v) ==
    IF s.height > 0 THEN InsertAlloc(s, 0, v, None, 0, s.root, s.height - 1)
    ELSE IF s.root = None THEN [SetRoot(s, v) EXCEPT !.key = 0]
    ELSE [rdxtree_insert_common(s, 1, v) EXCEPT !.key = 1]

(* The entry for a key, and the node that has it. *)
RECURSIVE Path(_, _, _, _)
Path(m, key, n, height) ==
    IF n = None THEN [entry |-> None, node |-> None]
    ELSE LET next == m.node[n].entries[Digit(key, height)]
         IN IF height = 0 THEN [entry |-> next, node |-> n]
            ELSE Path(m, key, next, height - 1)

rdxtree_remove(s, key) ==
    IF key > max_key(s.height) THEN s
    ELSE IF s.height = 0 THEN SetRoot(s, None)
    ELSE LET at == Path(s, key, s.root, s.height - 1)
             i == Digit(key, 0)
         IN IF at.entry = None THEN s
            ELSE LET set == IF KeyAlloc THEN rdxtree_remove_bm_set(s, at.node, i) ELSE s
                 IN rdxtree_cleanup(rdxtree_node_remove(set, at.node, i), at.node)

rdxtree_replace_slot(s, key, v) ==
    IF s.height = 0 THEN SetRoot(s, v)
    ELSE Stored([s EXCEPT !.node[Path(s, key, s.root, s.height - 1).node]
                               .entries[Digit(key, 0)] = v])

--------------------------------------------------------------------------------
(* Iteration *)

Over == [node |-> None, key |-> -1, entry |-> None]

(* rdxtree_walk_next() from a key on: the way down, and again from the     *)
(* root with the first key of the next subtree where a node has no more.   *)
RECURSIVE WalkFrom(_, _, _, _)
WalkFrom(m, key, n, height) ==
    LET i == rdxtree_node_find(m, n, Digit(key, height))
        next == IF i = Digit(key, height) THEN key
                ELSE (key \div Size^height + i - Digit(key, height)) * Size^height
        above == (key \div Size^(height + 1) + 1) * Size^(height + 1)
    IN IF i = Size
       THEN IF above > max_key(m.node[m.root].height + 1) THEN Over
            ELSE WalkFrom(m, above, m.root, m.node[m.root].height)
       ELSE IF height > 0 THEN WalkFrom(m, next, m.node[n].entries[i], height - 1)
       ELSE [node |-> n, key |-> next, entry |-> m.node[n].entries[i]]

rdxtree_walk_next(m, iter) ==
    IF m.root = None THEN Over
    ELSE IF m.root \in Value
    THEN IF iter.key /= -1 THEN Over
         ELSE [node |-> None, key |-> 0, entry |-> m.root]
    ELSE IF iter.key + 1 > max_key(m.node[m.root].height + 1) THEN Over
    ELSE WalkFrom(m, iter.key + 1, m.root, m.node[m.root].height)

rdxtree_walk(m, iter) ==
    LET from == (iter.key + 1) % Size
        i == rdxtree_node_find(m, iter.node, from)
    IN IF iter.node = None \/ from = 0 THEN rdxtree_walk_next(m, iter)
       ELSE IF i = Size THEN rdxtree_walk_next(m, iter)
       ELSE [node |-> iter.node, key |-> iter.key + (i - from) + 1,
             entry |-> m.node[iter.node].entries[i]]

(* A leaf at a time, with what it has. *)
RECURSIVE RemoveLeaves(_)
RemoveLeaves(s) ==
    LET leaf == rdxtree_walk_next(s, Over).node
        p == s.parent[leaf]
        i == s.index[leaf]
        set == IF KeyAlloc THEN rdxtree_remove_bm_set(s, p, i) ELSE s
        removed == rdxtree_cleanup(rdxtree_node_remove(set, p, i), p)
    IN IF leaf = None THEN s
       ELSE IF p = None
       THEN rdxtree_node_schedule_destruction(SetRoot([s EXCEPT !.height = 0], None), leaf)
       ELSE RemoveLeaves(rdxtree_node_schedule_destruction(
                [removed EXCEPT !.parent[leaf] = None], leaf))

rdxtree_remove_all(s) ==
    IF s.height > 0 THEN RemoveLeaves(s)
    ELSE IF s.root /= None THEN SetRoot(s, None) ELSE s

--------------------------------------------------------------------------------
(* The writer *)

(* The contents of the tree, as a lookup finds it. *)
Found(m, key) ==
    IF m.root \notin Node THEN IF key = 0 THEN m.root ELSE None
    ELSE LET height == m.node[m.root].height
         IN IF key > max_key(height + 1) THEN None
            ELSE Path(m, key, m.root, height).entry

(* An operation that results in s should leave the tree with contents. *)
Runs(s, contents) ==
    /\ tree' = [s EXCEPT !.log = <<>>, !.dead = {}, !.budget = 0, !.error = "", !.key = 0]
    /\ target' = contents
    /\ stores' = s.log
    /\ map' = IF s.log = <<>> THEN contents ELSE map
    /\ UNCHANGED <<seen, deferred, reader>>

Begun(b) == [tree EXCEPT !.budget = b]
Idle == stores = <<>>
Budgets == {b \in 0..MaxHeight : b <= Cardinality(tree.free)}

InsertKey(key, v) ==
    \E b \in Budgets : \E s \in {rdxtree_insert_common(Begun(b), key, v)} :
        LET good == CASE s.error = "EBUSY" -> map[key] /= None
                      [] s.error = "ENOMEM" -> TRUE
                      [] OTHER -> map[key] = None
        IN /\ Idle
           /\ Runs(Check(s, good), IF s.error = "" THEN [map EXCEPT ![key] = v] ELSE map)

InsertAnywhere(v) ==
    /\ Idle /\ KeyAlloc
    /\ \E key \in AnyKey : map[key] = None
    /\ \E b \in Budgets : \E s \in {rdxtree_insert_alloc_common(Begun(b), v)} :
           LET good == s.error = "ENOMEM" \/ (s.error = "" /\ map[s.key] = None)
           IN s.key \in AnyKey /\ Runs(Check(s, good), IF s.error = "" THEN [map EXCEPT ![s.key] = v] ELSE map)

Remove(key) ==
    /\ Idle
    /\ Runs(rdxtree_remove(Begun(0), key), [map EXCEPT ![key] = None])

Replace(key, v) ==
    /\ Idle /\ map[key] \notin {None, v}
    /\ Runs(rdxtree_replace_slot(Begun(0), key, v), [map EXCEPT ![key] = v])

(* Only for leaves with a first entry and no other, for which the assertion *)
(* of rdxtree_node_destroy() holds: it does not for the rest.              *)
RemoveAllKeys ==
    /\ Idle
    /\ \A key \in AnyKey : map[key] /= None => key % Size = 0
    /\ Runs(rdxtree_remove_all(Begun(0)), Empty)

(* The readers in a read-side critical section. *)
Inside == {r \in Reader : reader[r].pc /= "idle"}

(* The next store of the operation is made. *)
Store ==
    LET m == Head(stores) IN
    /\ ~Idle
    /\ seen' = [root |-> m.root, node |-> m.node]
    /\ stores' = Tail(stores)
    /\ deferred' = deferred \cup
           {[node |-> n, readers |-> Inside] : n \in m.dead \ {d.node : d \in deferred}}
    /\ map' = IF stores' = <<>> THEN target ELSE map
    /\ reader' = [r \in Reader |->
                    IF r \notin Inside THEN reader[r]
                    ELSE [reader[r] EXCEPT !.possible = @ \cup {Found(m, reader[r].key)}]]
    /\ UNCHANGED <<tree, target>>

(* rdxtree_node_destroy(), when the readers have left: the entry that      *)
(* rdxtree_shrink() leaves is reset, as what is freed must be as it was    *)
(* constructed.  The height is written when a node is created.             *)
rdxtree_node_destroy(d) ==
    LET n == d.node
        Reset(m) == [m EXCEPT !.node[n] = Blank]
        shrunk == nr_entries(tree, n) > 0
    IN /\ Idle /\ d.readers = {}
       /\ deferred' = deferred \ {d}
       /\ tree' = [Check(Reset(tree),
                         shrunk => {i \in Index : tree.node[n].entries[i] /= None} = {0})
                     EXCEPT !.free = @ \cup {n},
                            !.bm[n] = IF shrunk THEN Index ELSE @]
       /\ seen' = Reset(seen)
       /\ UNCHANGED <<stores, map, target, reader>>

--------------------------------------------------------------------------------
(* rdxtree_lookup_common(), by a reader *)

Becomes(r, state) == reader' = [reader EXCEPT ![r] = state]

Enter(r, key) ==
    /\ reader[r].pc = "idle"
    /\ Becomes(r, [Outside EXCEPT !.pc = "root", !.key = key,
                                   !.possible = {Found(seen, key)}])
    /\ UNCHANGED <<tree, seen, stores, deferred, map, target>>

(* The height comes with the root. *)
LoadRoot(r) ==
    LET s == reader[r]
        m == seen.root
        h == seen.node[m].height
    IN /\ s.pc = "root"
       /\ Becomes(r, IF m \in Node /\ s.key <= max_key(h + 1)
                     THEN [s EXCEPT !.pc = "entry", !.at = m, !.height = h]
                     ELSE [s EXCEPT !.pc = "done",
                                    !.result = IF m \in Value /\ s.key = 0 THEN m ELSE None])
       /\ UNCHANGED <<tree, seen, stores, deferred, map, target>>

LoadEntry(r) ==
    LET s == reader[r]
        e == seen.node[s.at].entries[Digit(s.key, s.height)]
    IN /\ s.pc = "entry"
       /\ Becomes(r, IF s.height > 0 /\ e /= None
                     THEN [s EXCEPT !.at = e, !.height = @ - 1]
                     ELSE [s EXCEPT !.pc = "done", !.result = e])
       /\ UNCHANGED <<tree, seen, stores, deferred, map, target>>

Leave(r) ==
    /\ reader[r].pc = "done"
    /\ Becomes(r, Outside)
    /\ deferred' = {[d EXCEPT !.readers = @ \ {r}] : d \in deferred}
    /\ UNCHANGED <<tree, seen, stores, map, target>>

Next ==
    \/ \E key \in Key, v \in Value : InsertKey(key, v) \/ Replace(key, v)
    \/ \E v \in Value : InsertAnywhere(v)
    \/ \E key \in Key : Remove(key)
    \/ RemoveAllKeys
    \/ Store
    \/ \E d \in deferred : rdxtree_node_destroy(d)
    \/ \E r \in Reader :
           \/ \E key \in Key : Enter(r, key)
           \/ LoadRoot(r) \/ LoadEntry(r) \/ Leave(r)

Spec == Init /\ [][Next]_vars

--------------------------------------------------------------------------------

TypeOK ==
    /\ seen.root \in Entry
    /\ \A n \in Node : seen.node[n].entries \in [Index -> Entry]
    /\ tree.height \in 0..MaxHeight
    /\ tree.free \subseteq Node
    /\ \A d \in deferred : d.node \in Node \ tree.free /\ d.readers \subseteq Inside
    /\ map \in [AnyKey -> Value \cup {None}]
    /\ \A r \in Reader : reader[r].pc \in {"idle", "root", "entry", "done"}

(* The assertions of the code, and the error each operation returns. *)
AssertsHold == tree.ok

RECURSIVE Keys(_, _)
Keys(m, iter) ==
    LET next == rdxtree_walk(m, iter)
    IN IF next.entry = None THEN <<>>
       ELSE <<<<next.key, next.entry>>>> \o Keys(m, next)

RECURSIVE Sorted(_, _)
Sorted(contents, from) ==
    IF from \notin AnyKey THEN <<>>
    ELSE (IF contents[from] = None THEN <<>> ELSE <<<<from, contents[from]>>>>)
         \o Sorted(contents, from + 1)

(* At any time readers find what users have put in: after each store, a    *)
(* key has what it had before the operation or what it has after it.       *)
(* Iteration finds all the keys in their order.                            *)
MapSound ==
    /\ \A k \in AnyKey : Found(seen, k) \in {map[k], target[k]}
    /\ Idle => Keys(seen, Over) = Sorted(map, 0)

(* A lookup returns what the key had at some time since it began. *)
LookupsSound ==
    \A r \in Reader : reader[r].pc = "done" => reader[r].result \in reader[r].possible

(* A bit that is set leads to a free entry, and memory that is given back  *)
(* has all of them set.  The converse, that keys which are free are found, *)
(* does not hold: an insertion clears the bit of a parent whose entries    *)
(* are all in use, even if there is room below them.                       *)
BitsSound ==
    KeyAlloc /\ Idle =>
    /\ \A n \in Node \ (tree.free \cup {d.node : d \in deferred}) :
       \A i \in tree.bm[n] :
           LET e == tree.node[n].entries[i]
           IN e = None \/ (e \in Node /\ tree.bm[e] /= {})
    /\ \A n \in tree.free : tree.bm[n] = Index
================================================================================
