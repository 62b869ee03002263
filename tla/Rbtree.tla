---------------------------------- MODULE Rbtree ----------------------------------
(***************************************************************************)
(* kern/rbtree.c: red-black trees, whose nodes are part of the entries and *)
(* which users search with their own comparison.  Insertion and removal    *)
(* rebalance the tree; each is one step, as users hold a lock.  The links  *)
(* are kept in both directions, and every function goes by the links the   *)
(* code goes by, so that a wrong one shows.                                *)
(***************************************************************************)
EXTENDS Integers, Sequences, FiniteSets

CONSTANTS
    Node,
    KeyOf,      \* the key of each node; nodes with equal keys replace each other
    Null

Left == 1
Right == 2
Side == {Left, Right}
Other(side) == 3 - side

VARIABLES
    tree,       \* the root, and the links and colors of the nodes; ok is FALSE
                \* when an assertion failed
    members     \* history: the nodes that users have put in

vars == <<tree, members>>

Unlinked == <<Null, Null>>

Init ==
    /\ tree = [root |-> Null, child |-> [n \in Node |-> Unlinked],
               parent |-> [n \in Node |-> Null], red |-> {}, ok |-> TRUE]
    /\ members = {}

Check(t, b) == [t EXCEPT !.ok = @ /\ b]
SetRed(t, n) == [t EXCEPT !.red = @ \cup {n}]
SetBlack(t, n) == [t EXCEPT !.red = @ \ {n}]

\* Null is a black leaf.
IsRed(t, n) == n \in t.red

rbtree_node_index(t, n, p) == IF t.child[p][Left] = n THEN Left ELSE Right

(* The assertions of rbtree_node_index(). *)
Indexed(t, n, p) ==
    Check(t, p /= Null /\ n \in {t.child[p][Left], t.child[p][Right]}
             /\ (n = Null \/ t.parent[n] = p))

(* What points down to node n, or to the empty place at side of p, points  *)
(* to m instead.                                                           *)
Relink(t, p, side, m) ==
    IF p = Null THEN [t EXCEPT !.root = m] ELSE [t EXCEPT !.child[p][side] = m]

Attach(t, m, p) == IF m = Null THEN t ELSE [t EXCEPT !.parent[m] = p]

rbtree_rotate(t, n, left) ==
    LET right == Other(left)
        p == t.parent[n]
        r == t.child[n][right]
        s == t.child[r][left]
        side == IF p = Null THEN Left ELSE rbtree_node_index(t, n, p)
        linked == IF p = Null THEN t ELSE Indexed(t, n, p)
    IN Relink([Attach(linked, s, n) EXCEPT
                   !.child[n][right] = s, !.child[r][left] = n,
                   !.parent[r] = p, !.parent[n] = r], p, side, r)

--------------------------------------------------------------------------------
(* Insertion *)

(* Red nodes have no red child: n is red, and its parent may be. *)
RECURSIVE InsertFixup(_, _)
InsertFixup(t, n) ==
    LET p == t.parent[n]
        g == t.parent[p]
        left == rbtree_node_index(t, p, g)
        right == Other(left)
        uncle == t.child[g][right]
        inner == t.child[p][right] = n
        straight == IF inner THEN rbtree_rotate(t, p, left) ELSE t
        top == IF inner THEN n ELSE p
    IN IF p = Null THEN SetBlack(t, n)
       ELSE IF ~IsRed(t, p) THEN t
       ELSE IF g = Null THEN Check(t, FALSE)
       ELSE IF IsRed(t, uncle)
       THEN InsertFixup(SetRed(SetBlack(SetBlack(t, uncle), p), g), g)
       ELSE rbtree_rotate(SetRed(SetBlack(straight, top), g), g, right)

rbtree_insert_rebalance(t, p, side, n) ==
    LET added == SetRed([t EXCEPT !.parent[n] = p, !.child[n] = Unlinked], n)
        fixed == InsertFixup(Relink(added, p, side, n), n)
    IN Check(fixed, ~IsRed(fixed, fixed.root))

(* The way down of a lookup: the node with the key, or its place. *)
RECURSIVE Descend(_, _, _, _, _)
Descend(t, key, n, p, side) ==
    LET next == IF key <= KeyOf[n] THEN Left ELSE Right
    IN IF n = Null \/ key = KeyOf[n] THEN [node |-> n, parent |-> p, side |-> side]
       ELSE Descend(t, key, t.child[n][next], n, next)

rbtree_lookup_slot(t, key) == Descend(t, key, t.root, Null, Left)

rbtree_insert(n) ==
    LET slot == rbtree_lookup_slot(tree, KeyOf[n]) IN
    /\ n \notin members
    /\ slot.node = Null
    /\ tree' = rbtree_insert_rebalance(tree, slot.parent, slot.side, n)
    /\ members' = members \cup {n}

(* The new node takes over the links and the color of the previous one. *)
rbtree_replace_slot(n) ==
    LET slot == rbtree_lookup_slot(tree, KeyOf[n])
        prev == slot.node
        placed == Relink(tree, slot.parent, slot.side, n)
        copied == [placed EXCEPT !.child[n] = tree.child[prev],
                                 !.parent[n] = tree.parent[prev],
                                 !.red = IF prev \in @ THEN (@ \ {prev}) \cup {n} ELSE @]
    IN /\ n \notin members /\ prev /= Null
       /\ tree' = [Attach(Attach(copied, tree.child[prev][Left], n),
                          tree.child[prev][Right], n)
                     EXCEPT !.child[prev] = Unlinked, !.parent[prev] = Null]
       /\ members' = (members \ {prev}) \cup {n}

--------------------------------------------------------------------------------
(* Removal *)

RECURSIVE Leftmost(_, _)
Leftmost(t, n) == IF t.child[n][Left] = Null THEN n ELSE Leftmost(t, t.child[n][Left])

(* The paths through c, a child of p that may be a leaf, lack a black node. *)
RECURSIVE RemoveFixup(_, _, _)
RemoveFixup(s, c, p) ==
    LET t == Indexed(s, c, p)
        left == rbtree_node_index(t, c, p)
        right == Other(left)
        red == IsRed(t, t.child[p][right])
        raised == IF red THEN rbtree_rotate(SetRed(SetBlack(t, t.child[p][right]), p), p, left)
                  ELSE t
        b == raised.child[p][right]
        outer == IsRed(raised, raised.child[b][right])
        turned == IF outer THEN raised
                  ELSE rbtree_rotate(SetRed(SetBlack(raised, raised.child[b][left]), b), b, right)
        brother == turned.child[p][right]
        far == turned.child[brother][right]
        colored == IF IsRed(turned, p) THEN SetRed(turned, brother)
                   ELSE SetBlack(turned, brother)
    IN IF IsRed(s, c) THEN SetBlack(s, c)
       ELSE IF p = Null THEN s
       ELSE IF t.child[p][right] = Null THEN Check(t, FALSE)
       ELSE IF \A side \in Side : ~IsRed(raised, raised.child[b][side])
       THEN RemoveFixup(SetRed(raised, b), p, raised.parent[p])
       ELSE rbtree_rotate(SetBlack(SetBlack(Check(colored, far /= Null), p), far), p, left)

(* A node with a leaf is replaced by its other child. *)
RemoveSimple(t, n) ==
    LET c == IF t.child[n][Left] = Null THEN t.child[n][Right] ELSE t.child[n][Left]
        p == t.parent[n]
        side == IF p = Null THEN Left ELSE rbtree_node_index(t, n, p)
        removed == Relink(Attach(t, c, p), p, side, c)
    IN IF IsRed(t, n) THEN removed ELSE RemoveFixup(removed, c, p)

(* A node with two children is replaced by its successor, which leaves its *)
(* right child where it was.                                               *)
RemoveDouble(t, n) ==
    LET successor == Leftmost(t, t.child[n][Right])
        c == t.child[successor][Right]
        p == t.parent[n]
        q == t.parent[successor]
        side == IF p = Null THEN Left ELSE rbtree_node_index(t, n, p)
        placed == [Relink(t, p, side, successor) EXCEPT
                       !.parent[successor] = p,
                       !.child[successor][Left] = t.child[n][Left],
                       !.parent[t.child[n][Left]] = successor,
                       !.red = IF n \in @ THEN @ \cup {successor} ELSE @ \ {successor}]
        moved == Attach([placed EXCEPT !.child[successor][Right] = t.child[n][Right],
                                       !.parent[t.child[n][Right]] = successor,
                                       !.child[q][Left] = c], c, q)
        removed == IF q = n THEN placed ELSE moved
    IN IF IsRed(t, successor) THEN removed
       ELSE RemoveFixup(removed, c, IF q = n THEN successor ELSE q)

rbtree_remove(n) ==
    LET removed == IF Null \in {tree.child[n][Left], tree.child[n][Right]}
                   THEN RemoveSimple(tree, n) ELSE RemoveDouble(tree, n)
    IN /\ n \in members
       /\ tree' = [Check(removed, ~IsRed(removed, removed.root))
                     EXCEPT !.child[n] = Unlinked, !.parent[n] = Null, !.red = @ \ {n}]
       /\ members' = members \ {n}

--------------------------------------------------------------------------------
(* Iteration *)

RECURSIVE Furthest(_, _, _)
Furthest(t, n, side) ==
    IF t.child[n][side] = Null THEN n ELSE Furthest(t, t.child[n][side], side)

rbtree_firstlast(t, side) == IF t.root = Null THEN Null ELSE Furthest(t, t.root, side)

(* Up to the first parent on the other side. *)
RECURSIVE Ascend(_, _, _)
Ascend(t, n, side) ==
    LET p == t.parent[n]
    IN IF p = Null \/ rbtree_node_index(t, n, p) = Other(side) THEN p
       ELSE Ascend(t, p, side)

rbtree_walk(t, n, side) ==
    IF t.child[n][side] /= Null THEN Furthest(t, t.child[n][side], Other(side))
    ELSE Ascend(t, n, side)

rbtree_lookup_nearest(t, key, side) ==
    LET slot == rbtree_lookup_slot(t, key)
    IN IF slot.node /= Null THEN slot.node
       ELSE IF slot.parent = Null THEN Null
       ELSE IF slot.side /= side THEN slot.parent
       ELSE rbtree_walk(t, slot.parent, side)

RECURSIVE rbtree_node_find_deepest(_, _)
rbtree_node_find_deepest(t, n) ==
    IF t.child[n][Left] /= Null THEN rbtree_node_find_deepest(t, t.child[n][Left])
    ELSE IF t.child[n][Right] /= Null THEN rbtree_node_find_deepest(t, t.child[n][Right])
    ELSE n

(* The nodes in the order of rbtree_for_each_remove(), which unlinks them  *)
(* one after the other from n on: rbtree_postwalk_unlink().                *)
RECURSIVE Postwalk(_, _)
Postwalk(t, n) ==
    LET p == t.parent[n]
        unlinked == [t EXCEPT !.child[p][rbtree_node_index(t, n, p)] = Null]
        right == unlinked.child[p][Right]
    IN IF t.child[n] /= Unlinked THEN <<Null>>
       ELSE IF p = Null THEN <<n>>
       ELSE <<n>> \o Postwalk(unlinked, IF right = Null THEN p
                                        ELSE rbtree_node_find_deepest(unlinked, right))

rbtree_for_each_remove(t) ==
    IF t.root = Null THEN <<>> ELSE Postwalk(t, rbtree_node_find_deepest(t, t.root))

Next == \E n \in Node : rbtree_insert(n) \/ rbtree_replace_slot(n) \/ rbtree_remove(n)

Spec == Init /\ [][Next]_vars

--------------------------------------------------------------------------------

TypeOK ==
    /\ tree.root \in Node \cup {Null}
    /\ tree.child \in [Node -> (Node \cup {Null}) \X (Node \cup {Null})]
    /\ tree.parent \in [Node -> Node \cup {Null}]
    /\ tree.red \subseteq members
    /\ members \subseteq Node

AssertsHold == tree.ok

RECURSIVE WalkAll(_, _)
WalkAll(n, side) ==
    IF n = Null THEN <<>> ELSE <<n>> \o WalkAll(rbtree_walk(tree, n, side), side)

RECURSIVE BlackHeight(_)
BlackHeight(n) ==
    IF n = Null THEN 0
    ELSE BlackHeight(tree.child[n][Left]) + IF n \in tree.red THEN 0 ELSE 1

(* The tree is balanced: no red node has a red child, and all paths have   *)
(* as many black nodes.                                                    *)
Balanced ==
    \A n \in members :
        /\ n \in tree.red => tree.parent[n] /= Null /\ tree.parent[n] \notin tree.red
        /\ BlackHeight(tree.child[n][Left]) = BlackHeight(tree.child[n][Right])

(* Walking in either direction visits the members in the order of their    *)
(* keys, the removal of all visits each once, and a search finds the       *)
(* nearest.                                                                *)
Ordered(nodes, side) ==
    /\ {nodes[i] : i \in DOMAIN nodes} = members
    /\ \A i \in 1..(Len(nodes) - 1) :
          IF side = Right THEN KeyOf[nodes[i]] < KeyOf[nodes[i + 1]]
          ELSE KeyOf[nodes[i]] > KeyOf[nodes[i + 1]]

Nearest(key, side) ==
    LET n == rbtree_lookup_nearest(tree, key, side)
        from == {m \in members : IF side = Right THEN KeyOf[m] >= key ELSE KeyOf[m] <= key}
    IN IF from = {} THEN n = Null
       ELSE n \in from /\ \A m \in from : IF side = Right THEN KeyOf[n] <= KeyOf[m]
                                          ELSE KeyOf[n] >= KeyOf[m]

TreeSound ==
    /\ \A side \in Side :
          /\ Ordered(WalkAll(rbtree_firstlast(tree, Other(side)), side), side)
          /\ \A n \in Node : Nearest(KeyOf[n], side)
    /\ LET removed == rbtree_for_each_remove(tree)
       IN Len(removed) = Cardinality(members)
          /\ {removed[i] : i \in DOMAIN removed} = members
================================================================================
