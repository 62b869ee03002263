---------------------------------- MODULE VmKmem ----------------------------------
(***************************************************************************)
(* vm/vm_kmem.c and vm/vm_object.c: kernel virtual memory.  An allocation  *)
(* takes a range of the kernel map, then, page after page, a physical page *)
(* that the kernel object refers to and a mapping.  Mappings are prepared  *)
(* as a list of operations of the thread, applied on each processor when   *)
(* the list is full or with pmap_update(), see PmapUpdate; entering one    *)
(* may need a page table page and fail, and a list is abandoned at the     *)
(* first failure.  A failed allocation is released like a whole one.       *)
(*                                                                         *)
(* A page is freed with its last reference; lookups in the object take     *)
(* references without locks.  The map is an AddressSpace, the free pages   *)
(* are what VmPage hands out.  Addresses are page numbers of the map.      *)
(***************************************************************************)
EXTENDS Naturals, Sequences, FiniteSets

CONSTANTS
    Thread,     \* threads that allocate and release memory
    Reader,     \* threads that look the object up
    CPU,
    Page,       \* physical pages
    Last,       \* the map has pages 1..Last
    MaxSize,    \* bound on the size of an allocation
    MaxOps,     \* PMAP_UPDATE_MAX_OPS
    MaxPages,   \* the mapping after which vm_kmem_alloc() gives up, 1000
    None

VA == 1..Last

VARIABLES
    space,      \* the thread whose range has each address
    allocated,  \* the pages that are not free
    nr_refs,    \* references of each page
    pages,      \* kernel object: the page at each offset
    table,      \* the page tables
    ops,        \* operation list of each thread
    pc,
    range,      \* start and end of the memory of each thread
    start,      \* where its loop is
    page,       \* the page it has allocated, or that it looks at
    seen,       \* the references a reader has seen
    skipped     \* history: mappings whose removal was dropped

vars == <<space, allocated, nr_refs, pages, table, ops, pc, range, start, page,
          seen, skipped>>
memory == <<allocated, nr_refs, pages>>
mappings == <<table, ops, skipped>>

Agent == Thread \cup Reader

Operation == [op : {"enter"}, va : VA, page : Page]
             \cup [op : {"remove"}, start : VA, end : 1..(Last + 1)]

TypeOK ==
    /\ space \in [VA -> Thread \cup {None}]
    /\ allocated \subseteq Page
    /\ nr_refs \in [Page -> 0..(1 + Cardinality(Agent))]
    /\ pages \in [VA -> Page \cup {None}]
    /\ table \in [CPU -> [VA -> Page \cup {None}]]
    /\ \A t \in Thread : ops[t] \in Seq(Operation) /\ Len(ops[t]) <= MaxOps
    /\ pc \in [Agent -> {"idle", "page", "ref", "insert", "enter", "update", "remove",
                         "unmap", "free", "panic", "load", "cas", "held"}]
    /\ range \in [Thread -> (1..(Last + 1)) \X (1..(Last + 1))]
    /\ start \in [Agent -> 1..(Last + 1)]
    /\ page \in [Agent -> Page \cup {None}]
    /\ seen \in [Reader -> Nat]
    /\ skipped \subseteq CPU \X VA

Init ==
    /\ space = [v \in VA |-> None]
    /\ allocated = {}
    /\ nr_refs = [p \in Page |-> 0]
    /\ pages = [v \in VA |-> None]
    /\ table = [c \in CPU |-> [v \in VA |-> None]]
    /\ ops = [t \in Thread |-> <<>>]
    /\ pc = [t \in Agent |-> "idle"]
    /\ range = [t \in Thread |-> <<1, 1>>]
    /\ start = [t \in Agent |-> 1]
    /\ page = [t \in Agent |-> None]
    /\ seen = [r \in Reader |-> 0]
    /\ skipped = {}

Goto(t, l) == pc' = [pc EXCEPT ![t] = l]

\* vm_page_unref(): the last reference frees the pages.
vm_page_unref(released) ==
    /\ nr_refs' = [p \in Page |-> IF p \in released THEN nr_refs[p] - 1 ELSE nr_refs[p]]
    /\ allocated' = allocated \ {p \in released : nr_refs[p] = 1}

--------------------------------------------------------------------------------
(* Page tables. *)

Range(o) == IF o.op = "enter" THEN {o.va} ELSE o.start..(o.end - 1)

(* A page table, once the first n operations of a list were applied. *)
Applied(tbl, list, n) ==
    [v \in VA |->
        LET touched == {i \in 1..n : v \in Range(list[i])}
            last == list[CHOOSE i \in touched : \A j \in touched : j <= i]
        IN  IF touched = {} THEN tbl[v]
            ELSE IF last.op = "enter" THEN last.page ELSE None]

(* pmap_update_local() on each processor: all the list, or what precedes   *)
(* the mapping that cannot be entered.  The removals that follow it are    *)
(* dropped too.                                                            *)
Applications(list) ==
    {n \in [CPU -> 0..Len(list)] :
        \A c \in CPU : n[c] < Len(list) => list[n[c] + 1].op = "enter"}

Removed(list, from) ==
    UNION {Range(list[i]) : i \in {j \in from..Len(list) : list[j].op = "remove"}}

\* The list of the thread is applied, and is empty again.
Flush(t, n) ==
    LET list == ops[t] IN
    /\ table' = [c \in CPU |-> Applied(table[c], list, n[c])]
    /\ skipped' = {cv \in CPU \X VA :
                      /\ table'[cv[1]][cv[2]] /= None
                      /\ \/ cv \in skipped
                         \/ cv[2] \in Removed(list, n[cv[1]] + 1)}

Succeeds(t, n) == \A c \in CPU : n[c] = Len(ops[t])

(* An assertion of pmap_enter_local(): the address is not mapped.          *)
Collides(t) ==
    \E c \in CPU, i \in 1..Len(ops[t]) :
        /\ ops[t][i].op = "enter"
        /\ Applied(table[c], ops[t], i - 1)[ops[t][i].va] /= None

(* pmap_enter() and pmap_remove(): a full list is applied first, and the   *)
(* operation is not prepared if that fails.                                *)
Prepare(t, merged, alone) ==
    \/ /\ Len(ops[t]) < MaxOps
       /\ ops' = [ops EXCEPT ![t] = merged]
       /\ UNCHANGED <<table, skipped>>
    \/ \E n \in Applications(ops[t]) :
          /\ Len(ops[t]) = MaxOps /\ Succeeds(t, n)
          /\ Flush(t, n)
          /\ ops' = [ops EXCEPT ![t] = alone]

--------------------------------------------------------------------------------
(* vm_kmem_alloc() *)

(* vm_kmem_alloc_va(): any free range of the map. *)
vm_kmem_alloc_va(t) ==
    /\ pc[t] = "idle" /\ range[t][1] = range[t][2]
    /\ \E a \in VA, size \in 1..MaxSize :
          /\ a + size - 1 <= Last
          /\ \A v \in a..(a + size - 1) : space[v] = None
          /\ space' = [v \in VA |-> IF v \in a..(a + size - 1) THEN t ELSE space[v]]
          /\ range' = [range EXCEPT ![t] = <<a, a + size>>]
          /\ start' = [start EXCEPT ![t] = a]
    /\ Goto(t, "page")
    /\ UNCHANGED <<memory, mappings, page, seen>>

(* The error path: what was allocated is released, from the first page. *)
Fail(t) == Goto(t, "remove") /\ start' = [start EXCEPT ![t] = range[t][1]]

AllocPage(t) ==
    /\ pc[t] = "page"
    /\ \/ /\ \E p \in Page \ allocated :
                /\ allocated' = allocated \cup {p}
                /\ page' = [page EXCEPT ![t] = p]
          /\ Goto(t, "ref")
          /\ UNCHANGED start
       \/ Page \subseteq allocated /\ Fail(t) /\ UNCHANGED <<allocated, page>>
    /\ UNCHANGED <<space, nr_refs, pages, mappings, range, seen>>

(* vm_object_insert(): the reference comes before the page is published. *)
RefPage(t) ==
    /\ pc[t] = "ref"
    /\ nr_refs' = [nr_refs EXCEPT ![page[t]] = @ + 1]
    /\ Goto(t, "insert")
    /\ UNCHANGED <<space, allocated, pages, mappings, range, start, page, seen>>

(* The insertion may need memory for the tree, and fail. *)
vm_object_insert(t) ==
    /\ pc[t] = "insert"
    /\ \/ /\ pages' = [pages EXCEPT ![start[t]] = page[t]]
          /\ Goto(t, "enter")
          /\ UNCHANGED <<allocated, nr_refs, start, page>>
       \/ /\ vm_page_unref({page[t]})
          /\ page' = [page EXCEPT ![t] = None]
          /\ Fail(t)
          /\ UNCHANGED pages
    /\ UNCHANGED <<space, mappings, range, seen>>

\* The next page, the update, or the cleanup if the size is over the limit.
Entered(t) ==
    LET v == start[t] IN
    IF v - range[t][1] = MaxPages THEN Fail(t)
    ELSE /\ start' = [start EXCEPT ![t] = v + 1]
         /\ Goto(t, IF v + 1 = range[t][2] THEN "update" ELSE "page")

pmap_enter(t) ==
    LET op == [op |-> "enter", va |-> start[t], page |-> page[t]] IN
    /\ pc[t] = "enter"
    /\ ~(Len(ops[t]) = MaxOps /\ Collides(t))
    /\ \/ Prepare(t, Append(ops[t], op), <<op>>) /\ Entered(t)
       \/ \E n \in Applications(ops[t]) :
              /\ Len(ops[t]) = MaxOps /\ ~Succeeds(t, n)
              /\ Flush(t, n)
              /\ ops' = [ops EXCEPT ![t] = <<>>]
              /\ Fail(t)
    /\ page' = [page EXCEPT ![t] = None]
    /\ UNCHANGED <<space, memory, range, seen>>

(* pmap_update(), at the end of the allocation. *)
Allocated(t) ==
    /\ pc[t] = "update" /\ ops[t] /= <<>> /\ ~Collides(t)
    /\ \E n \in Applications(ops[t]) :
          /\ Flush(t, n)
          /\ IF Succeeds(t, n) THEN Goto(t, "idle") /\ UNCHANGED start ELSE Fail(t)
    /\ ops' = [ops EXCEPT ![t] = <<>>]
    /\ UNCHANGED <<space, memory, range, page, seen>>

--------------------------------------------------------------------------------
(* vm_kmem_free() *)

vm_kmem_free(t) ==
    /\ pc[t] = "idle" /\ range[t][1] /= range[t][2]
    /\ Fail(t)
    /\ UNCHANGED <<space, memory, mappings, range, page, seen>>

\* Consecutive removals are one operation.
MergeRemove(list, v) ==
    LET last == list[Len(list)] IN
    IF list /= <<>> /\ last.op = "remove" /\ last.end = v
    THEN [list EXCEPT ![Len(list)].end = v + 1]
    ELSE Append(list, [op |-> "remove", start |-> v, end |-> v + 1])

(* The error of pmap_remove() is ignored, the removal is lost then. *)
pmap_remove(t) ==
    LET v == start[t] IN
    /\ pc[t] = "remove" /\ v < range[t][2]
    /\ ~(Len(ops[t]) = MaxOps /\ Collides(t))
    /\ \/ Prepare(t, MergeRemove(ops[t], v), MergeRemove(<<>>, v))
       \/ \E n \in Applications(ops[t]) :
              /\ Len(ops[t]) = MaxOps /\ ~Succeeds(t, n)
              /\ table' = [c \in CPU |-> Applied(table[c], ops[t], n[c])]
              /\ skipped' = {cv \in CPU \X VA :
                                /\ table'[cv[1]][cv[2]] /= None
                                /\ \/ cv \in skipped \/ cv[2] = v
                                   \/ cv[2] \in Removed(ops[t], n[cv[1]] + 1)}
              /\ ops' = [ops EXCEPT ![t] = <<>>]
    /\ start' = [start EXCEPT ![t] = v + 1]
    /\ UNCHANGED <<space, memory, pc, range, page, seen>>

(* So is the error of pmap_update(). *)
Unmapped(t) ==
    /\ pc[t] = "remove" /\ start[t] = range[t][2]
    /\ ops[t] /= <<>> /\ ~Collides(t)
    /\ \E n \in Applications(ops[t]) : Flush(t, n)
    /\ ops' = [ops EXCEPT ![t] = <<>>]
    /\ Goto(t, "unmap")
    /\ UNCHANGED <<space, memory, range, start, page, seen>>

(* The object is locked while the pages of the range lose their reference. *)
vm_object_remove(t) ==
    LET removed == {v \in range[t][1]..(range[t][2] - 1) : pages[v] /= None} IN
    /\ pc[t] = "unmap"
    /\ pages' = [v \in VA |-> IF v \in removed THEN None ELSE pages[v]]
    /\ vm_page_unref({pages[v] : v \in removed})
    /\ Goto(t, "free")
    /\ UNCHANGED <<space, mappings, range, start, page, seen>>

vm_kmem_free_va(t) ==
    /\ pc[t] = "free"
    /\ space' = [v \in VA |-> IF v \in range[t][1]..(range[t][2] - 1) THEN None ELSE space[v]]
    /\ range' = [range EXCEPT ![t] = <<1, 1>>]
    /\ start' = [start EXCEPT ![t] = 1]
    /\ Goto(t, "idle")
    /\ UNCHANGED <<memory, mappings, page, seen>>

(* An assertion fails: an address that is mapped is entered, or there is   *)
(* no operation to update.  panic() does not return.                       *)
Panic(t) ==
    /\ \/ pc[t] = "panic"
       \/ pc[t] \in {"enter", "remove"} /\ Len(ops[t]) = MaxOps /\ Collides(t)
       \/ pc[t] = "update" /\ Collides(t)
       \/ pc[t] = "remove" /\ start[t] = range[t][2] /\ (ops[t] = <<>> \/ Collides(t))
    /\ Goto(t, "panic")
    /\ UNCHANGED <<space, memory, mappings, range, start, page, seen>>

--------------------------------------------------------------------------------
(* vm_object_lookup() *)

rdxtree_lookup(r) ==
    /\ pc[r] = "idle"
    /\ \E v \in VA :
          IF pages[v] = None THEN UNCHANGED <<pc, page, start>>
          ELSE /\ page' = [page EXCEPT ![r] = pages[v]]
               /\ start' = [start EXCEPT ![r] = v]
               /\ Goto(r, "load")
    /\ UNCHANGED <<space, memory, mappings, range, seen>>

(* A page without references is being freed: the lookup starts again. *)
LoadRefs(r) ==
    LET p == page[r] IN
    /\ pc[r] = "load"
    /\ IF nr_refs[p] > 0
       THEN /\ seen' = [seen EXCEPT ![r] = nr_refs[p]]
            /\ Goto(r, "cas")
            /\ UNCHANGED <<page, start>>
       ELSE /\ IF pages[start[r]] = None
               THEN /\ Goto(r, "idle")
                    /\ page' = [page EXCEPT ![r] = None]
                    /\ start' = [start EXCEPT ![r] = 1]
               ELSE page' = [page EXCEPT ![r] = pages[start[r]]] /\ UNCHANGED <<pc, start>>
            /\ UNCHANGED seen
    /\ UNCHANGED <<space, memory, mappings, range>>

vm_page_tryref(r) ==
    LET p == page[r] IN
    /\ pc[r] = "cas"
    /\ seen' = [seen EXCEPT ![r] = 0]
    /\ IF nr_refs[p] = seen[r]
       THEN /\ nr_refs' = [nr_refs EXCEPT ![p] = @ + 1]
            /\ start' = [start EXCEPT ![r] = 1]
            /\ Goto(r, "held")
       ELSE Goto(r, "load") /\ UNCHANGED <<nr_refs, start>>
    /\ UNCHANGED <<space, allocated, pages, mappings, range, page>>

(* The reader has used the page. *)
Release(r) ==
    /\ pc[r] = "held"
    /\ vm_page_unref({page[r]})
    /\ page' = [page EXCEPT ![r] = None]
    /\ Goto(r, "idle")
    /\ UNCHANGED <<space, pages, mappings, range, start, seen>>

Next ==
    \/ \E t \in Thread :
          \/ vm_kmem_alloc_va(t) \/ AllocPage(t) \/ RefPage(t) \/ vm_object_insert(t)
          \/ pmap_enter(t) \/ Allocated(t)
          \/ vm_kmem_free(t) \/ pmap_remove(t) \/ Unmapped(t) \/ vm_object_remove(t)
          \/ vm_kmem_free_va(t) \/ Panic(t)
    \/ \E r \in Reader :
          rdxtree_lookup(r) \/ LoadRefs(r) \/ vm_page_tryref(r) \/ Release(r)

Spec == Init /\ [][Next]_vars

--------------------------------------------------------------------------------

(* References are those of the object, of the threads that insert a page   *)
(* and of the readers, and a page is free when it has none: pages are not  *)
(* leaked by an allocation that fails half way, nor freed by a reader that *)
(* looked at a page that was moved.                                        *)
RefsSound ==
    \A p \in Page :
        /\ nr_refs[p] = Cardinality({v \in VA : pages[v] = p})
                        + Cardinality({t \in Thread : pc[t] = "insert" /\ page[t] = p})
                        + Cardinality({r \in Reader : pc[r] = "held" /\ page[r] = p})
        /\ p \in allocated <=> nr_refs[p] > 0 \/ \E t \in Thread : pc[t] = "ref" /\ page[t] = p

(* A page is never freed, nor an address given to another thread, while a  *)
(* processor still maps it, save for the mappings whose removal was        *)
(* dropped: those behind a failed operation of a list.                     *)
NoStaleMapping ==
    /\ \A c \in CPU, v \in VA :
        table[c][v] /= None /\ <<c, v>> \notin skipped
        => /\ table[c][v] \in allocated
           /\ pages[v] = table[c][v]
           /\ space[v] /= None
    /\ \A t \in Thread :
        pc[t] = "idle" /\ range[t][1] /= range[t][2]
        => \A v \in range[t][1]..(range[t][2] - 1), c \in CPU :
               table[c][v] = pages[v] /\ pages[v] /= None
================================================================================
