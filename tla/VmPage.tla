---------------------------------- MODULE VmPage ----------------------------------
(***************************************************************************)
(* vm/vm_page.c: physical pages.  A zone keeps its free pages in blocks of *)
(* 2^order pages, one list per order, where a block is merged with its     *)
(* buddy; single pages go through a pool of the processor.  Pools and      *)
(* zones are used with their lock held, the pool before the zone, so that  *)
(* each allocation or release is one action.  A page is its number, the    *)
(* physical address over the page size.                                    *)
(***************************************************************************)
EXTENDS SequencesExt, Integers, FiniteSetsExt

CONSTANTS
    CPU,
    Zone,       \* the loaded zones, as 1..n in the order of their priority
    Start, End, \* the pages of each zone, End[z] excluded
    Heap,       \* pages that are available when the module is set up
    MaxOrder,   \* order of the largest blocks
    PoolSize,   \* size of the processor pools
    Unlisted    \* order of a page that is not the head of a free block

VARIABLES
    zone,   \* free lists, order of the pages, and number of free pages
    pool,   \* the pages in the pool of each processor
    type,   \* what the pages are used for
    held    \* the blocks that were allocated

vars == <<zone, pool, type, held>>

Order == 0..MaxOrder
Pages(z) == Start[z]..(End[z] - 1)
Page == UNION {Pages(z) : z \in Zone}
ZoneOf(p) == CHOOSE z \in Zone : p \in Pages(z)
Block(p, k) == p..(p + 2^k - 1)

TransferSize == (PoolSize + 1) \div 2

TypeOK ==
    /\ \A z \in Zone :
        /\ zone[z].lists \in [Order -> Seq(Pages(z))]
        /\ zone[z].order \in [Pages(z) -> Order \cup {Unlisted}]
        /\ zone[z].nr_free_pages \in 0..(End[z] - Start[z])
        /\ \A c \in CPU : pool[z][c] \in Seq(Pages(z)) /\ Len(pool[z][c]) <= PoolSize
    /\ type \in [Page -> {"free", "reserved", "used"}]
    /\ held \subseteq [page : Page, order : Order]

--------------------------------------------------------------------------------
(* The buddy allocator, on the value of a zone. *)

(* The list is the first one that is not empty: the lists below it, to     *)
(* which the halves that are not needed are given, are empty.              *)
vm_page_zone_alloc_from_buddy(z, order) ==
    LET i == Min({k \in order..MaxOrder : z.lists[k] /= <<>>})
        page == Head(z.lists[i])
        Half(k) == page + 2^k
    IN  IF \A k \in order..MaxOrder : z.lists[k] = <<>>
        THEN [zone |-> z, pages |-> <<>>]
        ELSE [pages |-> <<page>>,
              zone |-> [lists |-> [k \in Order |->
                                      IF k = i THEN Tail(z.lists[i])
                                      ELSE IF k \in order..(i - 1) THEN <<Half(k)>>
                                      ELSE z.lists[k]],
                        order |-> [p \in DOMAIN z.order |->
                                      IF p = page THEN Unlisted
                                      ELSE IF \E k \in order..(i - 1) : p = Half(k)
                                      THEN CHOOSE k \in order..(i - 1) : p = Half(k)
                                      ELSE z.order[p]],
                        nr_free_pages |-> z.nr_free_pages - 2^order]]

(* The buddy is a free block of that order, in the zone. *)
Mergeable(z, buddy, order) == buddy \in DOMAIN z.order /\ z.order[buddy] = order

(* The block grows for as long as it can be merged with its buddy. *)
vm_page_zone_free_to_buddy(z, page, order) ==
    LET Base(k)  == (page \div 2^k) * 2^k
        Buddy(k) == IF (Base(k) \div 2^k) % 2 = 0 THEN Base(k) + 2^k ELSE Base(k) - 2^k
        last == Min({k \in order..MaxOrder :
                        k = MaxOrder \/ ~Mergeable(z, Buddy(k), k)})
        merged == {Buddy(k) : k \in order..(last - 1)}
    IN  [lists |-> [k \in Order |->
                       IF k = last THEN <<Base(last)>> \o z.lists[k]
                       ELSE SelectSeq(z.lists[k], LAMBDA p : p \notin merged)],
         order |-> [p \in DOMAIN z.order |->
                       IF p = Base(last) THEN last
                       ELSE IF p \in merged THEN Unlisted ELSE z.order[p]],
         nr_free_pages |-> z.nr_free_pages + 2^order]

--------------------------------------------------------------------------------
(* Processor pools, the last page that was put is taken first.             *)

(* A fill stops when the zone is empty. *)
vm_page_cpu_pool_fill(z) ==
    FoldLeft(LAMBDA s, i :
                 LET r == vm_page_zone_alloc_from_buddy(s.zone, 0)
                 IN  [zone |-> r.zone, pages |-> r.pages \o s.pages],
             [zone |-> z, pages |-> <<>>], [i \in 1..TransferSize |-> i])

vm_page_cpu_pool_drain(z, pages) ==
    [zone |-> FoldLeft(LAMBDA s, p : vm_page_zone_free_to_buddy(s, p, 0),
                       z, SubSeq(pages, 1, TransferSize)),
     pages |-> SubSeq(pages, TransferSize + 1, Len(pages))]

(* The page or the block that a zone gives, with what is left. *)
vm_page_zone_alloc(z, c, order) ==
    IF order > 0 THEN
        LET r == vm_page_zone_alloc_from_buddy(zone[z], order)
        IN  [zone |-> r.zone, pool |-> pool[z][c], pages |-> r.pages]
    ELSE
        LET r == IF pool[z][c] = <<>> THEN vm_page_cpu_pool_fill(zone[z])
                 ELSE [zone |-> zone[z], pages |-> pool[z][c]]
        IN  IF r.pages = <<>> THEN [zone |-> r.zone, pool |-> <<>>, pages |-> <<>>]
            ELSE [zone |-> r.zone, pool |-> Tail(r.pages), pages |-> <<Head(r.pages)>>]

vm_page_set_type(p, order, t) ==
    type' = [q \in Page |-> IF q \in Block(p, order) THEN t ELSE type[q]]

--------------------------------------------------------------------------------

(* The pages of the heap are released one by one. *)
vm_page_setup(z) ==
    FoldLeft(LAMBDA s, p : vm_page_zone_free_to_buddy(s, p, 0),
             [lists |-> [k \in Order |-> <<>>],
              order |-> [p \in Pages(z) |-> Unlisted], nr_free_pages |-> 0],
             SetToSortSeq(Heap \cap Pages(z), <))

Init ==
    /\ zone = [z \in Zone |-> vm_page_setup(z)]
    /\ pool = [z \in Zone |-> [c \in CPU |-> <<>>]]
    /\ type = [p \in Page |-> IF p \in Heap THEN "free" ELSE "reserved"]
    /\ held = {}

(* The selected zone is tried first, then those of a lower priority. *)
vm_page_alloc(c, order, selector) ==
    \E z \in 1..selector :
        LET r == vm_page_zone_alloc(z, c, order)
            page == Head(r.pages)
        IN  /\ r.pages /= <<>>
            /\ \A y \in (z + 1)..selector : vm_page_zone_alloc(y, c, order).pages = <<>>
            /\ zone' = [zone EXCEPT ![z] = r.zone]
            /\ pool' = [pool EXCEPT ![z][c] = r.pool]
            /\ vm_page_set_type(page, order, "used")
            /\ held' = held \cup {[page |-> page, order |-> order]}

(* The page goes to the pool of the processor that releases it. *)
vm_page_free(c, b) ==
    LET z == ZoneOf(b.page)
        r == IF Len(pool[z][c]) = PoolSize
             THEN vm_page_cpu_pool_drain(zone[z], pool[z][c])
             ELSE [zone |-> zone[z], pages |-> pool[z][c]]
    IN  /\ vm_page_set_type(b.page, b.order, "free")
        /\ held' = held \ {b}
        /\ IF b.order = 0
           THEN /\ zone' = [zone EXCEPT ![z] = r.zone]
                /\ pool' = [pool EXCEPT ![z][c] = <<b.page>> \o r.pages]
           ELSE /\ zone' = [zone EXCEPT ![z] =
                                vm_page_zone_free_to_buddy(@, b.page, b.order)]
                /\ UNCHANGED pool

(* Memory of the boot process that is not needed any more. *)
vm_page_manage(p) ==
    /\ type[p] = "reserved"
    /\ vm_page_set_type(p, 0, "free")
    /\ zone' = [zone EXCEPT ![ZoneOf(p)] = vm_page_zone_free_to_buddy(@, p, 0)]
    /\ UNCHANGED <<pool, held>>

Next ==
    \/ \E c \in CPU, order \in Order, selector \in Zone : vm_page_alloc(c, order, selector)
    \/ \E c \in CPU, b \in held : vm_page_free(c, b)
    \/ \E p \in Page : vm_page_manage(p)

Spec == Init /\ [][Next]_vars

--------------------------------------------------------------------------------

FreeBlocks == UNION {{[page |-> p, order |-> k] : p \in ToSet(zone[z].lists[k])} :
                         z \in Zone, k \in Order}
Pooled == UNION {ToSet(pool[z][c]) : z \in Zone, c \in CPU}
OnePlace(p) ==
    Cardinality({b \in FreeBlocks : p \in Block(b.page, b.order)})
    + Cardinality({b \in held : p \in Block(b.page, b.order)})
    + (IF p \in Pooled THEN 1 ELSE 0) + (IF type[p] = "reserved" THEN 1 ELSE 0)

(* What is handed out, pooled or listed as free never overlaps, whatever   *)
(* the blocks were split, merged and moved between processors, and no page *)
(* is lost.                                                                *)
NoOverlap ==
    /\ \A p \in Page : OnePlace(p) = 1
    /\ \A b \in held : Block(b.page, b.order) \subseteq Pages(ZoneOf(b.page))

(* The assertions of the module, and what they rely on: the order of a     *)
(* page tells whether it heads a free block, free blocks are aligned and   *)
(* as large as they can be, and they account for the free pages.           *)
AssertsHold ==
    \A z \in Zone :
        /\ \A p \in Pages(z) :
            LET k == zone[z].order[p] IN
            /\ k = Unlisted <=> \A b \in FreeBlocks : b.page /= p
            /\ k /= Unlisted => /\ [page |-> p, order |-> k] \in FreeBlocks
                                /\ p % 2^k = 0
                                /\ type[p] = "free"
                                /\ k < MaxOrder /\ (p \div 2^k) % 2 = 0
                                   /\ p + 2^k \in Pages(z)
                                   => zone[z].order[p + 2^k] /= k
        /\ zone[z].nr_free_pages =
               Cardinality({p \in Pages(z) :
                   \E b \in FreeBlocks : p \in Block(b.page, b.order)})
        /\ \A c \in CPU : \A i \in 1..Len(pool[z][c]) : type[pool[z][c][i]] = "free"
================================================================================
