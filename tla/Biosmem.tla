--------------------------------- MODULE Biosmem ---------------------------------
(***************************************************************************)
(* arch/x86/machine/biosmem.c, with the boot part of vm/vm_page.c: the     *)
(* memory map of the boot loader is made one without overlaps, zones and a *)
(* heap are chosen from it, the heap gives pages until the page allocator  *)
(* is set up, which gets what is left and all other memory that is         *)
(* available.  One processor, with interrupts disabled, does all this.     *)
(***************************************************************************)
EXTENDS Integers, Sequences, SequencesExt, FiniteSetsExt

CONSTANTS
    Map,            \* the memory maps a boot loader may give
    BootRange,      \* the ranges that may be registered, as <<start, end>>
    PageSize,
    Base,           \* BIOSMEM_BASE: memory below is left alone
    HeapBase,       \* BIOSMEM_END
    MemUpper,       \* where the memory that starts there ends
    Limit,          \* PMEM_DMA_LIMIT and so on, the end of each zone
    MaxMapSize,     \* BIOSMEM_MAX_MAP_SIZE, half the size of the array
    MaxBootData,    \* size of the array of boot data
    TableSize       \* pages that the table of the page allocator takes

(* Types of memory, the most restrictive one is the highest. *)
Available == 1

VARIABLES
    given,          \* history: the map of the boot loader
    map,            \* biosmem_map
    at,             \* the entries that biosmem_map_adjust() compares
    boot_data,      \* biosmem_boot_data_array
    zones,          \* biosmem_zones
    heap,           \* the heap, and its top
    allocated,      \* the pages it has given
    managed,        \* how many times each page was given to the allocator
    phase

vars == <<given, map, at, boot_data, zones, heap, allocated, managed, phase>>

Trunc(a) == (a \div PageSize) * PageSize
Round(a) == Trunc(a + PageSize - 1)
EndOf(e) == e.base + e.length
Pages(start, end) == {a \in start..(end - 1) : a % PageSize = 0}
Page == Pages(0, Limit[Len(Limit)])
Covers(e, a) == e.base <= a /\ a < EndOf(e)

NoHeap == [start |-> 0, end |-> 0, top |-> 0]

Init ==
    /\ given \in Map
    /\ map = given
    /\ at = [i |-> 0, j |-> 0, a_end |-> 0]
    /\ boot_data = <<>>
    /\ zones = <<>>
    /\ heap = NoHeap
    /\ allocated = {}
    /\ managed = [p \in Page |-> 0]
    /\ phase = "register"

--------------------------------------------------------------------------------
(* Boot data: a range that is part of another changes at most its type.    *)

Overlaps(d, start, end) == end > d.start /\ start < d.end

WithBootData(data, start, end, temporary) ==
    LET inside == {i \in DOMAIN data : Overlaps(data[i], start, end)}
        before == SelectSeq(data, LAMBDA d : d.end <= start)
    IN  IF inside = {}
        THEN before \o <<[start |-> start, end |-> end, temporary |-> temporary]>>
                    \o SelectSeq(data, LAMBDA d : d.start >= end)
        ELSE [data EXCEPT ![Min(inside)].temporary = @ /\ temporary]

MayRegister(start, end) ==
    /\ Len(boot_data) < MaxBootData
    /\ \A i \in DOMAIN boot_data :
           Overlaps(boot_data[i], start, end) =>
               boot_data[i].start <= start /\ end <= boot_data[i].end

biosmem_register_boot_data(start, end, temporary) ==
    /\ phase = "register"
    /\ MayRegister(start, end)
    /\ boot_data' = WithBootData(boot_data, start, end, temporary)
    /\ UNCHANGED <<given, map, at, zones, heap, allocated, managed, phase>>

--------------------------------------------------------------------------------
(* biosmem_map_adjust() *)

Comparing(m, i) ==
    [i |-> i, j |-> i + 1, a_end |-> IF i <= Len(m) THEN EndOf(m[i]) ELSE 0]

Invalid(e) == e.length <= 0

(* The map is copied, and loses its invalid entries. *)
biosmem_map_filter ==
    /\ phase = "register"
    /\ phase' = "adjust"
    /\ map' = SelectSeq(map, LAMBDA e : ~Invalid(e))
    /\ at' = Comparing(map', 1)
    /\ UNCHANGED <<given, boot_data, zones, heap, allocated, managed>>

NextEntry ==
    /\ phase = "adjust" /\ at.i <= Len(map) /\ at.j > Len(map)
    /\ at' = Comparing(map, at.i + 1)
    /\ UNCHANGED <<given, map, boot_data, zones, heap, allocated, managed, phase>>

(* Two entries that overlap become up to three: what comes first, what     *)
(* they have in common, and what comes last.  The end of the entry a was   *)
(* read before it was first compared.                                      *)
Split(a, b, a_end) ==
    LET b_end == EndOf(b)
        first == IF a.base < b.base THEN a ELSE b
        second == IF a.base < b.base THEN b ELSE a
        last == IF a_end > b_end THEN [end |-> a_end, type |-> a.type]
                ELSE [end |-> b_end, type |-> b.type]
        tmp == [base |-> second.base, length |-> Min({a_end, b_end}) - second.base,
                type |-> Max({a.type, b.type})]
        head == [first EXCEPT !.length = tmp.base - first.base]
        tail == [base |-> EndOf(tmp), length |-> last.end - EndOf(tmp),
                 type |-> last.type]
    IN  [a |-> IF a.base < b.base THEN head ELSE tail,
         b |-> IF a.base < b.base THEN tail ELSE head,
         tmp |-> tmp]

Merged(e, tmp) ==
    [e EXCEPT !.base = Min({e.base, tmp.base}), !.length = e.length + tmp.length]

(* The map in which they are, and whether b is still to be compared. *)
Resolved(i, j, s) ==
    LET cut == [map EXCEPT ![i] = s.a, ![j] = s.b]
    IN  IF Invalid(s.a) /\ Invalid(s.b) THEN RemoveAt([cut EXCEPT ![i] = s.tmp], j)
        ELSE IF Invalid(s.a) THEN [cut EXCEPT ![i] = s.tmp]
        ELSE IF Invalid(s.b) THEN [cut EXCEPT ![j] = s.tmp]
        ELSE IF s.tmp.type = s.a.type THEN [cut EXCEPT ![i] = Merged(@, s.tmp)]
        ELSE IF s.tmp.type = s.b.type THEN [cut EXCEPT ![j] = Merged(@, s.tmp)]
        ELSE Append(cut, s.tmp)

Resolve ==
    LET a == map[at.i]
        b == map[at.j]
        overlap == a.base < EndOf(b) /\ at.a_end > b.base
        s == Split(a, b, at.a_end)
        m == IF overlap THEN Resolved(at.i, at.j, s) ELSE map
    IN  /\ phase = "adjust" /\ at.j <= Len(map)
        /\ IF Len(m) > 2 * MaxMapSize
           THEN phase' = "panic" /\ UNCHANGED <<map, at>>
           ELSE /\ map' = m
                /\ at' = [at EXCEPT !.j = IF Len(m) < Len(map) THEN @ ELSE @ + 1]
                /\ UNCHANGED phase
        /\ UNCHANGED <<given, boot_data, zones, heap, allocated, managed>>

biosmem_map_sort ==
    /\ phase = "adjust" /\ at.i > Len(map)
    /\ map' = SortSeq(map, LAMBDA d, e : d.base < e.base)
    /\ phase' = "adjusted"
    /\ UNCHANGED <<given, at, boot_data, zones, heap, allocated, managed>>

--------------------------------------------------------------------------------
(* biosmem_bootstrap() *)

(* The part of [lo, hi) that memory spans, holes included. *)
biosmem_map_find_avail(lo, hi) ==
    LET pages == {i \in DOMAIN map :
                     /\ map[i].type = Available
                     /\ Round(map[i].base) < Min({hi, Trunc(EndOf(map[i]))})
                     /\ Trunc(EndOf(map[i])) > lo}
    IN  IF pages = {} THEN [start |-> 0, end |-> 0]
        ELSE [start |-> Max({lo, Round(map[Min(pages)].base)}),
              end |-> Min({hi, Trunc(EndOf(map[Max(pages)]))})]

ZoneSize(z) == z.end - z.start

(* Zones are set up to the first that has no memory. *)
Zones ==
    LET z == [i \in DOMAIN Limit |->
                 biosmem_map_find_avail(IF i = 1 THEN Base ELSE Limit[i - 1], Limit[i])]
        n == Max({0} \cup {k \in DOMAIN Limit : \A i \in 1..k : ZoneSize(z[i]) > 0})
    IN  SubSeq(z, 1, n)

(* One range of boot data after the other is left out of what is left. *)
biosmem_find_avail_clip(avail, d) ==
    IF avail.start >= avail.end THEN avail
    ELSE IF Round(d.end) <= avail.start \/ Trunc(d.start) >= avail.end THEN avail
    ELSE IF Trunc(d.start) > avail.start THEN [avail EXCEPT !.end = Trunc(d.start)]
    ELSE [avail EXCEPT !.start = Min({avail.end, Round(d.end)})]

biosmem_find_avail(start, end) ==
    FoldLeft(biosmem_find_avail_clip, [start |-> Round(start), end |-> Trunc(end)],
             boot_data)

(* The areas without boot data, as the loop finds them: it goes on at the  *)
(* end of each, and stops at the first one that is empty.                  *)
AreasFrom(from, end) ==
    LET Areas[a \in 0..(end + 1)] ==
            LET r == biosmem_find_avail(a, end)
            IN  IF r.start >= r.end THEN <<>> ELSE <<r>> \o Areas[r.end]
    IN  Areas[from]

(* The first of the largest areas is the heap, and boot data itself. *)
biosmem_setup_allocator ==
    LET areas == AreasFrom(HeapBase, Trunc(MemUpper))
        best == CHOOSE i \in DOMAIN areas :
                   /\ \A k \in DOMAIN areas : ZoneSize(areas[i]) >= ZoneSize(areas[k])
                   /\ \A k \in 1..(i - 1) : ZoneSize(areas[k]) < ZoneSize(areas[i])
        h == areas[best]
    IN  /\ phase = "adjusted"
        /\ zones' = Zones
        /\ IF zones' = <<>> \/ areas = <<>> \/ Len(boot_data) = MaxBootData
           THEN phase' = "panic" /\ UNCHANGED <<heap, boot_data>>
           ELSE /\ phase' = "boot"
                /\ heap' = [start |-> h.start, end |-> h.end, top |-> h.end]
                /\ boot_data' = WithBootData(boot_data, h.start, h.end, FALSE)
        /\ UNCHANGED <<given, map, at, allocated, managed>>

(* From the top of the heap. *)
biosmem_bootalloc(n) ==
    LET addr == heap.top - n * PageSize
    IN  /\ phase = "boot"
        /\ IF addr < heap.start
           THEN phase' = "panic" /\ UNCHANGED <<heap, allocated>>
           ELSE /\ heap' = [heap EXCEPT !.top = addr]
                /\ allocated' = allocated \cup Pages(addr, heap.top)
                /\ UNCHANGED phase
        /\ UNCHANGED <<given, map, at, boot_data, zones, managed>>

--------------------------------------------------------------------------------
(* The page allocator is set up. *)

Manage(pages) == managed' = [p \in Page |-> managed[p] + IF p \in pages THEN 1 ELSE 0]

(* Broken: all of the heap is taken for what is left of it. *)
LoadWholeHeap(z) ==
    [start |-> Max({heap.start, z.start}), end |-> Min({heap.end, z.end})]

(* What is left of the heap in each zone. *)
biosmem_load_zone(z) ==
    [start |-> Max({heap.start, z.start}), end |-> Min({heap.top, z.end})]

(* vm_page_setup(): its table comes from the heap of the last zone that    *)
(* has enough of it, and the rest of the heaps is free.                    *)
vm_page_setup ==
    LET rest == [i \in DOMAIN zones |-> biosmem_load_zone(zones[i])]
        fits == {i \in DOMAIN zones : ZoneSize(rest[i]) >= TableSize * PageSize}
        t == Max(fits)
        table == Pages(rest[t].start, rest[t].start + TableSize * PageSize)
    IN  /\ phase = "boot"
        /\ IF fits = {}
           THEN phase' = "panic" /\ UNCHANGED <<allocated, managed>>
           ELSE /\ phase' = "loaded"
                /\ allocated' = allocated \cup table
                /\ Manage(UNION {Pages(rest[i].start, rest[i].end) : i \in DOMAIN zones}
                          \ table)
        /\ UNCHANGED <<given, map, at, boot_data, zones, heap>>

biosmem_unregister_temporary_boot_data ==
    /\ phase = "loaded"
    /\ phase' = "saved"
    /\ boot_data' = SelectSeq(boot_data, LAMBDA d : ~d.temporary)
    /\ UNCHANGED <<given, map, at, zones, heap, allocated, managed>>

(* The pages of an entry, up to the highest limit, without boot data. *)
biosmem_free_usable_entry(e) ==
    LET start == Max({Base, Round(e.base)})
        end == Min({Limit[Len(Limit)], Trunc(EndOf(e))})
        areas == IF start < end THEN AreasFrom(start, end) ELSE <<>>
    IN  UNION {Pages(areas[i].start, areas[i].end) : i \in DOMAIN areas}

biosmem_free_usable ==
    /\ phase = "saved"
    /\ phase' = "done"
    /\ Manage(UNION {biosmem_free_usable_entry(map[i]) :
                        i \in {k \in DOMAIN map : map[k].type = Available}})
    /\ UNCHANGED <<given, map, at, boot_data, zones, heap, allocated>>

(* The kernel goes on, or the processor has been halted. *)
Over == phase \in {"done", "panic"} /\ UNCHANGED vars

--------------------------------------------------------------------------------

Next ==
    \/ \E r \in BootRange, b \in BOOLEAN : biosmem_register_boot_data(r[1], r[2], b)
    \/ biosmem_map_filter \/ NextEntry \/ Resolve \/ biosmem_map_sort
    \/ biosmem_setup_allocator
    \/ \E n \in 1..2 : biosmem_bootalloc(n)
    \/ vm_page_setup \/ biosmem_unregister_temporary_boot_data \/ biosmem_free_usable
    \/ Over

Spec == Init /\ [][Next]_vars

--------------------------------------------------------------------------------

TypeOK ==
    /\ phase \in {"register", "adjust", "adjusted", "boot", "loaded", "saved",
                  "done", "panic"}
    /\ Len(map) <= 2 * MaxMapSize /\ Len(boot_data) <= MaxBootData
    /\ Len(zones) <= Len(Limit)
    /\ allocated \subseteq Page
    /\ managed \in [Page -> 0..2]

Types(m, a) == {m[i].type : i \in {k \in DOMAIN m : Covers(m[k], a)}}

(* The adjusted map has no overlaps, and each address has the most         *)
(* restrictive type that the boot loader gave it; the array is large       *)
(* enough for that.                                                        *)
MapResolved ==
    /\ phase = "panic" => at.i > Len(map)
    /\ phase = "adjusted" =>
           \A a \in 0..Limit[Len(Limit)] :
               /\ Types(map, a) = IF Types(given, a) = {} THEN {}
                                  ELSE {Max(Types(given, a))}
               /\ \A i, k \in DOMAIN map :
                      Covers(map[i], a) /\ Covers(map[k], a) => i = k

(* A page is given to the allocator once, only if all of it is available,  *)
(* in a zone, and not while it holds boot data or was allocated from the   *)
(* heap; in the end every other page is given to it.                       *)
Usable(p) ==
    /\ p >= Base
    /\ \E i \in DOMAIN map : /\ map[i].type = Available
                             /\ Covers(map[i], p) /\ Covers(map[i], p + PageSize - 1)
Kept(p) ==
    \E i \in DOMAIN boot_data :
        /\ Overlaps(boot_data[i], p, p + PageSize)
        /\ boot_data[i].start /= heap.start
PagesSound ==
    phase \in {"loaded", "saved", "done"} =>
        \A p \in Page :
            /\ managed[p] <= 1
            /\ managed[p] = 1 =>
                   /\ Usable(p) /\ ~Kept(p) /\ p \notin allocated
                   /\ \E i \in DOMAIN zones : zones[i].start <= p /\ p < zones[i].end
            /\ phase = "done" /\ Usable(p) /\ ~Kept(p) /\ p \notin allocated =>
                   managed[p] = 1
================================================================================
