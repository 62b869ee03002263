---------------------------------- MODULE VmMap ----------------------------------
(***************************************************************************)
(* vm/vm_map.c: a map of virtual memory is a list of entries, which is     *)
(* also a tree sorted by address, with two caches: the entry of the last   *)
(* lookup, and the address below which no free area is larger than a       *)
(* threshold.  Operations run with the lock of the map held, each is one   *)
(* action.  Addresses and sizes are in pages.                              *)
(***************************************************************************)
EXTENDS SequencesExt, Integers, FiniteSetsExt

CONSTANTS
    Object,
    Flags,
    NullObject,
    None,       \* no entry
    Start,      \* first page of the map
    End,        \* page that follows the last one
    Align,      \* the alignments that callers ask for, 1 when they do not
    NoFindCache \* threshold that disables the free area cache

MapAssumption ==
    /\ Start \in Nat \ {0} /\ End \in Nat /\ Start < End /\ NoFindCache > End
    /\ \A a \in Align : a > 0 /\ End % a = 0

VARIABLES
    entries,                \* the list of entries
    size,                   \* the pages that are mapped
    lookup_cache,           \* the entry of the last lookup
    find_cache,             \* where to start to look for a free area,
    find_cache_threshold    \* for a request that is larger than that

vars == <<entries, size, lookup_cache, find_cache, find_cache_threshold>>

Entry == [start : Start..(End - 1), end : Start..End, flags : Flags,
          object : Object \cup {NullObject}, offset : 0..(2 * End)]

TypeOK ==
    /\ entries \in Seq(Entry)
    /\ size \in 0..(End - Start)
    /\ lookup_cache \in Entry \cup {None}
    /\ find_cache \in 0..End
    /\ find_cache_threshold \in 0..End \cup {NoFindCache}

Init ==
    /\ entries = <<>>
    /\ size = 0
    /\ lookup_cache = None
    /\ find_cache = 0
    /\ find_cache_threshold = NoFindCache

Size(e) == e.end - e.start
Rounded(addr, align) == ((addr + align - 1) \div align) * align

--------------------------------------------------------------------------------
(* Lookups: the place in the list of the first entry that ends after the   *)
(* address, one past the last entry if there is none.                      *)

vm_map_lookup_nearest(addr) ==
    IF lookup_cache /= None /\ lookup_cache.start <= addr /\ addr < lookup_cache.end
    THEN CHOOSE i \in 1..Len(entries) : entries[i] = lookup_cache
    ELSE Min({i \in 1..Len(entries) : addr < entries[i].end} \cup {Len(entries) + 1})

(* What a series of lookups leaves in the cache. *)
Cached(addrs) ==
    FoldLeft(LAMBDA c, addr :
                 LET i == vm_map_lookup_nearest(addr)
                 IN  IF i <= Len(entries) THEN entries[i] ELSE c,
             lookup_cache, addrs)

(* A request is placed before an entry of the list, or nowhere. *)
Nowhere == [next |-> 0, start |-> 0]

vm_map_find_fixed(r) ==
    LET i == vm_map_lookup_nearest(r.start)
        limit == IF i <= Len(entries) THEN entries[i].start ELSE End
    IN  IF r.start >= Start /\ r.start + r.size <= End /\ r.start + r.size <= limit
        THEN [next |-> i, start |-> r.start]
        ELSE Nowhere

(* The search walks the list from an address.  Its nth candidate is the     *)
(* area before the nth entry from there.  It stops at the first that fits, *)
(* or where what is left of the map is too small.                          *)
Search(base, r) ==
    LET first == vm_map_lookup_nearest(base)
        Area(i) == Rounded(IF i = first THEN base ELSE entries[i - 1].end, r.align)
        Space(i) ==
            IF i > Len(entries) THEN End - Area(i)
            ELSE IF Area(i) >= entries[i].start THEN 0
            ELSE entries[i].start - Area(i)
        stop == Min({i \in first..(Len(entries) + 1) :
                        End - Area(i) < r.size \/ Space(i) >= r.size})
    IN  [place |-> IF End - Area(stop) >= r.size
                   THEN [next |-> stop, start |-> Area(stop)] ELSE Nowhere,
         largest |-> Max({0} \cup {Space(i) : i \in first..(stop - 1)})]

(* Without a hint, or when there is no room at the hint: the cached        *)
(* address is tried first if the request is large enough, then the map     *)
(* from its start.                                                         *)
Find(r) ==
    LET cached == r.size > find_cache_threshold
        above  == Search(find_cache, r)
        all    == Search(Start, r)
    IN  IF cached /\ above.place /= Nowhere
        THEN [place |-> above.place, from |-> find_cache,
              threshold |-> Max({find_cache_threshold, above.largest})]
        ELSE [place |-> all.place, from |-> Start, threshold |-> all.largest]

Hinted(r) == ~r.fixed /\ r.start /= 0 /\ vm_map_find_fixed(r) /= Nowhere

vm_map_prepare(r) ==
    IF r.fixed \/ Hinted(r) THEN vm_map_find_fixed(r) ELSE Find(r).place

--------------------------------------------------------------------------------
(* Updates of the list.  An entry that is unlinked, be it to be linked     *)
(* again with other bounds, leaves the lookup cache.                       *)

vm_map_unlink(list, cached) ==
    lookup_cache' = IF \E i \in 1..Len(list) : list[i] = cached THEN cached ELSE None

(* Only special kernel mappings are merged. *)
vm_map_try_merge_compatible(what, e) ==
    what.object = NullObject /\ e.object = NullObject /\ what.flags = e.flags

(* The list, once the request is inserted before its ith entry: a new      *)
(* entry, unless it extends the entries around it.                         *)
vm_map_insert(r, what, start, i) ==
    LET prev == entries[i - 1]
        next == entries[i]
        end  == start + r.size
        mergePrev == /\ i > 1 /\ prev.end = start
                     /\ vm_map_try_merge_compatible(what, prev)
        mergeNext == /\ i <= Len(entries) /\ end = next.start
                     /\ vm_map_try_merge_compatible(what, next)
        entry == [start |-> start, end |-> end, object |-> what.object,
                  offset |-> 0, flags |-> what.flags]
    IN  CASE mergePrev /\ mergeNext ->
                 RemoveAt([entries EXCEPT ![i - 1].end = next.end], i)
          [] mergePrev /\ ~mergeNext -> [entries EXCEPT ![i - 1].end = end]
          [] ~mergePrev /\ mergeNext -> [entries EXCEPT ![i].start = start]
          [] OTHER -> InsertAt(entries, i, entry)

(* Broken: the second part of a split entry maps what the first one does. *)
SplitKeepsOffset(e, addr) ==
    <<[e EXCEPT !.end = addr], [e EXCEPT !.start = addr]>>

vm_map_split_entries(e, addr) ==
    <<[e EXCEPT !.end = addr],
      [e EXCEPT !.start = addr,
                !.offset = IF e.object = NullObject THEN @ ELSE @ + (addr - e.start)]>>

(* The list, once the entry that spans the address is split there. *)
vm_map_clip(list, addr) ==
    FlattenSeq([i \in 1..Len(list) |->
        IF list[i].start < addr /\ addr < list[i].end
        THEN vm_map_split_entries(list[i], addr) ELSE <<list[i]>>])

vm_map_reset_find_cache == find_cache' = 0 /\ find_cache_threshold' = NoFindCache

--------------------------------------------------------------------------------
(* Operations.  A request is what the assertions of the code accept.       *)

Place ==
    {r \in [start : {0} \cup Start..(End - 1), size : 1..(End - Start),
            align : Align, fixed : BOOLEAN] : r.fixed => r.start % r.align = 0}

What == [object : Object \cup {NullObject}, flags : Flags]

(* What the request looks up: its address, if it has one that is in the    *)
(* map, and the addresses the searches start from.                         *)
Lookups(r) ==
    LET inMap == r.start >= Start /\ r.start + r.size <= End
        search == ~r.fixed /\ ~Hinted(r)
    IN  (IF inMap THEN <<r.start>> ELSE <<>>)
        \o (IF search /\ r.size > find_cache_threshold THEN <<find_cache>> ELSE <<>>)
        \o (IF search /\ Find(r).from = Start THEN <<Start>> ELSE <<>>)

(* The free area cache is only moved by a search. *)
vm_map_enter(r, what) ==
    LET place == vm_map_prepare(r)
    IN  /\ place /= Nowhere
        /\ entries' = vm_map_insert(r, what, place.start, place.next)
        /\ vm_map_unlink(entries', Cached(Lookups(r)))
        /\ size' = size + r.size
        /\ IF ~r.fixed /\ ~Hinted(r)
           THEN /\ find_cache' = place.start + r.size
                /\ find_cache_threshold' = Find(r).threshold
           ELSE UNCHANGED <<find_cache, find_cache_threshold>>

vm_map_enter_fails(r) ==
    /\ vm_map_prepare(r) = Nowhere
    /\ vm_map_reset_find_cache
    /\ lookup_cache' = Cached(Lookups(r))
    /\ UNCHANGED <<entries, size>>

vm_map_remove(start, end) ==
    LET first == vm_map_lookup_nearest(start)
        Outside(e) == e.end <= start \/ e.start >= end
        clipped == vm_map_clip(vm_map_clip(entries, start), end)
        removed == SelectSeq(clipped, LAMBDA e : ~Outside(e))
    IN  /\ start < end
        /\ first <= Len(entries)
        /\ entries' = SelectSeq(clipped, Outside)
        /\ size' = size - FoldSeq(LAMBDA e, n : Size(e) + n, 0, removed)
        /\ vm_map_unlink(entries', Cached(<<start>>))
        /\ vm_map_reset_find_cache

Next ==
    \/ \E r \in Place :
          \/ \E what \in What : vm_map_enter(r, what)
          \/ vm_map_enter_fails(r)
    \/ \E start \in Start..(End - 1), end \in Start..End : vm_map_remove(start, end)

Spec == Init /\ [][Next]_vars

--------------------------------------------------------------------------------

(* The list is sorted without overlaps, so that it can be a tree too, it   *)
(* accounts for the size of the map, and the cached lookup is one of its   *)
(* entries: an entry that was freed or that has moved is never returned.   *)
AssertsHold ==
    /\ \A i \in 1..Len(entries) :
        /\ entries[i].start < entries[i].end
        /\ i < Len(entries) => entries[i].end <= entries[i + 1].start
    /\ size = FoldSeq(LAMBDA e, n : Size(e) + n, 0, entries)
    /\ lookup_cache /= None => \E i \in 1..Len(entries) : entries[i] = lookup_cache

Free(p) == \A i \in 1..Len(entries) : ~(entries[i].start <= p /\ p < entries[i].end)

(* The free area cache never hides an area: a request without a fixed      *)
(* address is only refused when no free area is large enough for it.       *)
FindsRoom ==
    \A r \in Place :
        ~r.fixed /\ vm_map_prepare(r) = Nowhere
        => ~\E a \in Start..(End - r.size) :
               a % r.align = 0 /\ \A p \in a..(a + r.size - 1) : Free(p)

--------------------------------------------------------------------------------

MappedBy(p) ==
    IF Free(p) THEN None
    ELSE LET i == CHOOSE j \in 1..Len(entries) :
                      entries[j].start <= p /\ p < entries[j].end
         IN  [object |-> entries[i].object, flags |-> entries[i].flags,
              offset |-> IF entries[i].object = NullObject THEN 0
                         ELSE entries[i].offset + (p - entries[i].start)]

Space == INSTANCE AddressSpace
    WITH Unmapped <- None,
         space <- [p \in Start..(End - 1) |-> MappedBy(p)]

(* Merging, splitting, the caches and the search are invisible: the map is *)
(* an address space where mappings do not overlap or change each other.    *)
SpaceInit == Space!AInit
SpaceStep == [Space!ANext]_(Space!avars)
================================================================================
