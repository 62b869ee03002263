------------------------------- MODULE PageTable -------------------------------
(***************************************************************************)
(* arch/x86/machine/pmap.c: the page tables of the kernel, from the first  *)
(* mappings of the boot processor, through the copy that each processor    *)
(* gets, to the operations that a thread prepares and that are applied on  *)
(* each of them; see PmapUpdate for how processors are asked to.  They     *)
(* cache translations, which the operations flush.  Addresses count pages, *)
(* those of the upper half follow a hole.                                  *)
(***************************************************************************)
EXTENDS Integers, Sequences, SequencesExt, FiniteSetsExt, TLAPS,
        WellFoundedInduction

CONSTANTS
    Bits,           \* PMAP_L0_BITS and so on
    Top,            \* the number of addresses, after which they wrap
    EndAddress, StartKernel, EndKernel,     \* PMAP_END_ADDRESS and so on
    LargeLevel,     \* the level of the largest pages the processor has
    BootSection,    \* the page of the .boot section
    DirectmapEnd,   \* biosmem_directmap_end()
    KernelStart, KernelOffset,      \* &_init, PMAP_KERNEL_OFFSET
    Kmem,           \* the addresses that are entered and removed
    Frame,          \* the pages they are mapped to
    Ptp,            \* the pages for page tables
    GlobalPages,    \* cpu_has_global_pages()
    NrCpus,
    MaxOps,         \* PMAP_UPDATE_MAX_OPS
    MaxMappings,    \* PMAP_UPDATE_MAX_MAPPINGS
    MaxCalls,       \* bound on the operations that are asked for
    Null

VARIABLES
    phase,
    pt,             \* the page tables, on their pages
    root,           \* root_ptp_pa of each processor
    types,          \* the pages with the type VM_PAGE_PMAP
    stale,          \* what each processor may have cached that its tables do
                    \* not have any more
    oplist,         \* operations of the thread, and whether they have a pmap
    op,             \* the operation that waits for an implicit update
    next,           \* where each processor is in the list, or 0
    failed,         \* the processors on which the update has failed
    want,           \* history: the mappings the thread has asked for
    doubt,          \* history: those of a list that has failed
    calls           \* bounded: the operations so far

tables == <<pt, root, types>>
thread == <<oplist, op>>
history == <<want, doubt, calls>>
vars == <<phase, pt, root, types, stale, oplist, op, next, failed, want, doubt, calls>>

CPU == 1..NrCpus
Level == 0..(Len(Bits) - 1)
Skip[l \in 0..Len(Bits)] == IF l = 0 THEN 0 ELSE Skip[l - 1] + Bits[l]
Size(l) == 2^Skip[l]
Root == Len(Bits) - 1

(* The levels from the highest one to l. *)
Down(l) == [i \in 1..(Root - l + 1) |-> Root - i + 1]

pmap_pte_index(va, l) == (va \div Size(l)) % 2^Bits[l + 1]
P2END(va, l) == ((va \div Size(l) + 1) * Size(l)) % Top

Empty(l) == [i \in 0..(2^Bits[l + 1] - 1) |-> Null]
Entry(pa) == [pa |-> pa, ps |-> FALSE, g |-> FALSE]
Leaf(e, l) == l = 0 \/ e.ps

--------------------------------------------------------------------------------
(* Walks. *)

(* The entries from the root to the one that maps va, or to the last one   *)
(* that is valid, as triples of page, index, and level.                    *)
Descent(tbl, ptp, va) ==
    LET Turn(s, l) ==
            LET i == pmap_pte_index(va, l)
                e == tbl[s.ptp][i]
            IN  IF ~s.more THEN s
                ELSE IF e = Null THEN [s EXCEPT !.more = FALSE, !.level = l]
                ELSE [ptp |-> e.pa, level |-> l, more |-> ~Leaf(e, l), mapped |-> Leaf(e, l),
                      seen |-> Append(s.seen, <<s.ptp, i, l>>)]
    IN  FoldLeft(Turn, [ptp |-> ptp, level |-> Root, more |-> TRUE, mapped |-> FALSE,
                        seen |-> <<>>], Down(0))

(* The loop of pmap_walk_vas(): all entries it calls its function for. *)
pmap_walk_vas(start, end) ==
    LET visits[a \in 0..(Top - 1)] ==
            LET va == IF a = EndAddress THEN StartKernel ELSE a
                wk == Descent(pt, root[1], va)
                n == P2END(va, wk.level)
            IN  ToSet(wk.seen) \cup IF n > start /\ n < end THEN visits[n] ELSE {}
    IN  visits[start]

(* The page at an address, as the processor has it. *)
Translation(c, va) ==
    LET wk == Descent(pt, root[c], va)
        e == LET s == Last(wk.seen) IN pt[s[1]][s[2]]
    IN  IF wk.mapped THEN e.pa + (va % Size(wk.level)) ELSE Null

(* As the kernel has it, which is right for small pages only. *)
pmap_kextract(c, va) ==
    LET wk == Descent(pt, root[c], va)
    IN  IF wk.mapped THEN LET s == Last(wk.seen) IN pt[s[1]][s[2]].pa ELSE Null

--------------------------------------------------------------------------------
(* Boot. *)

Init ==
    /\ phase = "start"
    /\ pt = [p \in Ptp |-> Null]
    /\ root = [c \in CPU |-> Null]
    /\ types = {}
    /\ stale = [c \in CPU |-> [va \in Kmem |-> {}]]
    /\ oplist = [pmap |-> FALSE, ops |-> <<>>]
    /\ op = Null
    /\ next = [c \in CPU |-> 0]
    /\ failed = {}
    /\ want = [c \in CPU |-> [va \in Kmem |-> Null]]
    /\ doubt = {}
    /\ calls = 0

(* One level down, through a new page if there is none and one is left. *)
Deeper(s, va, l) ==
    LET i == pmap_pte_index(va, l)
        e == s.pt[s.at][i]
        p == Min({q \in Ptp : s.pt[q] = Null})
    IN  IF s.at = Null THEN s
        ELSE IF e /= Null THEN [s EXCEPT !.at = e.pa]
        ELSE IF s.left = 0 THEN [s EXCEPT !.at = Null]
        ELSE [pt |-> [s.pt EXCEPT ![s.at][i] = Entry(p), ![p] = Empty(l - 1)],
              at |-> p, left |-> s.left - 1]

Reach(tbl, ptp, va, last, left) ==
    FoldLeft(LAMBDA s, l : Deeper(s, va, l), [pt |-> tbl, at |-> ptp, left |-> left],
             Down(last + 1))

pmap_boot_enter(tbl, ptp, va, pa, last) ==
    LET s == Reach(tbl, ptp, va, last, Root)
    IN  [s.pt EXCEPT ![s.at][pmap_pte_index(va, last)] =
            [pa |-> pa, ps |-> last > 0, g |-> FALSE]]

BootEnterAll(tbl, ptp, va, pa, size, last) ==
    LET n == (size + Size(last) - 1) \div Size(last)
    IN  FoldLeft(LAMBDA t, i : pmap_boot_enter(t, ptp, va + i * Size(last),
                                               pa + i * Size(last), last),
                 tbl, [i \in 1..n |-> i - 1])

(* P2ALIGN(&_init, pgsize) *)
KernelVa == (KernelStart \div Size(LargeLevel)) * Size(LargeLevel)

(* The .boot section, physical memory, and the kernel. *)
pmap_setup_paging ==
    LET ptp == Min(Ptp)
        empty == [pt EXCEPT ![ptp] = Empty(Root)]
        boot == BootEnterAll(empty, ptp, BootSection, BootSection, 1, 0)
        direct == BootEnterAll(boot, ptp, StartKernel, 0, DirectmapEnd, LargeLevel)
    IN  /\ phase = "start"
        /\ phase' = "boot"
        /\ pt' = BootEnterAll(direct, ptp, KernelVa, KernelVa - KernelOffset,
                              Top - KernelVa, LargeLevel)
        /\ root' = [root EXCEPT ![1] = ptp]
        /\ UNCHANGED <<types, stale, thread, next, failed, history>>

(* pmap_setup_global_page() for the kernel's half, if the processor has    *)
(* global pages.                                                           *)
pmap_setup_global_pages ==
    LET visited == pmap_walk_vas(StartKernel, EndKernel)
    IN  [p \in Ptp |->
            IF pt[p] = Null THEN Null
            ELSE [i \in DOMAIN pt[p] |->
                    IF \E l \in Level : <<p, i, l>> \in visited /\ Leaf(pt[p][i], l)
                    THEN [pt[p][i] EXCEPT !.g = TRUE] ELSE pt[p][i]]]

pmap_bootstrap ==
    /\ phase = "boot"
    /\ phase' = "up"
    /\ pt' = IF GlobalPages THEN pmap_setup_global_pages ELSE pt
    /\ UNCHANGED <<root, types, stale, thread, next, failed, history>>

(* Pages that have lower tables are marked; the lowest tables are not.     *)
pmap_setup_fix_ptps ==
    LET visited == pmap_walk_vas(0, EndKernel)
    IN  {v[1] : v \in {w \in visited : w[3] > 0}}

pmap_setup ==
    /\ phase = "up"
    /\ phase' = "ready"
    /\ types' = types \cup pmap_setup_fix_ptps
    /\ UNCHANGED <<pt, root, stale, thread, next, failed, history>>

(* The pages of the tables below a page, with their levels. *)
Below(tbl, ptp) ==
    LET Tables(p, l) == {e \in {tbl[p][i] : i \in DOMAIN tbl[p]} :
                             e /= Null /\ ~Leaf(e, l)}
        NextLevel(s, l) ==
            s \cup UNION {{<<e.pa, l - 1>> : e \in Tables(x[1], l)} :
                             x \in {y \in s : y[2] = l}}
    IN  FoldLeft(NextLevel, {<<ptp, Root>>}, Down(1))

Copied(e, l, new) ==
    IF e = Null \/ Leaf(e, l) THEN e ELSE [e EXCEPT !.pa = new[e.pa]]

(* pmap_copy_cpu_table_recursive(): every page of the tables gets a copy   *)
(* that refers to copies; what is mapped stays the same.                   *)
pmap_copy_cpu_table(tbl, ptp) ==
    LET old == {x[1] : x \in Below(tbl, ptp)}
        free == {p \in Ptp : tbl[p] = Null}
        Rank(p, S) == Cardinality({q \in S : q < p})
        new == [p \in old |-> CHOOSE q \in free : Rank(q, free) = Rank(p, old)]
        level == [p \in old |-> (CHOOSE x \in Below(tbl, ptp) : x[1] = p)[2]]
    IN  [pt |-> [p \in Ptp |->
                    IF \E q \in old : new[q] = p
                    THEN LET q == CHOOSE r \in old : new[r] = p IN
                         [i \in DOMAIN tbl[q] |-> Copied(tbl[q][i], level[q], new)]
                    ELSE tbl[p]],
         root |-> new[ptp]]

(* Each other processor gets a copy; from now on they are all updated. *)
pmap_mp_setup ==
    LET Add(s, c) == LET r == pmap_copy_cpu_table(s.pt, s.root[1])
                     IN  [pt |-> r.pt, root |-> [s.root EXCEPT ![c] = r.root]]
        s == FoldLeft(Add, [pt |-> pt, root |-> root], [i \in 1..(NrCpus - 1) |-> i + 1])
    IN  /\ phase = "ready" /\ oplist.ops = <<>> /\ op = Null
        /\ phase' = "mp"
        /\ pt' = s.pt
        /\ root' = s.root
        /\ types' = types \cup {p \in Ptp : pt[p] = Null /\ s.pt[p] /= Null}
        /\ want' = [c \in CPU |-> want[1]]
        /\ doubt' = {x \in CPU \X Kmem : <<1, x[2]>> \in doubt}
        /\ UNCHANGED <<stale, thread, next, failed, calls>>

--------------------------------------------------------------------------------
(* Operations of the thread. *)

Updating == \E c \in CPU : next[c] /= 0
Idle == phase \in {"ready", "mp"} /\ op = Null /\ ~Updating

(* Processors are started after pmap_mp_setup(). *)
Running == IF phase = "mp" THEN CPU ELSE {1}

Addresses(o) == IF o.operation = "enter" THEN {o.va} ELSE o.start..(o.end - 1)
Pairs(ops) == UNION {(o.cpumap \cap Running) \X Addresses(o) : o \in ops}

Asked(o) ==
    want' = [c \in CPU |-> [va \in Kmem |->
                IF c \in o.cpumap \cap Running /\ va \in Addresses(o)
                THEN IF o.operation = "enter" THEN o.pa ELSE Null
                ELSE want[c][va]]]

(* Broken: whatever processors the last operation is for. *)
MergesAny(o, last) ==
    /\ o.operation = "remove" /\ last.operation = "remove"
    /\ last.end = o.start

(* An attempt to merge with the last operation. *)
Merges(o, last) ==
    /\ o.operation = "remove" /\ last.operation = "remove"
    /\ last.end = o.start /\ last.cpumap = o.cpumap

NextOp(c, i) ==
    LET rest == {j \in (i + 1)..Len(oplist.ops) : c \in oplist.ops[j].cpumap}
    IN  IF rest = {} THEN Len(oplist.ops) + 1 ELSE Min(rest)

(* The list is sent to the processors of its operations; before there are  *)
(* several, it is applied at once.                                         *)
Start ==
    next' = [c \in CPU |->
                IF c \in Running /\ (phase = "mp" => \E o \in ToSet(oplist.ops) : c \in o.cpumap)
                THEN NextOp(c, 0) ELSE 0]

(* pmap_update_oplist_prepare() and what follows it. *)
Prepare(o) ==
    LET n == Len(oplist.ops)
        ops == oplist.ops
    IN  /\ IF n > 0 /\ Merges(o, ops[n]) /\ n < MaxOps
           THEN /\ oplist' = [oplist EXCEPT !.ops[n].end = o.end]
                /\ Asked(o) /\ UNCHANGED <<op, next>>
           ELSE IF n < MaxOps
           THEN /\ oplist' = [pmap |-> TRUE, ops |-> Append(ops, o)]
                /\ Asked(o) /\ UNCHANGED <<op, next>>
           ELSE op' = o /\ Start /\ UNCHANGED <<oplist, want>>
        /\ calls < MaxCalls /\ calls' = calls + 1
        /\ UNCHANGED <<phase, tables, stale, failed, doubt>>

(* All processors, or the one the thread runs on. *)
Cpumaps == {CPU, {1}}

(* An address is entered when it is not mapped. *)
pmap_enter ==
    /\ Idle
    /\ \E va \in Kmem, pa \in Frame, cpumap \in Cpumaps :
          /\ \A c \in cpumap \cap Running : want[c][va] = Null
          /\ \A c \in CPU : <<c, va>> \notin doubt
          /\ Prepare([operation |-> "enter", va |-> va, pa |-> pa, cpumap |-> cpumap])

pmap_remove ==
    /\ Idle
    /\ \E va \in Kmem, cpumap \in Cpumaps :
          Prepare([operation |-> "remove", start |-> va, end |-> va + 1,
                   cpumap |-> cpumap])

(* Without operations of this pmap, there is nothing to do. *)
pmap_update ==
    /\ Idle /\ oplist.pmap /\ oplist.ops /= <<>>
    /\ Start
    /\ UNCHANGED <<phase, tables, stale, thread, failed, history>>

(* All processors are done.  After an implicit update the list keeps the   *)
(* pmap, with the operation that waited if there was no error.             *)
Finish ==
    LET ops == ToSet(oplist.ops)
        pairs == Pairs(ops)
        removed == Pairs({o \in ops : o.operation = "remove"})
        rest == IF failed = {} /\ op /= Null THEN <<op>> ELSE <<>>
    IN  /\ \A c \in CPU : next[c] \in {0, -1}
        /\ Updating
        /\ next' = [c \in CPU |-> 0]
        /\ oplist' = [pmap |-> op /= Null, ops |-> rest]
        /\ op' = Null
        /\ failed' = {}
        /\ IF failed = {}
           THEN /\ doubt' = doubt \ removed
                /\ IF op = Null THEN UNCHANGED want ELSE Asked(op)
           ELSE /\ doubt' = doubt \cup pairs
                /\ want' = [c \in CPU |-> [va \in Kmem |->
                                IF <<c, va>> \in pairs THEN Null ELSE want[c][va]]]
        /\ UNCHANGED <<phase, tables, stale, calls>>

--------------------------------------------------------------------------------
(* Each processor. *)

Operations(c) == {i \in DOMAIN oplist.ops : c \in oplist.ops[i].cpumap}

pmap_update_oplist_count_mappings(c) ==
    MapThenSumSet(LAMBDA i : Cardinality(Addresses(oplist.ops[i])), Operations(c))

(* Beyond a number of mappings, all translations are flushed in the end.   *)
GlobalFlush(c) == pmap_update_oplist_count_mappings(c) > MaxMappings

(* The entries of the addresses, which are never in large pages. *)
Entries(c, o) ==
    LET walks == {Descent(pt, root[c], va) : va \in Addresses(o)}
    IN  {Last(wk.seen) : wk \in {e \in walks : e.mapped /\ e.level = 0}}

pmap_remove_local(c, o) ==
    [p \in Ptp |->
        IF pt[p] = Null THEN Null
        ELSE [i \in DOMAIN pt[p] |-> IF <<p, i, 0>> \in Entries(c, o) THEN Null ELSE pt[p][i]]]

(* The processor may have cached what is removed until it is flushed. *)
Removed(c, o, va) ==
    LET wk == Descent(pt, root[c], va)
        s == Last(wk.seen)
    IN  IF va \in Addresses(o) /\ wk.mapped THEN {pt[s[1]][s[2]]} ELSE {}

(* pmap_flush_tlb() *)
Flushed(c, addresses) ==
    [stale EXCEPT ![c] = [va \in Kmem |-> IF va \in addresses THEN {} ELSE @[va]]]

pmap_update_remove(c) ==
    LET o == oplist.ops[next[c]] IN
    /\ next[c] \in DOMAIN oplist.ops /\ o.operation = "remove"
    /\ pt' = pmap_remove_local(c, o)
    /\ stale' = IF GlobalFlush(c)
                THEN [stale EXCEPT ![c] = [va \in Kmem |-> @[va] \cup Removed(c, o, va)]]
                ELSE Flushed(c, Addresses(o))
    /\ next' = [next EXCEPT ![c] = NextOp(c, @)]
    /\ UNCHANGED <<phase, root, types, thread, failed, history>>

(* Tables are added on the way, as long as there is memory for them, and   *)
(* stay if there is no more.  The rest of the list is left then.           *)
pmap_update_enter(c) ==
    LET o == oplist.ops[next[c]]
        free == {p \in Ptp : pt[p] = Null}
    IN  /\ next[c] \in DOMAIN oplist.ops /\ o.operation = "enter"
        /\ \E left \in 0..Min({Root, Cardinality(free)}) :
              LET s == Reach(pt, root[c], o.va, 0, left)
                  leaf == [pa |-> o.pa, ps |-> FALSE, g |-> GlobalPages]
              IN  /\ types' = types \cup {p \in free : s.pt[p] /= Null}
                  /\ IF s.at = Null
                     THEN /\ pt' = s.pt
                          /\ failed' = failed \cup {c}
                          /\ next' = [next EXCEPT ![c] = -1]
                          /\ UNCHANGED stale
                     ELSE /\ pt' = [s.pt EXCEPT ![s.at][pmap_pte_index(o.va, 0)] = leaf]
                          /\ stale' = IF GlobalFlush(c) THEN stale ELSE Flushed(c, {o.va})
                          /\ next' = [next EXCEPT ![c] = NextOp(c, @)]
                          /\ UNCHANGED failed
        /\ UNCHANGED <<phase, root, thread, history>>

(* Broken: global translations are kept. *)
FlushLocal(c) ==
    /\ next[c] = Len(oplist.ops) + 1
    /\ stale' = IF GlobalFlush(c)
                THEN [stale EXCEPT ![c] = [va \in Kmem |-> {e \in @[va] : e.g}]]
                ELSE stale
    /\ next' = [next EXCEPT ![c] = -1]
    /\ UNCHANGED <<phase, tables, thread, failed, history>>

(* The end of pmap_update_local(). *)
pmap_flush_tlb_all(c) ==
    /\ next[c] = Len(oplist.ops) + 1
    /\ stale' = IF GlobalFlush(c) THEN Flushed(c, Kmem) ELSE stale
    /\ next' = [next EXCEPT ![c] = -1]
    /\ UNCHANGED <<phase, tables, thread, failed, history>>

Next ==
    \/ pmap_setup_paging \/ pmap_bootstrap \/ pmap_setup \/ pmap_mp_setup
    \/ pmap_enter \/ pmap_remove \/ pmap_update \/ Finish
    \/ \E c \in CPU :
          \/ pmap_update_remove(c) \/ pmap_update_enter(c) \/ pmap_flush_tlb_all(c)

Spec == Init /\ [][Next]_vars

--------------------------------------------------------------------------------

Operation == [operation : {"enter"}, va : Kmem, pa : Frame, cpumap : SUBSET CPU]
             \cup [operation : {"remove"}, start : Kmem, end : 0..Top, cpumap : SUBSET CPU]

Pte == [pa : Nat, ps : BOOLEAN, g : BOOLEAN]

TypeOK ==
    /\ phase \in {"start", "boot", "up", "ready", "mp"}
    /\ \A p \in Ptp : pt[p] = Null \/ \E l \in Level :
                          pt[p] \in [DOMAIN Empty(l) -> Pte \cup {Null}]
    /\ root \in [CPU -> Ptp \cup {Null}]
    /\ types \subseteq Ptp
    /\ \A c \in CPU, va \in Kmem : stale[c][va] \subseteq Pte
    /\ \A o \in ToSet(oplist.ops) : o \in Operation
    /\ Len(oplist.ops) <= MaxOps /\ (oplist.ops /= <<>> => oplist.pmap)
    /\ op \in Operation \cup {Null}
    /\ next \in [CPU -> -1..(MaxOps + 1)]
    /\ failed \subseteq CPU
    /\ want \in [CPU -> [Kmem -> Frame \cup {Null}]]
    /\ doubt \subseteq CPU \X Kmem
    /\ calls \in 0..MaxCalls

Booted == phase /= "start"

(* Each processor has tables of its own, a tree: a page has one place in   *)
(* them, is of the level of that place, and is kept as long as it is       *)
(* allocated.  Those above others are marked as page tables, and the       *)
(* kernel's mappings, no others, are global.                               *)
TablesSound ==
    Booted =>
    LET below == [c \in Running |-> Below(pt, root[c])]
        places == {w \in {q \in Ptp : pt[q] /= Null} \X (0..(2^Max(ToSet(Bits)) - 1)) :
                      w[2] \in DOMAIN pt[w[1]] /\ pt[w[1]][w[2]] /= Null}
        used == UNION {{x[1] : x \in below[c]} : c \in Running}
    IN  /\ used = {p \in Ptp : pt[p] /= Null}
        /\ \A c, d \in Running : c /= d => below[c] \cap below[d] = {}
        /\ \A c \in Running : \A x \in below[c] :
              /\ DOMAIN pt[x[1]] = DOMAIN Empty(x[2])
              /\ Cardinality({w \in places : pt[w[1]][w[2]].pa = x[1]}) =
                     IF x[2] = Root THEN 0 ELSE 1
              /\ x[2] > 0 /\ phase \in {"ready", "mp"} => x[1] \in types
        /\ phase \in {"up", "ready", "mp"} =>
              \A c \in Running, va \in (0..(EndAddress - 1)) \cup (StartKernel..(EndKernel - 1)) :
                  LET wk == Descent(pt, root[c], va)
                      s == Last(wk.seen)
                  IN  wk.mapped => (pt[s[1]][s[2]].g <=> GlobalPages /\ va >= StartKernel)

(* The mappings of the boot processor, which all have and nothing changes. *)
(* The last large page goes beyond the end of memory.                      *)
Fixed(va) ==
    IF va = BootSection THEN va
    ELSE IF /\ va >= StartKernel
            /\ va - StartKernel < P2END(DirectmapEnd - 1, LargeLevel)
    THEN va - StartKernel
    ELSE IF va \in KernelVa..(Top - 1) THEN va - KernelOffset
    ELSE Null

(* What the tables of each processor translate is what was mapped at boot  *)
(* and what the thread has asked for, once its list was applied: nothing   *)
(* else moves when tables are added, copied, or run out of memory, and     *)
(* operations have the effect of their order.                              *)
TranslationsSound ==
    Booted => \A c \in Running :
    /\ \A va \in ((0..(EndAddress - 1)) \cup (StartKernel..(Top - 1))) \ Kmem :
          Translation(c, va) = Fixed(va)
    /\ Idle /\ oplist.ops = <<>> => \A va \in Kmem :
          <<c, va>> \notin doubt => /\ Translation(c, va) = want[c][va]
                                    /\ pmap_kextract(c, va) = want[c][va]

(* pmap_enter_local() asserts that the address is not mapped. *)
EntersUnmapped ==
    \A c \in CPU :
        next[c] \in DOMAIN oplist.ops /\ oplist.ops[next[c]].operation = "enter"
        => Translation(c, oplist.ops[next[c]].va) = Null

(* A processor caches no translation that its tables do not have, but for  *)
(* the time it takes to apply a list that is followed by a global flush,   *)
(* and for what a failed list was about.                                   *)
TlbSound ==
    \A c \in CPU, va \in Kmem :
        \/ stale[c][va] = {}
        \/ <<c, va>> \in doubt \/ c \in failed
        \/ next[c] > 0 /\ GlobalFlush(c)

--------------------------------------------------------------------------------
(* Why no translation outlives its flush, for any number of processors,    *)
(* of operations in a list and of mappings before a global flush.  What    *)
(* the walks and the tables are does not matter here.                      *)

UpdateAssumption ==
    /\ NrCpus \in Nat \ {0} /\ MaxOps \in Nat \ {0}
    /\ Top \in Nat /\ Kmem \subseteq 0..(Top - 1)

(* The operations, and who is in the list.  Only processors that run are,  *)
(* at operations that are for them, and all of those are until the last    *)
(* one is done.                                                            *)
ListInv ==
    /\ oplist \in [pmap : BOOLEAN, ops : Seq(Operation)]
    /\ op \in Operation \cup {Null}
    /\ next \in [CPU -> Int] /\ failed \subseteq CPU
    /\ \A c \in CPU :
          /\ next[c] \in -1..(Len(oplist.ops) + 1)
          /\ next[c] /= 0 => c \in Running
          /\ next[c] \in DOMAIN oplist.ops => c \in oplist.ops[next[c]].cpumap
          /\ c \in failed => next[c] = -1
          /\ Updating /\ c \in Running /\ next[c] = 0
             => \A o \in ToSet(oplist.ops) : c \notin o.cpumap

(* The processor has applied the operation. *)
Applied(c, i) ==
    /\ i \in DOMAIN oplist.ops /\ c \in oplist.ops[i].cpumap
    /\ c \notin failed /\ (next[c] = -1 \/ next[c] > i)

(* What is stale is what the list, or one that has failed, is about, but   *)
(* not what the list has removed so far, unless all is flushed later.      *)
StaleSound(c, va) ==
    /\ c \in Running
    /\ \/ <<c, va>> \in doubt
       \/ next[c] /= 0 /\ <<c, va>> \in Pairs(ToSet(oplist.ops))
    /\ \A i \in DOMAIN oplist.ops :
          /\ oplist.ops[i].operation = "remove" /\ va \in Addresses(oplist.ops[i])
          /\ Applied(c, i)
          => next[c] > 0 /\ GlobalFlush(c)
    /\ <<c, va>> \in doubt \/ c \in failed \/ (next[c] > 0 /\ GlobalFlush(c))

StaleInv ==
    /\ stale = [c \in CPU |-> [va \in Kmem |-> stale[c][va]]]
    /\ \A c \in CPU, va \in Kmem : stale[c][va] = {} \/ StaleSound(c, va)

TlbInv == ListInv /\ StaleInv

(* The least of some natural numbers. *)
LEMMA Least ==
    ASSUME NEW S, S \subseteq Nat, S /= {}
    PROVE  Min(S) \in S /\ \A x \in S : Min(S) <= x
<1> DEFINE R == {ss \in Nat \X Nat : ss[1] < ss[2]}
<1>1. IsWellFoundedOn(R, Nat)
  BY NatLessThanWellFounded DEF OpToRel
<1>2. PICK x \in S : \A y \in S : <<y, x>> \notin R
  BY <1>1, WFMin
<1>3. ASSUME NEW y \in S PROVE x <= y
  <2>1. \A w \in Nat \X Nat : w[1] < w[2] => w \in R
    OBVIOUS
  <2>2. <<y, x>> \in Nat \X Nat /\ <<y, x>>[1] = y /\ <<y, x>>[2] = x
    OBVIOUS
  <2>3. ~(y < x)
    BY <1>2, <2>1, <2>2
  <2> QED BY <2>3
<1> QED BY <1>3 DEF Min

(* A processor goes on to the first operation that is for it. *)
LEMMA NextOpSound ==
    ASSUME ListInv, NEW c \in CPU, NEW i \in Nat, i <= Len(oplist.ops)
    PROVE  /\ NextOp(c, i) \in (i + 1)..(Len(oplist.ops) + 1)
           /\ NextOp(c, i) \in DOMAIN oplist.ops => c \in oplist.ops[NextOp(c, i)].cpumap
           /\ \A j \in DOMAIN oplist.ops :
                 i < j /\ j < NextOp(c, i) => c \notin oplist.ops[j].cpumap
<1> DEFINE n == Len(oplist.ops)
           rest == {j \in (i + 1)..n : c \in oplist.ops[j].cpumap}
<1>1. n \in Nat /\ DOMAIN oplist.ops = 1..n
  BY DEF ListInv
<1>2. NextOp(c, i) = IF rest = {} THEN n + 1 ELSE Min(rest)
  BY DEF NextOp
<1>3. rest \subseteq Nat
  BY <1>1
<1>4. rest /= {} => Min(rest) \in rest /\ \A x \in rest : Min(rest) <= x
  BY <1>3, Least
<1>5. CASE rest = {}
  <2>1. \A j \in 1..n : i < j => c \notin oplist.ops[j].cpumap
    BY <1>1, <1>5
  <2> QED BY <1>1, <1>2, <1>5, <2>1
<1>6. CASE rest /= {}
  <2>1. NextOp(c, i) \in rest /\ \A x \in rest : NextOp(c, i) <= x
    BY <1>2, <1>4, <1>6
  <2>2. \A j \in 1..n : i < j /\ j < NextOp(c, i) => j \notin rest
    BY <1>1, <2>1
  <2> QED BY <1>1, <2>1, <2>2
<1> QED BY <1>5, <1>6

(* Whether all is flushed in the end depends on the list. *)
LEMMA FlushSame ==
    ASSUME UNCHANGED oplist, NEW c PROVE GlobalFlush(c)' <=> GlobalFlush(c)
BY DEF GlobalFlush, pmap_update_oplist_count_mappings, Operations, MapThenSumSet,
       MapThenFoldSet, Addresses

(* At the start nothing is cached, and no operation is asked for.          *)
LEMMA TlbInit == ASSUME UpdateAssumption, Init PROVE TlbInv
<1>1. ListInv
  <2>1. oplist.ops = <<>> /\ oplist \in [pmap : BOOLEAN, ops : Seq(Operation)]
    BY DEF Init
  <2> QED BY <2>1 DEF Init, ListInv, Updating
<1>2. StaleInv
  BY DEF Init, StaleInv
<1> QED BY <1>1, <1>2 DEF TlbInv

(* What a step of a processor means to the others. *)
LEMMA OthersKeep ==
    ASSUME TlbInv, NEW c \in CPU, NEW d \in CPU, NEW va \in Kmem, d /= c,
           UNCHANGED <<phase, oplist, doubt>>,
           next'[d] = next[d], d \in failed' <=> d \in failed,
           stale'[d] = stale[d]
    PROVE  stale'[d][va] = {} \/ StaleSound(d, va)'
<1> SUFFICES ASSUME StaleSound(d, va) PROVE StaleSound(d, va)'
  BY DEF TlbInv, StaleInv
<1>1. /\ Running' = Running
      /\ Pairs(ToSet(oplist.ops))' = Pairs(ToSet(oplist.ops))
      /\ GlobalFlush(d)' <=> GlobalFlush(d)
  BY FlushSame DEF Running, Pairs, Addresses, ToSet
<1>2. \A i \in DOMAIN oplist.ops : Applied(d, i)' <=> Applied(d, i)
  BY DEF Applied
<1> QED BY <1>1, <1>2 DEF StaleSound, Addresses

(* A processor goes through the list. *)
LEMMA ListMoves ==
    ASSUME ListInv, NEW c \in CPU, next[c] > 0,
           UNCHANGED <<phase, oplist, op>>,
           \/ /\ next[c] \in DOMAIN oplist.ops
              /\ next' = [next EXCEPT ![c] = NextOp(c, next[c])]
              /\ UNCHANGED failed
           \/ /\ next' = [next EXCEPT ![c] = -1]
              /\ failed' = failed \/ failed' = failed \cup {c}
    PROVE  ListInv'
<1> DEFINE n == Len(oplist.ops)
<1>1. /\ n \in Nat /\ DOMAIN oplist.ops = 1..n
      /\ next \in [CPU -> Int] /\ next[c] \in 1..(n + 1)
      /\ c \in Running /\ Running' = Running
  BY DEF ListInv, Running
<1>2. /\ next' \in [CPU -> Int] /\ \A d \in CPU : d /= c => next'[d] = next[d]
      /\ next'[c] \in {-1} \cup 1..(n + 1)
      /\ next'[c] \in 1..n => c \in oplist.ops[next'[c]].cpumap
  <2>1. CASE next' = [next EXCEPT ![c] = -1]
    BY <1>1, <2>1
  <2>2. CASE next[c] \in DOMAIN oplist.ops /\ next' = [next EXCEPT ![c] = NextOp(c, next[c])]
    <3>1. next[c] \in Nat /\ next[c] <= n
      BY <1>1, <2>2
    <3>2. /\ NextOp(c, next[c]) \in (next[c] + 1)..(n + 1)
          /\ NextOp(c, next[c]) \in 1..n => c \in oplist.ops[NextOp(c, next[c])].cpumap
      BY <1>1, <3>1, NextOpSound
    <3> QED BY <1>1, <2>2, <3>2
  <2> QED BY <2>1, <2>2
<1>3. /\ failed' \subseteq CPU
      /\ \A d \in CPU : d \in failed' => next'[d] = -1
  <2>1. c \notin failed
    BY <1>1 DEF ListInv
  <2>2. \A d \in CPU : d \in failed => next[d] = -1 /\ d /= c
    BY <2>1 DEF ListInv
  <2> QED BY <1>1, <1>2, <2>2 DEF ListInv
<1>4. Updating
  BY <1>1 DEF Updating
<1> QED BY <1>1, <1>2, <1>3, <1>4 DEF ListInv, ToSet

(* What a removal leaves to a global flush is what the list is about; a    *)
(* processor that flushes addresses one by one has none of them left.      *)
LEMMA RemoveKeeps ==
    ASSUME TlbInv, NEW c \in CPU, pmap_update_remove(c) PROVE TlbInv'
<1> DEFINE n == Len(oplist.ops)
           i == next[c]
           o == oplist.ops[i]
<1>1. /\ i \in 1..n /\ DOMAIN oplist.ops = 1..n /\ n \in Nat
      /\ c \in Running /\ c \in o.cpumap /\ o.operation = "remove"
      /\ UNCHANGED <<phase, oplist, op, doubt, failed>>
      /\ next \in [CPU -> Int] /\ next' = [next EXCEPT ![c] = NextOp(c, i)]
  BY DEF pmap_update_remove, thread, history, TlbInv, ListInv
<1>2. ListInv'
  <2>1. ListInv /\ next[c] > 0 /\ failed' = failed
    BY <1>1 DEF TlbInv
  <2> QED BY <1>1, <2>1, ListMoves
<1>3. /\ next'[c] = NextOp(c, i) /\ next'[c] \in (i + 1)..(n + 1)
      /\ \A j \in 1..n : i < j /\ j < next'[c] => c \notin oplist.ops[j].cpumap
  BY <1>1, NextOpSound DEF TlbInv
<1>4. /\ Running' = Running
      /\ Pairs(ToSet(oplist.ops))' = Pairs(ToSet(oplist.ops))
      /\ GlobalFlush(c)' <=> GlobalFlush(c)
  BY <1>1, FlushSame DEF Running, Pairs, Addresses, ToSet
<1>5. ASSUME NEW d \in CPU, NEW va \in Kmem, d /= c
      PROVE  stale'[d][va] = {} \/ StaleSound(d, va)'
  <2>1. stale'[d] = stale[d]
    BY <1>5 DEF pmap_update_remove, TlbInv, StaleInv, Flushed
  <2> QED BY <1>1, <1>5, <2>1, OthersKeep
<1>6. ASSUME NEW va \in Kmem PROVE stale'[c][va] = {} \/ StaleSound(c, va)'
  <2>1. CASE GlobalFlush(c)
    <3>1. stale'[c][va] = stale[c][va] \cup Removed(c, o, va)
      BY <2>1 DEF pmap_update_remove, TlbInv, StaleInv
    <3>2. SUFFICES ASSUME stale'[c][va] /= {} PROVE StaleSound(c, va)'
      OBVIOUS
    <3>3. <<c, va>> \in doubt \/ <<c, va>> \in Pairs(ToSet(oplist.ops))
      <4>1. CASE va \in Addresses(o)
        BY <1>1, <4>1 DEF Pairs, ToSet
      <4>2. CASE va \notin Addresses(o)
        <5>1. stale[c][va] /= {}
          BY <3>1, <3>2, <4>2 DEF Removed
        <5> QED BY <5>1 DEF TlbInv, StaleInv, StaleSound
      <4> QED BY <4>1, <4>2
    <3>4. next'[c] > 0 /\ GlobalFlush(c)'
      BY <1>1, <1>3, <1>4, <2>1
    <3> QED BY <1>1, <1>4, <3>3, <3>4 DEF StaleSound
  <2>2. CASE ~GlobalFlush(c)
    <3>1. stale'[c][va] = IF va \in Addresses(o) THEN {} ELSE stale[c][va]
      BY <2>2 DEF pmap_update_remove, Flushed, TlbInv, StaleInv
    <3>2. SUFFICES ASSUME va \notin Addresses(o), StaleSound(c, va) PROVE StaleSound(c, va)'
      BY <3>1 DEF TlbInv, StaleInv
    <3>3. ASSUME NEW j \in 1..n, oplist.ops[j].operation = "remove",
                 va \in Addresses(oplist.ops[j]), Applied(c, j)'
          PROVE  FALSE
      <4>1. j /= i /\ c \in oplist.ops[j].cpumap /\ c \notin failed /\ j < next'[c]
        BY <1>1, <1>3, <3>2, <3>3 DEF Applied
      <4>2. j < i
        BY <1>1, <1>3, <4>1
      <4>3. Applied(c, j)
        BY <1>1, <4>1, <4>2 DEF Applied
      <4> QED BY <1>1, <2>2, <3>2, <3>3, <4>3 DEF StaleSound
    <3>4. <<c, va>> \in doubt \/ c \in failed
      BY <2>2, <3>2 DEF StaleSound
    <3>5. <<c, va>> \in doubt \/ <<c, va>> \in Pairs(ToSet(oplist.ops))
      BY <3>2 DEF StaleSound
    <3>6. next'[c] /= 0
      BY <1>1, <1>3
    <3> QED BY <1>1, <1>4, <3>3, <3>4, <3>5, <3>6 DEF StaleSound, Addresses
  <2> QED BY <2>1, <2>2
<1>7. stale' = [d \in CPU |-> [va \in Kmem |-> stale'[d][va]]]
  BY <1>1 DEF pmap_update_remove, Flushed, TlbInv, StaleInv
<1> QED BY <1>2, <1>5, <1>6, <1>7 DEF TlbInv, StaleInv

(* A mapping that is entered leaves less in the cache, or its failure      *)
(* leaves what the list is about in doubt.                                 *)
LEMMA EnterKeeps ==
    ASSUME TlbInv, NEW c \in CPU, pmap_update_enter(c) PROVE TlbInv'
<1> DEFINE n == Len(oplist.ops)
           i == next[c]
           o == oplist.ops[i]
<1>1. /\ i \in 1..n /\ DOMAIN oplist.ops = 1..n /\ n \in Nat
      /\ c \in Running /\ o.operation = "enter"
      /\ UNCHANGED <<phase, oplist, op, doubt>>
      /\ next \in [CPU -> Int]
  <2>1. /\ i \in DOMAIN oplist.ops /\ o.operation = "enter"
        /\ UNCHANGED <<phase, oplist, op, doubt>>
    BY DEF pmap_update_enter, thread, history
  <2>2. /\ oplist.ops \in Seq(Operation) /\ next \in [CPU -> Int]
        /\ next[c] /= 0 => c \in Running
    BY DEF TlbInv, ListInv
  <2>3. n \in Nat /\ DOMAIN oplist.ops = 1..n
    BY <2>2
  <2> QED BY <2>1, <2>2, <2>3
<1>2. \/ /\ next' = [next EXCEPT ![c] = -1] /\ failed' = failed \cup {c}
         /\ UNCHANGED stale
      \/ /\ next' = [next EXCEPT ![c] = NextOp(c, i)] /\ UNCHANGED failed
         /\ stale' = IF GlobalFlush(c) THEN stale ELSE Flushed(c, {o.va})
  BY DEF pmap_update_enter
<1>3. ListInv'
  BY <1>1, <1>2, ListMoves DEF TlbInv
<1>4. /\ Running' = Running
      /\ Pairs(ToSet(oplist.ops))' = Pairs(ToSet(oplist.ops))
      /\ GlobalFlush(c)' <=> GlobalFlush(c)
  BY <1>1, FlushSame DEF Running, Pairs, Addresses, ToSet
<1>5. ASSUME NEW d \in CPU, NEW va \in Kmem, d /= c
      PROVE  stale'[d][va] = {} \/ StaleSound(d, va)'
  <2>1. stale'[d] = stale[d]
    BY <1>2, <1>5 DEF TlbInv, StaleInv, Flushed
  <2> QED BY <1>1, <1>2, <1>5, <2>1, OthersKeep
<1>6. ASSUME NEW va \in Kmem PROVE stale'[c][va] = {} \/ StaleSound(c, va)'
  <2>1. stale'[c][va] \subseteq stale[c][va]
    BY <1>2 DEF TlbInv, StaleInv, Flushed
  <2>2. SUFFICES ASSUME StaleSound(c, va) PROVE StaleSound(c, va)'
    BY <2>1 DEF TlbInv, StaleInv
  <2>3. <<c, va>> \in doubt \/ <<c, va>> \in Pairs(ToSet(oplist.ops))
    BY <2>2 DEF StaleSound
  <2>4. CASE next' = [next EXCEPT ![c] = -1] /\ failed' = failed \cup {c}
    <3>1. next'[c] = -1 /\ c \in failed'
      BY <1>1, <2>4
    <3> QED BY <1>1, <1>4, <2>3, <3>1 DEF StaleSound, Applied
  <2>5. CASE next' = [next EXCEPT ![c] = NextOp(c, i)] /\ UNCHANGED failed
    <3>1. /\ next'[c] = NextOp(c, i) /\ next'[c] \in (i + 1)..(n + 1)
          /\ \A j \in 1..n : i < j /\ j < next'[c] => c \notin oplist.ops[j].cpumap
      <4>1. next'[c] = NextOp(c, i)
        BY <1>1, <2>5
      <4>2. ListInv
        BY DEF TlbInv
      <4> QED BY <1>1, <4>1, <4>2, NextOpSound
    <3>2. ASSUME NEW j \in 1..n, oplist.ops[j].operation = "remove",
                 va \in Addresses(oplist.ops[j]), Applied(c, j)'
          PROVE  GlobalFlush(c)
      <4>1. j /= i /\ c \in oplist.ops[j].cpumap /\ c \notin failed /\ j < next'[c]
        BY <1>1, <2>5, <3>1, <3>2 DEF Applied
      <4>2. j < i
        BY <1>1, <3>1, <4>1
      <4>3. Applied(c, j)
        BY <1>1, <4>1, <4>2 DEF Applied
      <4> QED BY <1>1, <2>2, <3>2, <4>3 DEF StaleSound
    <3>3. <<c, va>> \in doubt \/ c \in failed \/ GlobalFlush(c)
      BY <2>2 DEF StaleSound
    <3>4. next'[c] > 0
      BY <1>1, <3>1
    <3>5. /\ c \in Running' /\ UNCHANGED <<oplist, doubt, failed>>
          /\ DOMAIN oplist.ops = 1..n
      BY <1>1, <1>4, <2>5
    <3>6. GlobalFlush(c)' <=> GlobalFlush(c)
      BY <1>4
    <3>7. \A j \in DOMAIN oplist'.ops :
             /\ oplist'.ops[j].operation = "remove" /\ va \in Addresses(oplist'.ops[j])
             /\ Applied(c, j)'
             => GlobalFlush(c)
      BY <3>2, <3>5
    <3>8. <<c, va>> \in Pairs(ToSet(oplist.ops)) => <<c, va>> \in Pairs(ToSet(oplist.ops))'
      BY <1>4
    <3>9. \/ <<c, va>> \in doubt'
          \/ next'[c] /= 0 /\ <<c, va>> \in Pairs(ToSet(oplist.ops))'
      <4>1. CASE <<c, va>> \in doubt
        BY <3>5, <4>1
      <4>2. CASE <<c, va>> \in Pairs(ToSet(oplist.ops))
        <5>1. <<c, va>> \in Pairs(ToSet(oplist.ops))'
          BY <3>8, <4>2
        <5>2. next'[c] /= 0
          BY <3>4
        <5> QED BY <5>1, <5>2
      <4> QED BY <2>3, <4>1, <4>2
    <3>11. <<c, va>> \in doubt' \/ c \in failed' \/ (next'[c] > 0 /\ GlobalFlush(c)')
      <4>1. doubt' = doubt /\ failed' = failed
        BY <3>5
      <4> QED BY <3>3, <3>4, <3>6, <4>1
    <3>10. \A j \in DOMAIN oplist'.ops :
             /\ oplist'.ops[j].operation = "remove" /\ va \in Addresses(oplist'.ops[j])
             /\ Applied(c, j)'
             => next'[c] > 0 /\ GlobalFlush(c)'
      BY <3>4, <3>6, <3>7
    <3> QED BY <3>5, <3>9, <3>11, <3>10 DEF StaleSound
  <2> QED BY <1>2, <2>4, <2>5
<1>7. stale' = [d \in CPU |-> [va \in Kmem |-> stale'[d][va]]]
  <2>1. stale = [d \in CPU |-> [va \in Kmem |-> stale[d][va]]]
    BY DEF TlbInv, StaleInv
  <2>2. CASE stale' = stale
    BY <2>1, <2>2
  <2>3. CASE stale' = Flushed(c, {o.va})
    BY <2>1, <2>3 DEF Flushed
  <2> QED BY <1>2, <2>2, <2>3
<1> QED BY <1>3, <1>5, <1>6, <1>7 DEF TlbInv, StaleInv

(* At the end of the list a processor has nothing stale to flush, or       *)
(* flushes everything.                                                     *)
LEMMA FlushKeeps ==
    ASSUME TlbInv, NEW c \in CPU, pmap_flush_tlb_all(c) PROVE TlbInv'
<1> DEFINE n == Len(oplist.ops)
<1>1. /\ next[c] = n + 1 /\ DOMAIN oplist.ops = 1..n /\ n \in Nat
      /\ UNCHANGED <<phase, oplist, op, doubt, failed>>
      /\ next \in [CPU -> Int] /\ next' = [next EXCEPT ![c] = -1]
      /\ stale' = IF GlobalFlush(c) THEN Flushed(c, Kmem) ELSE stale
  BY DEF pmap_flush_tlb_all, thread, history, TlbInv, ListInv
<1>2. ListInv'
  <2>1. ListInv /\ next[c] > 0 /\ failed' = failed
    BY <1>1 DEF TlbInv
  <2> QED BY <1>1, <2>1, ListMoves
<1>3. ASSUME NEW d \in CPU, NEW va \in Kmem, d /= c
      PROVE  stale'[d][va] = {} \/ StaleSound(d, va)'
  <2>1. stale'[d] = stale[d]
    BY <1>1, <1>3 DEF TlbInv, StaleInv, Flushed
  <2> QED BY <1>1, <1>3, <2>1, OthersKeep
<1>4. ASSUME NEW va \in Kmem PROVE stale'[c][va] = {} \/ StaleSound(c, va)'
  <2>1. CASE GlobalFlush(c)
    BY <1>1, <2>1 DEF Flushed, TlbInv, StaleInv
  <2>2. CASE ~GlobalFlush(c)
    <3>1. SUFFICES ASSUME StaleSound(c, va) PROVE StaleSound(c, va)'
      BY <1>1, <2>2 DEF TlbInv, StaleInv
    <3>2. /\ Running' = Running
          /\ Pairs(ToSet(oplist.ops))' = Pairs(ToSet(oplist.ops))
      <4>1. UNCHANGED <<phase, oplist>>
        BY <1>1
      <4> QED BY <4>1 DEF Running, Pairs, Addresses, ToSet
    <3>3. next'[c] = -1 /\ next[c] > 0
      BY <1>1
    <3>4. \A j \in 1..n : Applied(c, j)' => Applied(c, j)
      BY <1>1 DEF Applied
    <3> QED BY <1>1, <2>2, <3>1, <3>2, <3>3, <3>4 DEF StaleSound, Addresses
  <2> QED BY <2>1, <2>2
<1>5. stale' = [d \in CPU |-> [va \in Kmem |-> stale'[d][va]]]
  BY <1>1 DEF Flushed, TlbInv, StaleInv
<1> QED BY <1>2, <1>3, <1>4, <1>5 DEF TlbInv, StaleInv

(* Between two lists, only what failed lists were about may be stale. *)
LEMMA OnlyDoubts ==
    ASSUME TlbInv, ~Updating
    PROVE  /\ failed = {} /\ \A c \in CPU : next[c] = 0
           /\ \A c \in CPU, va \in Kmem :
                 stale[c][va] = {} \/ (c \in Running /\ <<c, va>> \in doubt)
<1>1. \A c \in CPU : next[c] = 0
  BY DEF Updating
<1>2. failed = {}
  BY <1>1 DEF TlbInv, ListInv
<1> QED BY <1>1, <1>2 DEF TlbInv, StaleInv, StaleSound

(* Then a step that starts the list, or none, applies nothing. *)
LEMMA DoubtsStay ==
    ASSUME TlbInv, ~Updating, ListInv', UNCHANGED <<stale, doubt>>,
           Running \subseteq Running',
           \A c \in CPU : \A i \in DOMAIN oplist'.ops : ~Applied(c, i)'
    PROVE  TlbInv'
<1>1. ASSUME NEW c \in CPU, NEW va \in Kmem
      PROVE  stale'[c][va] = {} \/ StaleSound(c, va)'
  BY OnlyDoubts DEF StaleSound
<1> QED BY <1>1 DEF TlbInv, StaleInv

(* The list is sent to all the processors it is about. *)
LEMMA StartKeeps ==
    ASSUME TlbInv, ~Updating, Start, oplist.ops /= <<>>, op' \in Operation \cup {Null},
           UNCHANGED <<phase, stale, oplist, failed, doubt>>
    PROVE  TlbInv'
<1> DEFINE n == Len(oplist.ops)
<1>1. /\ failed = {} /\ \A c \in CPU : next[c] = 0
      /\ n \in Nat /\ DOMAIN oplist.ops = 1..n
      /\ Running' = Running
  BY OnlyDoubts DEF TlbInv, ListInv, Running
<1>2. ASSUME NEW c \in CPU
      PROVE  /\ NextOp(c, 0) \in 1..(n + 1)
             /\ NextOp(c, 0) \in 1..n => c \in oplist.ops[NextOp(c, 0)].cpumap
             /\ \A j \in 1..n : j < NextOp(c, 0) => c \notin oplist.ops[j].cpumap
  <2>1. 0 \in Nat /\ 0 <= n /\ 0 + 1 = 1 /\ ListInv
    BY <1>1 DEF TlbInv
  <2>2. /\ NextOp(c, 0) \in (0 + 1)..(n + 1)
        /\ NextOp(c, 0) \in DOMAIN oplist.ops => c \in oplist.ops[NextOp(c, 0)].cpumap
        /\ \A j \in DOMAIN oplist.ops :
              0 < j /\ j < NextOp(c, 0) => c \notin oplist.ops[j].cpumap
    BY <2>1, NextOpSound
  <2> QED BY <1>1, <2>1, <2>2
<1>3. \A c \in CPU :
          next'[c] = IF /\ c \in Running
                        /\ phase = "mp" => \E o \in ToSet(oplist.ops) : c \in o.cpumap
                     THEN NextOp(c, 0) ELSE 0
  BY DEF Start
<1>4. next' \in [CPU -> Int]
  BY <1>1, <1>2 DEF Start
<1>5. ListInv'
  BY <1>1, <1>2, <1>3, <1>4 DEF TlbInv, ListInv, ToSet
<1>6. ASSUME NEW c \in CPU, NEW i \in 1..n PROVE ~Applied(c, i)'
  BY <1>1, <1>2, <1>3 DEF Applied
<1> QED BY <1>1, <1>5, <1>6, DoubtsStay

(* An operation is merged with the last one of the list, follows it, or    *)
(* waits until the list, being full, is done.                              *)
LEMMA PrepareKeeps ==
    ASSUME UpdateAssumption, TlbInv, Idle, NEW o \in Operation, Prepare(o)
    PROVE  TlbInv'
<1> DEFINE n == Len(oplist.ops)
<1>1. /\ ~Updating /\ n \in Nat /\ DOMAIN oplist.ops = 1..n
      /\ oplist.ops \in Seq(Operation) /\ oplist.pmap \in BOOLEAN
      /\ oplist = [pmap |-> oplist.pmap, ops |-> oplist.ops]
      /\ UNCHANGED <<phase, stale, failed, doubt>>
      /\ failed = {} /\ \A c \in CPU : next[c] = 0
  BY OnlyDoubts DEF Idle, TlbInv, ListInv, Prepare
<1>2. ASSUME UNCHANGED <<op, next>>, oplist' \in [pmap : BOOLEAN, ops : Seq(Operation)]
      PROVE  TlbInv'
  <2>1. Running' = Running /\ ~Updating'
    BY <1>1, <1>2 DEF Running, Updating
  <2>2. ListInv'
    BY <1>1, <1>2, <2>1 DEF TlbInv, ListInv
  <2>3. \A c \in CPU : \A i \in DOMAIN oplist'.ops : ~Applied(c, i)'
    BY <1>1, <1>2 DEF Applied
  <2> QED BY <1>1, <2>1, <2>2, <2>3, DoubtsStay
<1>3. CASE n > 0 /\ Merges(o, oplist.ops[n]) /\ n < MaxOps
  <2> DEFINE last == oplist.ops[n]
             merged == [last EXCEPT !.end = o.end]
  <2>1. UNCHANGED <<op, next>> /\ oplist' = [oplist EXCEPT !.ops[n].end = o.end]
    BY <1>3 DEF Prepare
  <2>2. last \in Operation /\ last.operation = "remove" /\ o.operation = "remove"
    BY <1>1, <1>3 DEF Merges
  <2>3. merged \in Operation
    BY <2>2 DEF Operation
  <2>4. oplist' = [pmap |-> oplist.pmap, ops |-> [oplist.ops EXCEPT ![n] = merged]]
    BY <1>1, <2>1
  <2>5. \A m \in Operation : [oplist.ops EXCEPT ![n] = m] \in Seq(Operation)
    <3>1. SUFFICES ASSUME NEW m \in Operation
                   PROVE  [oplist.ops EXCEPT ![n] = m] \in Seq(Operation)
      OBVIOUS
    <3>2. oplist.ops \in [1..n -> Operation]
      BY <1>1
    <3>3. [oplist.ops EXCEPT ![n] = m] \in [1..n -> Operation]
      BY <3>2
    <3> QED BY <1>1, <3>3
  <2> QED BY <1>1, <1>2, <2>1, <2>3, <2>4, <2>5
<1>4. CASE ~(n > 0 /\ Merges(o, oplist.ops[n]) /\ n < MaxOps) /\ n < MaxOps
  <2>1. UNCHANGED <<op, next>> /\ oplist' = [pmap |-> TRUE, ops |-> Append(oplist.ops, o)]
    BY <1>4 DEF Prepare
  <2>2. Append(oplist.ops, o) \in Seq(Operation)
    BY <1>1
  <2> QED BY <1>2, <2>1, <2>2
<1>5. CASE ~(n < MaxOps)
  <2>1. op' = o /\ Start /\ UNCHANGED oplist
    BY <1>5 DEF Prepare
  <2>2. oplist.ops /= <<>>
    BY <1>1, <1>5 DEF UpdateAssumption
  <2> QED BY <1>1, <2>1, <2>2, StartKeeps
<1> QED BY <1>3, <1>4, <1>5

(* Up to the copies, only the first processor runs. *)
LEMMA BootKeeps ==
    ASSUME UpdateAssumption, TlbInv, pmap_setup_paging \/ pmap_bootstrap \/ pmap_setup
    PROVE  TlbInv'
<1>1. /\ phase /= "mp" /\ phase' /= "mp"
      /\ UNCHANGED <<stale, oplist, op, next, failed, doubt>>
  BY DEF pmap_setup_paging, pmap_bootstrap, pmap_setup, thread, history
<1>2. Running' = Running /\ (Updating' <=> Updating)
  BY <1>1 DEF Running, Updating
<1>3. ListInv'
  BY <1>1, <1>2 DEF TlbInv, ListInv
<1>4. /\ Pairs(ToSet(oplist.ops))' = Pairs(ToSet(oplist.ops))
      /\ \A c : GlobalFlush(c)' <=> GlobalFlush(c)
      /\ \A c, i : Applied(c, i)' <=> Applied(c, i)
  <2>1. Pairs(ToSet(oplist.ops))' = Pairs(ToSet(oplist.ops))
    BY <1>1, <1>2 DEF Pairs, Addresses, ToSet
  <2>2. \A c : GlobalFlush(c)' <=> GlobalFlush(c)
    BY <1>1, FlushSame
  <2> QED BY <1>1, <2>1, <2>2 DEF Applied
<1>5. \A c \in CPU, va \in Kmem : StaleSound(c, va) => StaleSound(c, va)'
  BY <1>1, <1>2, <1>4 DEF StaleSound, Addresses
<1> QED BY <1>1, <1>3, <1>5 DEF TlbInv, StaleInv

(* What is in doubt on the first processor is so on those that get a copy. *)
LEMMA CopyKeeps ==
    ASSUME UpdateAssumption, TlbInv, pmap_mp_setup PROVE TlbInv'
<1>1. /\ phase = "ready" /\ phase' = "mp" /\ oplist.ops = <<>>
      /\ UNCHANGED <<stale, oplist, op, next, failed>>
      /\ doubt' = {x \in CPU \X Kmem : <<1, x[2]>> \in doubt}
  BY DEF pmap_mp_setup, thread
<1>2. 1 \in CPU /\ Running = {1} /\ Running' = CPU
  BY <1>1 DEF Running, UpdateAssumption, CPU
<1>3. DOMAIN oplist.ops = {} /\ ToSet(oplist.ops) = {}
  BY <1>1 DEF ToSet
<1>4. ListInv'
  BY <1>1, <1>2, <1>3 DEF TlbInv, ListInv, ToSet
<1>5. Pairs(ToSet(oplist.ops)) = {}
  BY <1>3 DEF Pairs
<1>6. ASSUME NEW c \in CPU, NEW va \in Kmem, StaleSound(c, va) PROVE StaleSound(c, va)'
  <2>1. c = 1 /\ <<1, va>> \in doubt
    BY <1>2, <1>5, <1>6 DEF StaleSound
  <2>2. <<c, va>> \in doubt'
    BY <1>1, <2>1
  <2> QED BY <1>1, <1>2, <1>3, <2>2 DEF StaleSound
<1> QED BY <1>1, <1>4, <1>6 DEF TlbInv, StaleInv

(* When all processors are done, those on which nothing has failed have    *)
(* flushed what the list has removed.                                      *)
LEMMA FinishKeeps ==
    ASSUME TlbInv, Finish PROVE TlbInv'
<1> DEFINE ops == ToSet(oplist.ops)
           removed == Pairs({o \in ops : o.operation = "remove"})
<1>1. /\ Updating /\ \A c \in CPU : next[c] \in {0, -1}
      /\ next' = [c \in CPU |-> 0] /\ failed' = {} /\ op' = Null
      /\ UNCHANGED <<phase, stale>>
      /\ oplist' = [pmap |-> op /= Null, ops |-> IF failed = {} /\ op /= Null THEN <<op>> ELSE <<>>]
      /\ doubt' = IF failed = {} THEN doubt \ removed ELSE doubt \cup Pairs(ops)
  BY DEF Finish, tables
<1>2. oplist' \in [pmap : BOOLEAN, ops : Seq(Operation)]
  BY <1>1 DEF TlbInv, ListInv
<1>3. ListInv'
  <2>1. ~Updating'
    BY <1>1 DEF Updating
  <2>2. Len(oplist'.ops) \in Nat /\ DOMAIN oplist'.ops = 1..Len(oplist'.ops)
    BY <1>2
  <2>3. next' \in [CPU -> Int] /\ \A c \in CPU : next'[c] = 0
    BY <1>1
  <2>4. op' \in Operation \cup {Null} /\ failed' = {}
    BY <1>1
  <2> QED BY <1>2, <2>1, <2>2, <2>3, <2>4 DEF ListInv
<1>4. DOMAIN oplist.ops = 1..Len(oplist.ops) /\ Len(oplist.ops) \in Nat
  BY DEF TlbInv, ListInv
<1>5. ASSUME NEW c \in CPU, NEW va \in Kmem, StaleSound(c, va)
      PROVE  c \in Running /\ <<c, va>> \in doubt'
  <2>1. CASE failed = {}
    <3>1. <<c, va>> \in doubt
      BY <1>1, <1>5, <2>1 DEF StaleSound
    <3>2. <<c, va>> \notin removed
      <4> SUFFICES ASSUME <<c, va>> \in removed PROVE FALSE
        OBVIOUS
      <4>1. PICK o \in ops : o.operation = "remove" /\ c \in o.cpumap /\ va \in Addresses(o)
        BY DEF Pairs
      <4>2. PICK i \in DOMAIN oplist.ops : o = oplist.ops[i]
        BY DEF ToSet
      <4>3. next[c] = -1
        BY <1>1, <1>5, <4>1 DEF TlbInv, ListInv, StaleSound
      <4>4. Applied(c, i)
        BY <2>1, <4>1, <4>2, <4>3 DEF Applied
      <4> QED BY <1>5, <4>1, <4>2, <4>3, <4>4 DEF StaleSound
    <3> QED BY <1>1, <1>5, <2>1, <3>1, <3>2 DEF StaleSound
  <2>2. CASE failed /= {}
    BY <1>1, <1>5, <2>2 DEF StaleSound
  <2> QED BY <2>1, <2>2
<1>6. ASSUME NEW c \in CPU, NEW va \in Kmem
      PROVE  stale'[c][va] = {} \/ StaleSound(c, va)'
  <2> SUFFICES ASSUME StaleSound(c, va) PROVE StaleSound(c, va)'
    BY <1>1 DEF TlbInv, StaleInv
  <2>1. Running' = Running /\ next'[c] = 0
    BY <1>1 DEF Running
  <2>2. \A i \in DOMAIN oplist'.ops : ~Applied(c, i)'
    BY <1>2, <2>1 DEF Applied
  <2> QED BY <1>5, <2>1, <2>2 DEF StaleSound
<1> QED BY <1>1, <1>3, <1>6 DEF TlbInv, StaleInv

(* Every step keeps what the caches have within what the list explains.    *)
LEMMA TlbStep ==
    ASSUME UpdateAssumption, TlbInv, [Next]_vars PROVE TlbInv'
<1>1. CASE pmap_setup_paging \/ pmap_bootstrap \/ pmap_setup
  BY <1>1, BootKeeps
<1>2. CASE pmap_mp_setup
  BY <1>2, CopyKeeps
<1>3. CASE pmap_enter
  <2>1. PICK va \in Kmem, pa \in Frame, cpumap \in Cpumaps :
            Prepare([operation |-> "enter", va |-> va, pa |-> pa, cpumap |-> cpumap])
    BY <1>3 DEF pmap_enter
  <2>2. [operation |-> "enter", va |-> va, pa |-> pa, cpumap |-> cpumap] \in Operation
    BY DEF Operation, Cpumaps, CPU, UpdateAssumption
  <2> QED BY <1>3, <2>1, <2>2, PrepareKeeps DEF pmap_enter
<1>4. CASE pmap_remove
  <2>1. PICK va \in Kmem, cpumap \in Cpumaps :
            Prepare([operation |-> "remove", start |-> va, end |-> va + 1, cpumap |-> cpumap])
    BY <1>4 DEF pmap_remove
  <2>2. [operation |-> "remove", start |-> va, end |-> va + 1, cpumap |-> cpumap] \in Operation
    BY DEF Operation, Cpumaps, CPU, UpdateAssumption
  <2> QED BY <1>4, <2>1, <2>2, PrepareKeeps DEF pmap_remove
<1>5. CASE pmap_update
  <2>1. /\ ~Updating /\ Start /\ oplist.ops /= <<>>
        /\ UNCHANGED <<phase, stale, oplist, op, failed, doubt>>
    BY <1>5 DEF pmap_update, Idle, thread, history
  <2>2. op' \in Operation \cup {Null}
    BY <2>1 DEF TlbInv, ListInv
  <2> QED BY <2>1, <2>2, StartKeeps
<1>6. CASE Finish
  BY <1>6, FinishKeeps
<1>7. CASE \E c \in CPU :
          pmap_update_remove(c) \/ pmap_update_enter(c) \/ pmap_flush_tlb_all(c)
  BY <1>7, RemoveKeeps, EnterKeeps, FlushKeeps
<1>8. CASE UNCHANGED vars
  <2>1. UNCHANGED <<phase, stale, oplist, op, next, failed, doubt>>
    BY <1>8 DEF vars
  <2>2. Running' = Running /\ (Updating' <=> Updating)
    BY <2>1 DEF Running, Updating
  <2>3. /\ Pairs(ToSet(oplist.ops))' = Pairs(ToSet(oplist.ops))
        /\ \A c : GlobalFlush(c)' <=> GlobalFlush(c)
        /\ \A c, i : Applied(c, i)' <=> Applied(c, i)
    <3>1. Pairs(ToSet(oplist.ops))' = Pairs(ToSet(oplist.ops))
      BY <2>1, <2>2 DEF Pairs, Addresses, ToSet
    <3>2. \A c : GlobalFlush(c)' <=> GlobalFlush(c)
      BY <2>1, FlushSame
    <3> QED BY <2>1, <3>1, <3>2 DEF Applied
  <2>4. ListInv'
    BY <2>1, <2>2 DEF TlbInv, ListInv, ToSet
  <2>5. \A c \in CPU, va \in Kmem : StaleSound(c, va) => StaleSound(c, va)'
    BY <2>1, <2>2, <2>3 DEF StaleSound, Addresses
  <2> QED BY <2>1, <2>4, <2>5 DEF TlbInv, StaleInv
<1> QED BY <1>1, <1>2, <1>3, <1>4, <1>5, <1>6, <1>7, <1>8 DEF Next

(* The invariant has the property.                                         *)
LEMMA InvFlushes == TlbInv => TlbSound
BY DEF TlbInv, StaleInv, StaleSound, TlbSound

(* No processor keeps a translation that was removed once it has applied   *)
(* the list with the removal, unless that has failed: whichever operations *)
(* were merged or are for which processors, whether it flushes addresses   *)
(* or everything, and whenever it got its tables.                          *)
THEOREM TlbKept == UpdateAssumption => (Spec => []TlbSound)
<1> SUFFICES ASSUME UpdateAssumption PROVE Spec => []TlbSound
  OBVIOUS
<1>1. Init => TlbInv
  BY TlbInit
<1>2. TlbInv /\ [Next]_vars => TlbInv'
  BY TlbStep
<1>3. TlbInv => TlbSound
  BY InvFlushes
<1> QED BY <1>1, <1>2, <1>3, PTL DEF Spec
================================================================================
