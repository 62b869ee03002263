----------------------------------- MODULE Kmem -----------------------------------
(***************************************************************************)
(* kern/kmem.c: a cache of objects.  Buffers are carved from slabs, which  *)
(* are found in a list of partial slabs or a list of free slabs, and go    *)
(* through a pool of the processor once an array was built for it.  Each   *)
(* step is what runs from a lock to its release; a cache lock is taken     *)
(* with a pool locked, but all locks are dropped to create a slab or to    *)
(* allocate or free an array.  Constructors, colors, and the tags and      *)
(* patterns of the debugging facilities are data of the buffers, left out. *)
(***************************************************************************)
EXTENDS SequencesExt, Integers, FiniteSets

CONSTANTS
    Thread,
    CPU,
    Slab,           \* the slabs there is memory for
    BufsPerSlab,
    PoolSize,       \* cpu_pool_type->array_size
    None

VARIABLES
    partial_slabs, free_slabs,  \* the lists of the cache
    first_free,                 \* the free buffers of each slab, in a list
    nr_objs, nr_bufs, nr_free_slabs,
    pool,       \* the array of each processor, if it was built, and its objects
    held,       \* the objects that were allocated
    pc,         \* the step of each thread
    at,         \* the processor the thread is pinned to
    obj,        \* the object it is about to free
    arrays      \* history: arrays that were allocated and not freed

vars == <<partial_slabs, free_slabs, first_free, nr_objs, nr_bufs, nr_free_slabs,
          pool, held, pc, at, obj, arrays>>
slabs == <<partial_slabs, free_slabs, first_free, nr_objs, nr_free_slabs>>

Buffer == Slab \X (1..BufsPerSlab)
Created == {s \in Slab : first_free[s] /= None}
TransferSize == (PoolSize + 1) \div 2

TypeOK ==
    /\ partial_slabs \in Seq(Slab) /\ free_slabs \in Seq(Slab)
    /\ \A s \in Created : first_free[s] \in Seq(Buffer)
    /\ {nr_objs, nr_bufs} \subseteq 0..Cardinality(Buffer)
    /\ nr_free_slabs \in 0..Cardinality(Slab)
    /\ \A c \in CPU : pool[c].array \in BOOLEAN
                      /\ pool[c].objs \in Seq(Buffer) /\ Len(pool[c].objs) <= PoolSize
    /\ held \subseteq Buffer
    /\ pc \in [Thread -> {"idle", "alloc", "slab_alloc", "grow", "slab_grow", "create",
                        "slab_create", "free", "array"}]
    /\ at \in [Thread -> CPU \cup {None}]
    /\ obj \in [Thread -> Buffer \cup {None}]
    /\ arrays \in 0..Cardinality(CPU)

Init ==
    /\ partial_slabs = <<>> /\ free_slabs = <<>>
    /\ first_free = [s \in Slab |-> None]
    /\ nr_objs = 0 /\ nr_bufs = 0 /\ nr_free_slabs = 0
    /\ pool = [c \in CPU |-> [array |-> FALSE, objs |-> <<>>]]
    /\ held = {}
    /\ pc = [t \in Thread |-> "idle"]
    /\ at = [t \in Thread |-> None]
    /\ obj = [t \in Thread |-> None]
    /\ arrays = 0

Goto(t, l) == pc' = [pc EXCEPT ![t] = l]
Pinned(t) == \E c \in CPU : at' = [at EXCEPT ![t] = c]
Unpinned(t) == at' = [at EXCEPT ![t] = None]

--------------------------------------------------------------------------------
(* The slab layer, on the value of the cache.                              *)

cache == [partial |-> partial_slabs, free |-> free_slabs, bufs |-> first_free,
          nr_objs |-> nr_objs, nr_free_slabs |-> nr_free_slabs]

Becomes(k) ==
    /\ partial_slabs' = k.partial /\ free_slabs' = k.free /\ first_free' = k.bufs
    /\ nr_objs' = k.nr_objs /\ nr_free_slabs' = k.nr_free_slabs

(* References of a slab, seen from its free buffers. *)
nr_refs(bufs) == BufsPerSlab - Len(bufs)

(* A slab leaves the lists once complete, and is partial in between. *)
kmem_cache_alloc_from_slab(k) ==
    LET s == Head(k.partial \o k.free)
        left == Tail(k.bufs[s])
        wasFree == nr_refs(left) = 1
        complete == nr_refs(left) = BufsPerSlab
    IN  IF k.partial \o k.free = <<>> THEN [cache |-> k, objs |-> <<>>]
        ELSE [objs |-> <<Head(k.bufs[s])>>,
              cache |->
                  [partial |-> IF complete THEN SelectSeq(k.partial, LAMBDA x : x /= s)
                               ELSE IF wasFree THEN Append(k.partial, s)
                               ELSE k.partial,
                   free |-> SelectSeq(k.free, LAMBDA x : x /= s),
                   bufs |-> [k.bufs EXCEPT ![s] = left],
                   nr_objs |-> k.nr_objs + 1,
                   nr_free_slabs |-> k.nr_free_slabs - (IF wasFree THEN 1 ELSE 0)]]

kmem_cache_free_to_slab(k, buf) ==
    LET s == buf[1]
        bufs == <<buf>> \o k.bufs[s]
        isFree == nr_refs(bufs) = 0
        wasComplete == nr_refs(bufs) = BufsPerSlab - 1
    IN  [partial |-> IF isFree THEN SelectSeq(k.partial, LAMBDA x : x /= s)
                     ELSE IF wasComplete THEN <<s>> \o k.partial ELSE k.partial,
         free |-> IF isFree THEN <<s>> \o k.free ELSE k.free,
         bufs |-> [k.bufs EXCEPT ![s] = bufs],
         nr_objs |-> k.nr_objs - 1,
         nr_free_slabs |-> k.nr_free_slabs + (IF isFree THEN 1 ELSE 0)]

kmem_cache_empty == nr_objs = nr_bufs

(* Pools: the array is a stack, its last object first here. *)
kmem_cpu_pool_fill ==
    FoldLeft(LAMBDA f, i :
                 LET r == kmem_cache_alloc_from_slab(f.cache)
                 IN  [cache |-> r.cache, objs |-> r.objs \o f.objs],
             [cache |-> cache, objs |-> <<>>], [i \in 1..TransferSize |-> i])

kmem_cpu_pool_drain(objs) ==
    [cache |-> FoldLeft(kmem_cache_free_to_slab, cache, SubSeq(objs, 1, TransferSize)),
     objs |-> SubSeq(objs, TransferSize + 1, Len(objs))]

--------------------------------------------------------------------------------
(* Allocation. *)

(* A thread is pinned to the processor where it runs. *)
kmem_cache_alloc(t) ==
    /\ pc[t] = "idle"
    /\ Goto(t, "alloc")
    /\ Pinned(t)
    /\ UNCHANGED <<slabs, nr_bufs, pool, held, obj, arrays>>

(* The pool is filled when it is empty; without an array, or when there is *)
(* nothing to fill it with, it is unlocked.                                *)
FastAlloc(t) ==
    LET p == pool[at[t]]
        filled == IF p.objs = <<>> THEN kmem_cpu_pool_fill
                  ELSE [cache |-> cache, objs |-> p.objs]
    IN  /\ pc[t] = "alloc"
        /\ Unpinned(t)
        /\ UNCHANGED <<nr_bufs, obj, arrays>>
        /\ \/ /\ ~p.array
              /\ Goto(t, "slab_alloc")
              /\ UNCHANGED <<slabs, pool, held>>
           \/ /\ p.array /\ filled.objs = <<>>
              /\ Goto(t, "grow")
              /\ UNCHANGED <<slabs, pool, held>>
           \/ /\ p.array /\ filled.objs /= <<>>
              /\ Goto(t, "idle")
              /\ Becomes(filled.cache)
              /\ pool' = [pool EXCEPT ![at[t]].objs = Tail(filled.objs)]
              /\ held' = held \cup {Head(filled.objs)}

SlabAlloc(t) ==
    LET r == kmem_cache_alloc_from_slab(cache) IN
    /\ pc[t] = "slab_alloc"
    /\ Goto(t, IF r.objs = <<>> THEN "slab_grow" ELSE "idle")
    /\ Becomes(r.cache)
    /\ held' = held \cup ToSet(r.objs)
    /\ UNCHANGED <<nr_bufs, pool, at, obj, arrays>>

(* Once the cache has buffers, the allocation is tried again as before: on *)
(* the processor where the thread is then, or from the slabs.              *)
Retry(t, slabAlloc) ==
    IF slabAlloc THEN Goto(t, "slab_alloc") /\ UNCHANGED at
    ELSE Goto(t, "alloc") /\ Pinned(t)

kmem_cache_grow(t) ==
    LET slabAlloc == pc[t] = "slab_grow" IN
    /\ pc[t] \in {"grow", "slab_grow"}
    /\ IF kmem_cache_empty
       THEN Goto(t, IF slabAlloc THEN "slab_create" ELSE "create") /\ UNCHANGED at
       ELSE Retry(t, slabAlloc)
    /\ UNCHANGED <<slabs, nr_bufs, pool, held, obj, arrays>>

(* The pages of a slab were allocated, or not.  Several threads may have   *)
(* found the cache empty, and another one may have made it grow.           *)
kmem_slab_create(t) ==
    LET slabAlloc == pc[t] = "slab_create" IN
    /\ pc[t] \in {"create", "slab_create"}
    /\ \/ /\ \E s \in Slab \ Created :
                /\ first_free' = [first_free EXCEPT ![s] =
                                      [i \in 1..BufsPerSlab |-> <<s, BufsPerSlab - i + 1>>]]
                /\ free_slabs' = <<s>> \o free_slabs
          /\ nr_bufs' = nr_bufs + BufsPerSlab
          /\ nr_free_slabs' = nr_free_slabs + 1
          /\ Retry(t, slabAlloc)
       \/ /\ IF kmem_cache_empty THEN Goto(t, "idle") /\ UNCHANGED at
             ELSE Retry(t, slabAlloc)
          /\ UNCHANGED <<first_free, free_slabs, nr_bufs, nr_free_slabs>>
    /\ UNCHANGED <<partial_slabs, nr_objs, pool, held, obj, arrays>>

--------------------------------------------------------------------------------
(* Release. *)

kmem_cache_free(t, b) ==
    /\ pc[t] = "idle"
    /\ Goto(t, "free")
    /\ held' = held \ {b}
    /\ obj' = [obj EXCEPT ![t] = b]
    /\ Pinned(t)
    /\ UNCHANGED <<slabs, nr_bufs, pool, arrays>>

(* With the pool locked: the object is pushed, once there is room. *)
Pushed(t, p) ==
    LET d == IF Len(p.objs) = PoolSize THEN kmem_cpu_pool_drain(p.objs)
             ELSE [cache |-> cache, objs |-> p.objs]
    IN  /\ Becomes(d.cache)
        /\ pool' = [pool EXCEPT ![at[t]] =
                        [array |-> TRUE, objs |-> <<obj[t]>> \o d.objs]]
        /\ Goto(t, "idle")
        /\ obj' = [obj EXCEPT ![t] = None]
        /\ Unpinned(t)

FastFree(t) ==
    /\ pc[t] = "free"
    /\ IF pool[at[t]].array THEN Pushed(t, pool[at[t]])
       ELSE Goto(t, "array") /\ UNCHANGED <<slabs, pool, obj, at>>
    /\ UNCHANGED <<nr_bufs, held, arrays>>

(* There was no memory for the array of the pool. *)
SlabFree(t) ==
    /\ pc[t] = "array"
    /\ Becomes(kmem_cache_free_to_slab(cache, obj[t]))
    /\ Goto(t, "idle")
    /\ Unpinned(t)
    /\ obj' = [obj EXCEPT ![t] = None]
    /\ UNCHANGED <<nr_bufs, pool, held, arrays>>

(* The array is given to the pool, unless another thread has built the     *)
(* pool: then it is freed, and the thread may have moved when it retries.  *)
kmem_cpu_pool_build(t) ==
    /\ pc[t] = "array"
    /\ \/ /\ ~pool[at[t]].array
          /\ Pushed(t, pool[at[t]])
          /\ arrays' = arrays + 1
       \/ /\ pool[at[t]].array
          /\ Goto(t, "free")
          /\ Pinned(t)
          /\ UNCHANGED <<slabs, pool, obj, arrays>>
    /\ UNCHANGED <<nr_bufs, held>>

Next ==
    \E t \in Thread :
        \/ kmem_cache_alloc(t) \/ FastAlloc(t) \/ SlabAlloc(t)
        \/ kmem_cache_grow(t) \/ kmem_slab_create(t)
        \/ \E b \in held : kmem_cache_free(t, b)
        \/ FastFree(t) \/ SlabFree(t) \/ kmem_cpu_pool_build(t)

Spec == Init /\ [][Next]_vars

--------------------------------------------------------------------------------

Pooled == UNION {ToSet(pool[c].objs) : c \in CPU}
Freed == {obj[t] : t \in Thread} \ {None}

(* A buffer is in one place: free in its slab, in a single pool, about to  *)
(* be freed by a single thread, or held by a user, however the threads     *)
(* that share a pool are interleaved and moved; a pool has one array.      *)
NoOverlap ==
    /\ \A b \in UNION {{<<s, i>> : i \in 1..BufsPerSlab} : s \in Created} :
        Cardinality({i \in 1..Len(first_free[b[1]]) : first_free[b[1]][i] = b})
        + Cardinality({<<c, i>> \in CPU \X (1..PoolSize) :
                          i <= Len(pool[c].objs) /\ pool[c].objs[i] = b})
        + Cardinality({t \in Thread : obj[t] = b})
        + (IF b \in held THEN 1 ELSE 0) = 1
    /\ arrays = Cardinality({c \in CPU : pool[c].array})

(* The assertions of the slab layer and what they rely on: a slab is in    *)
(* the list that its references call for, and the counters, from which an  *)
(* empty cache is told, are those of the lists.                            *)
AssertsHold ==
    LET Refs(s) == nr_refs(first_free[s]) IN
    /\ \A s \in Slab :
        /\ s \in ToSet(free_slabs) <=> s \in Created /\ Refs(s) = 0
        /\ s \in ToSet(partial_slabs)
           <=> s \in Created /\ Refs(s) \in 1..(BufsPerSlab - 1)
    /\ IsInjective(free_slabs) /\ IsInjective(partial_slabs)
    /\ nr_free_slabs = Len(free_slabs)
    /\ nr_bufs = BufsPerSlab * Cardinality(Created)
    /\ nr_objs = Cardinality(Pooled) + Cardinality(Freed) + Cardinality(held)
================================================================================
