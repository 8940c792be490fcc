-------------------------------- MODULE Arena --------------------------------
(***************************************************************************)
(* The dynstr arena: arena_alloc, arena_realloc and arena_free of          *)
(* src/arena.c over the pools of src/mempool.c, driven by the dynstr       *)
(* calls that reach them through dlog.c's alloc_dynstr_* wrappers:         *)
(* dynstr_reserve (a new string of a given length), dynstr_resize followed *)
(* by the write that fills it (a string grows), and dynstr_free.           *)
(***************************************************************************)
EXTENDS Integers, Sequences, FiniteSets, FiniteSetsExt

CONSTANTS
    SlotSizes,      \* element size of each row of _dynstr_buckets
    SlotCounts,     \* slot count of each row of _dynstr_buckets
    Strs,           \* the strings that hold blocks
    Lens,           \* the string lengths the program asks for
    Align,          \* DLOG_ALLOC_DEFAULT_ALIGNMENT
    Null            \* a string that holds no block

ASSUME \A i \in DOMAIN SlotCounts : SlotCounts[i] >= 2

LOCAL MP == INSTANCE Mempool

VARIABLES
    pools,      \* pools[i]: the Mempool value of pool i
    str,        \* str[s]: [ptr, cap, len] of string s, or Null
    copy        \* the memcpy of the last arena_realloc that moved a block

vars == <<pools, str, copy>>

Pools == 1 .. Len(SlotSizes)

\* A block on the heap: _poolidx_from_ptr finds no pool that holds it.
HeapPtr == [pool |-> -1, slot |-> -1]

\* allow_heap_alloc as dlog.c passes it to arena_create.
AllowHeap == TRUE

\* sizeof(dynstr): the int fields len and cap before the characters.
HdrSz == 8
TotalSz(len) == HdrSz + len + 1
UsableSize(sz) == sz - HdrSz

Sizes == {TotalSz(l) : l \in Lens}

NoCopy == [n |-> 0, need |-> 0, from |-> 0, to |-> 0]

\* mempool_get_slotsz of pool i.
GetSlotsz(ps, i) == ps[i].slot_sz

\* _poolidx_from_size: the first pool whose slots hold sz bytes.
PoolIdxFromSize(ps, sz) ==
    LET fit == {i \in Pools : GetSlotsz(ps, i) >= sz}
    IN  IF fit = {} THEN -1 ELSE Min(fit)

\* _poolidx_from_ptr: the pool whose slot range holds the pointer.
PoolIdxFromPtr(ps, ptr) ==
    IF ptr.pool \in Pools /\ MP!MempoolHasPtr(ps[ptr.pool], ptr.slot)
    THEN ptr.pool ELSE -1

\* The do-while of arena_alloc: try pool i and every larger pool.
RECURSIVE TryPools(_, _)
TryPools(ps, i) ==
    IF i > Len(SlotSizes) THEN [ptr |-> Null, cap |-> 0, pools |-> ps]
    ELSE LET r == MP!MempoolAlloc(ps[i])
         IN  IF r.slot # -1
             THEN [ptr |-> [pool |-> i, slot |-> r.slot], cap |-> GetSlotsz(ps, i),
                   pools |-> [ps EXCEPT ![i] = r.pool]]
             ELSE TryPools(ps, i + 1)

\* arena_alloc: the block, its capacity and the pools after.
ArenaAlloc(ps, sz) ==
    LET pidx == PoolIdxFromSize(ps, sz)
        r == IF pidx # -1 THEN TryPools(ps, pidx)
             ELSE [ptr |-> Null, cap |-> 0, pools |-> ps]
    IN  CASE r.ptr # Null -> r
          [] AllowHeap -> [ptr |-> HeapPtr, cap |-> sz, pools |-> ps]
          [] OTHER -> r

\* arena_free.
ArenaFree(ps, ptr) ==
    LET pidx == PoolIdxFromPtr(ps, ptr)
    IN  IF pidx = -1 /\ AllowHeap THEN ps
        ELSE [ps EXCEPT ![pidx] = MP!MempoolFree(@, ptr.slot)]

\* Mutant: the memcpy sizes of the two pool-to-pool branches swapped.
ArenaReallocSwapCopy(ps, ptr, oldcap, newlen) ==
    LET pidx == PoolIdxFromPtr(ps, ptr)
    IN
    IF pidx = -1
    THEN [ptr |-> ptr, cap |-> newlen, pools |-> ps,
          copy |-> [n |-> Min({oldcap, newlen}), need |-> 0,
                    from |-> oldcap, to |-> newlen]]
    ELSE IF PoolIdxFromSize(ps, newlen) = pidx
    THEN [ptr |-> ptr, cap |-> GetSlotsz(ps, pidx), pools |-> ps, copy |-> NoCopy]
    ELSE
    LET a == ArenaAlloc(ps, newlen)
        nidx == PoolIdxFromPtr(a.pools, a.ptr)
        n == CASE nidx = -1 -> Min({GetSlotsz(ps, pidx), newlen})
               [] nidx > pidx -> GetSlotsz(ps, nidx)
               [] OTHER -> GetSlotsz(ps, pidx)
        cap == IF nidx = -1 THEN newlen ELSE a.cap
    IN  [ptr |-> a.ptr, cap |-> cap, pools |-> ArenaFree(a.pools, ptr),
         copy |-> [n |-> n, need |-> 0, from |-> GetSlotsz(ps, pidx), to |-> cap]]

\* arena_realloc of a block of capacity oldcap to newlen bytes: the block,
\* its capacity, the pools after and the memcpy (bytes copied n, with
\* the capacities it copies from and to).  realloc() on the heap copies
\* min(old size, new size).
ArenaRealloc(ps, ptr, oldcap, newlen) ==
    LET pidx == PoolIdxFromPtr(ps, ptr)
    IN
    IF pidx = -1
    THEN [ptr |-> ptr, cap |-> newlen, pools |-> ps,
          copy |-> [n |-> Min({oldcap, newlen}), need |-> 0,
                    from |-> oldcap, to |-> newlen]]
    ELSE IF PoolIdxFromSize(ps, newlen) = pidx
    THEN [ptr |-> ptr, cap |-> GetSlotsz(ps, pidx), pools |-> ps, copy |-> NoCopy]
    ELSE
    LET a == ArenaAlloc(ps, newlen)
        nidx == PoolIdxFromPtr(a.pools, a.ptr)
        n == CASE nidx = -1 -> Min({GetSlotsz(ps, pidx), newlen})
               [] nidx > pidx -> GetSlotsz(ps, pidx)
               [] OTHER -> GetSlotsz(ps, nidx)
        cap == IF nidx = -1 THEN newlen ELSE a.cap
    IN  [ptr |-> a.ptr, cap |-> cap, pools |-> ArenaFree(a.pools, ptr),
         copy |-> [n |-> n, need |-> 0, from |-> GetSlotsz(ps, pidx), to |-> cap]]

-----------------------------------------------------------------------------
\* arena_create: the pools of _dynstr_buckets, each fresh.
Init ==
    /\ pools = [i \in Pools |-> MP!MempoolCreate(SlotSizes[i], SlotCounts[i])]
    /\ str = [s \in Strs |-> Null]
    /\ copy = NoCopy

\* dynstr_reserve(len) through _alloc, then the len bytes written
\* (dynstr_cnew): cap is the usable part of the block's capacity.
Reserve(s, len) ==
    /\ str[s] = Null
    /\ LET a == ArenaAlloc(pools, TotalSz(len))
       IN  /\ pools' = a.pools
           /\ str' = [str EXCEPT ![s] = [ptr |-> a.ptr,
                                         cap |-> UsableSize(a.cap), len |-> len]]
    /\ UNCHANGED copy

\* Mutant: dynstr_resize keeps the block when len = cap.
DynstrResizeNoTerminator(s, len) ==
    /\ str[s] # Null
    /\ len > str[s].len
    /\ IF len <= str[s].cap
       THEN /\ str' = [str EXCEPT ![s].len = len]
            /\ UNCHANGED <<pools, copy>>
       ELSE LET old == str[s]
                r == ArenaRealloc(pools, old.ptr, old.cap + HdrSz, TotalSz(len))
            IN  /\ pools' = r.pools
                /\ str' = [str EXCEPT ![s] = [ptr |-> r.ptr,
                                              cap |-> UsableSize(r.cap), len |-> len]]
                /\ copy' = IF r.copy = NoCopy THEN copy
                           ELSE [r.copy EXCEPT !.need = TotalSz(old.len)]

\* dynstr_resize(s, len) and the write that brings s to len bytes
\* (dynstr_cat and friends): a block of total size TotalSz(len) when
\* len does not fit below cap.
DynstrResize(s, len) ==
    /\ str[s] # Null
    /\ len > str[s].len
    /\ IF len < str[s].cap
       THEN /\ str' = [str EXCEPT ![s].len = len]
            /\ UNCHANGED <<pools, copy>>
       ELSE LET old == str[s]
                r == ArenaRealloc(pools, old.ptr, old.cap + HdrSz, TotalSz(len))
            IN  /\ pools' = r.pools
                /\ str' = [str EXCEPT ![s] = [ptr |-> r.ptr,
                                              cap |-> UsableSize(r.cap), len |-> len]]
                /\ copy' = IF r.copy = NoCopy THEN copy
                           ELSE [r.copy EXCEPT !.need = TotalSz(old.len)]

\* dynstr_free.
DynstrFree(s) ==
    /\ str[s] # Null
    /\ pools' = ArenaFree(pools, str[s].ptr)
    /\ str' = [str EXCEPT ![s] = Null]
    /\ UNCHANGED copy

Next ==
    \E s \in Strs :
        \/ \E l \in Lens : Reserve(s, l) \/ DynstrResize(s, l)
        \/ DynstrFree(s)

Spec == Init /\ [][Next]_vars

-----------------------------------------------------------------------------
\* What the pools and strings map to in SlabArena: a pool's free slots are
\* those its free list and run stand for; a string holds its block.
A == INSTANCE SlabArena WITH
        SlotSz <- [i \in Pools |-> MP!AlignTo(SlotSizes[i], Align)],
        Slots <- [i \in Pools |-> 0 .. SlotCounts[i] - 1],
        Heap <- HeapPtr,
        free <- [i \in Pools |-> MP!FreeSlots(pools[i])],
        held <- [s \in Strs |-> IF str[s] = Null THEN Null ELSE str[s].ptr]

Ptrs == {HeapPtr} \cup UNION {{[pool |-> i, slot |-> k] : k \in 0 .. SlotCounts[i] - 1} : i \in Pools}

\* Every string's block is a pool slot or the heap, and its characters
\* leave room for the terminating NUL that dynstr writes after them.
TypeOK ==
    /\ \A i \in Pools : pools[i].head \in -1 .. SlotCounts[i] - 1
    /\ \A s \in Strs :
          str[s] = Null \/ (str[s].ptr \in Ptrs /\ 0 <= str[s].len /\ str[s].len < str[s].cap)

\* mempool_alloc, mempool_free and the arena's pool choice implement the
\* set-based allocator: across any sequence of reserves, resizes and
\* frees, no slot is handed out while held, no free slot is lost, and the
\* heap is used only when every pool that fits is full.
ImplementsSlabArena == A!Spec

\* The memcpy of arena_realloc copies the whole string (header, characters
\* and NUL) and reads and writes within the two blocks.
ReallocCopiesString ==
    /\ copy.need <= copy.n
    /\ copy.n <= copy.from
    /\ copy.n <= copy.to

=============================================================================
