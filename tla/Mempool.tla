------------------------------- MODULE Mempool -------------------------------
(***************************************************************************)
(* One slab pool of src/mempool.c, as operators on a pool value.  A pool   *)
(* is a record:                                                            *)
(*   num_slots, slot_sz  -- fixed at creation;                             *)
(*   head                -- free_list_head, -1 when the pool is exhausted; *)
(*   hdr[i]              -- the struct slot_hdr at the start of slot i:    *)
(*                          [free_next, num_slots].                        *)
(* The free slots are a LIFO list of single slots (num_slots = 1) ending   *)
(* in a run: a header with num_slots = k > 1 stands for k consecutive      *)
(* free slots, of which only the first has a header.  A slot that was      *)
(* never touched holds whatever the arena's malloc left there (Garbage).   *)
(***************************************************************************)
EXTENDS Integers

CONSTANT Align          \* DLOG_ALLOC_DEFAULT_ALIGNMENT

Garbage == [free_next |-> -2, num_slots |-> -2]

\* ALIGN_TO(obj, algn_bytes): round up to a multiple of a power of two.
AlignTo(obj, a) == ((obj + a - 1) \div a) * a

\* mempool_create_from_buffer: slot 0 is a single free slot followed by
\* the run of the other num_slots - 1 slots starting at slot 1.
MempoolCreate(elemSz, n) ==
    [num_slots |-> n,
     slot_sz   |-> AlignTo(elemSz, Align),
     head      |-> 0,
     hdr       |-> [i \in 0 .. n - 1 |->
                       IF i = 0 THEN [free_next |-> 1, num_slots |-> 1]
                       ELSE IF i = 1 THEN [free_next |-> -1, num_slots |-> n - 1]
                       ELSE Garbage]]

\* mempool_has_ptr: the slot index lies within the pool.
MempoolHasPtr(p, idx) == 0 <= idx /\ idx <= p.num_slots - 1

\* mempool_alloc: the slot handed out (-1 for NULL) and the pool after.
\* A single slot is unlinked; the first slot of a run is taken and the
\* header of the run's remainder is written into the next slot.
MempoolAlloc(p) ==
    IF p.head = -1 THEN [slot |-> -1, pool |-> p]
    ELSE
    LET s == p.hdr[p.head]
    IN  CASE s.num_slots = 1 ->
                 [slot |-> p.head, pool |-> [p EXCEPT !.head = s.free_next]]
          [] s.num_slots > 1 ->
                 [slot |-> p.head,
                  pool |-> [p EXCEPT
                              !.hdr[p.head + 1] = [free_next |-> -1,
                                                   num_slots |-> s.num_slots - 1],
                              !.head = IF p.head + 1 = p.num_slots THEN -1
                                       ELSE p.head + 1]]
          [] OTHER -> [slot |-> -1, pool |-> p]

\* Mutant: the freed slot's num_slots is left as it was.
MempoolFreeKeepsCount(p, idx) ==
    [p EXCEPT !.hdr[idx].free_next = p.head, !.head = idx]

\* mempool_free: push the slot as a single free slot.
MempoolFree(p, idx) ==
    [p EXCEPT !.hdr[idx] = [free_next |-> p.head, num_slots |-> 1],
              !.head = idx]

\* The slots the free list and its run stand for, walking at most
\* num_slots headers (a corrupted list may cycle).
RECURSIVE FreeFrom(_, _, _)
FreeFrom(p, i, fuel) ==
    IF i < 0 \/ i >= p.num_slots \/ fuel = 0 THEN {}
    ELSE LET h == p.hdr[i]
         IN  CASE h.num_slots = 1 -> {i} \cup FreeFrom(p, h.free_next, fuel - 1)
               [] h.num_slots > 1 -> i .. i + h.num_slots - 1
               [] OTHER -> {}

FreeSlots(p) == FreeFrom(p, p.head, p.num_slots)

=============================================================================
