------------------------------ MODULE SlabArena ------------------------------
(***************************************************************************)
(* What the dynstr arena of src/arena.c promises its callers, with the     *)
(* slots of each pool as plain sets.  A request of sz bytes is served from *)
(* the first pool, in size order, whose slots hold sz and that has a free  *)
(* slot, any free slot of it; from the heap when there is none.  A block   *)
(* on the heap stays there when it grows.  A slot is never held twice.     *)
(***************************************************************************)
EXTENDS Integers, FiniteSets, FiniteSetsExt

CONSTANTS
    Pools,      \* pool indices, 1..n in size order
    SlotSz,     \* SlotSz[i]: the slot size of pool i
    Slots,      \* Slots[i]: the slot indices of pool i
    Strs,       \* the strings (handles) that hold blocks
    Sizes,      \* the request sizes, in bytes
    Null,       \* a handle holding no block
    Heap        \* a block on the heap

VARIABLES free, held

vars == <<free, held>>

Init ==
    /\ free = [i \in Pools |-> Slots[i]]
    /\ held = [s \in Strs |-> Null]

\* The pools, from the first that fits sz, that have a free slot.
Candidates(sz) == {i \in Pools : SlotSz[i] >= sz /\ free[i] # {}}

\* Give string s a block of sz bytes.
Alloc(s, sz) ==
    /\ held[s] = Null
    /\ IF Candidates(sz) = {}
       THEN held' = [held EXCEPT ![s] = Heap] /\ UNCHANGED free
       ELSE LET i == Min(Candidates(sz))
            IN  \E k \in free[i] :
                   /\ held' = [held EXCEPT ![s] = [pool |-> i, slot |-> k]]
                   /\ free' = [free EXCEPT ![i] = @ \ {k}]

\* Give a block back.
Release(s) ==
    /\ held[s] # Null
    /\ held' = [held EXCEPT ![s] = Null]
    /\ free' = IF held[s] = Heap THEN free
               ELSE [free EXCEPT ![held[s].pool] = @ \cup {held[s].slot}]

\* Move string s to a larger block of sz bytes: the new block is taken
\* while the old one is still held, then the old one is given back.
Move(s, sz) ==
    /\ held[s] \notin {Null, Heap}
    /\ LET old == held[s]
       IN  IF Candidates(sz) = {}
           THEN /\ held' = [held EXCEPT ![s] = Heap]
                /\ free' = [free EXCEPT ![old.pool] = @ \cup {old.slot}]
           ELSE LET i == Min(Candidates(sz))
                IN  \E k \in free[i] :
                       /\ held' = [held EXCEPT ![s] = [pool |-> i, slot |-> k]]
                       /\ free' = [j \in Pools |->
                                     (free[j] \ (IF j = i THEN {k} ELSE {}))
                                     \cup (IF j = old.pool THEN {old.slot} ELSE {})]

Next ==
    \E s \in Strs :
        \/ \E sz \in Sizes : Alloc(s, sz) \/ Move(s, sz)
        \/ Release(s)

Spec == Init /\ [][Next]_vars

=============================================================================
