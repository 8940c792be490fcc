----------------------------- MODULE HashTable ------------------------------
(***************************************************************************)
(* The chained hash table of src/hashtable.c for integer keys (HT_INT), as *)
(* used by the pending-reads table (keys are fds, values descriptors, no   *)
(* value deleter).                                                         *)
(*                                                                         *)
(* A table is a function from bucket index to its chain.  Element 1 of a  *)
(* non-empty chain is the element embedded in the bucket array            *)
(* (tbl->head + i); the others were calloc'ed.  Every element records key, *)
(* val and addr: 0 for the embedded element, the key it was              *)
(* allocated for otherwise, so that an iterator holding an element's      *)
(* address can tell that the element was freed under it.                   *)
(***************************************************************************)
EXTENDS Naturals, Sequences, SequencesExt

(* An empty table; only the buckets the given keys hash to are kept, the *)
(* others stay empty and ht_visit passes over them.                       *)
EmptyTable(nb, keys) == [b \in {k % nb : k \in keys} |-> <<>>]

BucketOf(nb, key) == key % nb

Addrs(c) == {c[i].addr : i \in 1..Len(c)}

(* Position in chain c of the element at address a, 0 if none.            *)
PosOf(c, a) == SelectInSeq(c, LAMBDA e : e.addr = a)

HeadAddr == 0

(* Whether el->next of the element at a is set, and where it points.      *)
HasNext(c, a) == PosOf(c, a) < Len(c)

NextAddr(c, a) == c[PosOf(c, a) + 1].addr

(* ht_upsert: fill an empty embedded head; otherwise walk the chain,      *)
(* replacing the value of an element with the key or, at the end,         *)
(* linking a new element after the last one.                               *)
HtUpsert(t, nb, key, val) ==
    LET b == BucketOf(nb, key)
        c == t[b]
        i == SelectInSeq(c, LAMBDA e : e.key = key)
    IN  [t EXCEPT ![b] =
            IF c = <<>> THEN <<[key |-> key, val |-> val, addr |-> HeadAddr]>>
            ELSE IF i # 0 THEN [c EXCEPT ![i].val = val]
            ELSE Append(c, [key |-> key, val |-> val, addr |-> key])]

(* ht_remove: when the embedded head holds the key, the next element (if  *)
(* any) is memcpy'd into the head and that element is freed; otherwise    *)
(* the matching element further down the chain is unlinked and freed.     *)
HtRemove(t, nb, key) ==
    LET b == BucketOf(nb, key)
        c == t[b]
    IN  [t EXCEPT ![b] =
            IF c # <<>> /\ c[1].key = key
            THEN IF Len(c) > 1
                 THEN <<[c[2] EXCEPT !.addr = HeadAddr]>> \o SubSeq(c, 3, Len(c))
                 ELSE <<>>
            ELSE IF c = <<>> THEN c
            ELSE <<c[1]>> \o SelectSeq(Tail(c), LAMBDA e : e.key # key)]

(* The values held by the table.                                           *)
HtValues(t) == UNION {{t[b][i].val : i \in 1..Len(t[b])} : b \in DOMAIN t}

(* The (key, value) pairs held by the table.                               *)
HtPairs(t) ==
    UNION {{<<t[b][i].key, t[b][i].val>> : i \in 1..Len(t[b])} : b \in DOMAIN t}

=============================================================================
