-------------------------------- MODULE TailQ --------------------------------
(***************************************************************************)
(* The <sys/queue.h> tail queue that holds dlogenv->desc_active_list, as   *)
(* operators on a list value with the macros' pointer semantics:           *)
(*   first       -- tqh_first (Nil when empty);                            *)
(*   last        -- tqh_last, the LOCATION of the last forward link: either *)
(*                  HeadLoc (&tqh_first) or an element e, meaning           *)
(*                  &e->_lnk.tqe_next;                                      *)
(*   next[e]     -- e->_lnk.tqe_next;                                      *)
(*   prev[e]     -- e->_lnk.tqe_prev, a location like last.                *)
(* The macros do not check membership, so inserting an element that is    *)
(* already linked, or walking from a freed element, is modelled as the     *)
(* pointer writes and reads the macros perform.                            *)
(***************************************************************************)
EXTENDS Naturals, Sequences, SequencesExt

CONSTANT Nil            \* NULL

HeadLoc == "tqh_first"

\* TAILQ_INIT over the descriptors Elems, whose link fields are what calloc
\* left: NULL next and NULL prev.
TailQInit(Elems) ==
    [first |-> Nil, last |-> HeadLoc,
     next |-> [e \in Elems |-> Nil], prev |-> [e \in Elems |-> Nil]]

\* *loc = v, for a location loc.
Store(q, loc, v) ==
    IF loc = HeadLoc THEN [q EXCEPT !.first = v] ELSE [q EXCEPT !.next[loc] = v]

\* TAILQ_INSERT_TAIL: e->next = NULL; e->prev = head->last;
\* *head->last = e; head->last = &e->next.
InsertTail(q, e) ==
    Store([q EXCEPT !.next[e] = Nil, !.prev[e] = q.last, !.last = e], q.last, e)

\* TAILQ_REMOVE: if (e->next) e->next->prev = e->prev; else head->last =
\* e->prev; *e->prev = e->next.  e's own links are left as they were.  With
\* a NULL prev (e never linked) the store is a write through NULL, which
\* callers detect with NullUnlink.
TailRemove(q, e) ==
    LET q1 == IF q.next[e] # Nil THEN [q EXCEPT !.prev[q.next[e]] = q.prev[e]]
              ELSE [q EXCEPT !.last = q.prev[e]]
    IN  Store(q1, q.prev[e], q.next[e])

NullUnlink(q, e) == q.prev[e] = Nil

\* The list after TAILQ_INSERT_TAIL of each element of s in turn.
RECURSIVE InsertAll(_, _)
InsertAll(q, s) == IF s = <<>> THEN q ELSE InsertAll(InsertTail(q, Head(s)), Tail(s))

\* The elements a TAILQ_FOREACH from e visits, cut after fuel of them (a
\* corrupted list may cycle).
RECURSIVE Walk(_, _, _)
Walk(q, e, fuel) ==
    IF e = Nil \/ fuel = 0 THEN <<>> ELSE <<e>> \o Walk(q, q.next[e], fuel - 1)

\* The list is a proper tail queue of at most n elements: the forward walk
\* ends, visits no element twice, and every back link and tqh_last agree.
WellFormed(q, n) ==
    LET w == Walk(q, q.first, n + 1)
    IN  /\ Len(w) <= n
        /\ IsInjective(w)
        /\ q.last = IF w = <<>> THEN HeadLoc ELSE w[Len(w)]
        /\ \A i \in 1 .. Len(w) : q.prev[w[i]] = IF i = 1 THEN HeadLoc ELSE w[i - 1]

\* The listed elements, in order (for a well-formed list of at most n).
Listed(q, n) == Walk(q, q.first, n)

=============================================================================
