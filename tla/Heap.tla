------------------------------- MODULE Heap -------------------------------
(***************************************************************************)
(* The binary heap of deadlines of src/src/ds/heap.cpp and the functions   *)
(* of src/src/core/state.cpp that add to it and delete from it.  A heap is *)
(* its array a of items [val, ref] and, for every entry, the back pointer  *)
(* idx (Entry::heap_idx) that the items' refs point at.  Positions start   *)
(* at 1 here, so NO_TTL, which in the code is SIZE_MAX, is 0.              *)
(***************************************************************************)
EXTENDS Naturals, Sequences, SequencesExt

CONSTANT Entries   \* the entries that may carry a deadline

NO_TTL == 0

EmptyHeap == [a |-> <<>>, idx |-> [e \in Entries |-> NO_TTL]]

heap_parent(i) == i \div 2
heap_left(i) == 2 * i
heap_right(i) == 2 * i + 1

\* a[pos] = item; *a[pos].ref = pos
Put(h, pos, item) ==
    [a |-> [h.a EXCEPT ![pos] = item], idx |-> [h.idx EXCEPT ![item.ref] = pos]]

RECURSIVE heap_up(_, _, _)
heap_up(h, pos, t) ==
    IF pos > 1 /\ h.a[heap_parent(pos)].val > t.val
    THEN heap_up(Put(h, pos, h.a[heap_parent(pos)]), heap_parent(pos), t)
    ELSE Put(h, pos, t)

\* The smallest of t and the children of pos; the left child wins a tie.
MinPos(h, pos, t) ==
    LET l == heap_left(pos)
        r == heap_right(pos)
        best == IF l <= Len(h.a) /\ h.a[l].val < t.val THEN l ELSE pos
        least == IF best = l THEN h.a[l].val ELSE t.val
    IN  IF r <= Len(h.a) /\ h.a[r].val < least THEN r ELSE best

RECURSIVE heap_down(_, _, _)
heap_down(h, pos, t) ==
    LET Sink(min_pos) == IF min_pos = pos
                         THEN Put(h, pos, t)
                         ELSE heap_down(Put(h, pos, h.a[min_pos]), min_pos, t)
    IN  Sink(MinPos(h, pos, t))

\* An update that only ever sifts down.
OnlyDown(h, pos) == heap_down(h, pos, h.a[pos])

heap_update(h, pos) ==
    IF pos > 1 /\ h.a[heap_parent(pos)].val > h.a[pos].val
    THEN heap_up(h, pos, h.a[pos])
    ELSE heap_down(h, pos, h.a[pos])

\* The last item overwrites the deleted one, and is then moved into place.
heap_delete(h, pos) ==
    LET Settled(n) == IF pos <= Len(n.a) THEN heap_update(n, pos) ELSE n
    IN  Settled([h EXCEPT !.a = Front([@ EXCEPT ![pos] = Last(h.a)])])

heap_upsert(h, pos, item) ==
    IF pos # NO_TTL
    THEN heap_update([h EXCEPT !.a[pos] = item], pos)
    ELSE heap_update([h EXCEPT !.a = Append(@, item)], Len(h.a) + 1)

entry_has_ttl(h, e) == h.idx[e] # NO_TTL

\* entry_set_ttl with a negative ttl
ClearTTL(h, e) ==
    IF entry_has_ttl(h, e)
    THEN [heap_delete(h, h.idx[e]) EXCEPT !.idx[e] = NO_TTL]
    ELSE h

\* entry_set_ttl with the deadline its ttl gives
SetTTL(h, e, at) == heap_upsert(h, h.idx[e], [val |-> at, ref |-> e])

Deadline(h, e) == h.a[h.idx[e]].val

-----------------------------------------------------------------------------
\* Every parent is due no later than its children, so the root is due first.
HeapOrdered(h) ==
    \A i \in 2 .. Len(h.a) : h.a[heap_parent(i)].val <= h.a[i].val

\* Items and back pointers name each other.
BackPointers(h) ==
    /\ \A i \in 1 .. Len(h.a) : h.idx[h.a[i].ref] = i
    /\ \A e \in Entries :
          entry_has_ttl(h, e) => /\ h.idx[e] <= Len(h.a)
                                 /\ h.a[h.idx[e]].ref = e
=============================================================================
