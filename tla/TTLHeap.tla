------------------------------ MODULE TTLHeap ------------------------------
(***************************************************************************)
(* The deadline heap on its own, driven as entry_set_ttl                   *)
(* (src/src/core/state.cpp) and the expiry loop of process_timers          *)
(* (src/src/server/server.cpp) drive it, so that it can be checked with    *)
(* more entries than a whole keyspace allows: six are needed before a      *)
(* deletion has to move the replacing item up.                             *)
(***************************************************************************)
EXTENDS Heap

CONSTANT Deadlines   \* the deadlines the driver sets

VARIABLES
    heap,   \* g_data.heap and the entries' heap_idx
    due     \* the deadline each entry was last given, 0 for none

vars == <<heap, due>>

Init == heap = EmptyHeap /\ due = [e \in Entries |-> 0]

entry_set_ttl(e, at) ==
    /\ heap' = SetTTL(heap, e, at)
    /\ due' = [due EXCEPT ![e] = at]

Persisted(e) ==
    /\ entry_has_ttl(heap, e)
    /\ heap' = ClearTTL(heap, e)
    /\ due' = [due EXCEPT ![e] = 0]

\* The expiry loop takes the root's entry.
ExpireRoot ==
    /\ heap.a # <<>>
    /\ heap' = ClearTTL(heap, heap.a[1].ref)
    /\ due' = [due EXCEPT ![heap.a[1].ref] = 0]

Next ==
    \/ \E e \in Entries : Persisted(e) \/ \E at \in Deadlines : entry_set_ttl(e, at)
    \/ ExpireRoot

Spec == Init /\ [][Next]_vars

\* Whatever deadlines are set, moved and cleared, the array keeps
\* every item's ref and its entry's heap_idx pointing at each other, and the
\* heap holds exactly the entries with a deadline, each at its deadline
\* (volatile_random_entry: "the ttl heap holds exactly those").
HeapFaithful ==
    /\ BackPointers(heap)
    /\ \A e \in Entries :
          due[e] = IF entry_has_ttl(heap, e) THEN Deadline(heap, e) ELSE 0

\* The entry the expiry loop and the volatile-ttl policy take is the one due
\* first: no entry with a deadline is due before the heap's root.
RootDueFirst ==
    heap.a # <<>> =>
        \A e \in Entries : due[e] # 0 => due[heap.a[1].ref] <= due[e]
=============================================================================
