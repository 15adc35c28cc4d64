------------------------------- MODULE Lists -------------------------------
(***************************************************************************)
(* The list commands of commands.cpp on one key, over the ring deque.  The *)
(* key is missing (NoEntry) or holds a deque; a command that empties the   *)
(* deque deletes the key.  Keys of another type are the Keyspace module's. *)
(***************************************************************************)
EXTENDS Deque, SequencesExt

CONSTANTS
    Indices,    \* the indices clients use, negative ones included
    Counts,     \* the counts of LREM
    MaxPush,    \* values per push
    MaxLen      \* bound: pushes and inserts stop at this length

VARIABLES
    ent,        \* the entry of the key: a deque, or NoEntry
    reply       \* the last answer

vars == <<ent, reply>>

NoEntry == EmptyDeque

Abstract == INSTANCE ListSpec WITH list <- Contents(ent)

Int64(n) == Abstract!Int64(n)
Bulk(v) == Abstract!Bulk(v)
Array(s) == Abstract!Array(s)
Status(s) == Abstract!Status(s)
Nil == Abstract!Nil

-----------------------------------------------------------------------------
Missing == ent.count = 0

\* What is left in the keyspace: no empty lists
Kept(d) == IF d.count = 0 THEN NoEntry ELSE d

Room(n) == ent.count + n <= MaxLen

do_lpush(vs) ==
    /\ Room(Len(vs))
    /\ ent' = FoldLeft(deque_push_front, ent, vs)
    /\ reply' = Int64(ent'.count)

do_rpush(vs) ==
    /\ Room(Len(vs))
    /\ ent' = FoldLeft(deque_push_back, ent, vs)
    /\ reply' = Int64(ent'.count)

do_lpop ==
    IF Missing THEN reply' = Nil /\ UNCHANGED ent
    ELSE /\ ent' = Kept(deque_pop_front(ent))
         /\ reply' = Bulk(ent.buf[ent.head].val)

do_rpop ==
    IF Missing THEN reply' = Nil /\ UNCHANGED ent
    ELSE /\ ent' = Kept(deque_pop_back(ent))
         /\ reply' = Bulk(deque_get(ent, ent.count - 1).val)

do_llen ==
    /\ reply' = Int64(ent.count)
    /\ UNCHANGED ent

InRange(i) == i >= 0 /\ i < ent.count

do_lindex(i) ==
    LET n == deque_normalize(ent, i)
    IN  /\ reply' = IF ~Missing /\ InRange(n) THEN Bulk(deque_get(ent, n).val) ELSE Nil
        /\ UNCHANGED ent

\* The bounds of LRANGE and LTRIM, normalised and clamped
Start(i) == LET n == deque_normalize(ent, i) IN IF n < 0 THEN 0 ELSE n

Stop(j) == LET n == deque_normalize(ent, j) IN IF n >= ent.count THEN ent.count - 1 ELSE n

EmptyRange(i, j) == Start(i) > Stop(j) \/ Start(i) >= ent.count

do_lrange(i, j) ==
    /\ reply' = IF Missing \/ EmptyRange(i, j) THEN Array(<<>>)
                ELSE Array([n \in 1 .. Stop(j) - Start(i) + 1 |->
                                deque_get(ent, Start(i) + n - 1).val])
    /\ UNCHANGED ent

do_lset(i, v) ==
    LET n == deque_normalize(ent, i)
    IN  IF Missing \/ ~InRange(n) THEN reply' = Status("error") /\ UNCHANGED ent
        ELSE /\ ent' = Overwritten(ent, deque_phys(ent, n), v)
             /\ reply' = Status("ok")

Occurrences(d, v) == {i \in 0 .. d.count - 1 : deque_get(d, i).val = v}

Inserted(d, idx, v) ==
    LET g == deque_open_gap(WithRoom(d), idx)
        p == deque_phys(g, idx)
        s == Assigned(g.buf[p], v)
    IN  [g EXCEPT !.buf[p] = s, !.elem_bytes = Charged(g, s.cap)]

do_linsert(before, pivot, v) ==
    /\ Room(1)
    /\ IF Missing THEN reply' = Int64(0) /\ UNCHANGED ent
       ELSE IF Occurrences(ent, pivot) = {} THEN reply' = Int64(-1) /\ UNCHANGED ent
       ELSE LET first == Min(Occurrences(ent, pivot))
            IN  /\ ent' = Inserted(ent, IF before THEN first ELSE first + 1, v)
                /\ reply' = Int64(ent'.count)

Removed(d, idx) ==
    deque_close_gap([d EXCEPT !.elem_bytes = Charged(d, -deque_get(d, idx).cap)], idx)

\* LREM: from the front the scan resumes at the index it removed at, which is
\* the next occurrence; from the back at the index before it.  One removal
\* after another until the limit is reached, 0 meaning no limit.
LRemFrom(d0, n, v) ==
    LET limit == IF n < 0 THEN -n ELSE n
        todo == LET all == Cardinality(Occurrences(d0, v))
                IN  IF limit > 0 /\ limit < all THEN limit ELSE all
        after[k \in 0 .. todo] ==
            IF k = 0 THEN d0
            ELSE LET d == after[k - 1]
                     at == Occurrences(d, v)
                 IN  Removed(d, IF n < 0 THEN Max(at) ELSE Min(at))
    IN  after[todo]

do_lrem(n, v) ==
    /\ ent' = IF Missing THEN ent ELSE Kept(LRemFrom(ent, n, v))
    /\ reply' = Int64(ent.count - ent'.count)

\* LTRIM drops slots on both sides: their buffers are given back, and head and
\* count move
Trimmed(d, start, stop) ==
    LET live == {deque_phys(d, i) : i \in 0 .. d.count - 1}
        kept == {deque_phys(d, i) : i \in start .. stop}
        bytes == SumFunctionOnSet([p \in DOMAIN d.buf |-> d.buf[p].cap], live \ kept)
    IN  [d EXCEPT !.buf = [p \in DOMAIN d.buf |-> IF p \in live \ kept THEN Fresh ELSE d.buf[p]],
                  !.elem_bytes = Charged(d, -bytes),
                  !.head = deque_phys(d, start),
                  !.count = stop - start + 1]

do_ltrim(i, j) ==
    /\ reply' = Status("ok")
    /\ ent' = IF Missing \/ EmptyRange(i, j) THEN NoEntry
              ELSE IF Start(i) = 0 /\ Stop(j) + 1 = ent.count THEN ent
              ELSE Trimmed(ent, Start(i), Stop(j))

-----------------------------------------------------------------------------
Init == ent = NoEntry /\ reply = Nil

Next ==
    \/ \E vs \in Abstract!Pushed : do_lpush(vs) \/ do_rpush(vs)
    \/ do_lpop \/ do_rpop
    \/ do_llen
    \/ \E i \in Indices : do_lindex(i)
    \/ \E i, j \in Indices : do_lrange(i, j) \/ do_ltrim(i, j)
    \/ \E i \in Indices, v \in Values : do_lset(i, v)
    \/ \E before \in BOOLEAN, pivot, v \in Values : do_linsert(before, pivot, v)
    \/ \E n \in Counts, v \in Values : do_lrem(n, v)

Spec == Init /\ [][Next]_vars

-----------------------------------------------------------------------------
(* Properties                                                              *)

TypeOK ==
    /\ ent.cap \in Nat /\ ent.count \in 0 .. ent.cap
    /\ ent.head \in 0 .. ent.cap
    /\ ent.buf \in [0 .. ent.cap - 1 -> String]
    /\ ent.elem_bytes \in 0 .. Word - 1

\* The comment over deque_grow: the capacity is a power of two (times the first
\* one), which is what makes the mask of deque_phys a remainder; and the head is
\* a slot.
CapPower ==
    ent # NoEntry => /\ \E k \in 0 .. MaxLen : ent.cap = MinCap * 2 ^ k
                     /\ ent.head < ent.cap

\* Every list command, whatever the position of the ring, the side it shifts
\* and the growing and shrinking in between, does to the client's list and
\* answers exactly what it would on a plain sequence.
RefinesList == Abstract!ISpec

\* A slot that is not part of the list holds no value: nothing that was popped,
\* trimmed, removed or shifted away can come back.
DeadSlotsEmpty ==
    \A p \in DOMAIN ent.buf :
        p \notin {deque_phys(ent, i) : i \in 0 .. ent.count - 1} => ent.buf[p].val = Empty

\* deque.h says of elem_bytes: "sum capacity() of the live elements".
ElemBytesExact ==
    ent.elem_bytes =
        SumFunction([i \in 0 .. ent.count - 1 |-> deque_get(ent, i).cap]) % Word

=============================================================================
