------------------------------- MODULE Deque -------------------------------
(***************************************************************************)
(* The ring-buffer deque of src/ds/deque.h and src/ds/deque.cpp, and the   *)
(* two shifting helpers of commands.cpp, as operators on a record.         *)
(*                                                                         *)
(* A slot of the ring is a std::string: what it holds and the capacity of  *)
(* its buffer.  Capacities matter because elem_bytes adds and subtracts    *)
(* them; a slot that is not live keeps the buffer it last had.  Indices    *)
(* are masked with cap - 1 in the code, which is % cap because cap is a    *)
(* power of two (CapPower in Lists).                                       *)
(***************************************************************************)
EXTENDS Integers, Sequences, FiniteSets

CONSTANTS
    Values,     \* the strings clients store
    Empty,      \* the empty string
    Size,       \* Size[v] is the length of v, in units of the inline buffer
    MinCap,     \* slots of the first ring (8 in the code)
    Word        \* size_t counts modulo this number

ASSUME DequeAssumption ==
    /\ Empty \notin Values
    /\ Size \in [Values -> Nat]
    /\ MinCap \in Nat /\ MinCap > 0
    /\ Word \in Nat /\ Word > 0

-----------------------------------------------------------------------------
(* std::string: a buffer of capacity Inline is the one inside the object,  *)
(* any other is on the heap.                                               *)

Inline == 1

String == [val : Values \cup {Empty}, cap : Nat]

Fresh == [val |-> Empty, cap |-> Inline]

IsInline(s) == s.cap = Inline

\* s = v: a buffer that is large enough is kept, a new one at least doubles
Assigned(s, v) ==
    [val |-> v,
     cap |-> IF Size[v] <= s.cap THEN s.cap
             ELSE IF Size[v] > 2 * s.cap THEN Size[v] ELSE 2 * s.cap]

\* to = std::move(from): inline characters are copied into the target's
\* buffer, a heap buffer is stolen and the target's own goes back in return
MovedTo(to, from) ==
    [val |-> from.val, cap |-> IF IsInline(from) THEN to.cap ELSE from.cap]

LeftBehind(to, from) ==
    [val |-> Empty, cap |-> IF IsInline(from) \/ IsInline(to) THEN Inline ELSE to.cap]

Cleared(s) == [s EXCEPT !.val = Empty]

-----------------------------------------------------------------------------
(* The deque                                                               *)

EmptyDeque == [buf |-> <<>>, cap |-> 0, head |-> 0, count |-> 0, elem_bytes |-> 0]

deque_phys(d, i) == (d.head + i) % d.cap

deque_get(d, i) == d.buf[deque_phys(d, i)]

\* What a client sees: the live elements in logical order
Contents(d) == [i \in 1 .. d.count |-> deque_get(d, i - 1).val]

Charged(d, bytes) == (d.elem_bytes + bytes) % Word

\* Move the elements to a new ring, the first one to slot 0
Rebuilt(d, newCap) ==
    [d EXCEPT !.buf = [j \in 0 .. newCap - 1 |->
                          IF j < d.count THEN MovedTo(Fresh, deque_get(d, j)) ELSE Fresh],
              !.cap = newCap,
              !.head = 0]

deque_grow(d) == Rebuilt(d, IF d.cap = 0 THEN MinCap ELSE 2 * d.cap)

WithRoom(d) == IF d.count = d.cap THEN deque_grow(d) ELSE d

\* Copy v into slot p of a ring that has room, p being next to the live part,
\* and let the live part begin at slot h
Placed(d, p, h, v) ==
    [d EXCEPT !.buf[p] = Assigned(@, v),
              !.head = h,
              !.elem_bytes = Charged(d, Assigned(d.buf[p], v).cap),
              !.count = @ + 1]

deque_push_front(d, v) ==
    LET g == WithRoom(d)
        h == (g.head + g.cap - 1) % g.cap
    IN  Placed(g, h, h, v)

deque_push_back(d, v) ==
    LET g == WithRoom(d)
    IN  Placed(g, deque_phys(g, g.count), g.head, v)

\* Rebuild a ring of which less than a quarter is used
Shrunk(d) ==
    IF d.cap > MinCap /\ d.count < d.cap \div 4 THEN Rebuilt(d, d.cap \div 2) ELSE d

\* Mutant: the element is copied out of its slot.
TakenByCopy(d, p, h) ==
    [d EXCEPT !.head = h, !.elem_bytes = Charged(d, -d.buf[p].cap), !.count = @ - 1]

\* Move the element out of slot p, at one end of the live part, which begins
\* at slot h afterwards
Taken(d, p, h) ==
    [d EXCEPT !.buf[p] = Cleared(LeftBehind(Fresh, @)),
              !.head = h,
              !.elem_bytes = Charged(d, -d.buf[p].cap),
              !.count = @ - 1]

deque_pop_front(d) == Shrunk(Taken(d, d.head, (d.head + 1) % d.cap))

deque_pop_back(d) == Shrunk(Taken(d, deque_phys(d, d.count - 1), d.head))

deque_normalize(d, i) == IF i < 0 THEN i + d.count ELSE i

\* slot = v for a live slot
Overwritten(d, p, v) ==
    [d EXCEPT !.buf[p] = Assigned(@, v),
              !.elem_bytes = Charged(d, Assigned(d.buf[p], v).cap - d.buf[p].cap)]

-----------------------------------------------------------------------------
(* Shifting.  Moves(d, n, To, From) makes the moves buf[To(i)] =           *)
(* move(buf[From(i)]) for i = 1 .. n in this order.                        *)

Moves(buf, n, To(_), From(_)) ==
    LET after[i \in 0 .. n] ==
            IF i = 0 THEN buf
            ELSE LET b == after[i - 1]
                 IN  [b EXCEPT ![To(i)] = MovedTo(b[To(i)], b[From(i)]),
                               ![From(i)] = LeftBehind(b[To(i)], b[From(i)])]
    IN  after[n]

\* Mutant: the front side is shifted by one element too few.
OpenGapShort(d, idx) ==
    LET h == (d.head + d.cap - 1) % d.cap
    IN  [d EXCEPT !.buf = Moves(@, IF idx = 0 THEN 0 ELSE idx - 1,
                                LAMBDA i : (h + i - 1) % d.cap, LAMBDA i : (h + i) % d.cap),
                  !.head = h,
                  !.count = @ + 1]

\* Make room at logical index idx by shifting the shorter side
deque_open_gap(d, idx) ==
    IF idx < d.count \div 2
    THEN LET h == (d.head + d.cap - 1) % d.cap
         IN  [d EXCEPT !.buf = Moves(@, idx, LAMBDA i : (h + i - 1) % d.cap,
                                             LAMBDA i : (h + i) % d.cap),
                       !.head = h,
                       !.count = @ + 1]
    ELSE [d EXCEPT !.buf = Moves(@, d.count - idx, LAMBDA i : deque_phys(d, d.count - i + 1),
                                                   LAMBDA i : deque_phys(d, d.count - i)),
                   !.count = @ + 1]

\* Take the element at logical index idx away by shifting the shorter side
deque_close_gap(d, idx) ==
    IF idx < d.count \div 2
    THEN LET b == Moves(d.buf, idx, LAMBDA i : deque_phys(d, idx - i + 1),
                                    LAMBDA i : deque_phys(d, idx - i))
         IN  [d EXCEPT !.buf = [b EXCEPT ![d.head] = Cleared(@)],
                       !.head = (@ + 1) % d.cap,
                       !.count = @ - 1]
    ELSE LET b == Moves(d.buf, d.count - 1 - idx, LAMBDA i : deque_phys(d, idx + i - 1),
                                                  LAMBDA i : deque_phys(d, idx + i))
         IN  [d EXCEPT !.buf = [b EXCEPT ![deque_phys(d, d.count - 1)] = Cleared(@)],
                       !.count = @ - 1]

=============================================================================
