---------------------------- MODULE DequeProofs ----------------------------
(***************************************************************************)
(* The ring deque is a sequence: for every first capacity, every position  *)
(* of the head and every length, the four operations of deque.cpp, with    *)
(* the growing and the shrinking they do, change the contents the way the  *)
(* operations of a sequence would.                                         *)
(***************************************************************************)
EXTENDS Deque, SequenceTheorems, TLAPS

(* A deque the code can build: the ring has cap slots, the live part fits,  *)
(* the head is a slot.                                                     *)
Rings == UNION {[0 .. n - 1 -> String] : n \in Nat}

DequeType == [buf : Rings, cap : Nat, head : Nat, count : Nat, elem_bytes : Int]

RingOK(d) ==
    /\ d \in DequeType
    /\ d.count <= d.cap
    /\ d.cap > 0 => d.head < d.cap
    /\ d.buf \in [0 .. d.cap - 1 -> String]

(* The masked sum of two slot numbers is the sum, less one lap when it      *)
(* passes the end of the ring.                                             *)
LEMMA Wrap ==
  ASSUME NEW c \in Nat, NEW x \in Nat, NEW i \in Nat, x < c, i <= c
  PROVE  /\ (x + i) % c = IF x + i < c THEN x + i ELSE x + i - c
         /\ (x + i) % c \in 0 .. c - 1
OBVIOUS

(* A masked number is a slot. *)
LEMMA IsSlot ==
  ASSUME NEW c \in Nat, NEW x \in Nat, c > 0
  PROVE  x % c \in 0 .. c - 1
OBVIOUS

(* Different logical indices are different slots. *)
LEMMA Apart ==
  ASSUME NEW c \in Nat, NEW x \in Nat, NEW i \in Nat, NEW j \in Nat, x < c, i < j, j < c
  PROVE  (x + i) % c # (x + j) % c
<1>1. (x + i) % c = IF x + i < c THEN x + i ELSE x + i - c
  OBVIOUS
<1>2. (x + j) % c = IF x + j < c THEN x + j ELSE x + j - c
  OBVIOUS
<1> QED
  BY <1>1, <1>2

(* Moving the head one slot back or forth shifts every index by one. *)
LEMMA Shifted ==
  ASSUME NEW c \in Nat, NEW x \in Nat, NEW i \in Nat, x < c, i > 0, i < c
  PROVE  /\ (((x + c - 1) % c) + i) % c = (x + (i - 1)) % c
         /\ (((x + 1) % c) + (i - 1)) % c = (x + i) % c
<1> DEFINE h == (x + c - 1) % c
           k == (x + 1) % c
<1>1. h = IF x = 0 THEN c - 1 ELSE x - 1
  OBVIOUS
<1>2. k = IF x = c - 1 THEN 0 ELSE x + 1
  OBVIOUS
<1>3. h \in Nat /\ h < c /\ k \in Nat /\ k < c
  BY <1>1, <1>2
<1> HIDE DEF h, k
<1>4. (h + i) % c = IF h + i < c THEN h + i ELSE h + i - c
  BY <1>3
<1>5. (k + (i - 1)) % c = IF k + (i - 1) < c THEN k + (i - 1) ELSE k + (i - 1) - c
  BY <1>3
<1>6. (x + i) % c = IF x + i < c THEN x + i ELSE x + i - c
  OBVIOUS
<1>7. (x + (i - 1)) % c = IF x + (i - 1) < c THEN x + (i - 1) ELSE x + (i - 1) - c
  OBVIOUS
<1>8. (h + i) % c = (x + (i - 1)) % c
  BY <1>1, <1>4, <1>7
<1>9. (k + (i - 1)) % c = (x + i) % c
  BY <1>2, <1>5, <1>6
<1> QED
  BY <1>8, <1>9 DEF h, k

(* deque_get of a live index is a string of the ring. *)
LEMMA GetType ==
  ASSUME NEW d, RingOK(d), NEW i \in 0 .. d.count - 1
  PROVE  deque_phys(d, i) \in 0 .. d.cap - 1 /\ deque_get(d, i) \in String
<1>1. d.cap \in Nat /\ d.head \in Nat /\ d.count \in Nat /\ d.head < d.cap /\ i \in Nat /\ i <= d.cap
  BY DEF RingOK, DequeType
<1>2. (d.head + i) % d.cap \in 0 .. d.cap - 1
  BY <1>1, Wrap
<1> QED
  BY <1>2 DEF RingOK, deque_phys, deque_get

(* The contents are a sequence of stored strings, one per element. *)
LEMMA ContentsType ==
  ASSUME NEW d, RingOK(d)
  PROVE  /\ Contents(d) \in Seq(Values \cup {Empty})
         /\ Len(Contents(d)) = d.count
         /\ DOMAIN Contents(d) = 1 .. d.count
<1>1. \A i \in 1 .. d.count : deque_get(d, i - 1).val \in Values \cup {Empty}
  BY GetType DEF RingOK, DequeType, String
<1> QED
  BY <1>1 DEF Contents, RingOK, DequeType

(* Rebuilding the ring, larger or smaller, keeps what it holds. *)
LEMMA RebuiltSame ==
  ASSUME NEW d, RingOK(d), NEW n \in Nat, n > 0, d.count <= n
  PROVE  /\ RingOK(Rebuilt(d, n))
         /\ Contents(Rebuilt(d, n)) = Contents(d)
         /\ Rebuilt(d, n).count = d.count
         /\ Rebuilt(d, n).cap = n
<1> DEFINE r == Rebuilt(d, n)
           b == [j \in 0 .. n - 1 |->
                    IF j < d.count THEN MovedTo(Fresh, deque_get(d, j)) ELSE Fresh]
<1>1. /\ r.buf = b /\ r.cap = n /\ r.head = 0 /\ r.count = d.count
      /\ r.elem_bytes = d.elem_bytes
      /\ b \in Rings => r \in DequeType
  BY DEF RingOK, DequeType, Rebuilt, DequeType
<1>2. \A j \in 0 .. d.count - 1 : deque_get(d, j) \in String
  BY GetType
<1>3. \A j \in 0 .. d.count - 1 : MovedTo(Fresh, deque_get(d, j)) \in String
  BY <1>2 DEF MovedTo, Fresh, String, IsInline, Inline
<1>4. b \in [0 .. n - 1 -> String]
  BY <1>3 DEF Fresh, String, Inline, RingOK, DequeType
<1>5. RingOK(r)
  <2>1. b \in Rings
    BY <1>4 DEF Rings
  <2> QED
    BY <1>1, <1>4, <2>1 DEF RingOK, DequeType
<1>6. ASSUME NEW i \in 1 .. d.count
      PROVE  deque_get(r, i - 1).val = deque_get(d, i - 1).val
  <2>1. deque_phys(r, i - 1) = i - 1
    <3>1. i - 1 \in Nat /\ i - 1 < n
      BY DEF RingOK, DequeType
    <3>2. (i - 1) % n = i - 1
      BY <3>1
    <3>3. 0 + (i - 1) = i - 1
      BY <3>1
    <3> QED
      BY <1>1, <3>1, <3>2, <3>3 DEF deque_phys
  <2>2. deque_get(r, i - 1) = MovedTo(Fresh, deque_get(d, i - 1))
    BY <1>1, <2>1 DEF deque_get, RingOK, DequeType
  <2> QED
    BY <2>2 DEF MovedTo
<1>7. Contents(r) = Contents(d)
  BY <1>1, <1>6 DEF Contents
<1> QED
  BY <1>1, <1>5, <1>7

(* WithRoom leaves at least one free slot and changes no element. *)
LEMMA RoomSame ==
  ASSUME NEW d, RingOK(d)
  PROVE  /\ RingOK(WithRoom(d))
         /\ Contents(WithRoom(d)) = Contents(d)
         /\ WithRoom(d).count = d.count
         /\ d.count < WithRoom(d).cap
<1>1. CASE d.count = d.cap
  <2> DEFINE n == IF d.cap = 0 THEN MinCap ELSE 2 * d.cap
  <2>1. n \in Nat /\ n > 0 /\ d.count <= n /\ d.count < n
    BY <1>1, DequeAssumption DEF RingOK, DequeType
  <2>2. WithRoom(d) = Rebuilt(d, n)
    BY <1>1 DEF WithRoom, deque_grow
  <2> QED
    BY <2>1, <2>2, RebuiltSame
<1>2. CASE d.count # d.cap
  BY <1>2 DEF WithRoom, RingOK, DequeType
<1> QED
  BY <1>1, <1>2

(* Assigning a value to a string of the ring gives a string of the ring. *)
LEMMA AssignedType ==
  ASSUME NEW s \in String, NEW v \in Values
  PROVE  Assigned(s, v) \in String /\ Assigned(s, v).val = v
BY DequeAssumption DEF Assigned, String

(* Writing v next to the live part: the fields of the result. *)
LEMMA PlacedFields ==
  ASSUME NEW d, RingOK(d), d.count < d.cap, NEW p \in 0 .. d.cap - 1, NEW v \in Values,
         NEW h \in 0 .. d.cap - 1
  PROVE  /\ RingOK(Placed(d, p, h, v))
         /\ Placed(d, p, h, v).cap = d.cap
         /\ Placed(d, p, h, v).head = h
         /\ Placed(d, p, h, v).count = d.count + 1
         /\ Placed(d, p, h, v).buf[p].val = v
         /\ \A q \in 0 .. d.cap - 1 : q # p => Placed(d, p, h, v).buf[q] = d.buf[q]
<1> DEFINE s == Assigned(d.buf[p], v)
           b == [d.buf EXCEPT ![p] = s]
           e == Charged(d, s.cap)
           r == Placed(d, p, h, v)
<1>1. d.buf \in [0 .. d.cap - 1 -> String] /\ d.buf[p] \in String
  BY DEF RingOK
<1>2. s \in String /\ s.val = v /\ s.cap \in Nat
  BY <1>1, AssignedType DEF String
<1>3. r = [d EXCEPT !.buf = b, !.head = h, !.elem_bytes = e, !.count = @ + 1]
  BY DEF Placed
<1> HIDE DEF s, r
<1>4. /\ b \in [0 .. d.cap - 1 -> String]
      /\ b[p] = s
      /\ \A q \in 0 .. d.cap - 1 : q # p => b[q] = d.buf[q]
  BY <1>1, <1>2
<1>5. b \in Rings
  BY <1>4 DEF Rings, RingOK, DequeType
<1>6. e \in Int
  BY <1>2, DequeAssumption DEF Charged, RingOK, DequeType
<1> HIDE DEF b, e
<1>7. /\ r.buf = b /\ r.cap = d.cap /\ r.head = h /\ r.count = d.count + 1
      /\ r \in DequeType
  <2>1. d \in DequeType /\ d.count \in Nat /\ d.count + 1 \in Nat /\ h \in Nat
    BY DEF RingOK, DequeType
  <2>2. r = [d EXCEPT !.buf = b, !.head = h, !.elem_bytes = e, !.count = d.count + 1]
    BY <1>3
  <2> QED
    BY <2>1, <2>2, <1>5, <1>6 DEF DequeType
<1>8. RingOK(r)
  BY <1>4, <1>7 DEF RingOK, DequeType
<1> QED
  BY <1>2, <1>4, <1>7, <1>8 DEF r

(* deque_push_back appends to the contents, whether the ring wraps and      *)
(* whether it has to grow.                                                 *)
THEOREM PushBackAppends ==
  ASSUME NEW d, RingOK(d), NEW v \in Values
  PROVE  /\ RingOK(deque_push_back(d, v))
         /\ Contents(deque_push_back(d, v)) = Append(Contents(d), v)
<1> DEFINE g == WithRoom(d)
           p == deque_phys(g, g.count)
           r == Placed(g, p, g.head, v)
<1>1. RingOK(g) /\ Contents(g) = Contents(d) /\ g.count = d.count /\ g.count < g.cap
  BY RoomSame
<1>2. deque_push_back(d, v) = r
  BY DEF deque_push_back
<1> HIDE DEF g
<1>3. g.cap \in Nat /\ g.head \in Nat /\ g.count \in Nat /\ g.head < g.cap
  BY <1>1 DEF RingOK, DequeType
<1>4. p = (g.head + g.count) % g.cap /\ p \in 0 .. g.cap - 1 /\ g.head \in 0 .. g.cap - 1
  BY <1>1, <1>3, Wrap DEF deque_phys
<1>5. /\ RingOK(r) /\ r.cap = g.cap /\ r.head = g.head /\ r.count = g.count + 1
      /\ r.buf[p].val = v
      /\ \A q \in 0 .. g.cap - 1 : q # p => r.buf[q] = g.buf[q]
  BY <1>1, <1>4, PlacedFields
<1> HIDE DEF r
<1>6. ASSUME NEW i \in 1 .. g.count
      PROVE  deque_get(r, i - 1).val = deque_get(g, i - 1).val
  <2>1. i - 1 \in Nat /\ i - 1 < g.count
    BY <1>3
  <2>2. (g.head + (i - 1)) % g.cap # (g.head + g.count) % g.cap
    <3>1. g.count < g.cap
      BY <1>1
    <3> QED
      BY <2>1, <3>1, <1>3, Apart
  <2>3. (g.head + (i - 1)) % g.cap \in 0 .. g.cap - 1
    <3>1. i - 1 <= g.cap
      BY <1>1, <1>3, <2>1
    <3> QED
      BY <2>1, <3>1, <1>3, Wrap
  <2> QED
    BY <1>4, <1>5, <2>2, <2>3 DEF deque_get, deque_phys
<1>7. deque_get(r, g.count).val = v
  BY <1>4, <1>5 DEF deque_get, deque_phys
<1>8. \A i \in 1 .. g.count + 1 : Contents(r)[i] = Append(Contents(g), v)[i]
  <2> TAKE i \in 1 .. g.count + 1
  <2>1. Contents(r)[i] = deque_get(r, i - 1).val
    BY <1>5 DEF Contents
  <2>2. CASE i <= g.count
    <3>1. i \in 1 .. g.count
      BY <2>2, <1>3
    <3>2. Append(Contents(g), v)[i] = Contents(g)[i]
      BY <3>1, <1>1, ContentsType
    <3> QED
      BY <3>1, <3>2, <2>1, <1>6 DEF Contents
  <2>3. CASE i = g.count + 1
    <3>1. Append(Contents(g), v)[i] = v
      BY <2>3, <1>1, <1>3, ContentsType
    <3>2. i - 1 = g.count
      BY <2>3, <1>3
    <3> QED
      BY <3>1, <3>2, <2>1, <1>7
  <2>4. i <= g.count \/ i = g.count + 1
    BY <1>3
  <2> QED
    BY <2>2, <2>3, <2>4
<1>9. Contents(r) = Append(Contents(g), v)
  <2>1. Contents(r) \in Seq(Values \cup {Empty}) /\ Len(Contents(r)) = g.count + 1
    BY <1>5, ContentsType
  <2>2. Append(Contents(g), v) \in Seq(Values \cup {Empty}) /\ Len(Append(Contents(g), v)) = g.count + 1
    BY <1>1, ContentsType
  <2> QED
    BY <1>8, <2>1, <2>2, <1>3, SeqEqual
<1> QED
  BY <1>1, <1>2, <1>5, <1>9

(* deque_push_front puts the value before the contents. *)
THEOREM PushFrontPrepends ==
  ASSUME NEW d, RingOK(d), NEW v \in Values
  PROVE  /\ RingOK(deque_push_front(d, v))
         /\ Contents(deque_push_front(d, v)) = <<v>> \o Contents(d)
<1> DEFINE g == WithRoom(d)
           h == (g.head + g.cap - 1) % g.cap
           r == Placed(g, h, h, v)
<1>1. RingOK(g) /\ Contents(g) = Contents(d) /\ g.count = d.count /\ g.count < g.cap
  BY RoomSame
<1>2. deque_push_front(d, v) = r
  BY DEF deque_push_front
<1> HIDE DEF g
<1>3. g.cap \in Nat /\ g.head \in Nat /\ g.count \in Nat /\ g.head < g.cap
  BY <1>1 DEF RingOK, DequeType
<1>4. h \in 0 .. g.cap - 1 /\ h = (g.head + (g.cap - 1)) % g.cap
  BY <1>3
<1>5. /\ RingOK(r) /\ r.cap = g.cap /\ r.head = h /\ r.count = g.count + 1
      /\ r.buf[h].val = v
      /\ \A q \in 0 .. g.cap - 1 : q # h => r.buf[q] = g.buf[q]
  BY <1>1, <1>4, PlacedFields
<1>6. ASSUME NEW i \in 1 .. g.count
      PROVE  deque_get(r, i).val = deque_get(g, i - 1).val
  <2>1. i \in Nat /\ i > 0 /\ i < g.cap /\ i - 1 \in Nat /\ i - 1 < g.cap - 1 /\ g.cap - 1 \in Nat
    BY <1>1, <1>3
  <2>2. (h + i) % g.cap = (g.head + (i - 1)) % g.cap
    BY <2>1, <1>3, Shifted
  <2>3. (g.head + (i - 1)) % g.cap # h
    <3> DEFINE j == g.cap - 1
    <3>1. j \in Nat /\ j < g.cap /\ i - 1 < j /\ h = (g.head + j) % g.cap
      BY <2>1, <1>3, <1>4
    <3> HIDE DEF j, h
    <3> QED
      BY <3>1, <2>1, <1>3, Apart
  <2>4. (g.head + (i - 1)) % g.cap \in 0 .. g.cap - 1
    <3>1. g.head + (i - 1) \in Nat /\ g.cap > 0
      BY <2>1, <1>3
    <3> QED
      BY <3>1, <1>3, IsSlot
  <2> HIDE DEF h, r
  <2> QED
    BY <1>5, <2>2, <2>3, <2>4 DEF deque_get, deque_phys
<1>7. deque_get(r, 0).val = v
  <2> HIDE DEF h, r
  <2>1. (h + 0) % g.cap = h
    BY <1>3, <1>4
  <2> QED
    BY <1>5, <2>1 DEF deque_get, deque_phys
<1> HIDE DEF h, r
<1>8. /\ Contents(g) \in Seq(Values \cup {Empty}) /\ Len(Contents(g)) = g.count
      /\ Contents(r) \in Seq(Values \cup {Empty}) /\ Len(Contents(r)) = g.count + 1
      /\ <<v>> \o Contents(g) \in Seq(Values \cup {Empty})
      /\ Len(<<v>> \o Contents(g)) = g.count + 1
  BY <1>1, <1>3, <1>5, ContentsType
<1>9. ASSUME NEW i \in 1 .. g.count + 1
      PROVE  Contents(r)[i] = (<<v>> \o Contents(g))[i]
  <2>1. Contents(r)[i] = deque_get(r, i - 1).val
    BY <1>5 DEF Contents
  <2>2. CASE i = 1
    BY <1>3, <1>7, <1>8, <2>1, <2>2
  <2>3. CASE i > 1
    <3>1. i - 1 \in 1 .. g.count
      BY <2>3, <1>3
    <3>2. (<<v>> \o Contents(g))[i] = Contents(g)[i - 1]
      BY <3>1, <1>3, <1>8
    <3>3. Contents(g)[i - 1] = deque_get(g, (i - 1) - 1).val
      BY <3>1 DEF Contents
    <3> QED
      BY <3>1, <3>2, <3>3, <2>1, <1>6
  <2>4. i = 1 \/ i > 1
    BY <1>3
  <2> QED
    BY <2>2, <2>3, <2>4
<1>10. Contents(r) = <<v>> \o Contents(g)
  BY <1>3, <1>8, <1>9, SeqEqual
<1> QED
  BY <1>1, <1>2, <1>5, <1>10

(* Moving an element out of one end: the fields of the result. *)
LEMMA TakenFields ==
  ASSUME NEW d, RingOK(d), d.count > 0, NEW p \in 0 .. d.cap - 1, NEW h \in 0 .. d.cap - 1
  PROVE  /\ RingOK(Taken(d, p, h))
         /\ Taken(d, p, h).cap = d.cap
         /\ Taken(d, p, h).head = h
         /\ Taken(d, p, h).count = d.count - 1
         /\ \A q \in 0 .. d.cap - 1 : q # p => Taken(d, p, h).buf[q] = d.buf[q]
<1> DEFINE s == Cleared(LeftBehind(Fresh, d.buf[p]))
           b == [d.buf EXCEPT ![p] = s]
           e == Charged(d, -d.buf[p].cap)
           r == Taken(d, p, h)
<1>1. d.buf \in [0 .. d.cap - 1 -> String] /\ d.buf[p] \in String /\ d.buf[p].cap \in Nat
  BY DEF RingOK, String
<1>2. s \in String
  BY <1>1 DEF Cleared, LeftBehind, Fresh, String, Inline, IsInline
<1>3. r = [d EXCEPT !.buf = b, !.head = h, !.elem_bytes = e, !.count = @ - 1]
  BY DEF Taken
<1> HIDE DEF s, r
<1>4. /\ b \in [0 .. d.cap - 1 -> String]
      /\ \A q \in 0 .. d.cap - 1 : q # p => b[q] = d.buf[q]
  BY <1>1, <1>2
<1>5. b \in Rings
  BY <1>4 DEF Rings, RingOK, DequeType
<1>6. e \in Int
  BY <1>1, DequeAssumption DEF Charged, RingOK, DequeType
<1> HIDE DEF b, e
<1>7. /\ r.buf = b /\ r.cap = d.cap /\ r.head = h /\ r.count = d.count - 1
      /\ r \in DequeType
  <2>1. d \in DequeType /\ d.count \in Nat /\ d.count - 1 \in Nat /\ h \in Nat
    BY DEF RingOK, DequeType
  <2>2. r = [d EXCEPT !.buf = b, !.head = h, !.elem_bytes = e, !.count = d.count - 1]
    BY <1>3
  <2> QED
    BY <2>1, <2>2, <1>5, <1>6 DEF DequeType
<1>8. RingOK(r)
  BY <1>4, <1>7 DEF RingOK, DequeType
<1> QED
  BY <1>4, <1>7, <1>8 DEF r

(* Giving room back changes no element. *)
LEMMA ShrunkSame ==
  ASSUME NEW d, RingOK(d)
  PROVE  RingOK(Shrunk(d)) /\ Contents(Shrunk(d)) = Contents(d)
<1>1. CASE d.cap > MinCap /\ d.count < d.cap \div 4
  <2>1. d.cap \div 2 \in Nat /\ d.cap \div 2 > 0 /\ d.count <= d.cap \div 2
    BY <1>1, DequeAssumption DEF RingOK, DequeType
  <2>2. Shrunk(d) = Rebuilt(d, d.cap \div 2)
    BY <1>1 DEF Shrunk
  <2> QED
    BY <2>1, <2>2, RebuiltSame
<1>2. CASE ~(d.cap > MinCap /\ d.count < d.cap \div 4)
  BY <1>2 DEF Shrunk
<1> QED
  BY <1>1, <1>2

(* deque_pop_front hands out the first element and leaves the tail. *)
THEOREM PopFrontIsTail ==
  ASSUME NEW d, RingOK(d), d.count > 0
  PROVE  /\ RingOK(deque_pop_front(d))
         /\ d.buf[d.head].val = Head(Contents(d))
         /\ Contents(deque_pop_front(d)) = Tail(Contents(d))
<1> DEFINE h == (d.head + 1) % d.cap
           r == Taken(d, d.head, h)
<1>1. d.cap \in Nat /\ d.head \in Nat /\ d.count \in Nat /\ d.head < d.cap /\ d.count <= d.cap
  BY DEF RingOK, DequeType
<1>2. h \in 0 .. d.cap - 1 /\ d.head \in 0 .. d.cap - 1
  <2>1. d.head + 1 \in Nat /\ d.cap > 0
    BY <1>1
  <2>2. h \in 0 .. d.cap - 1
    BY <2>1, <1>1, IsSlot
  <2> QED
    BY <1>1, <2>2
<1>3. /\ RingOK(r) /\ r.cap = d.cap /\ r.head = h /\ r.count = d.count - 1
      /\ \A q \in 0 .. d.cap - 1 : q # d.head => r.buf[q] = d.buf[q]
  BY <1>2, TakenFields
<1>4. /\ Contents(d) \in Seq(Values \cup {Empty}) /\ Len(Contents(d)) = d.count
      /\ Contents(r) \in Seq(Values \cup {Empty}) /\ Len(Contents(r)) = d.count - 1
      /\ Contents(d) # << >>
  BY <1>1, <1>3, ContentsType
<1>5. (d.head + 0) % d.cap = d.head
  BY <1>1
<1>6. d.buf[d.head].val = Head(Contents(d))
  <2>1. Contents(d)[1] = deque_get(d, 1 - 1).val
    BY <1>1 DEF Contents
  <2>2. deque_get(d, 1 - 1) = d.buf[d.head]
    BY <1>5 DEF deque_get, deque_phys
  <2> QED
    BY <2>1, <2>2, <1>4
<1>7. ASSUME NEW i \in 1 .. d.count - 1
      PROVE  Contents(r)[i] = Contents(d)[i + 1]
  <2>1. i \in Nat /\ i > 0 /\ i < d.cap
    BY <1>1
  <2>2. (h + (i - 1)) % d.cap = (d.head + i) % d.cap
    BY <2>1, <1>1, Shifted
  <2>3. (d.head + i) % d.cap # d.head
    BY <2>1, <1>1, <1>5, Apart
  <2>4. (d.head + i) % d.cap \in 0 .. d.cap - 1
    <3>1. d.head + i \in Nat /\ d.cap > 0
      BY <2>1, <1>1
    <3> QED
      BY <3>1, <1>1, IsSlot
  <2>5. Contents(r)[i] = deque_get(r, i - 1).val
    BY <1>3 DEF Contents
  <2>6. Contents(d)[i + 1] = deque_get(d, i).val
    BY <1>1 DEF Contents
  <2> HIDE DEF h, r
  <2> QED
    BY <1>3, <2>2, <2>3, <2>4, <2>5, <2>6 DEF deque_get, deque_phys
<1> HIDE DEF h, r
<1>8. Contents(r) = Tail(Contents(d))
  <2>1. /\ Tail(Contents(d)) \in Seq(Values \cup {Empty})
        /\ Len(Tail(Contents(d))) = d.count - 1
        /\ \A i \in 1 .. d.count - 1 : Tail(Contents(d))[i] = Contents(d)[i + 1]
    BY <1>1, <1>4
  <2> QED
    BY <1>4, <1>7, <2>1, SeqEqual
<1>9. deque_pop_front(d) = Shrunk(r)
  BY DEF deque_pop_front, h, r
<1> QED
  BY <1>3, <1>6, <1>8, <1>9, ShrunkSame

(* deque_pop_back hands out the last element and leaves the others. *)
THEOREM PopBackIsFront ==
  ASSUME NEW d, RingOK(d), d.count > 0
  PROVE  /\ RingOK(deque_pop_back(d))
         /\ deque_get(d, d.count - 1).val = Contents(d)[d.count]
         /\ Contents(deque_pop_back(d)) = SubSeq(Contents(d), 1, d.count - 1)
<1> DEFINE p == deque_phys(d, d.count - 1)
           r == Taken(d, p, d.head)
<1>1. d.cap \in Nat /\ d.head \in Nat /\ d.count \in Nat /\ d.head < d.cap /\ d.count <= d.cap
  BY DEF RingOK, DequeType
<1>2. p = (d.head + (d.count - 1)) % d.cap /\ p \in 0 .. d.cap - 1 /\ d.head \in 0 .. d.cap - 1
  BY <1>1, GetType DEF deque_phys
<1>3. /\ RingOK(r) /\ r.cap = d.cap /\ r.head = d.head /\ r.count = d.count - 1
      /\ \A q \in 0 .. d.cap - 1 : q # p => r.buf[q] = d.buf[q]
  BY <1>2, TakenFields
<1>4. /\ Contents(d) \in Seq(Values \cup {Empty}) /\ Len(Contents(d)) = d.count
      /\ Contents(r) \in Seq(Values \cup {Empty}) /\ Len(Contents(r)) = d.count - 1
  BY <1>1, <1>3, ContentsType
<1>5. deque_get(d, d.count - 1).val = Contents(d)[d.count]
  BY <1>1 DEF Contents
<1>6. ASSUME NEW i \in 1 .. d.count - 1
      PROVE  Contents(r)[i] = Contents(d)[i]
  <2>1. i - 1 \in Nat /\ d.count - 1 \in Nat /\ i - 1 < d.count - 1 /\ d.count - 1 < d.cap
    BY <1>1
  <2>2. (d.head + (i - 1)) % d.cap # p
    BY <2>1, <1>1, <1>2, Apart
  <2>3. (d.head + (i - 1)) % d.cap \in 0 .. d.cap - 1
    <3>1. d.head + (i - 1) \in Nat /\ d.cap > 0
      BY <2>1, <1>1
    <3> QED
      BY <3>1, <1>1, IsSlot
  <2>4. Contents(r)[i] = deque_get(r, i - 1).val
    BY <1>3 DEF Contents
  <2>5. Contents(d)[i] = deque_get(d, i - 1).val
    BY <1>1 DEF Contents
  <2> HIDE DEF p, r
  <2> QED
    BY <1>3, <2>2, <2>3, <2>4, <2>5 DEF deque_get, deque_phys
<1> HIDE DEF r
<1>7. Contents(r) = SubSeq(Contents(d), 1, d.count - 1)
  <2>1. /\ SubSeq(Contents(d), 1, d.count - 1) \in Seq(Values \cup {Empty})
        /\ Len(SubSeq(Contents(d), 1, d.count - 1)) = d.count - 1
        /\ \A i \in 1 .. d.count - 1 : SubSeq(Contents(d), 1, d.count - 1)[i] = Contents(d)[i]
    BY <1>1, <1>4
  <2> QED
    BY <1>4, <1>6, <2>1, SeqEqual
<1>8. deque_pop_back(d) = Shrunk(r)
  BY DEF deque_pop_back, r
<1> QED
  BY <1>3, <1>5, <1>7, <1>8, ShrunkSame

=============================================================================
