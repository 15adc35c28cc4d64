-------------------------- MODULE ReplBacklogProofs --------------------------
(***************************************************************************)
(* For every ring size, every alphabet and every sequence of feeds and     *)
(* adoptions: the ring holds the newest bytes of the stream, and           *)
(* repl_backlog_copy returns them in order.                                *)
(***************************************************************************)
EXTENDS ReplBacklog, SequenceTheorems, TLAPS

(* Keeping at most c of a stream and then of a feed is keeping at most c. *)
LEMMA MinSum ==
  ASSUME NEW a \in Nat, NEW b \in Nat, NEW c \in Nat
  PROVE  Min2(Min2(a, c) + Min2(b, c), c) = Min2(a + b, c)
<1>1. CASE a <= c /\ b <= c
  BY <1>1 DEF Min2
<1>2. CASE c < a
  BY <1>2 DEF Min2
<1>3. CASE c < b
  BY <1>3 DEF Min2
<1> QED
  BY <1>1, <1>2, <1>3

(***************************************************************************)
(* The cursor arithmetic of a feed of l bytes into a ring of c at cursor   *)
(* p: the slot `at`, k places behind the new cursor q, is one of the l     *)
(* slots just written when k <= l, and is otherwise the slot that was      *)
(* k - l places behind the old cursor, which the feed did not touch.       *)
(***************************************************************************)
CursorAt(c, p, l, k) == (((p + l) % c) + c - k) % c

CursorFacts(c, p, l, k, at) ==
  /\ at \in 0..(c - 1)
  /\ k <= l => \/ p <= at /\ at < p + l /\ at - p = l - k
               \/ at < p /\ at < p + l - c /\ at + c - p = l - k
  /\ l < k => /\ at = (p + c - (k - l)) % c
              /\ ~(p <= at /\ at < p + l)
              /\ ~(at < p + l - c)

(* Where the write cursor stands after l bytes, and which slots it passed. *)
LEMMA CursorFed ==
  ASSUME NEW c \in Nat, NEW p \in Nat, p < c, NEW l \in 0..c, NEW k \in 1..c
  PROVE  CursorFacts(c, p, l, k, CursorAt(c, p, l, k))
<1> DEFINE q  == (p + l) % c
           at == (q + c - k) % c
<1>1. q = IF p + l < c THEN p + l ELSE p + l - c
  OBVIOUS
<1>2. q \in 0..(c - 1)
  BY <1>1
<1> HIDE DEF q
<1>3. at = IF q < k THEN q + c - k ELSE q - k
  BY <1>2
<1>4. at \in 0..(c - 1)
  BY <1>2, <1>3
<1>5. ASSUME l < k PROVE (p + c - (k - l)) % c = IF p < k - l THEN p + c - (k - l) ELSE p - (k - l)
  BY <1>5
<1> HIDE DEF at
<1>6. CASE p + l < c
  <2>1. q = p + l
    BY <1>1, <1>6
  <2> QED
    BY <1>2, <1>3, <1>4, <1>5, <1>6, <2>1 DEF q, at, CursorFacts, CursorAt
<1>7. CASE ~(p + l < c)
  <2>1. q = p + l - c
    BY <1>1, <1>7
  <2> QED
    BY <1>2, <1>3, <1>4, <1>5, <1>7, <2>1 DEF q, at, CursorFacts, CursorAt
<1> QED BY <1>6, <1>7

(* What a fed sequence of bytes is. *)
LEMMA ChunkType ==
  ASSUME NEW bytes \in Chunk
  PROVE  bytes \in Seq(Byte)
BY BoundAssumption DEF Chunk

-----------------------------------------------------------------------------
(* repl_init: an empty ring holds an empty stream. *)
LEMMA InitRing == Init => RingInv
BY CapAssumption DEF Init, RingInv, TypeOK, RingHoldsStream, Min2

(* Adopting a master's offset empties the ring and restarts the stream. *)
LEMMA AdoptRing ==
  ASSUME RingInv, NEW off \in Offsets, AdoptOffset(off)
  PROVE  RingInv'
BY CapAssumption, OffsetAssumption
   DEF AdoptOffset, RingInv, TypeOK, RingHoldsStream, Min2

(* A feed leaves the counters where the code's arithmetic says. *)
LEMMA FeedCounters ==
  ASSUME RingInv, NEW bytes \in Seq(Byte), repl_backlog_feed(bytes)
  PROVE  /\ Kept(bytes) \in 0..Cap
         /\ Kept(bytes) = Min2(Len(bytes), Cap)
         /\ Skipped(bytes) \in Nat
         /\ Skipped(bytes) + Kept(bytes) = Len(bytes)
         /\ repl_backlog_histlen' = Min2(Len(stream'), Cap)
         /\ repl_backlog_histlen' \in 0..Cap
         /\ master_repl_offset' = base' + Len(stream')
         /\ stream' \in Seq(Byte)
         /\ Len(stream') = Len(stream) + Len(bytes)
         /\ repl_backlog_pos' = IF Cap = 0 THEN repl_backlog_pos
                                ELSE (repl_backlog_pos + Kept(bytes)) % Cap
<1>1. Kept(bytes) \in 0..Cap /\ Kept(bytes) = Min2(Len(bytes), Cap)
  BY CapAssumption DEF Kept, Min2
<1>2. Skipped(bytes) \in Nat /\ Skipped(bytes) + Kept(bytes) = Len(bytes)
  BY <1>1, CapAssumption DEF Skipped, Kept
<1>3. stream' \in Seq(Byte) /\ Len(stream') = Len(stream) + Len(bytes)
  BY DEF repl_backlog_feed, RingInv, TypeOK
<1>4. /\ repl_backlog_histlen' = Min2(repl_backlog_histlen + Kept(bytes), Cap)
      /\ master_repl_offset' = master_repl_offset + Len(bytes)
      /\ base' = base
      /\ repl_backlog_pos' = IF Cap = 0 THEN repl_backlog_pos
                                       ELSE (repl_backlog_pos + Kept(bytes)) % Cap
  BY DEF repl_backlog_feed
<1>5. /\ repl_backlog_histlen = Min2(Len(stream), Cap)
      /\ master_repl_offset = base + Len(stream)
      /\ base \in Nat
      /\ repl_backlog_pos \in Nat
      /\ repl_backlog_pos = 0 \/ repl_backlog_pos < Cap
      /\ Len(stream) \in Nat /\ Len(bytes) \in Nat
  BY DEF RingInv, TypeOK
<1>6. /\ repl_backlog_histlen' = Min2(Len(stream'), Cap)
      /\ repl_backlog_histlen' \in 0..Cap
  <2>1. repl_backlog_histlen' = Min2(Min2(Len(stream), Cap) + Min2(Len(bytes), Cap), Cap)
    BY <1>1, <1>4, <1>5
  <2>2. repl_backlog_histlen' = Min2(Len(stream) + Len(bytes), Cap)
    BY <2>1, <1>5, MinSum, CapAssumption
  <2>3. Min2(Len(stream) + Len(bytes), Cap) \in 0..Cap
    BY <1>5, CapAssumption DEF Min2
  <2> QED
    BY <1>3, <2>2, <2>3
<1>7. master_repl_offset' = base' + Len(stream')
  BY <1>3, <1>4, <1>5
<1>8. QED
  BY <1>1, <1>2, <1>3, <1>4, <1>6, <1>7

(* Where each byte of the new ring comes from. *)
LEMMA FeedBytes ==
  ASSUME RingInv, NEW bytes \in Seq(Byte), repl_backlog_feed(bytes),
         NEW i \in 0..(Cap - 1)
  PROVE  LET len == Kept(bytes)
             skip == Skipped(bytes)
         IN  repl_backlog'[i] =
               IF repl_backlog_pos <= i /\ i < repl_backlog_pos + len
                 THEN bytes[skip + (i - repl_backlog_pos) + 1]
                 ELSE IF i < repl_backlog_pos + len - Cap
                 THEN bytes[skip + (i + Cap - repl_backlog_pos) + 1]
                 ELSE repl_backlog[i]
<1> DEFINE len   == Kept(bytes)
           skip  == Skipped(bytes)
           first == Min2(len, Cap - repl_backlog_pos)
           head  == Copied(repl_backlog, repl_backlog_pos, bytes, skip, first)
<1>1. /\ len \in 0..Cap /\ skip \in Nat /\ Cap \in Nat
      /\ repl_backlog_pos \in 0..(Cap - 1)
  BY FeedCounters, CapAssumption DEF RingInv, TypeOK
<1>2. DOMAIN repl_backlog = 0..(Cap - 1)
  BY DEF RingInv, TypeOK
<1>3. head[i] = IF repl_backlog_pos <= i /\ i < repl_backlog_pos + first
                  THEN bytes[skip + (i - repl_backlog_pos) + 1]
                  ELSE repl_backlog[i]
  BY <1>2 DEF Copied
<1>4. repl_backlog' = Copied(head, 0, bytes, skip + first, len - first)
  BY DEF repl_backlog_feed
<1>5. DOMAIN head = 0..(Cap - 1)
  BY <1>2 DEF Copied
<1>6. repl_backlog'[i] = IF 0 <= i /\ i < 0 + (len - first)
                           THEN bytes[(skip + first) + (i - 0) + 1]
                           ELSE head[i]
  BY <1>4, <1>5 DEF Copied
<1>7. first = IF len <= Cap - repl_backlog_pos THEN len ELSE Cap - repl_backlog_pos
  BY DEF Min2
<1> HIDE DEF len, skip, first, head
<1>8. QED
  <2>1. CASE len <= Cap - repl_backlog_pos
    BY <2>1, <1>1, <1>3, <1>6, <1>7 DEF len, skip
  <2>2. CASE ~(len <= Cap - repl_backlog_pos)
    <3>1. first = Cap - repl_backlog_pos
      BY <2>2, <1>7
    <3>2. CASE i < len - first
      <4>1. repl_backlog'[i] = bytes[(skip + first) + (i - 0) + 1]
        BY <3>2, <1>1, <1>6, <3>1
      <4>2. (skip + first) + (i - 0) + 1 = skip + (i + Cap - repl_backlog_pos) + 1
        BY <3>1, <1>1
      <4>3. ~(repl_backlog_pos <= i) /\ i < repl_backlog_pos + len - Cap
        BY <3>1, <3>2, <1>1
      <4> QED
        BY <4>1, <4>2, <4>3 DEF len, skip
    <3>3. CASE ~(i < len - first)
      BY <3>3, <3>1, <2>2, <1>1, <1>3, <1>6 DEF len, skip
    <3> QED BY <3>2, <3>3
  <2> QED BY <2>1, <2>2

(* The feed step of the induction. *)
LEMMA FeedRing ==
  ASSUME RingInv, NEW bytes \in Seq(Byte), repl_backlog_feed(bytes)
  PROVE  RingInv'
<1> DEFINE len  == Kept(bytes)
           skip == Skipped(bytes)
           pos  == repl_backlog_pos
<1>1. /\ len \in 0..Cap /\ skip \in Nat /\ skip + len = Len(bytes)
      /\ len = Min2(Len(bytes), Cap)
      /\ Len(bytes) \in Nat /\ Len(stream) \in Nat
      /\ stream' = stream \o bytes
      /\ Len(stream') = Len(stream) + Len(bytes)
      /\ pos \in Nat /\ (pos = 0 \/ pos < Cap)
      /\ Cap \in Nat
  <2>1. /\ Len(bytes) \in Nat /\ Len(stream) \in Nat
        /\ pos \in Nat /\ (pos = 0 \/ pos < Cap)
    BY DEF RingInv, TypeOK
  <2>2. stream' = stream \o bytes
    BY DEF repl_backlog_feed
  <2> QED
    BY <2>1, <2>2, FeedCounters, CapAssumption
<1>2. TypeOK'
  <2>1. repl_backlog' \in [0..(Cap - 1) -> Byte \cup {Zero}]
    <3>1. ASSUME NEW i \in 0..(Cap - 1)
          PROVE  repl_backlog'[i] \in Byte \cup {Zero}
      <4>1. repl_backlog[i] \in Byte \cup {Zero}
        BY DEF RingInv, TypeOK
      <4>2. \A j \in 1..Len(bytes) : bytes[j] \in Byte
        OBVIOUS
      <4>3. CASE pos <= i /\ i < pos + len
        <5>1. skip + (i - pos) + 1 \in 1..Len(bytes)
          BY <4>3, <1>1
        <5>2. repl_backlog'[i] = bytes[skip + (i - pos) + 1]
          BY <4>3, FeedBytes
        <5> QED
          BY <5>1, <5>2, <4>2
      <4>4. CASE ~(pos <= i /\ i < pos + len) /\ i < pos + len - Cap
        <5>1. skip + (i + Cap - pos) + 1 \in 1..Len(bytes)
          BY <4>4, <1>1, SMTT(60)
        <5>2. repl_backlog'[i] = bytes[skip + (i + Cap - pos) + 1]
          BY <4>4, FeedBytes
        <5> QED
          BY <5>1, <5>2, <4>2
      <4> QED
        BY <4>1, <4>3, <4>4, FeedBytes
    <3>2. \E f : repl_backlog' = [i \in 0..(Cap - 1) |-> f[i]]
      BY DEF repl_backlog_feed, Copied, RingInv, TypeOK
    <3> QED BY <3>1, <3>2
  <2>2. repl_backlog_pos' \in Nat /\ (repl_backlog_pos' = 0 \/ repl_backlog_pos' < Cap)
    <3>1. CASE Cap = 0
      BY <3>1, <1>1, FeedCounters
    <3>2. CASE Cap # 0
      <4>1. (pos + len) % Cap \in 0..(Cap - 1)
        BY <3>2, <1>1
      <4> QED
        BY <4>1, <3>2, <1>1, FeedCounters
    <3> QED
      BY <3>1, <3>2
  <2>3. master_repl_offset' \in Nat /\ base' \in Nat
    BY <1>1 DEF repl_backlog_feed, RingInv, TypeOK
  <2> QED
    BY <2>1, <2>2, <2>3, FeedCounters DEF TypeOK
<1>3. RingHoldsStream'
  <2> SUFFICES ASSUME NEW k \in 1..repl_backlog_histlen'
               PROVE  repl_backlog'[(repl_backlog_pos' + Cap - k) % Cap]
                        = stream'[Len(stream') + 1 - k]
    BY DEF RingHoldsStream
  <2> DEFINE at == (((pos + len) % Cap) + Cap - k) % Cap
  <2>1. repl_backlog_histlen' <= Cap /\ repl_backlog_histlen' <= Len(stream')
    BY <1>1, FeedCounters DEF Min2
  <2>2. k \in 1..Cap /\ Cap # 0 /\ pos < Cap /\ k <= Len(stream')
    BY <1>1, <2>1, FeedCounters
  <2>3. repl_backlog_pos' = (pos + len) % Cap
    BY <2>2, FeedCounters
  <2>4. /\ at \in 0..(Cap - 1)
        /\ k <= len => \/ pos <= at /\ at < pos + len /\ at - pos = len - k
                       \/ at < pos /\ at < pos + len - Cap /\ at + Cap - pos = len - k
        /\ len < k => /\ at = (pos + Cap - (k - len)) % Cap
                      /\ ~(pos <= at /\ at < pos + len)
                      /\ ~(at < pos + len - Cap)
    <3>1. Cap \in Nat /\ pos \in Nat /\ pos < Cap /\ len \in 0..Cap /\ k \in 1..Cap
      BY <1>1, <2>2
    <3>2. CursorFacts(Cap, pos, len, k, CursorAt(Cap, pos, len, k))
      BY <3>1, CursorFed
    <3> QED
      BY <3>2 DEF CursorFacts, CursorAt
  <2> HIDE DEF at
  <2>5. CASE k <= len
    \* one of the bytes just fed
    <3>1. stream'[Len(stream') + 1 - k] = bytes[Len(bytes) + 1 - k]
      BY <1>1, <2>2, <2>5 DEF RingInv, TypeOK
    <3>2. repl_backlog'[at] = bytes[skip + (len - k) + 1]
      <4>1. CASE pos <= at /\ at < pos + len /\ at - pos = len - k
        BY <4>1, <2>4, FeedBytes
      <4>2. CASE at < pos /\ at < pos + len - Cap /\ at + Cap - pos = len - k
        <5>1. ~(pos <= at)
          BY <4>2, <2>4, <1>1
        <5> QED
          BY <5>1, <4>2, <2>4, FeedBytes
      <4> QED
        BY <4>1, <4>2, <2>4, <2>5
    <3>3. skip + (len - k) + 1 = Len(bytes) + 1 - k
      BY <1>1, <2>2
    <3> QED
      BY <3>1, <3>2, <3>3, <2>3 DEF at
  <2>6. CASE len < k
    \* a byte the ring already held, len places closer to the cursor
    <3> DEFINE j == k - len
    <3>1. len = Len(bytes) /\ j \in 1..repl_backlog_histlen
      BY <1>1, <2>2, <2>6 DEF RingInv, Min2
    <3>2. stream'[Len(stream') + 1 - k] = stream[Len(stream) + 1 - j]
      BY <1>1, <2>2, <2>6, <3>1 DEF RingInv, TypeOK
    <3>3. repl_backlog[(pos + Cap - j) % Cap] = stream[Len(stream) + 1 - j]
      BY <3>1 DEF RingInv, RingHoldsStream
    <3>4. repl_backlog'[at] = repl_backlog[at]
      BY <2>4, <2>6, FeedBytes
    <3> QED
      BY <3>2, <3>3, <3>4, <2>3, <2>4, <2>6 DEF at
  <2> QED
    BY <1>1, <2>2, <2>5, <2>6, SMTT(60)
<1>4. QED
  BY <1>2, <1>3, FeedCounters DEF RingInv

(***************************************************************************)
(* The counters, the offset and the bytes of the ring agree with the       *)
(* stream in every reachable state: repl_backlog_feed and the reset of a   *)
(* +FULLRESYNC preserve RingInv.                                           *)
(***************************************************************************)
THEOREM RingInvariant == Spec => []RingInv
<1>1. Init => RingInv
  BY InitRing
<1>2. RingInv /\ [Next]_vars => RingInv'
  <2> SUFFICES ASSUME RingInv, [Next]_vars
               PROVE  RingInv'
    OBVIOUS
  <2>1. ASSUME NEW bytes \in Chunk, repl_backlog_feed(bytes)
        PROVE  RingInv'
    BY <2>1, ChunkType, FeedRing
  <2>2. ASSUME NEW off \in Offsets, AdoptOffset(off)
        PROVE  RingInv'
    BY <2>2, AdoptRing
  <2>3. CASE UNCHANGED vars
    BY <2>3 DEF vars, RingInv, TypeOK, RingHoldsStream
  <2> QED
    BY <2>1, <2>2, <2>3 DEF Next
<1>3. QED
  BY <1>1, <1>2, PTL DEF Spec

-----------------------------------------------------------------------------
(* The slots a copy of n bytes reads, in order, behind cursor p of a ring of c. *)
CopyStart(c, p, n) == (p + c - n) % c
CopyFirst(c, p, n) == Min2(n, c - CopyStart(c, p, n))

CopyFacts(c, p, n, start, first) ==
  /\ start \in 0..(c - 1)
  /\ first \in 0..n
  /\ start + first <= c
  /\ n - first <= c
  /\ \A i \in 1..n : (p + c - (n + 1 - i)) % c =
                       IF i <= first THEN start + i - 1 ELSE i - first - 1

(* The slots repl_backlog_copy reads, one by one, in both halves of the copy. *)
LEMMA CopySlots ==
  ASSUME NEW c \in Nat, NEW p \in Nat, p < c, NEW n \in 1..c
  PROVE  CopyFacts(c, p, n, CopyStart(c, p, n), CopyFirst(c, p, n))
<1> DEFINE start == CopyStart(c, p, n)
           first == CopyFirst(c, p, n)
<1>1. start = IF p < n THEN p + c - n ELSE p - n
  BY DEF CopyStart
<1>2. start \in 0..(c - 1)
  BY <1>1
<1>3. first = IF n <= c - start THEN n ELSE c - start
  BY DEF CopyFirst, Min2
<1> HIDE DEF start, first
<1>4. first \in 0..n /\ start + first <= c /\ n - first <= c
  BY <1>2, <1>3
<1>5. ASSUME NEW i \in 1..n
      PROVE  (p + c - (n + 1 - i)) % c = IF i <= first THEN start + i - 1 ELSE i - first - 1
  <2>1. (p + c - (n + 1 - i)) % c =
          IF p < n + 1 - i THEN p + c - (n + 1 - i) ELSE p - (n + 1 - i)
    OBVIOUS
  <2>2. CASE p < n
    BY <2>1, <2>2, <1>1, <1>2, <1>3
  <2>3. CASE ~(p < n)
    BY <2>1, <2>3, <1>1, <1>2, <1>3
  <2> QED
    BY <2>2, <2>3
<1> QED
  BY <1>2, <1>4, <1>5 DEF CopyFacts, start, first

(* A ring that holds the stream is copied as the newest bytes of it. *)
LEMMA CopyFromRing == RingInv => CopyIsNewest
<1> SUFFICES ASSUME RingInv, NEW need \in 0..repl_backlog_histlen
             PROVE  repl_backlog_copy(need) = LastN(stream, need)
  BY DEF CopyIsNewest
<1>1. CASE need = 0
  BY <1>1 DEF repl_backlog_copy, LastN
<1>2. CASE need # 0
  <2> DEFINE start == CopyStart(Cap, repl_backlog_pos, need)
             first == CopyFirst(Cap, repl_backlog_pos, need)
             A     == Stretch(start, first)
             B     == Stretch(0, need - first)
  <2>1. /\ Cap \in Nat /\ repl_backlog_pos \in Nat /\ repl_backlog_pos < Cap
        /\ need \in 1..Cap /\ need <= Len(stream) /\ Len(stream) \in Nat
    BY <1>2, CapAssumption DEF RingInv, TypeOK, Min2
  <2>2. CopyFacts(Cap, repl_backlog_pos, need, start, first)
    BY <2>1, CopySlots
  <2>3. repl_backlog_copy(need) = A \o B
    BY <1>2 DEF repl_backlog_copy, CopyStart, CopyFirst
  <2> HIDE DEF start, first
  <2>4. /\ start \in 0..(Cap - 1) /\ first \in 0..need
        /\ start + first <= Cap /\ need - first <= Cap
    BY <2>2 DEF CopyFacts
  <2>5. /\ A \in Seq(Byte \cup {Zero}) /\ Len(A) = first
        /\ \A i \in 1..first : A[i] = repl_backlog[start + i - 1]
    <3>1. \A i \in 1..first : repl_backlog[start + i - 1] \in Byte \cup {Zero}
      BY <2>1, <2>4 DEF RingInv, TypeOK
    <3> QED
      BY <3>1, <2>1, <2>4 DEF Stretch
  <2>6. /\ B \in Seq(Byte \cup {Zero}) /\ Len(B) = need - first
        /\ \A i \in 1..(need - first) : B[i] = repl_backlog[i - 1]
    <3>1. \A i \in 1..(need - first) : repl_backlog[0 + i - 1] \in Byte \cup {Zero}
      BY <2>1, <2>4 DEF RingInv, TypeOK
    <3> QED
      BY <3>1, <2>1, <2>4 DEF Stretch
  <2> HIDE DEF A, B
  <2>7. /\ A \o B \in Seq(Byte \cup {Zero})
        /\ Len(A \o B) = need
        /\ \A i \in 1..need : (A \o B)[i] = IF i <= first THEN A[i] ELSE B[i - first]
    <3>1. Len(A) + Len(B) = need
      BY <2>1, <2>4, <2>5, <2>6
    <3> QED
      BY <3>1, <2>5, <2>6, ConcatProperties
  <2>8. ASSUME NEW i \in 1..need
        PROVE  (IF i <= first THEN A[i] ELSE B[i - first]) = stream[Len(stream) - need + i]
    <3>1. need + 1 - i \in 1..repl_backlog_histlen
      BY <2>1 DEF RingInv, TypeOK
    <3>2. repl_backlog[(repl_backlog_pos + Cap - (need + 1 - i)) % Cap]
            = stream[Len(stream) + 1 - (need + 1 - i)]
      BY <3>1 DEF RingInv, RingHoldsStream
    <3>3. Len(stream) + 1 - (need + 1 - i) = Len(stream) - need + i
      BY <2>1
    <3>4. (repl_backlog_pos + Cap - (need + 1 - i)) % Cap
            = IF i <= first THEN start + i - 1 ELSE i - first - 1
      BY <2>2 DEF CopyFacts
    <3>5. CASE i <= first
      BY <3>2, <3>3, <3>4, <3>5, <2>4, <2>5
    <3>6. CASE ~(i <= first)
      <4>1. i - first \in 1..(need - first)
        BY <3>6, <2>1, <2>4
      <4> QED
        BY <4>1, <3>2, <3>3, <3>4, <3>6, <2>6
    <3> QED
      BY <3>5, <3>6
  <2>9. /\ LastN(stream, need) \in Seq(Byte \cup {Zero})
        /\ Len(LastN(stream, need)) = need
        /\ \A i \in 1..need : LastN(stream, need)[i] = stream[Len(stream) - need + i]
    <3>1. \A i \in 1..need : stream[Len(stream) - need + i] \in Byte \cup {Zero}
      BY <2>1 DEF RingInv, TypeOK
    <3> QED
      BY <3>1, <2>1 DEF LastN
  <2>10. \A i \in 1..need : (A \o B)[i] = LastN(stream, need)[i]
    BY <2>7, <2>8, <2>9
  <2> QED
    BY <2>3, <2>7, <2>9, <2>10, SeqEqual
<1> QED
  BY <1>1, <1>2

(***************************************************************************)
(* A partial resync is exact: whatever was fed, and however often the ring *)
(* wrapped or was reset, repl_backlog_copy returns the newest bytes.       *)
(***************************************************************************)
THEOREM BacklogServesNewest == Spec => []CopyIsNewest
BY RingInvariant, CopyFromRing, PTL

(* A ring that holds the stream has dropped nothing it had room for. *)
LEMMA RetainsFromRing == RingInv => NothingForgottenEarly
<1> SUFFICES ASSUME RingInv
             PROVE  NothingForgottenEarly
  OBVIOUS
<1>1. /\ repl_backlog_histlen = Min2(Len(stream), Cap)
      /\ master_repl_offset = base + Len(stream)
      /\ base \in Nat /\ Len(stream) \in Nat /\ Cap \in Nat
  BY CapAssumption DEF RingInv, TypeOK
<1>2. stream # <<>> => Len(stream) # 0
  BY DEF RingInv, TypeOK
<1>3. ASSUME stream # <<>>, Len(stream) <= Cap
      PROVE  repl_backlog_start_offset = base + 1
  <2>1. repl_backlog_histlen = Len(stream)
    BY <1>1, <1>3 DEF Min2
  <2>2. repl_backlog_histlen # 0
    BY <2>1, <1>2, <1>3
  <2>3. base \in Nat /\ Len(stream) \in Nat /\ master_repl_offset = base + Len(stream)
    BY <1>1
  <2>4. master_repl_offset - repl_backlog_histlen + 1 = base + 1
    BY <2>1, <2>3
  <2> QED
    BY <2>2, <2>4 DEF repl_backlog_start_offset
<1> QED
  BY <1>1, <1>3 DEF NothingForgottenEarly

(***************************************************************************)
(* Every byte the ring has room for stays available, and the first offset  *)
(* INFO reports is the one of the oldest byte.                             *)
(***************************************************************************)
THEOREM BacklogForgetsNothingEarly == Spec => []NothingForgottenEarly
BY RingInvariant, RetainsFromRing, PTL
=============================================================================
