-------------------------------- MODULE Wire --------------------------------
(***************************************************************************)
(* What comes in on a connection (protocol/buffer.cpp, protocol/resp.cpp,  *)
(* try_one_request): bytes arrive in pieces of any size, are appended to   *)
(* the buffer, and complete requests are taken off its front.  The same    *)
(* parser reads what clients send, the stream of the master and the log,   *)
(* which aof_encode writes.  The theorems about the buffer are at the end. *)
(***************************************************************************)
EXTENDS Integers, Sequences, FiniteSets, SequencesExt, TLAPS

CONSTANTS
  Byte,
  Junk,              \* a byte of memory that was never written
  FirstCap, MinCap,  \* the capacity of a new buffer; what an empty one grows to
  k_max_inline, k_max_args, k_max_msg, k_max_incoming,
  Requests,          \* the requests sent with aof_encode: sequences of strings
  Lines,             \* the inline requests: records of their bytes and arguments
  Broken             \* requests that are none: sequences of bytes

VARIABLES
  frames,  \* the requests of this connection, as sent
  fed,     \* how many of their bytes have arrived
  conn     \* its buffer, the commands dispatched, and whether it was closed

wire_vars == <<frames, fed, conn>>

-----------------------------------------------------------------------------
\* A buffer is a block of memory with the data at begin .. end - 1.
buf_create(capacity) ==
  [mem |-> [i \in 0 .. capacity - 1 |-> Junk], cap |-> capacity, begin |-> 0, end |-> 0]

buf_size(b) == b.end - b.begin

buf_data(b) == [i \in 1 .. b.end - b.begin |-> b.mem[b.begin + i - 1]]

\* memmove to the front of the block.
Slide(b) ==
  [b EXCEPT !.mem = [i \in 0 .. b.cap - 1 |->
                       IF i < buf_size(b) THEN b.mem[b.begin + i] ELSE b.mem[i]],
            !.begin = 0, !.end = buf_size(b)]

\* memcpy to a new block.
Grow(b, cap) ==
  [mem |-> [i \in 0 .. cap - 1 |-> IF i < buf_size(b) THEN b.mem[b.begin + i] ELSE Junk],
   cap |-> cap, begin |-> 0, end |-> buf_size(b)]

\* The capacity is doubled until the data fits.
NewCap(cap, need) ==
  LET first == IF cap = 0 THEN MinCap ELSE 2 * cap
      double[c \in 1 .. first + 2 * need] == IF c >= need THEN c ELSE double[2 * c]
  IN  double[first]

\* memcpy behind the data, where it fits.
Put(b, data) ==
  [b EXCEPT !.mem = [i \in 0 .. b.cap - 1 |->
                       IF b.end <= i /\ i < b.end + Len(data) THEN data[i - b.end + 1]
                       ELSE b.mem[i]],
            !.end = b.end + Len(data)]

buf_append(b, data) ==
  IF b.cap - b.end >= Len(data) THEN Put(b, data)
  ELSE IF b.cap - buf_size(b) >= Len(data) THEN Put(Slide(b), data)
  ELSE Put(Grow(b, NewCap(b.cap, buf_size(b) + Len(data))), data)

buf_consume(b, n) ==
  LET rest == [b EXCEPT !.begin = b.begin + n]
  IN  IF rest.begin = rest.end THEN [rest EXCEPT !.begin = 0, !.end = 0]
      ELSE IF rest.begin >= b.cap \div 2 THEN Slide(rest)
      ELSE rest

-----------------------------------------------------------------------------
\* parse_resp_request: the number of bytes of the first request and its
\* arguments; Partial when it is not all there, Bad when it is none.
Partial == 0
Bad == -1
Result(used, args) == [used |-> used, args |-> args]

Digits == <<"0", "1", "2", "3", "4", "5", "6", "7", "8", "9">>
Value(d) == CHOOSE v \in 0 .. 9 : Digits[v + 1] = d
Decimal(n) == IF n < 10 THEN <<Digits[n + 1]>> ELSE <<Digits[(n \div 10) + 1], Digits[(n % 10) + 1]>>

\* The first place of a byte from a place on, or the place behind the data.
Find(d, from, byte) ==
  LET at == SelectInSubSeq(d, from, Len(d), LAMBDA x : x = byte)
  IN  IF at = 0 THEN Len(d) + 1 ELSE at

\* A number between `from' and the next CR, LF; it is Bad when it is above `max'
\* or is no number, which nothing that arrives later can mend.
Number(d, from, max) ==
  LET step(v, x) == IF v = Bad \/ x \notin ToSet(Digits) \/ v * 10 + Value(x) > max
                    THEN Bad ELSE v * 10 + Value(x)
      read(v, cr) == IF v = Bad THEN [state |-> Bad]
                     ELSE [state |-> 1, value |-> v, next |-> cr + 2]
      upto(cr) == IF cr + 1 > Len(d) THEN [state |-> Partial]
                  ELSE IF d[cr + 1] # "LF" THEN [state |-> Bad]
                  ELSE read(FoldLeft(step, 0, SubSeq(d, from, cr - 1)), cr)
  IN  upto(Find(d, from, "CR"))

\* Mutant: the CR, LF behind the string need not have arrived.
StringEarly(d, acc, len) ==
  LET behind == len.next + len.value
  IN  IF len.state # 1 THEN [acc EXCEPT !.used = len.state]
      ELSE IF behind > Len(d) + 1 THEN [acc EXCEPT !.used = Partial]
      ELSE [acc EXCEPT !.pos = behind + 2,
                       !.args = Append(@, SubSeq(d, len.next, behind - 1))]

\* The bytes of a string whose length has been read, and the CR, LF behind them.
String(d, acc, len) ==
  LET behind == len.next + len.value
  IN  IF len.state # 1 THEN [acc EXCEPT !.used = len.state]
      ELSE IF behind + 1 > Len(d) THEN [acc EXCEPT !.used = Partial]
      ELSE IF d[behind] # "CR" \/ d[behind + 1] # "LF" THEN [acc EXCEPT !.used = Bad]
      ELSE [acc EXCEPT !.pos = behind + 2,
                       !.args = Append(@, SubSeq(d, len.next, behind - 1))]

\* One string of a request: $, its length, its bytes.
Bulk(d, acc) ==
  IF acc.used # 1 THEN acc
  ELSE IF acc.pos > Len(d) THEN [acc EXCEPT !.used = Partial]
  ELSE IF d[acc.pos] # "$" THEN [acc EXCEPT !.used = Bad]
  ELSE String(d, acc, Number(d, acc.pos + 1, k_max_msg))

MultiBulk(d) ==
  LET step(acc, i) == Bulk(d, acc)
      parsed(all) == IF all.used # 1 THEN Result(all.used, <<>>)
                     ELSE Result(all.pos - 1, all.args)
      counted(n) == IF n.state # 1 THEN Result(n.state, <<>>)
                    ELSE IF n.value < 1 THEN Result(Bad, <<>>)
                    ELSE parsed(FoldLeft(step, [used |-> 1, pos |-> n.next, args |-> <<>>],
                                         [i \in 1 .. n.value |-> i]))
  IN  counted(Number(d, 2, k_max_args))

\* The words of a line; SP stands for both kinds of blanks.
Words(line) ==
  LET starts == {i \in 1 .. Len(line) : line[i] # "SP" /\ (i > 1 => line[i - 1] = "SP")}
      word(i) == SubSeq(line, i, Find(line, i, "SP") - 1)
  IN  [k \in 1 .. Cardinality(starts) |-> word(SetToSortSeq(starts, <)[k])]

Inline(d) ==
  LET cut(line) == IF line # <<>> /\ Last(line) = "CR" THEN Front(line) ELSE line
      upto(eol) == IF eol - 1 > k_max_inline THEN Result(Bad, <<>>)
                   ELSE IF eol > Len(d) THEN Result(Partial, <<>>)
                   ELSE Result(eol, Words(cut(SubSeq(d, 1, eol - 1))))
  IN  upto(Find(d, 1, "LF"))

parse_resp_request(d) ==
  IF d = <<>> THEN Result(Partial, <<>>)
  ELSE IF d[1] = "*" THEN MultiBulk(d)
  ELSE Inline(d)

\* An empty line is consumed and not dispatched.
try_one_request(c) ==
  LET serve(r) == IF r.used = Partial THEN c
                  ELSE IF r.used = Bad THEN [c EXCEPT !.closed = TRUE]
                  ELSE [c EXCEPT !.buf = buf_consume(@, r.used),
                                 !.out = IF r.args = <<>> THEN @ ELSE Append(@, r.args)]
  IN  IF c.closed THEN c ELSE serve(parse_resp_request(buf_data(c.buf)))

\* What has arrived is appended; a client that is too far ahead is closed, else
\* requests are served until one is not there whole: each ends with an LF, and
\* one more may be found Bad before its own.
handle_read(c, bytes) ==
  LET most(in) == 1 + Len(SelectSeq(buf_data(in.buf), LAMBDA x : x = "LF"))
      serve(in, times) ==
        LET served[k \in 0 .. times] == IF k = 0 THEN in ELSE try_one_request(served[k - 1])
        IN  served[times]
      read(in) == IF buf_size(in.buf) > k_max_incoming THEN [in EXCEPT !.closed = TRUE]
                  ELSE serve(in, most(in))
  IN  read([c EXCEPT !.buf = buf_append(@, bytes)])

-----------------------------------------------------------------------------
\* aof_encode: a request as it is logged and propagated, and as clients send it.
aof_encode(args) ==
  LET bulk(a) == <<"$">> \o Decimal(Len(a)) \o <<"CR", "LF">> \o a \o <<"CR", "LF">>
      step(acc, a) == acc \o bulk(a)
  IN  FoldLeft(step, <<"*">> \o Decimal(Len(args)) \o <<"CR", "LF">>, args)

Good ==
  {[bytes |-> aof_encode(r), args |-> r, ok |-> TRUE] : r \in Requests}
  \cup {[bytes |-> l.bytes, args |-> l.args, ok |-> TRUE] : l \in Lines}

Sent == FlattenSeq([i \in DOMAIN frames |-> frames[i].bytes])

WireInit ==
  /\ frames \in Good \X (Good \cup {[bytes |-> b, args |-> <<>>, ok |-> FALSE] : b \in Broken})
  /\ fed = 0
  /\ conn = [buf |-> buf_create(FirstCap), out |-> <<>>, closed |-> FALSE]

\* The next piece arrives, of any length.
Receive ==
  /\ ~conn.closed
  /\ \E n \in 1 .. Len(Sent) - fed :
       /\ conn' = handle_read(conn, SubSeq(Sent, fed + 1, fed + n))
       /\ fed' = fed + n
  /\ UNCHANGED frames

\* The connection is over, and another client sends the same.
Again ==
  /\ conn.closed \/ fed = Len(Sent)
  /\ conn' = [buf |-> buf_create(FirstCap), out |-> <<>>, closed |-> FALSE]
  /\ fed' = 0
  /\ UNCHANGED frames

WireNext == Receive \/ Again

WireSpec == WireInit /\ [][WireNext]_wire_vars

-----------------------------------------------------------------------------
\* How many requests have arrived whole.
Arrived ==
  Cardinality({i \in DOMAIN frames :
     fed >= Len(FlattenSeq([j \in 1 .. i |-> frames[j].bytes]))})

\* However the bytes are cut on their way, and wherever the buffer slid, grew or
\* was compacted, the commands dispatched are those of the requests that have
\* arrived whole, argument for argument, whatever bytes they contain; and the
\* connection is closed only by what is no request, and always by it, or by too
\* much at a time, which may leave the last requests out but none before them
\* (parse_resp_request, buf_append, buf_consume, aof_encode, handle_read).
FramesIntact ==
  LET good == SelectSeq(SubSeq(frames, 1, Arrived), LAMBDA f : f.ok)
      commands == SelectSeq([i \in DOMAIN good |-> good[i].args], LAMBDA a : a # <<>>)
      over == buf_size(conn.buf) > k_max_incoming
  IN  /\ conn.out = commands \/ (over /\ IsPrefix(conn.out, commands))
      /\ conn.closed => over \/ \E i \in DOMAIN frames : ~frames[i].ok
      /\ (\E i \in 1 .. Arrived : ~frames[i].ok) => conn.closed

-----------------------------------------------------------------------------
\* The pointers of a buffer are in order and inside its block.
BufOK(b) ==
  /\ b \in [mem : [0 .. b.cap - 1 -> Byte], cap : Nat, begin : Nat, end : Nat]
  /\ b.begin <= b.end /\ b.end <= b.cap

(* The readable data is a sequence of bytes, of the size buf_size says. *)
LEMMA DataType ==
  ASSUME NEW b, BufOK(b)
  PROVE  /\ buf_data(b) \in Seq(Byte) /\ Len(buf_data(b)) = b.end - b.begin
         /\ \A i \in 1 .. b.end - b.begin : buf_data(b)[i] = b.mem[b.begin + i - 1]
<1>1. b.end - b.begin \in Nat
  BY DEF BufOK
<1>2. \A i \in 1 .. b.end - b.begin : b.begin + i - 1 \in 0 .. b.cap - 1
  BY DEF BufOK
<1>3. \A i \in 1 .. b.end - b.begin : b.mem[b.begin + i - 1] \in Byte
  BY <1>2 DEF BufOK
<1> QED
  BY <1>1, <1>3 DEF buf_data

(* Sequences of the same length and elements are the same; the elements of a *)
(* concatenation.                                                          *)
LEMMA SameSequence ==
  ASSUME NEW S, NEW s \in Seq(S), NEW t \in Seq(S), Len(s) = Len(t),
         \A i \in 1 .. Len(s) : s[i] = t[i]
  PROVE  s = t
OBVIOUS

LEMMA Concatenated ==
  ASSUME NEW S, NEW s \in Seq(S), NEW t \in Seq(S)
  PROVE  /\ s \o t \in Seq(S) /\ Len(s \o t) = Len(s) + Len(t)
         /\ \A i \in 1 .. Len(s) + Len(t) :
              (s \o t)[i] = IF i <= Len(s) THEN s[i] ELSE t[i - Len(s)]
OBVIOUS

(* Writing the k bytes of data behind the data leaves a block of bytes, of  *)
(* which the readable part is the old one followed by data.                *)
LEMMA Written ==
  ASSUME NEW S, NEW cap \in Nat, NEW end \in Nat, NEW k \in Nat, k <= cap - end,
         NEW mem \in [0 .. cap - 1 -> S], NEW data \in Seq(S), Len(data) = k
  PROVE  [i \in 0 .. cap - 1 |->
            IF end <= i /\ i < end + k THEN data[i - end + 1] ELSE mem[i]] \in [0 .. cap - 1 -> S]
<1> SUFFICES ASSUME NEW i \in 0 .. cap - 1
             PROVE  (IF end <= i /\ i < end + k THEN data[i - end + 1] ELSE mem[i]) \in S
  OBVIOUS
<1>1. CASE end <= i /\ i < end + k
  <2>1. i - end + 1 \in 1 .. Len(data)
    BY <1>1
  <2> QED
    BY <1>1, <2>1
<1>2. CASE ~(end <= i /\ i < end + k)
  BY <1>2
<1> QED
  BY <1>1, <1>2

LEMMA Joined ==
  ASSUME NEW S, NEW s \in Seq(S), NEW t \in Seq(S), NEW u \in Seq(S),
         Len(u) = Len(s) + Len(t),
         \A i \in 1 .. Len(s) + Len(t) : u[i] = IF i <= Len(s) THEN s[i] ELSE t[i - Len(s)]
  PROVE  u = s \o t
<1>1. s \o t \in Seq(S) /\ Len(s \o t) = Len(u)
  BY Concatenated
<1>2. \A i \in 1 .. Len(u) : u[i] = (s \o t)[i]
  BY Concatenated
<1> QED
  BY <1>1, <1>2, SameSequence

(* The copy behind the data appends it, when there is room behind. *)
LEMMA PutAppends ==
  ASSUME NEW b, BufOK(b), NEW data \in Seq(Byte), Len(data) <= b.cap - b.end
  PROVE  BufOK(Put(b, data)) /\ buf_data(Put(b, data)) = buf_data(b) \o data
<1> DEFINE f == [i \in 0 .. b.cap - 1 |->
                   IF b.end <= i /\ i < b.end + Len(data) THEN data[i - b.end + 1] ELSE b.mem[i]]
           p == Put(b, data)
           n == b.end - b.begin
<1>1. /\ b.cap \in Nat /\ b.begin \in Nat /\ b.end \in Nat /\ b.begin <= b.end /\ b.end <= b.cap
      /\ b.mem \in [0 .. b.cap - 1 -> Byte] /\ Len(data) \in Nat
  BY DEF BufOK
<1>2. f \in [0 .. b.cap - 1 -> Byte]
  BY <1>1, Written
<1>3. \A i \in 0 .. b.cap - 1 :
        f[i] = IF b.end <= i /\ i < b.end + Len(data) THEN data[i - b.end + 1] ELSE b.mem[i]
  OBVIOUS
<1>a. b = [mem |-> b.mem, cap |-> b.cap, begin |-> b.begin, end |-> b.end]
  BY DEF BufOK
<1>b. p = [b EXCEPT !.mem = f, !.end = b.end + Len(data)]
  BY DEF Put
<1> HIDE DEF f, p
<1>4. p = [mem |-> f, cap |-> b.cap, begin |-> b.begin, end |-> b.end + Len(data)]
  BY <1>a, <1>b
<1>5. p.mem = f /\ p.cap = b.cap /\ p.begin = b.begin /\ p.end = b.end + Len(data)
  BY <1>4
<1>6. BufOK(p)
  BY <1>1, <1>2, <1>4 DEF BufOK
<1>7. p.end - p.begin = n + Len(data)
  BY <1>1, <1>5
<1>8. /\ buf_data(p) \in Seq(Byte) /\ Len(buf_data(p)) = n + Len(data)
      /\ \A i \in 1 .. n + Len(data) : buf_data(p)[i] = f[b.begin + i - 1]
  BY <1>5, <1>6, <1>7, DataType
<1>9. /\ buf_data(b) \in Seq(Byte) /\ Len(buf_data(b)) = n
      /\ \A i \in 1 .. n : buf_data(b)[i] = b.mem[b.begin + i - 1]
  BY DataType
<1>10. ASSUME NEW i \in 1 .. n + Len(data)
       PROVE  buf_data(p)[i] = IF i <= n THEN buf_data(b)[i] ELSE data[i - n]
  <2> DEFINE j == b.begin + i - 1
  <2>1. /\ j \in 0 .. b.cap - 1
        /\ i <= n => i \in 1 .. n /\ j < b.end
        /\ ~(i <= n) => b.end <= j /\ j < b.end + Len(data)
        /\ j - b.end + 1 = i - n
    BY <1>1, SMTT(30)
  <2>2. buf_data(p)[i] = f[j] /\ (i <= n => buf_data(b)[i] = b.mem[j])
    BY <1>8, <1>9, <2>1
  <2> HIDE DEF j
  <2>3. CASE i <= n
    <3>1. ~(b.end <= j)
      BY <1>1, <2>1, <2>3
    <3> QED
      BY <1>3, <2>1, <2>2, <2>3, <3>1
  <2>4. CASE ~(i <= n)
    BY <1>3, <2>1, <2>2, <2>4
  <2> QED
    BY <2>3, <2>4
<1> HIDE DEF n
<1>11. buf_data(p) = buf_data(b) \o data
  BY <1>8, <1>9, <1>10, Joined
<1> QED
  BY <1>6, <1>11 DEF p

(* The data copied to the front of a block of bytes is the same data. *)
LEMMA MovedIsSame ==
  ASSUME NEW b, BufOK(b), NEW cap \in Nat, b.end - b.begin <= cap,
         NEW g \in [0 .. cap - 1 -> Byte],
         \A i \in 0 .. cap - 1 : i < b.end - b.begin => g[i] = b.mem[b.begin + i]
  PROVE  LET m == [mem |-> g, cap |-> cap, begin |-> 0, end |-> b.end - b.begin]
         IN  BufOK(m) /\ buf_data(m) = buf_data(b)
<1> DEFINE n == b.end - b.begin
           m == [mem |-> g, cap |-> cap, begin |-> 0, end |-> n]
<1>1. b.begin \in Nat /\ b.end \in Nat /\ n \in Nat
  BY DEF BufOK
<1>2. m.mem = g /\ m.cap = cap /\ m.begin = 0 /\ m.end = n /\ m.end - m.begin = n
  BY <1>1
<1>3. BufOK(m)
  BY <1>1 DEF BufOK
<1> HIDE DEF m
<1>a. /\ buf_data(m) \in Seq(Byte) /\ Len(buf_data(m)) = m.end - m.begin
      /\ \A i \in 1 .. m.end - m.begin : buf_data(m)[i] = m.mem[m.begin + i - 1]
  BY <1>3, DataType
<1>4. /\ buf_data(m) \in Seq(Byte) /\ Len(buf_data(m)) = n
      /\ \A i \in 1 .. n : buf_data(m)[i] = g[0 + i - 1]
  BY <1>2, <1>a, Zenon
<1>5. /\ buf_data(b) \in Seq(Byte) /\ Len(buf_data(b)) = n
      /\ \A i \in 1 .. n : buf_data(b)[i] = b.mem[b.begin + i - 1]
  BY DataType
<1>6. ASSUME NEW i \in 1 .. n PROVE buf_data(m)[i] = buf_data(b)[i]
  <2>1. 0 + i - 1 = i - 1 /\ i - 1 \in 0 .. cap - 1 /\ i - 1 < n /\ b.begin + (i - 1) = b.begin + i - 1
    BY <1>1
  <2>2. g[i - 1] = b.mem[b.begin + (i - 1)]
    BY <2>1
  <2> QED
    BY <1>4, <1>5, <2>1, <2>2
<1>7. buf_data(m) = buf_data(b)
  BY <1>4, <1>5, <1>6, SameSequence
<1> QED
  BY <1>3, <1>7 DEF m

(* memmove to the front keeps the data. *)
LEMMA SlideKeeps ==
  ASSUME NEW b, BufOK(b)
  PROVE  /\ BufOK(Slide(b)) /\ buf_data(Slide(b)) = buf_data(b)
         /\ Slide(b).cap = b.cap /\ Slide(b).end = b.end - b.begin
<1> DEFINE n == b.end - b.begin
           g == [i \in 0 .. b.cap - 1 |-> IF i < n THEN b.mem[b.begin + i] ELSE b.mem[i]]
<1>1. /\ b.cap \in Nat /\ b.begin \in Nat /\ b.end \in Nat /\ n \in Nat /\ n <= b.cap
      /\ b.mem \in [0 .. b.cap - 1 -> Byte]
  BY DEF BufOK
<1>2. \A i \in 0 .. b.cap - 1 : i < n => b.begin + i \in 0 .. b.cap - 1
  BY DEF BufOK
<1>3. g \in [0 .. b.cap - 1 -> Byte]
  BY <1>1, <1>2
<1>4. \A i \in 0 .. b.cap - 1 : i < n => g[i] = b.mem[b.begin + i]
  OBVIOUS
<1>5. b = [mem |-> b.mem, cap |-> b.cap, begin |-> b.begin, end |-> b.end]
  BY DEF BufOK
<1>6. Slide(b) = [b EXCEPT !.mem = g, !.begin = 0, !.end = n]
  BY DEF Slide, buf_size
<1> HIDE DEF g
<1>7. Slide(b) = [mem |-> g, cap |-> b.cap, begin |-> 0, end |-> n]
  BY <1>5, <1>6
<1>8. BufOK(Slide(b)) /\ buf_data(Slide(b)) = buf_data(b)
  <2> DEFINE c == b.cap
  <2>1. c \in Nat /\ n <= c /\ g \in [0 .. c - 1 -> Byte]
    BY <1>1, <1>3
  <2>2. \A i \in 0 .. c - 1 : i < n => g[i] = b.mem[b.begin + i]
    BY <1>4
  <2>3. Slide(b) = [mem |-> g, cap |-> c, begin |-> 0, end |-> n]
    BY <1>7
  <2> HIDE DEF c
  <2> QED
    BY <2>1, <2>2, <2>3, MovedIsSame
<1> QED
  BY <1>7, <1>8

(* memcpy to a new block keeps the data. *)
LEMMA GrowKeeps ==
  ASSUME NEW b, BufOK(b), NEW cap \in Nat, b.end - b.begin <= cap, Junk \in Byte
  PROVE  /\ BufOK(Grow(b, cap)) /\ buf_data(Grow(b, cap)) = buf_data(b)
         /\ Grow(b, cap).cap = cap /\ Grow(b, cap).end = b.end - b.begin
<1> DEFINE n == b.end - b.begin
           g == [i \in 0 .. cap - 1 |-> IF i < n THEN b.mem[b.begin + i] ELSE Junk]
<1>1. /\ b.cap \in Nat /\ b.begin \in Nat /\ b.end \in Nat /\ n \in Nat
      /\ b.mem \in [0 .. b.cap - 1 -> Byte]
  BY DEF BufOK
<1>2. \A i \in 0 .. cap - 1 : i < n => b.begin + i \in 0 .. b.cap - 1
  BY DEF BufOK
<1>3. g \in [0 .. cap - 1 -> Byte]
  BY <1>1, <1>2
<1>4. \A i \in 0 .. cap - 1 : i < n => g[i] = b.mem[b.begin + i]
  OBVIOUS
<1>5. Grow(b, cap) = [mem |-> g, cap |-> cap, begin |-> 0, end |-> n]
  BY DEF Grow, buf_size
<1> HIDE DEF g
<1>6. BufOK(Grow(b, cap)) /\ buf_data(Grow(b, cap)) = buf_data(b)
  BY <1>3, <1>4, <1>5, MovedIsSame
<1> QED
  BY <1>5, <1>6

(* buf_append (protocol/buffer.cpp): whichever way room is made (none needed, *)
(* the data moved to the front, a larger block), what can be read afterwards  *)
(* is what could be read before followed by the new bytes, for every block,   *)
(* position and data.  Of the doubling loop it uses what its exit says.       *)
THEOREM AppendAppends ==
  ASSUME NEW b, BufOK(b), NEW data \in Seq(Byte), Junk \in Byte,
         NewCap(b.cap, b.end - b.begin + Len(data)) \in Nat,
         NewCap(b.cap, b.end - b.begin + Len(data)) >= b.end - b.begin + Len(data)
  PROVE  /\ BufOK(buf_append(b, data))
         /\ buf_data(buf_append(b, data)) = buf_data(b) \o data
<1> DEFINE n == b.end - b.begin
           c == NewCap(b.cap, n + Len(data))
<1>1. b.cap \in Nat /\ b.begin \in Nat /\ b.end \in Nat /\ n \in Nat /\ Len(data) \in Nat
  BY DEF BufOK
<1>2. CASE b.cap - b.end >= Len(data)
  <2>1. buf_append(b, data) = Put(b, data)
    BY <1>2 DEF buf_append
  <2>2. Len(data) <= b.cap - b.end
    BY <1>1, <1>2
  <2> QED
    BY <2>1, <2>2, PutAppends
<1>3. CASE ~(b.cap - b.end >= Len(data)) /\ b.cap - n >= Len(data)
  <2>1. buf_append(b, data) = Put(Slide(b), data)
    BY <1>3 DEF buf_append, buf_size
  <2>2. /\ BufOK(Slide(b)) /\ buf_data(Slide(b)) = buf_data(b)
        /\ Slide(b).cap = b.cap /\ Slide(b).end = n
    BY SlideKeeps
  <2>3. Len(data) <= Slide(b).cap - Slide(b).end
    BY <1>1, <1>3, <2>2
  <2> QED
    BY <2>1, <2>2, <2>3, PutAppends
<1>4. CASE ~(b.cap - b.end >= Len(data)) /\ ~(b.cap - n >= Len(data))
  <2>1. buf_append(b, data) = Put(Grow(b, c), data)
    BY <1>4 DEF buf_append, buf_size
  <2>2. c \in Nat /\ n <= c /\ Len(data) <= c - n
    BY <1>1
  <2> HIDE DEF c
  <2>3. /\ BufOK(Grow(b, c)) /\ buf_data(Grow(b, c)) = buf_data(b)
        /\ Grow(b, c).cap = c /\ Grow(b, c).end = n
    BY <2>2, GrowKeeps
  <2>4. Len(data) <= Grow(b, c).cap - Grow(b, c).end
    BY <2>2, <2>3
  <2> QED
    BY <2>1, <2>3, <2>4, PutAppends
<1> QED
  BY <1>2, <1>3, <1>4

(* buf_consume (protocol/buffer.cpp): whether the positions are reset, the     *)
(* rest is moved to the front or stays where it is, what can be read           *)
(* afterwards is what could be read before without its first n bytes.          *)
THEOREM ConsumeDrops ==
  ASSUME NEW b, BufOK(b), NEW n \in Nat, n <= b.end - b.begin
  PROVE  /\ BufOK(buf_consume(b, n))
         /\ buf_data(buf_consume(b, n)) = SubSeq(buf_data(b), n + 1, Len(buf_data(b)))
<1> DEFINE rest == [b EXCEPT !.begin = b.begin + n]
           m == b.end - b.begin
           left == SubSeq(buf_data(b), n + 1, Len(buf_data(b)))
<1>1. b.cap \in Nat /\ b.begin \in Nat /\ b.end \in Nat /\ b.begin <= b.end /\ m \in Nat
  BY DEF BufOK
<1>2. b = [mem |-> b.mem, cap |-> b.cap, begin |-> b.begin, end |-> b.end]
  BY DEF BufOK
<1>3. rest = [mem |-> b.mem, cap |-> b.cap, begin |-> b.begin + n, end |-> b.end]
  BY <1>2
<1>4. rest.mem = b.mem /\ rest.cap = b.cap /\ rest.begin = b.begin + n /\ rest.end = b.end
  BY <1>3
<1>5. buf_consume(b, n) = IF rest.begin = rest.end THEN [rest EXCEPT !.begin = 0, !.end = 0]
                          ELSE IF rest.begin >= b.cap \div 2 THEN Slide(rest) ELSE rest
  BY DEF buf_consume
<1> HIDE DEF rest
<1>6. BufOK(rest)
  BY <1>1, <1>3 DEF BufOK
<1>7. /\ buf_data(b) \in Seq(Byte) /\ Len(buf_data(b)) = m
      /\ \A i \in 1 .. m : buf_data(b)[i] = b.mem[b.begin + i - 1]
  BY DataType
<1>8. /\ left \in Seq(Byte) /\ Len(left) = m - n
      /\ \A i \in 1 .. m - n : left[i] = buf_data(b)[n + 1 + i - 1]
  BY <1>1, <1>7
<1> HIDE DEF left
<1>9. buf_data(rest) = left
  <2>1. /\ buf_data(rest) \in Seq(Byte) /\ Len(buf_data(rest)) = b.end - (b.begin + n)
        /\ \A i \in 1 .. b.end - (b.begin + n) : buf_data(rest)[i] = b.mem[b.begin + n + i - 1]
    BY <1>4, <1>6, DataType, Zenon
  <2>2. b.end - (b.begin + n) = m - n /\ m - n \in Nat
    BY <1>1
  <2>3. ASSUME NEW i \in 1 .. m - n PROVE buf_data(rest)[i] = left[i]
    <3>1. /\ n + 1 + i - 1 \in 1 .. m
          /\ b.begin + (n + 1 + i - 1) - 1 = b.begin + n + i - 1
      BY <1>1
    <3>2. buf_data(b)[n + 1 + i - 1] = b.mem[b.begin + (n + 1 + i - 1) - 1]
      BY <1>7, <3>1
    <3> QED
      BY <1>8, <2>1, <2>2, <3>1, <3>2
  <2> QED
    BY <1>8, <2>1, <2>2, <2>3, SameSequence
<1>10. CASE rest.begin = rest.end
  <2> DEFINE e == [rest EXCEPT !.begin = 0, !.end = 0]
  <2>2. buf_consume(b, n) = e
    BY <1>5, <1>10
  <2>a. rest = [mem |-> rest.mem, cap |-> rest.cap, begin |-> rest.begin, end |-> rest.end]
    BY <1>6 DEF BufOK
  <2>b. e = [rest EXCEPT !.begin = 0, !.end = 0]
    OBVIOUS
  <2> HIDE DEF e
  <2>1. e = [mem |-> b.mem, cap |-> b.cap, begin |-> 0, end |-> 0]
    BY <1>4, <2>a, <2>b
  <2>3. BufOK(e)
    BY <1>1, <2>1 DEF BufOK
  <2>4. buf_data(e) \in Seq(Byte) /\ Len(buf_data(e)) = 0
    BY <2>1, <2>3, DataType
  <2>5. Len(left) = 0
    BY <1>1, <1>4, <1>8, <1>10
  <2>6. buf_data(e) = left
    BY <1>8, <2>4, <2>5, SameSequence
  <2> QED
    BY <2>2, <2>3, <2>6 DEF left
<1>11. CASE rest.begin # rest.end /\ rest.begin >= b.cap \div 2
  BY <1>5, <1>6, <1>9, <1>11, SlideKeeps DEF left
<1>12. CASE rest.begin # rest.end /\ ~(rest.begin >= b.cap \div 2)
  BY <1>5, <1>6, <1>9, <1>12 DEF left
<1> QED
  BY <1>10, <1>11, <1>12

=============================================================================
