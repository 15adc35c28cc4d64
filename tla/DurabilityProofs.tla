-------------------------- MODULE DurabilityProofs --------------------------
(***************************************************************************)
(* What the files of a server are worth, for every deployment in which     *)
(* they can be relied on and for any number of writes, rewrites, saves and *)
(* crashes: the log replays to the dataset, a restart loses at most a      *)
(* suffix of the writes and nothing that was synced, and an orderly stop   *)
(* loses nothing.                                                          *)
(***************************************************************************)
EXTENDS PersistenceProofs

-----------------------------------------------------------------------------
(* Sequences.                                                              *)

\* A sequence is its first n elements and the others.
LEMMA Split ==
  ASSUME NEW S, NEW b \in Seq(S), NEW n \in 0..Len(b)
  PROVE  SubSeq(b, 1, n) \o SubSeq(b, n + 1, Len(b)) = b
<1> DEFINE f == SubSeq(b, 1, n)
           r == SubSeq(b, n + 1, Len(b))
           c == f \o r
<1>1. f \in Seq(S) /\ Len(f) = n /\ \A i \in 1..n : f[i] = b[i]
  OBVIOUS
<1>2. /\ r \in Seq(S) /\ Len(r) = Len(b) - n
      /\ \A i \in 1..Len(b) - n : r[i] = b[n + i]
  <2>1. Len(b) \in Nat /\ n + 1 \in Int /\ \A i \in n + 1..Len(b) : b[i] \in S
    OBVIOUS
  <2> QED
    BY <2>1, SubSeqProperties
<1> HIDE DEF f, r, c
<1>3. c \in Seq(S) /\ Len(c) = Len(b)
  BY <1>1, <1>2 DEF c
<1>4. ASSUME NEW i \in 1..Len(b) PROVE c[i] = b[i]
  <2>1. CASE i <= n
    BY <1>1, <1>2, <2>1 DEF c
  <2>2. CASE i > n
    <3>1. i - n \in 1..Len(b) - n /\ n + (i - n) = i
      BY <2>2
    <3>2. c[i] = r[i - n]
      BY <1>1, <1>2, <2>2, <3>1 DEF c
    <3> QED
      BY <1>2, <3>1, <3>2
  <2> QED
    BY <2>1, <2>2
<1>5. c = b
  BY <1>3, <1>4, SeqEqual
<1> QED
  BY <1>5 DEF c, f, r

\* Concatenation of bytes adds their numbers.
LEMMA BytesCat ==
  ASSUME NEW a \in Bytes, NEW b \in Bytes
  PROVE  /\ a \o b \in Bytes /\ Len(a) \in Nat /\ Len(b) \in Nat
         /\ Len(a \o b) = Len(a) + Len(b) /\ Len(a \o b) \in Nat
BY DEF Bytes

\* Concatenation of bytes is associative.
LEMMA BytesAssociative ==
  ASSUME NEW a \in Bytes, NEW b \in Bytes, NEW c \in Bytes
  PROVE  (a \o b) \o c = a \o (b \o c)
BY DEF Bytes

\* The first Len(a) + n elements of a \o b.
LEMMA FirstOfCat ==
  ASSUME NEW S, NEW a \in Seq(S), NEW b \in Seq(S), NEW n \in 0..Len(b)
  PROVE  SubSeq(a \o b, 1, Len(a) + n) = a \o SubSeq(b, 1, n)
OBVIOUS

\* The beginning of a beginning.
LEMMA FirstOfFirst ==
  ASSUME NEW S, NEW a \in Seq(S), NEW n \in 0..Len(a), NEW m \in 0..n
  PROVE  SubSeq(SubSeq(a, 1, n), 1, m) = SubSeq(a, 1, m)
OBVIOUS

-----------------------------------------------------------------------------
(* Frames.                                                                 *)

\* The bytes t are the frames of the writes d, one after the other.
Frames(t, d) ==
  /\ Len(t) = 2 * Len(d)
  /\ \A i \in 1..Len(d) : t[2*i - 1] = <<d[i], 1>> /\ t[2*i] = <<d[i], 2>>

\* The half of an even and of an odd number.
LEMMA Halves ==
  ASSUME NEW n \in Nat
  PROVE  /\ n \div 2 \in Nat /\ 2 * (n \div 2) <= n /\ n < 2 * (n \div 2) + 2
         /\ \A m \in Nat : n <= 2 * m => n \div 2 <= m
OBVIOUS

\* The half of twice a number.
LEMMA HalfOfTwice ==
  ASSUME NEW m \in Nat
  PROVE  (2 * m) \div 2 = m
OBVIOUS

\* What aof_load makes of a log that was cut at any byte: the writes whose
\* frames are whole, and no others.
LEMMA ReplayOfCut ==
  ASSUME NEW t \in Bytes, NEW d \in Data, Frames(t, d), NEW n \in 0..Len(t)
  PROVE  /\ Parsed(SubSeq(t, 1, n)) = n \div 2
         /\ n \div 2 \in 0..Len(d)
         /\ Replay(SubSeq(t, 1, n)) = SubSeq(d, 1, n \div 2)
<1> DEFINE p == SubSeq(t, 1, n)
           h == n \div 2
           B == {i \in 1..h + 1 : i > h \/ ~Whole(p, i)}
<1>1. /\ Len(t) \in Nat /\ Len(d) \in Nat /\ n \in Nat
      /\ p \in Bytes /\ Len(p) = n /\ \A i \in 1..n : p[i] = t[i]
  BY DEF Bytes, Data
<1>2. h \in Nat /\ 2 * h <= n /\ h <= Len(d)
  BY <1>1, Halves DEF Frames
<1>3. Parsed(p) = Min(B) - 1
  BY <1>1 DEF Parsed
<1> HIDE DEF p, h
<1>4. ASSUME NEW i \in 1..h
      PROVE  p[2*i - 1] = <<d[i], 1>> /\ p[2*i] = <<d[i], 2>>
  <2>1. 2*i - 1 \in 1..n /\ 2*i \in 1..n /\ i \in 1..Len(d)
    BY <1>1, <1>2
  <2> QED
    BY <1>1, <2>1 DEF Frames
<1>5. \A i \in 1..h : Whole(p, i)
  BY <1>4 DEF Whole
<1>6. B = {h + 1}
  BY <1>2, <1>5
<1>7. Min(B) = h + 1
  BY <1>2, <1>6 DEF Min
<1>8. Parsed(p) = h
  BY <1>2, <1>3, <1>7
<1>9. Replay(p) = [i \in 1..h |-> d[i]]
  BY <1>4, <1>8 DEF Replay
<1>10. SubSeq(d, 1, h) = [i \in 1..h |-> d[i]]
  BY <1>1, <1>2 DEF Data
<1> QED
  BY <1>1, <1>2, <1>8, <1>9, <1>10 DEF p, h

\* A log of whole frames replays to its writes.
LEMMA ReplayOfFrames ==
  ASSUME NEW t \in Bytes, NEW d \in Data, Frames(t, d)
  PROVE  Replay(t) = d /\ Parsed(t) = Len(d)
<1>1. Len(t) \in 0..Len(t) /\ SubSeq(t, 1, Len(t)) = t
  BY DEF Bytes
<1>2. Len(t) = 2 * Len(d) /\ Len(d) \in Nat /\ SubSeq(d, 1, Len(d)) = d
  BY DEF Frames, Data
<1>3. Len(t) \div 2 = Len(d)
  BY <1>2, HalfOfTwice
<1> QED
  BY <1>1, <1>2, <1>3, ReplayOfCut

\* A propagated write adds its frame.
LEMMA FramesAppend ==
  ASSUME NEW t \in Bytes, NEW d \in Data, Frames(t, d), NEW w \in Nat
  PROVE  /\ t \o Frame(w) \in Bytes /\ Append(d, w) \in Data
         /\ Frames(t \o Frame(w), Append(d, w))
<1> DEFINE u == t \o Frame(w)
           e == Append(d, w)
<1>1. /\ Len(t) = 2 * Len(d) /\ Len(d) \in Nat
      /\ e \in Data /\ Len(e) = Len(d) + 1 /\ e[Len(d) + 1] = w
      /\ \A i \in 1..Len(d) : e[i] = d[i]
  BY DEF Frames, Data
<1>2. /\ u \in Bytes /\ Len(u) = Len(t) + 2
      /\ u[Len(t) + 1] = <<w, 1>> /\ u[Len(t) + 2] = <<w, 2>>
      /\ \A i \in 1..Len(t) : u[i] = t[i]
  BY DEF Frame, Bytes
<1> HIDE DEF u, e
<1>3. ASSUME NEW i \in 1..Len(e)
      PROVE  u[2*i - 1] = <<e[i], 1>> /\ u[2*i] = <<e[i], 2>>
  <2>1. CASE i \in 1..Len(d)
    <3>1. 2*i - 1 \in 1..Len(t) /\ 2*i \in 1..Len(t)
      BY <1>1, <2>1
    <3> QED
      BY <1>1, <1>2, <2>1, <3>1 DEF Frames
  <2>2. CASE i = Len(d) + 1
    <3>1. 2*i - 1 = Len(t) + 1 /\ 2*i = Len(t) + 2
      BY <1>1, <2>2
    <3> QED
      BY <1>1, <1>2, <2>2, <3>1
  <2> QED
    BY <1>1, <2>1, <2>2
<1>4. Len(u) = 2 * Len(e)
  BY <1>1, <1>2
<1> QED
  BY <1>1, <1>2, <1>3, <1>4 DEF Frames, u, e

\* The log of no writes.
LEMMA FramesEmpty == <<>> \in Bytes /\ <<>> \in Data /\ Frames(<<>>, <<>>)
BY DEF Bytes, Data, Frames

\* The whole frames of a log that was cut are the log of the first writes.
LEMMA FramesCut ==
  ASSUME NEW t \in Bytes, NEW d \in Data, Frames(t, d), NEW h \in 0..Len(d)
  PROVE  /\ SubSeq(t, 1, 2*h) \in Bytes /\ SubSeq(d, 1, h) \in Data
         /\ Frames(SubSeq(t, 1, 2*h), SubSeq(d, 1, h))
<1> DEFINE p == SubSeq(t, 1, 2*h)
           e == SubSeq(d, 1, h)
<1>1. Len(t) = 2 * Len(d) /\ Len(d) \in Nat /\ h \in Nat /\ 2*h \in 0..Len(t)
  BY DEF Frames, Data
<1>2. p \in Bytes /\ Len(p) = 2*h /\ \A i \in 1..2*h : p[i] = t[i]
  BY <1>1 DEF Bytes
<1>3. e \in Data /\ Len(e) = h /\ \A i \in 1..h : e[i] = d[i]
  BY <1>1 DEF Data
<1> HIDE DEF p, e
<1>4. ASSUME NEW i \in 1..h
      PROVE  p[2*i - 1] = <<e[i], 1>> /\ p[2*i] = <<e[i], 2>>
  <2>1. 2*i - 1 \in 1..2*h /\ 2*i \in 1..2*h /\ i \in 1..Len(d)
    BY <1>1
  <2> QED
    BY <1>2, <1>3, <2>1 DEF Frames
<1> QED
  BY <1>2, <1>3, <1>4 DEF Frames, p, e

-----------------------------------------------------------------------------
(* A snapshot and the log of what came after it.                           *)

\* The dataset db is the snapshot followed by the writes logged in t.
Logged(image, t, db) == \E d \in Data : db = image \o d /\ Frames(t, d)

\* Such a log loads to db, and each write after the snapshot has two halves.
LEMMA LoggedLoads ==
  ASSUME NEW image \in Data, NEW t \in Bytes, NEW db \in Data,
         Logged(image, t, db)
  PROVE  /\ image \o Replay(t) = db
         /\ Len(t) \in Nat /\ Len(image) \in Nat /\ Len(db) \in Nat
         /\ Len(t) = 2 * (Len(db) - Len(image)) /\ Len(image) <= Len(db)
<1>1. PICK d \in Data : db = image \o d /\ Frames(t, d)
  BY DEF Logged
<1>2. Replay(t) = d /\ Len(t) = 2 * Len(d)
  BY <1>1, ReplayOfFrames DEF Frames
<1>3. Len(db) = Len(image) + Len(d) /\ Len(d) \in Nat /\ Len(image) \in Nat
  BY <1>1 DEF Data
<1> QED
  BY <1>1, <1>2, <1>3

\* Each snapshot alone is a log of itself.
LEMMA LoggedEmpty ==
  ASSUME NEW db \in Data
  PROVE  Logged(db, <<>>, db)
<1>1. db = db \o <<>>
  BY DEF Data
<1> QED
  BY <1>1, FramesEmpty DEF Logged

\* A write goes to the dataset and to the log.
LEMMA LoggedWrite ==
  ASSUME NEW image \in Data, NEW t \in Bytes, NEW db \in Data,
         Logged(image, t, db), NEW w \in Nat
  PROVE  Logged(image, t \o Frame(w), Append(db, w))
<1>1. PICK d \in Data : db = image \o d /\ Frames(t, d)
  BY DEF Logged
<1>2. Append(image \o d, w) = image \o Append(d, w)
  BY <1>1 DEF Data
<1>3. Append(d, w) \in Data /\ Frames(t \o Frame(w), Append(d, w))
  BY <1>1, FramesAppend
<1> QED
  BY <1>1, <1>2, <1>3 DEF Logged

\* What aof_load makes of the first n bytes p of a log of db: a beginning of
\* db, with every whole frame, and the file cut after the last of them.
CutLoads(image, p, n, db) ==
  LET l == image \o Replay(p) IN
  /\ p \in Bytes /\ Len(p) = n
  /\ l \in Data /\ Begins(l, db) /\ Len(l) = Len(image) + n \div 2
  /\ 2 * Parsed(p) = 2 * (n \div 2)
  /\ SubSeq(p, 1, 2 * Parsed(p)) \in Bytes
  /\ Logged(image, SubSeq(p, 1, 2 * Parsed(p)), l)

\* A log cut after n bytes loads to the first writes; what aof_load leaves of
\* it is their log.
LEMMA LoggedCut ==
  ASSUME NEW image \in Data, NEW t \in Bytes, NEW db \in Data,
         Logged(image, t, db), NEW n \in 0..Len(t),
         NEW p, p = SubSeq(t, 1, n)
  PROVE  CutLoads(image, p, n, db)
<1>1. PICK d \in Data : db = image \o d /\ Frames(t, d)
  BY DEF Logged
<1> DEFINE h == n \div 2
           e == SubSeq(d, 1, h)
           l == image \o Replay(p)
<1>2. Parsed(p) = h /\ h \in 0..Len(d) /\ Replay(p) = e
  BY <1>1, ReplayOfCut
<1>3. h \in Nat /\ 2*h <= n /\ n \in Nat /\ Len(t) \in Nat
  BY Halves DEF Bytes
<1>4. /\ e \in Data /\ SubSeq(t, 1, 2*h) \in Bytes
      /\ Frames(SubSeq(t, 1, 2*h), e)
  BY <1>1, <1>2, FramesCut
<1>5. p \in Bytes /\ Len(p) = n
  BY <1>3 DEF Bytes
<1>6. SubSeq(p, 1, 2*h) = SubSeq(t, 1, 2*h)
  <2>1. 2*h \in 0..n
    BY <1>3
  <2> QED
    BY <2>1, FirstOfFirst DEF Bytes
<1> HIDE DEF h
<1>7. Len(e) = h
  BY <1>2 DEF Data
<1>8. l = image \o e
  BY <1>2
<1> HIDE DEF e, l
<1>9. l \in Data /\ Len(l) = Len(image) + h
  <2>1. e \in Seq(Nat) /\ image \in Seq(Nat)
    BY <1>4 DEF Data
  <2>2. l \in Seq(Nat) /\ Len(l) = Len(image) + Len(e)
    <3>1. \A x : x = image \o e => x \in Seq(Nat) /\ Len(x) = Len(image) + Len(e)
      BY <2>1
    <3> QED
      BY <1>8, <3>1, Zenon
  <2> QED
    BY <1>7, <2>2 DEF Data
<1>10. SubSeq(db, 1, Len(image) + h) = image \o e
  BY <1>1, <1>2, FirstOfCat DEF Data, e
<1>11. Len(db) = Len(image) + Len(d) /\ Len(image) \in Nat /\ Len(d) \in Nat
  BY <1>1 DEF Data
<1>12. SubSeq(l, 1, Len(l)) = l
  BY <1>9 DEF Data
<1>13. Logged(image, SubSeq(t, 1, 2*h), l)
  BY <1>4, <1>8 DEF Logged
<1>14. Begins(l, db)
  BY <1>2, <1>8, <1>9, <1>10, <1>11, <1>12 DEF Begins
<1> QED
  BY <1>2, <1>4, <1>5, <1>6, <1>9, <1>13, <1>14 DEF h, l, CutLoads

-----------------------------------------------------------------------------
(* The inductive invariant of a sound log.                                 *)

\* How many writes survive if the AOF keeps its first n bytes.
Covers(n) == Len(disk.aof.image) + n \div 2

\* The fsync job that is under way covers what it was queued for: what the
\* file held then, or all of a file that has been swapped in since.
JobInv ==
  /\ srv.job # Absent /\ srv.job.state = "queued" =>
       ghost.mark <= Covers(Len(disk.aof.tail))
  /\ srv.job # Absent /\ srv.job.state = "syncing" =>
       /\ srv.job.gen <= disk.aof.gen
       /\ IF srv.job.gen = disk.aof.gen
          THEN srv.job.len <= Len(disk.aof.tail) /\ ghost.mark <= Covers(srv.job.len)
          ELSE ghost.mark <= Covers(disk.aof.synced)

\* A running server: file and buffer are the log of the dataset, and so are a
\* rewrite's snapshot and delta.  A rewrite is reaped only with an empty buffer.
UpInv ==
  /\ srv.enable /\ srv.open
  /\ Logged(disk.aof.image, disk.aof.tail \o srv.buf, srv.db)
  /\ srv.aofChild # Absent =>
       /\ Config.limit["rewrite"] # 0
       /\ Logged(srv.aofChild.image, srv.delta, srv.db)
  /\ Config.limit["rewrite"] # 0 /\ srv.phase \in {"timers", "stopped"} =>
       srv.buf = <<>>
  /\ JobInv

\* A server that is gone: the file is a log of its dataset, cut somewhere, or
\* all of it after an orderly stop.
DownInv ==
  /\ srv = Died
  /\ \E t \in Bytes : \E n \in 0..Len(t) :
       /\ disk.aof.tail = SubSeq(t, 1, n)
       /\ Logged(disk.aof.image, t, ghost.seen)
  /\ ghost.clean => Logged(disk.aof.image, disk.aof.tail, ghost.seen)

LogInv ==
  /\ disk.conf /\ disk.aof # Absent
  /\ disk.aof.synced <= Len(disk.aof.tail)
  /\ ghost.safe <= Covers(disk.aof.synced)
  /\ IF srv.phase = "down" THEN DownInv ELSE UpInv

\* The parts of a state in which the log is sound have their types.
LEMMA LogTypes ==
  ASSUME TypeOK, disk.aof # Absent
  PROVE  /\ disk.aof \in AofFile /\ disk.aof.image \in Data
         /\ disk.aof.tail \in Bytes /\ disk.aof.synced \in Nat
         /\ disk.aof.gen \in Nat
         /\ Len(disk.aof.image) \in Nat /\ Len(disk.aof.tail) \in Nat
         /\ srv.buf \in Bytes /\ Len(srv.buf) \in Nat /\ srv.delta \in Bytes
         /\ srv.db \in Data /\ ghost.safe \in Int /\ ghost.mark \in Int
         /\ ghost.seen \in Data /\ disk.aof.tail \o srv.buf \in Bytes
         /\ srv.aofChild # Absent => srv.aofChild.image \in Data
<1>1. disk.aof \in AofFile
  BY DEF TypeOK, Files
<1>2. /\ disk.aof.image \in Data /\ disk.aof.tail \in Bytes
      /\ disk.aof.synced \in Nat /\ disk.aof.gen \in Nat
  BY <1>1 DEF AofFile
<1>3. /\ srv.buf \in Bytes /\ srv.db \in Data /\ srv.delta \in Bytes
      /\ srv.aofChild \in Child \cup {Absent}
  BY DEF TypeOK, Memory
<1>4. ghost.safe \in Int /\ ghost.mark \in Int /\ ghost.seen \in Data
  BY DEF TypeOK, Ghosts
<1>5. /\ Len(disk.aof.image) \in Nat /\ Len(disk.aof.tail) \in Nat
      /\ Len(srv.buf) \in Nat /\ disk.aof.tail \o srv.buf \in Bytes
  BY <1>2, <1>3 DEF Data, Bytes
<1>6. srv.aofChild # Absent => srv.aofChild.image \in Data
  BY <1>3 DEF Child
<1> QED
  BY <1>1, <1>2, <1>3, <1>4, <1>5, <1>6

\* A step of a running server that leaves the log alone.
LEMMA LogUntouched ==
  ASSUME LogInv, srv.phase # "down", srv'.phase # "down", plan' = plan,
         disk'.aof = disk.aof, disk'.conf = disk.conf,
         ghost'.safe = ghost.safe, ghost'.mark = ghost.mark,
         srv'.enable = srv.enable, srv'.open = srv.open, srv'.buf = srv.buf,
         srv'.db = srv.db, srv'.job = srv.job,
         \/ srv'.aofChild = Absent
         \/ /\ srv.aofChild # Absent /\ srv'.delta = srv.delta
            /\ srv'.aofChild.image = srv.aofChild.image,
         srv'.phase \in {"timers", "stopped"} => srv'.phase = srv.phase
  PROVE  LogInv'
<1>1. Covers(Len(disk.aof.tail))' = Covers(Len(disk.aof.tail))
      /\ Covers(disk.aof.synced)' = Covers(disk.aof.synced)
  BY DEF Covers
<1>2. JobInv'
  BY <1>1 DEF JobInv, Covers, LogInv, UpInv
<1>3. UpInv'
  BY <1>2 DEF LogInv, UpInv, Config
<1> QED
  BY <1>1, <1>3 DEF LogInv

\* A write in either phase: the buffer, and the delta of a rewrite under way,
\* grow with the dataset.
LEMMA LogWritten ==
  ASSUME TypeOK, LogInv, Written, plan' = plan,
         srv.phase \in {"serve", "timers"},
         srv.phase = "timers" => Config.limit["rewrite"] = 0
  PROVE  LogInv'
<1> DEFINE w == used.write + used.resumed + 1
           d == Append(srv.db, w)
           b == srv.buf \o Frame(w)
           e == srv.delta \o Frame(w)
           aof == disk.aof
<1>1. UpInv /\ aof # Absent /\ srv.enable
  BY DEF LogInv, UpInv
<1>2. /\ aof.image \in Data /\ aof.tail \in Bytes /\ srv.buf \in Bytes
      /\ srv.db \in Data /\ srv.delta \in Bytes /\ aof.tail \o srv.buf \in Bytes
      /\ srv.aofChild # Absent => srv.aofChild.image \in Data
  BY <1>1, LogTypes
<1>3. w \in Nat
  <2>1. used.write \in Nat /\ used.resumed \in Nat
    BY DEF TypeOK, Faults
  <2> QED
    BY <2>1
<1>4. disk' = disk /\ ghost' = ghost
  BY DEF Written
<1>5. /\ srv'.db = d /\ srv'.buf = b
      /\ srv'.delta = IF srv.aofChild = Absent THEN srv.delta ELSE e
      /\ srv'.phase = srv.phase /\ srv'.enable = srv.enable
      /\ srv'.open = srv.open /\ srv'.aofChild = srv.aofChild
      /\ srv'.job = srv.job
  <2> DEFINE n == srv.dirty + 1
             r == [srv EXCEPT !.db = d, !.dirty = n]
  <2> HIDE DEF w
  <2>1. srv' = Propagated(r, w)
    BY DEF Written, w
  <2>2. srv \in Memory
    BY DEF TypeOK
  <2> HIDE DEF d, n
  <2>3. /\ r.db = d /\ r.buf = srv.buf /\ r.delta = srv.delta
        /\ r.phase = srv.phase /\ r.enable = srv.enable /\ r.open = srv.open
        /\ r.aofChild = srv.aofChild /\ r.job = srv.job
        /\ DOMAIN r = DOMAIN srv
    BY <2>2 DEF Memory
  <2> HIDE DEF r
  <2>4. srv' = [r EXCEPT !.buf = b,
                         !.delta = IF srv.aofChild = Absent THEN srv.delta ELSE e]
    BY <1>1, <2>1, <2>3 DEF Propagated
  <2> HIDE DEF b, e
  <2>5. "buf" \in DOMAIN r /\ "delta" \in DOMAIN r
    BY <2>2, <2>3 DEF Memory
  <2> QED
    BY <2>3, <2>4, <2>5
<1> HIDE DEF w
<1>6. Logged(aof.image, aof.tail \o b, d)
  <2>1. Logged(aof.image, (aof.tail \o srv.buf) \o Frame(w), d)
    BY <1>1, <1>2, <1>3, LoggedWrite DEF UpInv
  <2>2. Frame(w) \in Bytes
    BY <1>3 DEF Frame, Bytes
  <2>3. (aof.tail \o srv.buf) \o Frame(w) = aof.tail \o (srv.buf \o Frame(w))
    BY <1>2, <2>2, BytesAssociative
  <2> QED
    BY <2>1, <2>3
<1>7. srv.aofChild # Absent => Logged(srv.aofChild.image, e, d)
  BY <1>1, <1>2, <1>3, LoggedWrite DEF UpInv
<1> HIDE DEF b, d, e
<1>8. JobInv'
  BY <1>1, <1>4, <1>5 DEF UpInv, JobInv, Covers
<1>9. UpInv'
  BY <1>1, <1>4, <1>5, <1>6, <1>7, <1>8 DEF UpInv, Config
<1> QED
  BY <1>4, <1>5, <1>9 DEF LogInv, Covers

\* What an append to the log covers: a and b are the bytes in the file and
\* in the buffer, l and i the writes of the dataset and of the snapshot.
LEMMA HalvesOfLog ==
  ASSUME NEW a \in Nat, NEW b \in Nat, NEW l \in Nat, NEW i \in Nat,
         a + b = 2 * (l - i)
  PROVE  l - (b + 1) \div 2 = i + a \div 2
OBVIOUS

\* Flushed counts the writes that the bytes t in the file cover, with the bytes
\* r still in the buffer.
LEMMA FlushedIsCovered ==
  ASSUME NEW image \in Data, NEW db \in Data, NEW t \in Bytes, NEW r \in Bytes,
         Logged(image, t \o r, db)
  PROVE  Len(db) - (Len(r) + 1) \div 2 = Len(image) + Len(t) \div 2
<1>1. /\ t \o r \in Bytes /\ Len(t) \in Nat /\ Len(r) \in Nat
      /\ Len(t \o r) = Len(t) + Len(r)
  BY BytesCat
<1>2. /\ Len(t) + Len(r) = 2 * (Len(db) - Len(image))
      /\ Len(db) \in Nat /\ Len(image) \in Nat
  BY <1>1, LoggedLoads
<1>3. PICK a \in Nat, b \in Nat, l \in Nat, i \in Nat :
        a = Len(t) /\ b = Len(r) /\ l = Len(db) /\ i = Len(image)
  BY <1>1, <1>2
<1>4. a + b = 2 * (l - i)
  BY <1>2, <1>3
<1>5. l - (b + 1) \div 2 = i + a \div 2
  BY <1>4, HalvesOfLog
<1> QED
  BY <1>3, <1>5

\* More bytes cover no fewer writes.
LEMMA Wider ==
  ASSUME NEW m \in Int, NEW i \in Nat, NEW a \in Nat, NEW b \in Nat, a <= b,
         m <= i + a \div 2
  PROVE  m <= i + b \div 2
OBVIOUS

\* The bytes a write() of k bytes moves from the buffer b to the file a.
LEMMA FlushBytes ==
  ASSUME NEW a \in Bytes, NEW b \in Bytes, NEW k \in 0..Len(b)
  PROVE  LET t == a \o SubSeq(b, 1, k)
             r == SubSeq(b, k + 1, Len(b)) IN
         /\ t \in Bytes /\ Len(t) \in Nat /\ Len(t) = Len(a) + k
         /\ r \in Bytes /\ Len(r) \in Nat /\ t \o r = a \o b
         /\ k = Len(b) => r = <<>>
<1> DEFINE f == SubSeq(b, 1, k)
           r == SubSeq(b, k + 1, Len(b))
<1>1. f \in Bytes /\ Len(f) = k /\ r \in Bytes /\ Len(r) \in Nat
  BY DEF Bytes
<1>2. k = Len(b) => r = <<>>
  BY DEF Bytes
<1>3. (a \o f) \o r = a \o b
  <2>1. f \o r = b
    BY Split DEF Bytes
  <2> HIDE DEF f, r
  <2>2. (a \o f) \o r = a \o (f \o r)
    BY <1>1, BytesAssociative
  <2> QED
    BY <2>1, <2>2
<1> HIDE DEF f, r
<1>4. a \o f \in Bytes /\ Len(a \o f) = Len(a) + k /\ Len(a \o f) \in Nat
  BY <1>1, BytesCat
<1> QED
  BY <1>1, <1>2, <1>3, <1>4 DEF f, r

\* The job under way keeps its promise while the file grows.
LEMMA JobKept ==
  ASSUME TypeOK, TypeOK', JobInv, disk.aof # Absent, disk'.aof # Absent,
         srv'.job = srv.job, ghost'.mark = ghost.mark,
         disk'.aof.gen = disk.aof.gen, disk'.aof.image = disk.aof.image,
         Len(disk.aof.tail) <= Len(disk'.aof.tail),
         disk.aof.synced <= disk'.aof.synced
  PROVE  JobInv'
<1>1. /\ Len(disk.aof.image) \in Nat /\ Len(disk.aof.tail) \in Nat
      /\ disk.aof.synced \in Nat /\ ghost.mark \in Int
      /\ Len(disk'.aof.tail) \in Nat /\ disk'.aof.synced \in Nat
  <2>1. disk'.aof \in AofFile
    BY DEF TypeOK, Files
  <2>2. disk'.aof.tail \in Bytes /\ disk'.aof.synced \in Nat
    BY <2>1 DEF AofFile
  <2> QED
    BY <2>2, BytesCat, LogTypes
<1>2. /\ ghost.mark <= Covers(Len(disk.aof.tail)) =>
           ghost'.mark <= Covers(Len(disk.aof.tail))'
      /\ ghost.mark <= Covers(disk.aof.synced) =>
           ghost'.mark <= Covers(disk.aof.synced)'
  BY <1>1, Wider DEF Covers
<1>3. CASE srv.job # Absent /\ srv.job.state = "queued"
  BY <1>2, <1>3 DEF JobInv
<1>4. CASE srv.job # Absent /\ srv.job.state = "syncing"
  <2>1. srv.job.len \in Nat
    BY <1>4 DEF TypeOK, Memory, Job
  <2>2. Covers(srv.job.len)' = Covers(srv.job.len)
    BY DEF Covers
  <2>3. srv.job.len <= Len(disk.aof.tail) => srv.job.len <= Len(disk'.aof.tail)
    BY <1>1, <2>1
  <2> QED
    BY <1>2, <1>4, <2>2, <2>3 DEF JobInv
<1> QED
  BY <1>3, <1>4 DEF JobInv

\* What aof_flush does to the files and the memory while the AOF is open.
LEMMA FlushEffect ==
  ASSUME TypeOK, srv.open, disk.aof # Absent, NEW k \in 0..Len(srv.buf),
         NEW next \in {"timers", "stopped"}, aof_flush(k, next)
  PROVE  LET t == disk.aof.tail \o SubSeq(srv.buf, 1, k) IN
         /\ disk'.conf = disk.conf /\ disk'.aof # Absent
         /\ disk'.aof.image = disk.aof.image /\ disk'.aof.gen = disk.aof.gen
         /\ disk'.aof.tail = t
         /\ \/ disk'.aof.synced = disk.aof.synced /\ ghost'.safe = ghost.safe
            \/ disk'.aof.synced = Len(t) /\ ghost'.safe = Flushed(srv')
         /\ ghost'.mark = ghost.mark
         /\ srv'.buf = SubSeq(srv.buf, k + 1, Len(srv.buf))
         /\ srv'.phase = next /\ srv'.db = srv.db /\ srv'.open = srv.open
         /\ srv'.enable = srv.enable /\ srv'.delta = srv.delta
         /\ srv'.aofChild = srv.aofChild /\ srv'.job = srv.job
         /\ k = Len(srv.buf) \/ Spend("short")
<1> DEFINE t == disk.aof.tail \o SubSeq(srv.buf, 1, k)
           f == [disk.aof EXCEPT !.tail = t]
           a == IF srv.open /\ k > 0 THEN Appended(disk.aof, k) ELSE disk.aof
           r == SubSeq(srv.buf, k + 1, Len(srv.buf))
           e == IF srv.open /\ srv.buf # <<>> THEN k < Len(srv.buf) ELSE srv.err
<1>1. /\ disk.aof \in AofFile /\ disk.aof.tail \in Bytes /\ srv.buf \in Bytes
      /\ Len(srv.buf) \in Nat
  BY LogTypes
<1>2. a = f
  <2>1. k > 0 => a = f
    BY DEF Appended
  <2>2. ASSUME k = 0 PROVE t = disk.aof.tail
    BY <1>1, <2>2 DEF Bytes
  <2>3. t = disk.aof.tail => f = disk.aof
    BY <1>1 DEF AofFile
  <2> QED
    BY <1>1, <2>1, <2>2, <2>3
<1>3. /\ srv' = [srv EXCEPT !.phase = next, !.buf = r, !.err = e,
                            !.stopping = (next = "stopped")]
  BY DEF aof_flush
<1>4. \/ /\ disk' = [disk EXCEPT !.aof = a] /\ ghost' = ghost
         /\ k = Len(srv.buf) \/ Spend("short")
      \/ /\ disk' = [disk EXCEPT !.aof = [a EXCEPT !.synced = Len(a.tail)]]
         /\ ghost' = [ghost EXCEPT !.safe = Flushed(srv')]
         /\ k = Len(srv.buf) \/ Spend("short")
  <2>1. k < Len(srv.buf) \/ k = Len(srv.buf)
    BY <1>1
  <2> QED
    BY <2>1 DEF aof_flush
<1> HIDE DEF a, t, r, e
<1>5. /\ srv'.buf = r /\ srv'.phase = next /\ srv'.db = srv.db
      /\ srv'.open = srv.open /\ srv'.enable = srv.enable
      /\ srv'.delta = srv.delta /\ srv'.aofChild = srv.aofChild
      /\ srv'.job = srv.job
  BY <1>3 DEF TypeOK, Memory
<1>6. /\ f.image = disk.aof.image /\ f.gen = disk.aof.gen /\ f.tail = t
      /\ f.synced = disk.aof.synced /\ f # Absent
  <2>1. t \in Bytes
    BY <1>1 DEF Bytes, t
  <2>2. f \in AofFile
    BY <1>1, <2>1 DEF AofFile
  <2> QED
    BY <1>1, <2>2, AbsentAssumption DEF AofFile
<1>7. CASE disk' = [disk EXCEPT !.aof = a] /\ ghost' = ghost
  <2>1. disk'.aof = f /\ disk'.conf = disk.conf
    BY <1>2, <1>7 DEF TypeOK, Files
  <2> QED
    BY <1>4, <1>5, <1>6, <1>7, <2>1 DEF t, r
<1>8. CASE /\ disk' = [disk EXCEPT !.aof = [a EXCEPT !.synced = Len(a.tail)]]
           /\ ghost' = [ghost EXCEPT !.safe = Flushed(srv')]
  <2> DEFINE g == [f EXCEPT !.synced = Len(t)]
  <2>1. disk'.aof = g /\ disk'.conf = disk.conf
    BY <1>2, <1>6, <1>8 DEF TypeOK, Files
  <2>2. g \in AofFile
    <3>1. t \in Bytes /\ Len(t) \in Nat
      BY <1>1, FlushBytes DEF t
    <3> QED
      BY <1>1, <3>1 DEF AofFile
  <2>3. /\ g.image = disk.aof.image /\ g.gen = disk.aof.gen /\ g.tail = t
        /\ g.synced = Len(t) /\ g # Absent
    BY <1>1, <2>2, AbsentAssumption DEF AofFile
  <2>4. ghost'.mark = ghost.mark /\ ghost'.safe = Flushed(srv')
    BY <1>8 DEF TypeOK, Ghosts
  <2> HIDE DEF g
  <2> QED
    BY <1>4, <1>5, <2>1, <2>3, <2>4 DEF t, r
<1> QED
  BY <1>4, <1>7, <1>8

\* aof_flush keeps the log: bytes move from the buffer to the file, and what is
\* marked as synced is in the file.
LEMMA LogFlushed ==
  ASSUME TypeOK, TypeOK', plan \in DOMAIN Deployments, LogSound, LogInv,
         plan' = plan, srv.phase # "down", NEW k \in 0..Len(srv.buf),
         NEW next \in {"timers", "stopped"}, aof_flush(k, next)
  PROVE  LogInv'
<1> DEFINE t == disk.aof.tail \o SubSeq(srv.buf, 1, k)
           r == SubSeq(srv.buf, k + 1, Len(srv.buf))
<1>1. UpInv /\ disk.aof # Absent /\ srv.open
  BY DEF LogInv, UpInv
<1>2. /\ disk'.conf = disk.conf /\ disk'.aof # Absent
      /\ disk'.aof.image = disk.aof.image /\ disk'.aof.gen = disk.aof.gen
      /\ disk'.aof.tail = t
      /\ \/ disk'.aof.synced = disk.aof.synced /\ ghost'.safe = ghost.safe
         \/ disk'.aof.synced = Len(t) /\ ghost'.safe = Flushed(srv')
      /\ ghost'.mark = ghost.mark
      /\ srv'.buf = r
      /\ srv'.phase = next /\ srv'.db = srv.db /\ srv'.open = srv.open
      /\ srv'.enable = srv.enable /\ srv'.delta = srv.delta
      /\ srv'.aofChild = srv.aofChild /\ srv'.job = srv.job
      /\ k = Len(srv.buf) \/ Spend("short")
  BY <1>1, FlushEffect
<1>3. /\ disk.aof.tail \in Bytes /\ srv.buf \in Bytes /\ srv.db \in Data
      /\ disk.aof.image \in Data /\ disk.aof.synced \in Nat
      /\ Len(disk.aof.tail) \in Nat /\ Len(disk.aof.image) \in Nat
      /\ Len(srv.buf) \in Nat /\ ghost.safe \in Int /\ ghost.mark \in Int
  BY <1>1, LogTypes
<1>4. /\ t \in Bytes /\ Len(t) \in Nat /\ Len(t) = Len(disk.aof.tail) + k
      /\ r \in Bytes /\ Len(r) \in Nat /\ t \o r = disk.aof.tail \o srv.buf
      /\ k = Len(srv.buf) => r = <<>>
  BY <1>3, FlushBytes
<1> HIDE DEF t, r
<1>7. Logged(disk.aof.image, t \o r, srv.db)
  BY <1>1, <1>4 DEF UpInv
<1>8. Config.limit["rewrite"] # 0 => r = <<>>
  <2>1. "short" \in Faults
    BY DEF Faults
  <2>2. Spend("short") => Config.limit["short"] # 0
    BY <2>1, Allowed
  <2> QED
    BY <1>2, <1>4, <2>2 DEF LogSound
<1>9. Flushed(srv') = Len(disk.aof.image) + Len(t) \div 2
  <2>1. Len(srv.db) - (Len(r) + 1) \div 2 = Len(disk.aof.image) + Len(t) \div 2
    BY <1>3, <1>4, <1>7, FlushedIsCovered, ZenonT(30)
  <2> QED
    BY <1>2, <2>1 DEF Flushed
<1>10. /\ disk'.aof.synced <= Len(disk'.aof.tail)
       /\ ghost'.safe <= Covers(disk.aof.synced)'
  <2>1. CASE disk'.aof.synced = disk.aof.synced /\ ghost'.safe = ghost.safe
    BY <1>2, <1>3, <1>4, <2>1 DEF LogInv, Covers
  <2>2. CASE disk'.aof.synced = Len(t) /\ ghost'.safe = Flushed(srv')
    <3>1. ghost'.safe = Covers(disk.aof.synced)'
      BY <1>2, <1>9, <2>2 DEF Covers
    <3>2. ghost'.safe \in Int
      BY DEF TypeOK, Ghosts
    <3> QED
      BY <1>2, <1>4, <2>2, <3>1, <3>2
  <2> QED
    BY <1>2, <2>1, <2>2
<1>11. JobInv'
  <2>1. /\ Len(disk.aof.tail) <= Len(disk'.aof.tail)
        /\ disk.aof.synced <= disk'.aof.synced
    BY <1>2, <1>3, <1>4 DEF LogInv
  <2> QED
    BY <1>1, <1>2, <2>1, JobKept DEF UpInv
<1>12. UpInv'
  BY <1>1, <1>2, <1>7, <1>8, <1>11 DEF UpInv, Config
<1> QED
  BY <1>2, <1>10, <1>12 DEF LogInv

\* No part of the file covers more than the dataset.
LEMMA CoversAtMost ==
  ASSUME TypeOK, disk.aof # Absent, NEW n \in Nat, n <= Len(disk.aof.tail),
         Logged(disk.aof.image, disk.aof.tail \o srv.buf, srv.db)
  PROVE  Covers(n) \in Nat /\ Covers(n) <= Len(srv.db)
<1>1. /\ disk.aof.image \in Data /\ disk.aof.tail \in Bytes /\ srv.buf \in Bytes
      /\ srv.db \in Data
  BY LogTypes
<1>2. /\ disk.aof.tail \o srv.buf \in Bytes /\ Len(disk.aof.tail) \in Nat
      /\ Len(srv.buf) \in Nat
      /\ Len(disk.aof.tail \o srv.buf) = Len(disk.aof.tail) + Len(srv.buf)
  BY <1>1, BytesCat
<1>3. /\ Len(disk.aof.tail) + Len(srv.buf) = 2 * (Len(srv.db) - Len(disk.aof.image))
      /\ Len(srv.db) \in Nat /\ Len(disk.aof.image) \in Nat
  BY <1>1, <1>2, LoggedLoads
<1>4. PICK a \in Nat, b \in Nat, l \in Nat, i \in Nat :
        /\ a = Len(disk.aof.tail) /\ b = Len(srv.buf) /\ l = Len(srv.db)
        /\ i = Len(disk.aof.image)
  BY <1>2, <1>3
<1>5. a + b = 2 * (l - i) /\ n <= a
  BY <1>3, <1>4
<1>6. i + n \div 2 \in Nat /\ i + n \div 2 <= l
  BY <1>5
<1> QED
  BY <1>4, <1>6 DEF Covers

\* A queued fsync is marked with what the file covers.
LEMMA LogQueued ==
  ASSUME TypeOK, LogInv, QueueFsync, plan' = plan
  PROVE  LogInv'
<1>1. UpInv /\ disk.aof # Absent /\ srv.phase = "timers"
  BY DEF LogInv, QueueFsync
<1>2. /\ disk.aof.image \in Data /\ disk.aof.tail \in Bytes /\ srv.buf \in Bytes
      /\ srv.db \in Data
  BY <1>1, LogTypes
<1>3. /\ srv' = [srv EXCEPT !.job = [state |-> "queued"]]
      /\ ghost' = [ghost EXCEPT !.mark = Flushed(srv)] /\ disk' = disk
  BY DEF QueueFsync
<1>4. /\ srv'.job.state = "queued" /\ srv'.phase = srv.phase
      /\ srv'.enable = srv.enable /\ srv'.open = srv.open /\ srv'.buf = srv.buf
      /\ srv'.db = srv.db /\ srv'.delta = srv.delta
      /\ srv'.aofChild = srv.aofChild
  BY <1>3 DEF TypeOK, Memory
<1>5. ghost'.safe = ghost.safe /\ ghost'.mark = Flushed(srv)
  BY <1>3 DEF TypeOK, Ghosts
<1>6. Flushed(srv) = Covers(Len(disk.aof.tail))
  <2>1. Len(srv.db) - (Len(srv.buf) + 1) \div 2
          = Len(disk.aof.image) + Len(disk.aof.tail) \div 2
    BY <1>1, <1>2, FlushedIsCovered DEF UpInv
  <2> QED
    BY <2>1 DEF Flushed, Covers
<1>7. Covers(Len(disk.aof.tail)) \in Nat
  <2>1. Len(disk.aof.tail) \in Nat
    BY <1>1, LogTypes
  <2>2. Len(disk.aof.tail) <= Len(disk.aof.tail)
    BY <2>1
  <2> QED
    BY <1>1, <2>1, <2>2, CoversAtMost DEF UpInv
<1>8. ghost'.mark <= Covers(Len(disk.aof.tail))'
  BY <1>3, <1>5, <1>6, <1>7 DEF Covers
<1>9. JobInv'
  BY <1>4, <1>8 DEF JobInv
<1>10. UpInv'
  BY <1>1, <1>3, <1>4, <1>9 DEF UpInv, Config
<1> QED
  BY <1>1, <1>3, <1>4, <1>5, <1>10 DEF LogInv, Covers

\* The job takes the descriptor: it will sync what the file holds by then.
LEMMA LogJobStarts ==
  ASSUME TypeOK, LogInv, FsyncStarts, plan' = plan
  PROVE  LogInv'
<1> DEFINE j == [state |-> "syncing", gen |-> disk.aof.gen,
                 len |-> Len(disk.aof.tail)]
<1>1. srv.phase # "down"
  BY DiedType DEF LogInv, DownInv, FsyncStarts
<1>2. UpInv /\ disk.aof # Absent /\ srv.open
  BY <1>1 DEF LogInv, UpInv
<1>3. /\ disk.aof.gen \in Nat /\ Len(disk.aof.tail) \in Nat
  BY <1>2, LogTypes
<1>4. srv' = [srv EXCEPT !.job = j] /\ disk' = disk /\ ghost' = ghost
  BY <1>2 DEF FsyncStarts
<1>5. j.state = "syncing" /\ j.gen = disk.aof.gen /\ j.len = Len(disk.aof.tail)
  OBVIOUS
<1> HIDE DEF j
<1>6. /\ srv'.job = j /\ srv'.phase = srv.phase
      /\ srv'.enable = srv.enable /\ srv'.open = srv.open /\ srv'.buf = srv.buf
      /\ srv'.db = srv.db /\ srv'.delta = srv.delta
      /\ srv'.aofChild = srv.aofChild
  BY <1>4 DEF TypeOK, Memory
<1>7. ghost.mark <= Covers(Len(disk.aof.tail))
  BY <1>2 DEF UpInv, JobInv, FsyncStarts
<1>8. JobInv'
  <2>1. disk.aof.gen <= disk.aof.gen /\ Len(disk.aof.tail) <= Len(disk.aof.tail)
    BY <1>3
  <2> QED
    BY <1>4, <1>5, <1>6, <1>7, <2>1 DEF JobInv, Covers
<1>9. UpInv'
  BY <1>2, <1>4, <1>6, <1>8 DEF UpInv, Config
<1> QED
  BY <1>1, <1>4, <1>6, <1>9 DEF LogInv, Covers

\* The maximum of two integers.
LEMMA MaxBounds ==
  ASSUME NEW a \in Int, NEW b \in Int
  PROVE  /\ Max({a, b}) \in Int /\ a <= Max({a, b}) /\ b <= Max({a, b})
         /\ \A c \in Int : a <= c /\ b <= c => Max({a, b}) <= c
<1>1. \E x \in {a, b} : \A y \in {a, b} : x >= y
  <2>1. a >= b \/ b >= a
    OBVIOUS
  <2> QED
    BY <2>1
<1>2. Max({a, b}) \in {a, b} /\ \A y \in {a, b} : Max({a, b}) >= y
  BY <1>1 DEF Max
<1> QED
  BY <1>2

\* The job ends: what it was marked with is synced in the live file, or was
\* synced before that file was swapped in.
LEMMA LogJobEnds ==
  ASSUME TypeOK, TypeOK', LogInv, FsyncEnds, plan' = plan
  PROVE  LogInv'
<1> DEFINE top == Max({disk.aof.synced, srv.job.len})
           safe == Max({ghost.safe, ghost.mark})
<1>1. srv.phase # "down"
  BY DiedType DEF LogInv, DownInv, FsyncEnds
<1>2. UpInv /\ disk.aof # Absent /\ JobInv
  BY <1>1 DEF LogInv, UpInv
<1>3. /\ disk.aof.gen \in Nat /\ Len(disk.aof.tail) \in Nat
      /\ disk.aof.synced \in Nat /\ Len(disk.aof.image) \in Nat
      /\ ghost.safe \in Int /\ ghost.mark \in Int /\ disk.aof \in AofFile
  BY <1>2, LogTypes
<1>4. srv.job.len \in Nat /\ srv.job.state = "syncing" /\ srv.job # Absent
  BY DEF FsyncEnds, TypeOK, Memory, Job
<1>5. srv' = [srv EXCEPT !.job = Absent]
  BY DEF FsyncEnds
<1>6. /\ srv'.job = Absent /\ srv'.phase = srv.phase
      /\ srv'.enable = srv.enable /\ srv'.open = srv.open /\ srv'.buf = srv.buf
      /\ srv'.db = srv.db /\ srv'.delta = srv.delta
      /\ srv'.aofChild = srv.aofChild
  BY <1>5 DEF TypeOK, Memory
<1>7. /\ disk'.conf = disk.conf /\ disk'.aof # Absent
      /\ disk'.aof.image = disk.aof.image /\ disk'.aof.tail = disk.aof.tail
      /\ \/ disk'.aof.synced = disk.aof.synced /\ ghost'.safe = ghost.safe
         \/ /\ disk.aof.gen = srv.job.gen
            /\ disk'.aof.synced = top /\ ghost'.safe = safe
         \/ /\ disk.aof.gen # srv.job.gen
            /\ disk'.aof.synced = disk.aof.synced /\ ghost'.safe = safe
  <2>1. CASE disk' = disk /\ ghost' = ghost
    BY <1>2, <2>1
  <2>2. CASE /\ disk' = IF disk.aof.gen # srv.job.gen THEN disk
                        ELSE [disk EXCEPT !.aof.synced = top]
             /\ ghost' = [ghost EXCEPT !.safe = safe]
    <3> HIDE DEF top, safe
    <3>1. ghost'.safe = safe
      BY <2>2 DEF TypeOK, Ghosts
    <3>2. CASE disk.aof.gen # srv.job.gen
      BY <1>2, <2>2, <3>1, <3>2
    <3>3. CASE disk.aof.gen = srv.job.gen
      <4>1. disk' = [disk EXCEPT !.aof = [disk.aof EXCEPT !.synced = top]]
        BY <2>2, <3>3
      <4>2. disk'.aof = [disk.aof EXCEPT !.synced = top] /\ disk'.conf = disk.conf
        BY <4>1 DEF TypeOK, Files
      <4>3. /\ disk'.aof.synced = top /\ disk'.aof.image = disk.aof.image
            /\ disk'.aof.tail = disk.aof.tail
        BY <1>3, <4>2 DEF AofFile
      <4>4. disk'.aof # Absent
        <5>1. top \in Nat
          <6>1. disk.aof.synced \in Int /\ srv.job.len \in Int
            BY <1>3, <1>4
          <6>2. top \in {disk.aof.synced, srv.job.len}
            BY <6>1, MaxOfTwo, Zenon DEF top
          <6> QED
            BY <1>3, <1>4, <6>2
        <5>2. disk'.aof \in AofFile
          BY <1>3, <4>2, <5>1 DEF AofFile
        <5> QED
          BY <5>2, AbsentAssumption
      <4> QED
        BY <3>1, <3>3, <4>2, <4>3, <4>4
    <3> QED
      BY <3>2, <3>3
  <2> QED
    BY <2>1, <2>2 DEF FsyncEnds
<1>8. /\ top \in Nat /\ disk.aof.synced <= top /\ srv.job.len <= top
      /\ srv.job.len <= Len(disk.aof.tail) => top <= Len(disk.aof.tail)
  <2>1. disk.aof.synced <= Len(disk.aof.tail)
    BY DEF LogInv
  <2>2. disk.aof.synced \in Int /\ srv.job.len \in Int
    BY <1>3, <1>4
  <2>3. /\ top \in Int /\ disk.aof.synced <= top /\ srv.job.len <= top
        /\ \A c \in Int : disk.aof.synced <= c /\ srv.job.len <= c => top <= c
    BY <2>2, MaxBounds
  <2> HIDE DEF top
  <2>4. top \in Nat
    BY <1>3, <2>3
  <2> QED
    BY <1>3, <1>4, <2>1, <2>3, <2>4
<1>9. safe \in {ghost.safe, ghost.mark}
  BY <1>3, MaxOfTwo
<1> HIDE DEF top, safe
<1>10. /\ disk'.aof.synced <= Len(disk'.aof.tail)
       /\ ghost'.safe <= Covers(disk.aof.synced)'
  <2>1. CASE disk'.aof.synced = disk.aof.synced /\ ghost'.safe = ghost.safe
    BY <1>7, <2>1 DEF LogInv, Covers
  <2>2. CASE /\ disk.aof.gen = srv.job.gen
             /\ disk'.aof.synced = top /\ ghost'.safe = safe
    <3>1. srv.job.len <= Len(disk.aof.tail) /\ ghost.mark <= Covers(srv.job.len)
      BY <1>2, <1>4, <2>2 DEF JobInv
    <3>2. ghost.mark <= Len(disk.aof.image) + top \div 2
      BY <1>3, <1>4, <1>8, <3>1, Wider DEF Covers
    <3>3. ghost.safe <= Len(disk.aof.image) + top \div 2
      BY <1>3, <1>8, Wider DEF LogInv, Covers
    <3> QED
      BY <1>7, <1>8, <1>9, <2>2, <3>1, <3>2, <3>3 DEF Covers
  <2>3. CASE /\ disk.aof.gen # srv.job.gen
             /\ disk'.aof.synced = disk.aof.synced /\ ghost'.safe = safe
    <3>1. ghost.mark <= Covers(disk.aof.synced)
      BY <1>2, <1>4, <2>3 DEF JobInv
    <3> QED
      BY <1>7, <1>9, <2>3, <3>1 DEF LogInv, Covers
  <2> QED
    BY <1>7, <2>1, <2>2, <2>3
<1>11. JobInv'
  BY <1>6 DEF JobInv
<1>12. UpInv'
  BY <1>2, <1>6, <1>7, <1>11 DEF UpInv, Config
<1> QED
  BY <1>1, <1>6, <1>7, <1>10, <1>12 DEF LogInv

\* The reap of a rewrite: the old file stays, or the new one is swapped in
\* with an empty buffer and holds the whole dataset, all of it synced.
LEMMA LogReaped ==
  ASSUME TypeOK, plan \in DOMAIN Deployments, LogSound, LogInv, TempInv,
         plan' = plan,
         srv.phase \in {"timers", "stopped"}, srv.aofChild # Absent,
         NEW s \in Memory, s.phase \notin {"down", "timers", "stopped"},
         s.enable = srv.enable, s.open = srv.open, s.buf = srv.buf,
         s.db = srv.db, s.job = srv.job,
         aof_rewrite_reap(s), ghost'.safe = ghost.safe, ghost'.mark = ghost.mark
  PROVE  LogInv'
<1> DEFINE d == Dropped(s)
<1>1. /\ UpInv /\ disk.aof # Absent /\ srv.open /\ srv.enable /\ srv.buf = <<>>
      /\ Config.limit["rewrite"] # 0
  BY DEF LogInv, UpInv
<1>2. ~Spend("reopen")
  <2>1. "reopen" \in Faults
    BY DEF Faults
  <2> QED
    BY <1>1, <2>1, Allowed DEF LogSound
<1>3. /\ d.phase = s.phase /\ d.enable = s.enable /\ d.open = s.open
      /\ d.buf = s.buf /\ d.db = s.db /\ d.job = s.job /\ d.aofChild = Absent
      /\ DOMAIN d = DOMAIN s
  BY DEF Dropped, Memory
<1>4. \/ srv' = d /\ disk' = [disk EXCEPT !.temp = Unlinked(disk.temp)]
      \/ /\ srv' = [d EXCEPT !.open = TRUE] /\ srv.aofChild.state = "done"
         /\ disk' = [disk EXCEPT !.aof = Swapped, !.temp = Renamed(disk.temp)]
  BY <1>2 DEF aof_rewrite_reap
<1> HIDE DEF d
<1>5. /\ srv'.phase = s.phase /\ srv'.enable /\ srv'.open
      /\ srv'.buf = <<>> /\ srv'.db = srv.db /\ srv'.job = srv.job
      /\ srv'.aofChild = Absent
  <2>1. CASE srv' = d
    BY <1>1, <1>3, <2>1
  <2>2. CASE srv' = [d EXCEPT !.open = TRUE]
    <3>1. "open" \in DOMAIN d /\ d = [f \in DOMAIN d |-> d[f]]
      BY DEF d, Dropped, Memory
    <3>2. /\ srv'.open
          /\ \A f \in DOMAIN d : f # "open" => srv'[f] = d[f]
      BY <2>2, <3>1
    <3>3. DOMAIN d = {"phase", "stopping", "db", "buf", "delta", "enable", "err",
                      "open", "dirty", "dirtyAtSave", "image", "aofChild",
                      "rdbChild", "job"}
      BY DEF d, Dropped, Memory
    <3> QED
      BY <1>1, <1>3, <3>2, <3>3
  <2> QED
    BY <1>4, <2>1, <2>2
<1>6. CASE disk' = [disk EXCEPT !.temp = Unlinked(disk.temp)]
  <2>1. disk'.aof = disk.aof /\ disk'.conf = disk.conf
    BY <1>6 DEF TypeOK, Files
  <2> QED
    BY <1>1, <1>5, <2>1, LogUntouched
<1>7. CASE /\ srv.aofChild.state = "done"
           /\ disk' = [disk EXCEPT !.aof = Swapped, !.temp = Renamed(disk.temp)]
  <2> DEFINE image == srv.aofChild.image
             t == srv.delta
  <2>1. /\ image \in Data /\ t \in Bytes /\ srv.db \in Data /\ Len(t) \in Nat
        /\ disk.aof.gen \in Nat /\ disk.aof.synced \in Nat
        /\ ghost.safe \in Int /\ ghost.mark \in Int /\ Len(disk.aof.tail) \in Nat
    <3>1. srv.delta \in Bytes
      BY <1>1, LogTypes
    <3> QED
      BY <1>1, <3>1, BytesCat, LogTypes
  <2>2. /\ disk'.aof = NewAof(image, t, disk.aof.gen + 1)
        /\ disk'.conf = disk.conf
    <3>1. disk.temp.file.image = image
      BY <1>7 DEF TempInv, Completed
    <3>2. Swapped = NewAof(image, t, disk.aof.gen + 1)
      BY <1>1, <3>1 DEF Swapped, Gen
    <3> QED
      BY <1>7, <3>2 DEF TypeOK, Files
  <2>3. /\ disk'.aof.image = image /\ disk'.aof.tail = t
        /\ disk'.aof.synced = Len(t) /\ disk'.aof.gen = disk.aof.gen + 1
    BY <2>2 DEF NewAof
  <2>4. disk'.aof # Absent
    <3>1. disk.aof.gen + 1 \in Nat
      BY <2>1
    <3> QED
      BY <2>1, <2>2, <3>1, NewAofType, AbsentAssumption
  <2>5. Logged(image, t, srv.db)
    BY <1>1 DEF UpInv
  <2> HIDE DEF image, t
  <2>6. Covers(disk.aof.synced)' = Len(srv.db) /\ Len(srv.db) \in Nat
    <3>1. /\ Len(t) = 2 * (Len(srv.db) - Len(image)) /\ Len(image) <= Len(srv.db)
          /\ Len(srv.db) \in Nat /\ Len(image) \in Nat
      BY <2>1, <2>5, LoggedLoads
    <3>2. PICK l \in Nat, i \in Nat, n \in Nat :
            l = Len(srv.db) /\ i = Len(image) /\ n = Len(t)
      BY <2>1, <3>1
    <3>3. n = 2 * (l - i) /\ i <= l
      BY <3>1, <3>2
    <3>4. i + n \div 2 = l
      BY <3>3
    <3> QED
      BY <2>3, <3>2, <3>4 DEF Covers
  <2>7. /\ Covers(Len(disk.aof.tail)) \in Nat
        /\ Covers(Len(disk.aof.tail)) <= Len(srv.db)
        /\ Covers(disk.aof.synced) \in Nat
        /\ Covers(disk.aof.synced) <= Len(srv.db)
    <3>1. Len(disk.aof.tail) <= Len(disk.aof.tail)
      BY <2>1
    <3> QED
      BY <1>1, <2>1, <3>1, CoversAtMost DEF UpInv, LogInv
  <2>8. ghost'.safe <= Covers(disk.aof.synced)'
    BY <2>1, <2>6, <2>7 DEF LogInv
  <2>9. JobInv'
    <3>1. CASE srv.job # Absent /\ srv.job.state = "queued"
      <4>1. ghost.mark <= Len(srv.db)
        BY <1>1, <2>1, <2>6, <2>7, <3>1 DEF UpInv, JobInv
      <4> QED
        BY <1>5, <2>3, <2>6, <3>1, <4>1 DEF JobInv, Covers
    <3>2. CASE srv.job # Absent /\ srv.job.state = "syncing"
      <4>1. srv.job.gen \in Nat /\ srv.job.len \in Nat
        BY <3>2 DEF TypeOK, Memory, Job
      <4>2. srv.job.gen <= disk.aof.gen
        BY <1>1, <3>2 DEF UpInv, JobInv
      <4>3. srv.job.gen <= disk'.aof.gen /\ srv.job.gen # disk'.aof.gen
        BY <2>1, <2>3, <4>1, <4>2
      <4>4. ghost.mark <= Len(srv.db)
        <5>1. CASE srv.job.gen = disk.aof.gen
          <6>1. srv.job.len <= Len(disk.aof.tail) /\ ghost.mark <= Covers(srv.job.len)
            BY <1>1, <3>2, <5>1 DEF UpInv, JobInv
          <6>2. Covers(srv.job.len) \in Nat /\ Covers(srv.job.len) <= Len(srv.db)
            BY <1>1, <4>1, <6>1, CoversAtMost DEF UpInv
          <6> QED
            BY <2>1, <2>6, <6>1, <6>2
        <5>2. CASE srv.job.gen # disk.aof.gen
          <6>1. ghost.mark <= Covers(disk.aof.synced)
            BY <1>1, <3>2, <5>2 DEF UpInv, JobInv
          <6> QED
            BY <2>1, <2>6, <2>7, <6>1
        <5> QED
          BY <5>1, <5>2
      <4> QED
        BY <1>5, <2>6, <3>2, <4>3, <4>4 DEF JobInv
    <3> QED
      BY <1>5, <3>1, <3>2 DEF JobInv
  <2>10. Logged(image, t \o <<>>, srv.db)
    <3>1. t \o <<>> = t
      BY <2>1 DEF Bytes
    <3> QED
      BY <2>5, <3>1
  <2>11. UpInv'
    BY <1>5, <2>3, <2>9, <2>10 DEF UpInv
  <2>12. Len(t) <= Len(t)
    BY <2>1
  <2> QED
    BY <1>5, <2>2, <2>3, <2>4, <2>8, <2>11, <2>12 DEF LogInv
<1> QED
  BY <1>4, <1>6, <1>7

\* The process ends and leaves a beginning of its log that has at least the
\* synced part, all of it after an orderly stop.
LEMMA LogDies ==
  ASSUME TypeOK, LogInv, srv.phase # "down",
         srv' = Died, ghost'.seen = srv.db, ghost'.safe = ghost.safe,
         disk'.conf = disk.conf, disk'.aof # Absent,
         disk'.aof.image = disk.aof.image, disk'.aof.synced = disk.aof.synced,
         NEW n \in Nat, n <= Len(disk.aof.tail \o srv.buf),
         disk.aof.synced <= n,
         disk'.aof.tail = SubSeq(disk.aof.tail \o srv.buf, 1, n),
         ghost'.clean => n = Len(disk.aof.tail \o srv.buf)
  PROVE  LogInv'
<1> DEFINE t == disk.aof.tail \o srv.buf
<1>1. disk.aof # Absent /\ UpInv
  BY DEF LogInv
<1>2. t \in Bytes /\ Len(t) \in Nat
  <2>1. t \in Bytes
    BY <1>1, LogTypes
  <2> QED
    BY <2>1, BytesCat
<1>3. Logged(disk.aof.image, t, srv.db)
  BY <1>1 DEF UpInv
<1>a. n <= Len(t) /\ disk'.aof.tail = SubSeq(t, 1, n)
  OBVIOUS
<1> HIDE DEF t
<1>4. n \in 0..Len(t) /\ disk'.aof.tail = SubSeq(t, 1, n)
  <2>1. \A l \in Nat : n <= l => n \in 0..l
    OBVIOUS
  <2> QED
    BY <1>2, <1>a, <2>1, Zenon
<1>5. Len(disk'.aof.tail) = n
  BY <1>2, <1>4 DEF Bytes
<1>6. ghost'.clean => disk'.aof.tail = t
  <2>1. SubSeq(t, 1, Len(t)) = t
    BY <1>2 DEF Bytes
  <2> QED
    BY <1>4, <2>1 DEF t
<1>7. DownInv'
  BY <1>2, <1>3, <1>4, <1>6 DEF DownInv
<1>8. srv'.phase = "down"
  BY DiedType
<1> QED
  BY <1>1, <1>5, <1>7, <1>8 DEF LogInv, Covers

\* The first bytes of the log that are all of the file, and some of the buffer.
LEMMA FirstOfLog ==
  ASSUME TypeOK, disk.aof # Absent, NEW k \in 0..Len(srv.buf)
  PROVE  LET n == Len(disk.aof.tail) + k IN
         /\ n \in Nat /\ n <= Len(disk.aof.tail \o srv.buf)
         /\ SubSeq(disk.aof.tail \o srv.buf, 1, n)
              = disk.aof.tail \o SubSeq(srv.buf, 1, k)
         /\ Len(disk.aof.tail \o SubSeq(srv.buf, 1, k)) = n
<1>1. /\ disk.aof.tail \in Bytes /\ srv.buf \in Bytes
      /\ Len(disk.aof.tail) \in Nat /\ Len(srv.buf) \in Nat
  BY LogTypes
<1>2. Len(disk.aof.tail \o srv.buf) = Len(disk.aof.tail) + Len(srv.buf)
  BY <1>1, BytesCat
<1>3. SubSeq(disk.aof.tail \o srv.buf, 1, Len(disk.aof.tail) + k)
        = disk.aof.tail \o SubSeq(srv.buf, 1, k)
  BY <1>1, FirstOfCat DEF Bytes
<1>4. SubSeq(srv.buf, 1, k) \in Bytes /\ Len(SubSeq(srv.buf, 1, k)) = k
  BY <1>1 DEF Bytes
<1>5. Len(disk.aof.tail \o SubSeq(srv.buf, 1, k)) = Len(disk.aof.tail) + k
  BY <1>1, <1>4, BytesCat
<1>6. /\ Len(disk.aof.tail) + k \in Nat
      /\ Len(disk.aof.tail) + k <= Len(disk.aof.tail) + Len(srv.buf)
  BY <1>1
<1> QED
  BY <1>2, <1>3, <1>5, <1>6, Zenon

\* A process that ends without touching the log.
LEMMA LogExits ==
  ASSUME TypeOK, LogInv, srv.phase # "down",
         srv' = Died, ghost'.seen = srv.db, ghost'.safe = ghost.safe,
         disk'.conf = disk.conf, disk'.aof = disk.aof,
         ghost'.clean => srv.buf = <<>>
  PROVE  LogInv'
<1>1. disk.aof # Absent /\ disk.aof.synced <= Len(disk.aof.tail)
  BY DEF LogInv
<1>2. /\ disk.aof.tail \in Bytes /\ srv.buf \in Bytes
      /\ Len(disk.aof.tail) \in Nat /\ Len(srv.buf) \in Nat
  BY <1>1, LogTypes
<1>3. /\ Len(disk.aof.tail) <= Len(disk.aof.tail \o srv.buf)
      /\ SubSeq(disk.aof.tail \o srv.buf, 1, Len(disk.aof.tail)) = disk.aof.tail
  <2>1. 0 \in 0..Len(srv.buf) /\ Len(disk.aof.tail) + 0 = Len(disk.aof.tail)
    BY <1>2
  <2>2. disk.aof.tail \o SubSeq(srv.buf, 1, 0) = disk.aof.tail
    BY <1>2 DEF Bytes
  <2> QED
    BY <1>1, <2>1, <2>2, FirstOfLog
<1>4. srv.buf = <<>> => Len(disk.aof.tail) = Len(disk.aof.tail \o srv.buf)
  BY <1>2 DEF Bytes
<1> QED
  BY <1>1, <1>2, <1>3, <1>4, LogDies

\* The process is killed, with a write() under way.
LEMMA LogKilled ==
  ASSUME TypeOK, LogInv, Kill
  PROVE  LogInv'
<1>1. disk.aof # Absent /\ disk.aof \in AofFile /\ disk.aof.synced <= Len(disk.aof.tail)
  BY LogTypes DEF LogInv
<1>2. PICK k \in InFlight : \E o, w :
        disk' = [disk EXCEPT !.aof = Appended(disk.aof, k), !.orphans = o,
                             !.temp.writers = w]
  BY <1>1 DEF Kill
<1>3. k \in 0..Len(srv.buf)
  BY <1>2, InFlightBound
<1>4. disk'.aof = Appended(disk.aof, k) /\ disk'.conf = disk.conf
  BY <1>1, <1>2 DEF TypeOK, Files
<1>5. Appended(disk.aof, k) \in AofFile
  BY <1>1, <1>3, AppendedType
<1>6. /\ disk'.aof # Absent /\ disk'.aof.image = disk.aof.image
      /\ disk'.aof.synced = disk.aof.synced
      /\ disk'.aof.tail = disk.aof.tail \o SubSeq(srv.buf, 1, k)
  <2>1. disk'.aof # Absent
    BY <1>4, <1>5, AbsentAssumption
  <2> QED
    BY <1>1, <1>4, <2>1 DEF Appended, AofFile
<1>7. /\ ghost'.seen = srv.db /\ ghost'.safe = ghost.safe /\ ghost'.clean = FALSE
      /\ srv' = Died /\ srv.phase # "down"
  BY DEF Kill, Exiting, TypeOK, Ghosts
<1>8. disk.aof.synced \in Nat /\ Len(disk.aof.tail) \in Nat
  BY <1>1, LogTypes
<1> DEFINE n == Len(disk.aof.tail) + k
<1>9. /\ n \in Nat /\ n <= Len(disk.aof.tail \o srv.buf)
      /\ disk'.aof.tail = SubSeq(disk.aof.tail \o srv.buf, 1, n)
  BY <1>1, <1>3, <1>6, FirstOfLog
<1>10. disk.aof.synced <= n
  BY <1>1, <1>3, <1>8
<1> HIDE DEF n
<1> QED
  BY <1>4, <1>6, <1>7, <1>9, <1>10, LogDies

\* The machine stops: of the file, at least what was synced is left.
LEMMA LogPowerCut ==
  ASSUME TypeOK, LogInv, PowerCut
  PROVE  LogInv'
<1>1. disk.aof # Absent /\ disk.aof \in AofFile /\ disk.aof.synced <= Len(disk.aof.tail)
  BY LogTypes DEF LogInv
<1>2. PICK k \in InFlight :
        \E n \in Appended(disk.aof, k).synced..Len(Appended(disk.aof, k).tail) :
          disk' = [disk EXCEPT !.aof = [Appended(disk.aof, k) EXCEPT
                                          !.tail = SubSeq(@, 1, n)],
                               !.orphans = {}, !.temp.writers = {}]
  BY <1>1 DEF PowerCut
<1>3. k \in 0..Len(srv.buf)
  BY <1>2, InFlightBound
<1> DEFINE aof == Appended(disk.aof, k)
           log == disk.aof.tail \o srv.buf
           top == Len(disk.aof.tail) + k
<1>4. aof \in AofFile
  BY <1>1, <1>3, AppendedType
<1>5. /\ aof.image = disk.aof.image /\ aof.synced = disk.aof.synced
      /\ aof.tail = disk.aof.tail \o SubSeq(srv.buf, 1, k)
  BY <1>1 DEF Appended, AofFile
<1>6. PICK n \in aof.synced..Len(aof.tail) :
        disk' = [disk EXCEPT !.aof = [aof EXCEPT !.tail = SubSeq(@, 1, n)],
                             !.orphans = {}, !.temp.writers = {}]
  BY <1>2
<1>7. /\ disk.aof.synced \in Nat /\ Len(disk.aof.tail) \in Nat
      /\ log \in Bytes /\ Len(log) \in Nat
  <2>1. disk.aof.tail \in Bytes /\ srv.buf \in Bytes
    BY <1>1, LogTypes
  <2> QED
    BY <1>1, <2>1, BytesCat, LogTypes
<1> HIDE DEF aof, log
<1>8. /\ top \in Nat /\ top <= Len(log) /\ aof.tail = SubSeq(log, 1, top)
      /\ Len(aof.tail) = top
  BY <1>1, <1>3, <1>5, FirstOfLog DEF log
<1> HIDE DEF top
<1>9. n \in Nat /\ n <= top /\ n <= Len(log) /\ disk.aof.synced <= n
  <2>1. n \in disk.aof.synced..top
    BY <1>5, <1>6, <1>8
  <2> QED
    BY <1>7, <1>8, <2>1
<1>10. /\ disk'.aof = [aof EXCEPT !.tail = SubSeq(aof.tail, 1, n)]
       /\ disk'.conf = disk.conf
  BY <1>6 DEF TypeOK, Files
<1>11. SubSeq(aof.tail, 1, n) = SubSeq(log, 1, n)
  <2>1. top \in 0..Len(log) /\ n \in 0..top
    BY <1>7, <1>8, <1>9
  <2> QED
    BY <1>7, <1>8, <2>1, FirstOfFirst DEF Bytes
<1>12. /\ disk'.aof.image = disk.aof.image /\ disk'.aof.synced = disk.aof.synced
       /\ disk'.aof.tail = SubSeq(log, 1, n)
  BY <1>4, <1>5, <1>10, <1>11 DEF AofFile
<1>13. disk'.aof # Absent
  <2>1. SubSeq(log, 1, n) \in Bytes
    BY <1>7, <1>9 DEF Bytes
  <2>2. disk'.aof \in AofFile
    BY <1>4, <1>10, <1>11, <2>1 DEF AofFile
  <2> QED
    BY <2>2, AbsentAssumption
<1>14. /\ ghost'.seen = srv.db /\ ghost'.safe = ghost.safe /\ ghost'.clean = FALSE
       /\ srv' = Died /\ srv.phase # "down"
  BY DEF PowerCut, Exiting, TypeOK, Ghosts
<1> QED
  BY <1>9, <1>10, <1>12, <1>13, <1>14, LogDies DEF log

\* Cutting the file after its last whole frame does not lose a synced frame.
LEMMA HalfOfCut ==
  ASSUME NEW s \in Nat, NEW n \in Nat, s <= n
  PROVE  /\ Min({s, 2 * (n \div 2)}) \in Nat
         /\ Min({s, 2 * (n \div 2)}) <= 2 * (n \div 2)
         /\ Min({s, 2 * (n \div 2)}) \div 2 = s \div 2
<1> DEFINE g == 2 * (n \div 2)
           m == Min({s, g})
<1>1. g \in Nat /\ g <= n /\ n <= g + 1
  OBVIOUS
<1>2. m \in {s, g} /\ m <= s /\ m <= g
  <2>1. \E x \in {s, g} : \A y \in {s, g} : x <= y
    <3>1. s <= g \/ g <= s
      BY <1>1
    <3> QED
      BY <1>1, <3>1
  <2> HIDE DEF g
  <2>2. m \in {s, g} /\ \A y \in {s, g} : m <= y
    BY <2>1 DEF Min
  <2> QED
    BY <2>2
<1> HIDE DEF m
<1>3. m \div 2 = s \div 2
  <2>1. CASE m = s
    BY <2>1
  <2>2. CASE m = g
    <3>1. s = g \/ s = g + 1
      BY <1>1, <1>2, <2>2
    <3> QED
      BY <2>2, <3>1
  <2> QED
    BY <1>2, <2>1, <2>2
<1> QED
  BY <1>1, <1>2, <1>3 DEF m

\* A restart loads a beginning of the dataset the server had, with every write
\* that was synced, all of it after an orderly stop, and leaves the log of
\* what it loaded.
LEMMA LogRecovers ==
  ASSUME TypeOK, LogInv, Restart, plan' = plan
  PROVE  /\ LogInv'
         /\ Begins(srv'.db, ghost.seen) /\ Len(srv'.db) >= ghost.safe
         /\ ghost.clean => srv'.db = ghost.seen
<1>1. DownInv /\ disk.conf /\ disk.aof # Absent
  BY DEF LogInv, Restart
<1> DEFINE image == disk.aof.image
           tail == disk.aof.tail
           good == 2 * Parsed(tail)
           l == image \o Replay(tail)
<1>t. PICK t \in Bytes : \E n \in 0..Len(t) :
        tail = SubSeq(t, 1, n) /\ Logged(image, t, ghost.seen)
  BY <1>1 DEF DownInv
<1>2. PICK n \in 0..Len(t) : tail = SubSeq(t, 1, n) /\ Logged(image, t, ghost.seen)
  BY <1>t
<1>3. /\ image \in Data /\ tail \in Bytes /\ ghost.seen \in Data
      /\ disk.aof.synced \in Nat /\ Len(image) \in Nat /\ ghost.safe \in Int
      /\ disk.aof \in AofFile
  BY <1>1, LogTypes
<1>4. n \in Nat
  BY <1>2, BytesCat
<1> HIDE DEF image, tail
<1>5. /\ Len(tail) = n /\ l \in Data /\ Begins(l, ghost.seen)
      /\ Len(l) = Len(image) + n \div 2 /\ good = 2 * (n \div 2)
      /\ SubSeq(tail, 1, good) \in Bytes
      /\ Logged(image, SubSeq(tail, 1, good), l)
  <2>1. CutLoads(image, tail, n, ghost.seen)
    BY <1>2, <1>3, LoggedCut
  <2> QED
    BY <2>1 DEF CutLoads
<1>6. disk.aof.synced <= n
  BY <1>5 DEF LogInv, tail
<1> DEFINE m == Min({disk.aof.synced, good})
           cut == SubSeq(tail, 1, good)
<1>7. m \in Nat /\ m <= good /\ m \div 2 = disk.aof.synced \div 2
  BY <1>3, <1>4, <1>5, <1>6, HalfOfCut
<1>8. Len(cut) = good
  <2>1. good \in Nat /\ good <= n
    BY <1>4, <1>5
  <2> HIDE DEF good
  <2> QED
    BY <1>3, <1>5, <2>1 DEF Bytes
<1>9. Trimmed(disk.aof) = [disk.aof EXCEPT !.tail = cut, !.synced = m]
  BY DEF Trimmed, tail
<1>10. Loaded(disk.aof) = l
  BY DEF Loaded, image, tail
<1> HIDE DEF l, m, cut, good
<1>11. srv' = Booted(l, TRUE)
  BY <1>1, <1>10 DEF Restart
<1>12. /\ disk'.aof = [disk.aof EXCEPT !.tail = cut, !.synced = m]
       /\ disk'.conf /\ disk.conf
  BY <1>1, <1>9 DEF Restart, TypeOK, Files
<1>13. disk'.aof.image = image /\ disk'.aof.tail = cut /\ disk'.aof.synced = m
  BY <1>3, <1>12 DEF AofFile, image
<1>14. disk'.aof # Absent
  <2>1. disk'.aof \in AofFile
    BY <1>3, <1>5, <1>7, <1>12 DEF AofFile, cut
  <2> QED
    BY <2>1, AbsentAssumption
<1>15. ghost'.safe = ghost.safe
  BY DEF Restart, TypeOK, Ghosts
<1>16. /\ srv'.db = l /\ srv'.phase = "poll" /\ srv'.enable /\ srv'.open
       /\ srv'.buf = <<>> /\ srv'.aofChild = Absent /\ srv'.job = Absent
  BY <1>11 DEF Booted
<1>17. ghost.safe <= Len(image) + disk.aof.synced \div 2
  BY DEF LogInv, Covers, image
<1>18. ghost'.safe <= Covers(disk.aof.synced)'
  BY <1>7, <1>13, <1>15, <1>17 DEF Covers
<1>19. UpInv'
  <2>1. cut \o <<>> = cut
    BY <1>5 DEF cut, Bytes
  <2>2. Logged(image, cut \o <<>>, l)
    BY <1>5, <2>1 DEF cut
  <2>3. JobInv'
    BY <1>16 DEF JobInv
  <2> QED
    BY <1>13, <1>16, <2>2, <2>3 DEF UpInv
<1>20. LogInv'
  BY <1>7, <1>8, <1>12, <1>13, <1>14, <1>16, <1>18, <1>19 DEF LogInv
<1>21. Len(l) >= ghost.safe
  <2>1. disk.aof.synced \div 2 <= n \div 2
    BY <1>3, <1>4, <1>6
  <2> QED
    BY <1>3, <1>4, <1>5, <1>17, <2>1
<1>22. ghost.clean => l = ghost.seen
  <2>1. ghost.clean => Logged(image, tail, ghost.seen)
    BY <1>1 DEF DownInv, image, tail
  <2> QED
    BY <1>3, <2>1, LoggedLoads DEF l
<1> QED
  BY <1>5, <1>16, <1>20, <1>21, <1>22

-----------------------------------------------------------------------------
(* Every step keeps the log.                                               *)

\* The memories s and t have the same log, and the same rewrite under way.
SameLog(s, t) ==
  /\ t.enable = s.enable /\ t.open = s.open /\ t.buf = s.buf /\ t.db = s.db
  /\ t.job = s.job /\ t.delta = s.delta /\ t.aofChild = s.aofChild

\* Neither the reap of a saving child nor the start of a save is about the log.
LEMMA ReapedSame ==
  ASSUME NEW s \in Memory
  PROVE  /\ RdbReaped(s) \in Memory /\ SameLog(s, RdbReaped(s))
         /\ RdbReaped(s).phase = s.phase
<1> DEFINE c == rdb_on_save_complete(s)
           t == RdbReaped(s)
<1>1. c \in Memory /\ SameLog(s, c) /\ c.phase = s.phase
  <2> DEFINE d == IF s.dirty >= s.dirtyAtSave THEN s.dirty - s.dirtyAtSave ELSE 0
  <2>1. d \in Nat
    BY DEF Memory
  <2>2. c = [s EXCEPT !.dirty = d, !.dirtyAtSave = 0]
    BY DEF rdb_on_save_complete
  <2> HIDE DEF c, d
  <2> QED
    BY <2>1, <2>2 DEF Memory, SameLog
<1> HIDE DEF c
<1>2. t = s \/ t = [s EXCEPT !.rdbChild = Absent]
      \/ t = [c EXCEPT !.rdbChild = Absent]
  BY DEF RdbReaped, c
<1> HIDE DEF t
<1>3. t \in Memory /\ SameLog(s, t) /\ t.phase = s.phase
  BY <1>1, <1>2 DEF Memory, SameLog
<1> QED
  BY <1>3 DEF t

\* What a reported save remembers is not about the log.
LEMMA ReportedSame ==
  ASSUME NEW g \in Ghosts, NEW image
  PROVE  LET r == Reported(g, image) IN
         /\ r.safe = g.safe /\ r.mark = g.mark /\ r.seen = g.seen
         /\ r.clean = g.clean /\ r.saved = image
BY DEF Reported, Ghosts

\* ... nor is what a reaped child leaves.
LEMMA GhostReapedSame ==
  ASSUME TypeOK
  PROVE  GhostReaped(ghost).safe = ghost.safe /\ GhostReaped(ghost).mark = ghost.mark
BY ReportedSame DEF GhostReaped, TypeOK

\* A step of a running server to a memory with the same log.
LEMMA LogSame ==
  ASSUME LogInv, srv.phase # "down", srv'.phase # "down", plan' = plan,
         disk'.aof = disk.aof, disk'.conf = disk.conf,
         ghost'.safe = ghost.safe, ghost'.mark = ghost.mark,
         SameLog(srv, srv'),
         srv'.phase \in {"timers", "stopped"} => srv'.phase = srv.phase
  PROVE  LogInv'
BY LogUntouched DEF SameLog

\* The end of rdb_save: back to the loop, or out.
LEMMA LogAfterSave ==
  ASSUME TypeOK, LogInv, srv.phase # "down", plan' = plan,
         NEW s \in Memory, SameLog(srv, s), s.stopping = srv.stopping,
         srv' = AfterSave(s), disk'.aof = disk.aof, disk'.conf = disk.conf,
         ghost'.safe = ghost.safe, ghost'.mark = ghost.mark,
         srv.stopping => /\ ghost'.seen = srv.db
                         /\ ghost'.clean => srv.buf = <<>>
  PROVE  LogInv'
<1>1. CASE srv.stopping
  <2>1. srv' = Died
    BY <1>1 DEF AfterSave
  <2> QED
    BY <1>1, <2>1, LogExits
<1>2. CASE ~srv.stopping
  <2>1. srv' = [s EXCEPT !.phase = "serve", !.image = <<>>]
    BY <1>2 DEF AfterSave
  <2>2. SameLog(srv, srv') /\ srv'.phase = "serve"
    BY <2>1 DEF SameLog, Memory
  <2> QED
    BY <2>2, LogSame
<1> QED
  BY <1>1, <1>2

\* A rewrite starts from the dataset, with an empty delta.
LEMMA LogRewriteStarts ==
  ASSUME TypeOK, plan \in DOMAIN Deployments, LogInv, aof_rewrite_background,
         plan' = plan
  PROVE  LogInv'
<1> DEFINE c == [image |-> srv.db, state |-> "running"]
<1>1. srv.phase # "down" /\ UpInv /\ disk' = disk /\ ghost' = ghost
  BY DEF LogInv, aof_rewrite_background
<1>2. srv' = [srv EXCEPT !.delta = <<>>, !.aofChild = c]
  BY DEF aof_rewrite_background
<1>3. c.image = srv.db
  OBVIOUS
<1> HIDE DEF c
<1>4. /\ srv'.enable = srv.enable /\ srv'.open = srv.open /\ srv'.buf = srv.buf
      /\ srv'.db = srv.db /\ srv'.job = srv.job /\ srv'.phase = srv.phase
      /\ srv'.delta = <<>> /\ srv'.aofChild = c
  BY <1>2 DEF TypeOK, Memory
<1>5. Config.limit["rewrite"] # 0
  <2>1. "rewrite" \in Faults /\ Spend("rewrite")
    BY DEF Faults, aof_rewrite_background
  <2> QED
    BY <2>1, Allowed
<1>6. Logged(srv.db, <<>>, srv.db)
  BY LoggedEmpty DEF TypeOK, Memory
<1>7. JobInv'
  BY <1>1, <1>4 DEF JobInv, Covers, UpInv
<1>8. UpInv'
  BY <1>1, <1>3, <1>4, <1>5, <1>6, <1>7 DEF UpInv, Config
<1> QED
  BY <1>1, <1>4, <1>8 DEF LogInv, Covers

\* The end of the iteration, with or without a rewrite to reap.
LEMMA LogTicks ==
  ASSUME TypeOK, plan \in DOMAIN Deployments, LogSound, LogInv, TempInv, EndTick,
         plan' = plan
  PROVE  LogInv'
<1> DEFINE s == [RdbReaped(srv) EXCEPT !.phase = "poll"]
<1>1. s \in Memory /\ SameLog(srv, s) /\ s.phase = "poll"
  <2>1. RdbReaped(srv) \in Memory /\ SameLog(srv, RdbReaped(srv))
    BY ReapedSame DEF TypeOK
  <2> QED
    BY <2>1 DEF Memory, SameLog
<1>2. ghost'.safe = ghost.safe /\ ghost'.mark = ghost.mark
  BY GhostReapedSame DEF EndTick
<1>3. srv.phase = "timers"
  BY DEF EndTick
<1>4. \/ Ended(srv.aofChild) /\ aof_rewrite_reap(s)
      \/ srv' = s /\ disk' = disk
  BY DEF EndTick
<1> HIDE DEF s
<1>5. CASE Ended(srv.aofChild) /\ aof_rewrite_reap(s)
  <2>1. /\ s.enable = srv.enable /\ s.open = srv.open /\ s.buf = srv.buf
        /\ s.db = srv.db /\ s.job = srv.job /\ srv.aofChild # Absent
    BY <1>1, <1>5 DEF SameLog, Ended
  <2> QED
    BY <1>1, <1>2, <1>3, <1>5, <2>1, LogReaped
<1>6. CASE srv' = s /\ disk' = disk
  BY <1>1, <1>2, <1>3, <1>6, LogSame
<1> QED
  BY <1>4, <1>5, <1>6

\* The end of a shutdown, up to the last rdb_save.
LEMMA LogStops ==
  ASSUME TypeOK, plan \in DOMAIN Deployments, LogSound, LogInv, TempInv, StopReaps,
         plan' = plan
  PROVE  LogInv'
<1> DEFINE r == [srv EXCEPT !.rdbChild = Absent]
           s == Saving(r)
<1>1. s \in Memory /\ SameLog(srv, s) /\ s.phase = "rotate"
  <2>1. r \in Memory /\ SameLog(srv, r)
    BY DEF TypeOK, Memory, SameLog
  <2> HIDE DEF r
  <2> QED
    BY <2>1 DEF Saving, Memory, SameLog
<1>2. ghost'.safe = ghost.safe /\ ghost'.mark = ghost.mark
  BY DEF StopReaps
<1>3. srv.phase = "stopped"
  BY DEF StopReaps
<1>4. \/ Ended(srv.aofChild) /\ aof_rewrite_reap(s)
      \/ srv' = s /\ disk' = disk
  BY DEF StopReaps
<1> HIDE DEF s
<1>5. CASE Ended(srv.aofChild) /\ aof_rewrite_reap(s)
  <2>1. /\ s.enable = srv.enable /\ s.open = srv.open /\ s.buf = srv.buf
        /\ s.db = srv.db /\ s.job = srv.job /\ srv.aofChild # Absent
    BY <1>1, <1>5 DEF SameLog, Ended
  <2> QED
    BY <1>1, <1>2, <1>3, <1>5, <2>1, LogReaped
<1>6. CASE srv' = s /\ disk' = disk
  BY <1>1, <1>2, <1>3, <1>6, LogSame
<1> QED
  BY <1>4, <1>5, <1>6

\* Every step of a deployment in which the log is sound.
LEMMA LogStep ==
  ASSUME TypeOK, TypeOK', plan \in DOMAIN Deployments, LogSound, LogInv, TempInv,
         Next
  PROVE  LogInv'
<1>0. plan' = plan /\ srv \in Memory /\ ghost \in Ghosts /\ disk \in Files
  BY DEF Next, TypeOK
<1>1. CASE Write
  BY <1>0, <1>1, LogWritten DEF Write
<1>2. CASE ResumedWrite
  <2>1. "resumed" \in Faults /\ Spend("resumed")
    BY <1>2 DEF Faults, ResumedWrite
  <2>2. Config.limit["rewrite"] = 0
    BY <2>1, Allowed DEF LogSound
  <2> QED
    BY <1>0, <1>2, <2>2, LogWritten DEF ResumedWrite
<1>3. CASE ConfigSet \/ EditConfig
  <2>1. "config" \in Faults /\ Spend("config")
    BY <1>3 DEF Faults, ConfigSet, EditConfig
  <2> QED
    BY <2>1, Allowed DEF LogSound
<1>4. CASE aof_rewrite_background
  BY <1>0, <1>4, LogRewriteStarts
<1>5. CASE rdb_save_background
  <2>1. /\ srv.phase # "down" /\ disk' = disk /\ ghost' = ghost
        /\ srv' = [srv EXCEPT !.dirtyAtSave = srv.dirty,
                              !.rdbChild = [image |-> srv.db, state |-> "running"]]
    BY <1>5 DEF rdb_save_background
  <2>2. SameLog(srv, srv') /\ srv'.phase = srv.phase
    BY <1>0, <2>1 DEF SameLog, Memory
  <2> QED
    BY <1>0, <2>1, <2>2, LogSame
<1>6. CASE BgSaveForkFails
  <2>1. /\ srv.phase # "down" /\ disk' = disk /\ ghost' = ghost
        /\ srv' = [srv EXCEPT !.dirtyAtSave = 0]
    BY <1>6 DEF BgSaveForkFails
  <2>2. SameLog(srv, srv') /\ srv'.phase = srv.phase
    BY <1>0, <2>1 DEF SameLog, Memory
  <2> QED
    BY <1>0, <2>1, <2>2, LogSame
<1>7. CASE do_save
  <2>1. /\ srv.phase = "serve" /\ disk' = disk /\ ghost' = GhostReaped(ghost)
        /\ srv' = Saving(RdbReaped(srv))
    BY <1>7 DEF do_save
  <2>2. SameLog(srv, srv') /\ srv'.phase = "rotate"
    <3>1. RdbReaped(srv) \in Memory /\ SameLog(srv, RdbReaped(srv))
      BY <1>0, ReapedSame
    <3> QED
      BY <2>1, <3>1 DEF Saving, SameLog, Memory
  <2> QED
    BY <1>0, <2>1, <2>2, LogSame, GhostReapedSame
<1>8. CASE SaveFails \/ SaveCommitFails
  <2> DEFINE s == [srv EXCEPT !.dirtyAtSave = 0]
  <2>1. /\ srv.phase # "down" /\ disk' = disk /\ srv' = AfterSave(s)
        /\ ghost' = IF srv.stopping THEN Exiting(FALSE) ELSE ghost
    BY <1>8 DEF SaveFails, SaveCommitFails
  <2>2. s \in Memory /\ SameLog(srv, s) /\ s.stopping = srv.stopping
    BY <1>0 DEF SameLog, Memory
  <2>3. /\ ghost'.safe = ghost.safe /\ ghost'.mark = ghost.mark
        /\ srv.stopping => ghost'.seen = srv.db /\ ghost'.clean = FALSE
    BY <1>0, <2>1 DEF Exiting, Ghosts
  <2> HIDE DEF s
  <2> QED
    BY <1>0, <2>1, <2>2, <2>3, LogAfterSave
<1>9. CASE SaveRotates
  <2>1. /\ srv.phase = "rotate" /\ ghost' = ghost
        /\ srv' = [srv EXCEPT !.phase = "commit"]
        /\ disk' = disk \/ disk' = [disk EXCEPT !.bak = disk.dump, !.dump = Absent]
    BY <1>9 DEF SaveRotates
  <2>2. SameLog(srv, srv') /\ srv'.phase = "commit"
    BY <1>0, <2>1 DEF SameLog, Memory
  <2>3. disk'.aof = disk.aof /\ disk'.conf = disk.conf
    BY <1>0, <2>1 DEF Files
  <2> QED
    BY <1>0, <2>1, <2>2, <2>3, LogSame
<1>10. CASE SaveCommits
  <2> DEFINE s == rdb_on_save_complete(srv)
             g == IF srv.stopping THEN Exiting(srv.buf = <<>>) ELSE ghost
  <2>1. /\ srv.phase # "down" /\ srv' = AfterSave(s)
        /\ disk' = [disk EXCEPT !.dump = srv.image]
        /\ ghost' = Reported(g, srv.image)
    BY <1>10 DEF SaveCommits
  <2>2. s \in Memory /\ SameLog(srv, s) /\ s.stopping = srv.stopping
    <3>1. s \in Memory
      BY CompletedType
    <3>2. s = [srv EXCEPT !.dirty = s.dirty, !.dirtyAtSave = 0]
      BY <1>0 DEF rdb_on_save_complete, Memory
    <3> HIDE DEF s
    <3> QED
      BY <1>0, <3>1, <3>2 DEF SameLog, Memory
  <2>3. /\ g \in Ghosts /\ g.safe = ghost.safe /\ g.mark = ghost.mark
        /\ srv.stopping => /\ g.seen = srv.db
                           /\ g.clean => srv.buf = <<>>
    BY <1>0 DEF Exiting, Ghosts, Memory
  <2>4. disk'.aof = disk.aof /\ disk'.conf = disk.conf
    BY <1>0, <2>1 DEF Files
  <2> HIDE DEF s, g
  <2>5. /\ ghost'.safe = g.safe /\ ghost'.mark = g.mark /\ ghost'.seen = g.seen
        /\ ghost'.clean = g.clean
    BY <2>1, <2>3, ReportedSame
  <2> QED
    BY <1>0, <2>1, <2>2, <2>3, <2>4, <2>5, LogAfterSave
<1>11. CASE Flush
  BY <1>0, <1>11, LogFlushed DEF Flush
<1>12. CASE Shutdown
  BY <1>0, <1>12, LogFlushed DEF Shutdown
<1>13. CASE QueueFsync
  BY <1>0, <1>13, LogQueued
<1>14. CASE FsyncStarts
  BY <1>0, <1>14, LogJobStarts
<1>15. CASE FsyncEnds
  BY <1>0, <1>15, LogJobEnds
<1>16. CASE EndTick
  BY <1>0, <1>16, LogTicks
<1>17. CASE AofChildEnds
  <2>1. /\ srv.aofChild # Absent /\ ghost' = ghost
        /\ \/ srv' = [srv EXCEPT !.aofChild.state = "done"]
           \/ srv' = [srv EXCEPT !.aofChild.state = "failed"]
        /\ \E t : disk' = [disk EXCEPT !.temp = t]
    BY <1>17 DEF AofChildEnds
  <2>5. disk'.aof = disk.aof /\ disk'.conf = disk.conf
    BY <1>0, <2>1 DEF Files
  <2>2. srv.phase # "down"
    BY <2>1 DEF LogInv, DownInv, Died, Booted
  <2>3. srv.aofChild \in Child
    BY <1>0, <2>1 DEF Memory
  <2>4. /\ srv'.enable = srv.enable /\ srv'.open = srv.open /\ srv'.buf = srv.buf
        /\ srv'.db = srv.db /\ srv'.job = srv.job /\ srv'.phase = srv.phase
        /\ srv'.delta = srv.delta /\ srv'.aofChild.image = srv.aofChild.image
    BY <1>0, <2>1, <2>3 DEF Memory, Child
  <2> QED
    BY <1>0, <2>1, <2>2, <2>4, <2>5, LogUntouched
<1>18. CASE RdbChildEnds
  <2>1. /\ srv.rdbChild # Absent /\ ghost' = ghost
        /\ \/ srv' = [srv EXCEPT !.rdbChild.state = "done"]
           \/ srv' = [srv EXCEPT !.rdbChild.state = "failed"]
        /\ disk' = disk \/ disk' = [disk EXCEPT !.dump = srv.rdbChild.image]
    BY <1>18 DEF RdbChildEnds
  <2>2. srv.phase # "down"
    BY <2>1, DiedType DEF LogInv, DownInv
  <2>3. SameLog(srv, srv') /\ srv'.phase = srv.phase
    BY <1>0, <2>1 DEF Memory, SameLog
  <2>4. disk'.aof = disk.aof /\ disk'.conf = disk.conf
    BY <1>0, <2>1 DEF Files
  <2> QED
    BY <1>0, <2>1, <2>2, <2>3, <2>4, LogSame
<1>19. CASE \/ OrphanEnds \/ BootFails
            \/ RewriterOpens \/ RewriterWrites \/ RewriterEnds
  <2>1. srv' = srv /\ ghost' = ghost
    BY <1>19 DEF OrphanEnds, BootFails, RewriterOpens, RewriterWrites, RewriterEnds
  <2>2. disk'.aof = disk.aof /\ disk'.conf = disk.conf
    <3>1. CASE OrphanEnds \/ BootFails
      <4>1. disk' = disk \/ \E d, o : disk' = [disk EXCEPT !.dump = d, !.orphans = o]
        BY <3>1 DEF OrphanEnds, BootFails
      <4> QED
        BY <1>0, <4>1 DEF Files
    <3>2. CASE RewriterOpens \/ RewriterWrites \/ RewriterEnds
      BY <1>0, <3>2, TempRewriter, RewriterType DEF RewriterFrame
    <3> QED
      BY <1>19, <3>1, <3>2
  <2>3. (UpInv => UpInv') /\ (DownInv => DownInv')
    BY <1>0, <2>1, <2>2 DEF UpInv, DownInv, JobInv, Covers, Config
  <2> QED
    BY <2>1, <2>2, <2>3 DEF LogInv, Covers
<1>20. CASE StopReaps
  BY <1>0, <1>20, LogStops
<1>21. CASE Kill
  BY <1>21, LogKilled
<1>22. CASE PowerCut
  BY <1>22, LogPowerCut
<1>23. CASE Restart
  BY <1>0, <1>23, LogRecovers
<1>24. CASE Wake
  <2>1. /\ srv.phase = "poll" /\ disk' = disk /\ ghost' = ghost
        /\ srv' = [srv EXCEPT !.phase = "serve"]
    BY <1>24 DEF Wake
  <2>2. SameLog(srv, srv') /\ srv'.phase = "serve"
    BY <1>0, <2>1 DEF SameLog, Memory
  <2> QED
    BY <1>0, <2>1, <2>2, LogSame
<1> QED
  BY <1>1, <1>2, <1>3, <1>4, <1>5, <1>6, <1>7, <1>8, <1>9, <1>10, <1>11, <1>12,
     <1>13, <1>14, <1>15, <1>16, <1>17, <1>18, <1>19, <1>20, <1>21, <1>22, <1>23,
     <1>24
  DEF Next, Step

-----------------------------------------------------------------------------
(* The dump.                                                               *)

\* Being a beginning is reflexive ...
LEMMA PrefixSelf ==
  ASSUME NEW a \in Data
  PROVE  Begins(a, a) /\ Begins(<<>>, a)
BY DEF Data, Begins

\* ... transitive ...
LEMMA PrefixTrans ==
  ASSUME NEW a \in Data, NEW b \in Data, NEW c \in Data,
         Begins(a, b), Begins(b, c)
  PROVE  Begins(a, c)
BY DEF Data, Begins

\* ... and kept by appending to the longer one.
LEMMA PrefixAppend ==
  ASSUME NEW a \in Data, NEW b \in Data, NEW w \in Nat, Begins(a, b)
  PROVE  Begins(a, Append(b, w)) /\ Append(b, w) \in Data
BY DEF Data, Begins

\* The dataset that main finds in the dump.
Dump == IF disk.dump = Absent THEN <<>> ELSE disk.dump

\* Last reported save, dump, image of a child that runs and dataset follow one
\* another; the dump steps aside only between the renames of a save, and a
\* child that is done has its image there.
DumpInv ==
  /\ ~disk.conf /\ disk.orphans = {}
  /\ IF srv.phase = "down"
     THEN /\ srv = Died
          /\ Begins(ghost.saved, Dump)
          /\ ghost.clean => ghost.seen = Dump
     ELSE /\ ~srv.enable /\ srv.aofChild = Absent
          /\ Begins(ghost.saved, srv.db)
          /\ srv.phase # "commit" =>
               Begins(ghost.saved, Dump) /\ Begins(Dump, srv.db)
          /\ srv.rdbChild # Absent =>
               /\ Begins(srv.rdbChild.image, srv.db)
               /\ srv.rdbChild.state = "running" => Begins(Dump, srv.rdbChild.image)
               /\ srv.rdbChild.state = "done" => Dump = srv.rdbChild.image

\* The parts of the state that the invariant is about have their types.
LEMMA DumpTypes ==
  ASSUME TypeOK
  PROVE  /\ Dump \in Data /\ srv.db \in Data /\ srv.image \in Data
         /\ ghost.saved \in Data /\ ghost.seen \in Data
         /\ srv.rdbChild # Absent =>
              srv.rdbChild \in Child /\ srv.rdbChild.image \in Data
<1>1. <<>> \in Data
  BY DEF Data
<1>2. disk.dump \in Data \cup {Absent}
  BY DEF TypeOK, Files
<1>3. Dump \in Data
  BY <1>1, <1>2 DEF Dump
<1>4. /\ srv.db \in Data /\ srv.image \in Data
      /\ srv.rdbChild \in Child \cup {Absent}
  BY DEF TypeOK, Memory
<1>5. ghost.saved \in Data /\ ghost.seen \in Data
  BY DEF TypeOK, Ghosts
<1> QED
  BY <1>3, <1>4, <1>5 DEF Child

\* A step of a running server that changes neither dump nor dataset.
LEMMA DumpUntouched ==
  ASSUME DumpInv, srv.phase # "down", srv'.phase # "down",
         disk'.dump = disk.dump, disk'.conf = disk.conf,
         disk'.orphans = disk.orphans, ghost'.saved = ghost.saved,
         srv'.enable = srv.enable, srv'.aofChild = srv.aofChild,
         srv'.db = srv.db, srv'.rdbChild = srv.rdbChild \/ srv'.rdbChild = Absent,
         srv.phase = "commit" => srv'.phase = "commit"
  PROVE  DumpInv'
<1>1. Dump' = Dump
  BY DEF Dump
<1> QED
  BY <1>1 DEF DumpInv

\* A write: the dataset grows.
LEMMA DumpWritten ==
  ASSUME TypeOK, DumpInv, Written, srv.phase \in {"serve", "timers"}
  PROVE  DumpInv'
<1> DEFINE w == used.write + used.resumed + 1
<1>1. w \in Nat
  BY DEF TypeOK, Faults
<1>2. ~srv.enable /\ srv.aofChild = Absent
  BY DEF DumpInv
<1>3. /\ srv' = Propagated([srv EXCEPT !.db = Append(@, w), !.dirty = @ + 1], w)
      /\ disk' = disk /\ ghost' = ghost
  BY DEF Written
<1> HIDE DEF w
<1>4. srv' = [srv EXCEPT !.db = Append(srv.db, w), !.dirty = srv.dirty + 1]
  BY <1>2, <1>3 DEF Propagated, TypeOK, Memory
<1>5. /\ srv'.db = Append(srv.db, w) /\ srv'.phase = srv.phase
      /\ srv'.enable = srv.enable /\ srv'.aofChild = srv.aofChild
      /\ srv'.rdbChild = srv.rdbChild
  BY <1>4 DEF TypeOK, Memory
<1>6. \A a \in Data : Begins(a, srv.db) => Begins(a, srv'.db)
  BY <1>1, <1>5, DumpTypes, PrefixAppend
<1>7. Dump' = Dump
  BY <1>3 DEF Dump
<1> QED
  BY <1>3, <1>5, <1>6, <1>7, DumpTypes DEF DumpInv

\* BGSAVE: the child's image is the dataset.
LEMMA DumpForked ==
  ASSUME TypeOK, DumpInv, rdb_save_background
  PROVE  DumpInv'
<1> DEFINE c == [image |-> srv.db, state |-> "running"]
<1>1. /\ srv.phase \in {"serve", "timers"} /\ disk' = disk /\ ghost' = ghost
      /\ srv' = [srv EXCEPT !.dirtyAtSave = srv.dirty, !.rdbChild = c]
  BY DEF rdb_save_background
<1>2. c.image = srv.db /\ c.state = "running"
  OBVIOUS
<1> HIDE DEF c
<1>3. /\ srv'.db = srv.db /\ srv'.phase = srv.phase
      /\ srv'.enable = srv.enable /\ srv'.aofChild = srv.aofChild
      /\ srv'.rdbChild = c
  BY <1>1 DEF TypeOK, Memory
<1>4. Dump' = Dump
  BY <1>1 DEF Dump
<1>5. Begins(srv.db, srv.db)
  BY DumpTypes, PrefixSelf
<1> QED
  BY <1>1, <1>2, <1>3, <1>4, <1>5 DEF DumpInv

\* The child renames its file over the dump, or fails.
LEMMA DumpChildEnds ==
  ASSUME DirtyInv, DumpInv, RdbChildEnds
  PROVE  DumpInv'
<1>1. /\ srv.rdbChild # Absent /\ srv.rdbChild.state = "running" /\ ghost' = ghost
      /\ \/ /\ srv' = [srv EXCEPT !.rdbChild.state = "done"]
            /\ disk' = [disk EXCEPT !.dump = srv.rdbChild.image]
         \/ srv' = [srv EXCEPT !.rdbChild.state = "failed"] /\ disk' = disk
  BY DEF RdbChildEnds, Ended
<1>2. TypeOK /\ srv.phase \notin {"down", "commit"}
  BY <1>1, DiedType DEF DumpInv, DirtyInv, SaveInv
<1>3. srv.rdbChild \in Child /\ srv.rdbChild.image \in Data
  BY <1>1, <1>2, DumpTypes
<1>4. CASE /\ srv' = [srv EXCEPT !.rdbChild.state = "done"]
           /\ disk' = [disk EXCEPT !.dump = srv.rdbChild.image]
  <2>1. /\ srv'.db = srv.db /\ srv'.phase = srv.phase
        /\ srv'.enable = srv.enable /\ srv'.aofChild = srv.aofChild
        /\ srv'.rdbChild.image = srv.rdbChild.image
        /\ srv'.rdbChild.state = "done"
    BY <1>2, <1>3, <1>4 DEF TypeOK, Memory, Child
  <2>2. /\ disk'.dump = srv.rdbChild.image /\ disk'.conf = disk.conf
        /\ disk'.orphans = disk.orphans
    BY <1>2, <1>4 DEF TypeOK, Files
  <2>3. Dump' = srv.rdbChild.image
    BY <1>3, <2>2, AbsentAssumption DEF Dump
  <2>4. Begins(ghost.saved, Dump) /\ Begins(Dump, srv.rdbChild.image)
    BY <1>1, <1>2 DEF DumpInv
  <2>5. Begins(ghost.saved, srv.rdbChild.image)
    BY <1>2, <1>3, <2>4, DumpTypes, PrefixTrans
  <2> QED
    BY <1>1, <1>2, <2>1, <2>2, <2>3, <2>5 DEF DumpInv
<1>5. CASE srv' = [srv EXCEPT !.rdbChild.state = "failed"] /\ disk' = disk
  <2>1. /\ srv'.db = srv.db /\ srv'.phase = srv.phase
        /\ srv'.enable = srv.enable /\ srv'.aofChild = srv.aofChild
        /\ srv'.rdbChild.image = srv.rdbChild.image
        /\ srv'.rdbChild.state = "failed"
    BY <1>2, <1>3, <1>5 DEF TypeOK, Memory, Child
  <2>2. Dump' = Dump
    BY <1>5 DEF Dump
  <2> QED
    BY <1>1, <1>2, <1>5, <2>1, <2>2 DEF DumpInv
<1> QED
  BY <1>1, <1>4, <1>5

\* A child that ended is reaped, and its save, if it was one, reported.
LEMMA DumpReaped ==
  ASSUME TypeOK, DumpInv, srv.phase \in {"serve", "timers"},
         srv'.phase \in {"poll", "rotate"},
         srv'.db = srv.db, srv'.enable = srv.enable,
         srv'.aofChild = srv.aofChild, srv'.rdbChild = RdbReaped(srv).rdbChild,
         disk' = disk, ghost' = GhostReaped(ghost)
  PROVE  DumpInv'
<1>1. Dump' = Dump
  BY DEF Dump
<1>2. ghost \in Ghosts /\ srv \in Memory
  BY DEF TypeOK
<1>3. CASE Completed(srv.rdbChild)
  <2>1. ghost'.saved = srv.rdbChild.image
    BY <1>2, <1>3, ReportedSame DEF GhostReaped
  <2>2. srv.rdbChild # Absent /\ srv.rdbChild.state = "done"
    BY <1>3 DEF Completed
  <2>3. RdbReaped(srv).rdbChild = Absent
    <3>1. rdb_on_save_complete(srv) \in Memory
      BY CompletedType
    <3> QED
      BY <1>3, <2>2, <3>1 DEF RdbReaped, Ended, Memory
  <2>4. ghost'.saved = Dump
    BY <2>1, <2>2 DEF DumpInv
  <2>5. Begins(Dump, Dump) /\ Begins(Dump, srv.db)
    BY DumpTypes, PrefixSelf DEF DumpInv
  <2> QED
    BY <1>1, <2>3, <2>4, <2>5 DEF DumpInv
<1>4. CASE ~Completed(srv.rdbChild)
  <2>1. ghost' = ghost
    BY <1>4 DEF GhostReaped
  <2>2. RdbReaped(srv).rdbChild \in {srv.rdbChild, Absent}
    BY <1>2, <1>4 DEF RdbReaped, Memory
  <2> QED
    BY <2>1, <2>2, DumpUntouched
<1> QED
  BY <1>3, <1>4

\* rename(tmp, filename): the dump is the dataset.
LEMMA DumpCommitted ==
  ASSUME DirtyInv, DumpInv, SaveCommits
  PROVE  DumpInv'
<1> DEFINE s == rdb_on_save_complete(srv)
           g == IF srv.stopping THEN Exiting(srv.buf = <<>>) ELSE ghost
<1>1. /\ srv.phase = "commit" /\ srv' = AfterSave(s)
      /\ disk' = [disk EXCEPT !.dump = srv.image]
      /\ ghost' = Reported(g, srv.image)
  BY DEF SaveCommits
<1>2. TypeOK /\ srv.image = srv.db /\ srv.rdbChild = Absent
  BY <1>1 DEF DirtyInv, SaveInv
<1>3. /\ s \in Memory /\ s.aofChild = srv.aofChild /\ s.db = srv.db
      /\ s.stopping = srv.stopping /\ s.rdbChild = srv.rdbChild
  BY <1>2, CompletedType
<1>4. s.enable = srv.enable
  BY <1>2 DEF rdb_on_save_complete, TypeOK, Memory
<1>5. g \in Ghosts /\ (srv.stopping => g.seen = srv.db)
  BY <1>2 DEF TypeOK, Exiting, Ghosts, Memory
<1> HIDE DEF s, g
<1>6. ghost'.saved = srv.db /\ ghost'.seen = g.seen
  BY <1>1, <1>2, <1>5, ReportedSame
<1>7. /\ disk'.dump = srv.db /\ disk'.conf = disk.conf
      /\ disk'.orphans = disk.orphans
  BY <1>1, <1>2 DEF TypeOK, Files
<1>8. srv.db \in Data /\ Dump' = srv.db /\ Begins(srv.db, srv.db)
  BY <1>2, <1>7, DumpTypes, PrefixSelf, AbsentAssumption DEF Dump
<1>9. CASE srv.stopping
  <2>1. srv' = Died /\ srv'.phase = "down"
    BY <1>1, <1>3, <1>9, DiedType DEF AfterSave
  <2> QED
    BY <1>1, <1>5, <1>6, <1>7, <1>8, <1>9, <2>1 DEF DumpInv
<1>10. CASE ~srv.stopping
  <2>1. srv' = [s EXCEPT !.phase = "serve", !.image = <<>>]
    BY <1>1, <1>3, <1>10 DEF AfterSave
  <2>2. /\ srv'.db = srv.db /\ srv'.phase = "serve"
        /\ srv'.enable = srv.enable /\ srv'.aofChild = srv.aofChild
        /\ srv'.rdbChild = Absent
    BY <1>2, <1>3, <1>4, <2>1 DEF Memory
  <2> QED
    BY <1>1, <1>6, <1>7, <1>8, <2>2 DEF DumpInv
<1> QED
  BY <1>9, <1>10

\* A save that fails before the renames leaves the dump.
LEMMA DumpNotSaved ==
  ASSUME DirtyInv, DumpInv, SaveFails
  PROVE  DumpInv'
<1> DEFINE s == [srv EXCEPT !.dirtyAtSave = 0]
<1>1. /\ srv.phase = "rotate" /\ disk' = disk /\ srv' = AfterSave(s)
      /\ ghost' = IF srv.stopping THEN Exiting(FALSE) ELSE ghost
  BY DEF SaveFails
<1>2. TypeOK
  BY DEF DirtyInv
<1>3. /\ s \in Memory /\ s.aofChild = srv.aofChild /\ s.db = srv.db
      /\ s.stopping = srv.stopping /\ s.rdbChild = srv.rdbChild
      /\ s.enable = srv.enable
  BY <1>2 DEF TypeOK, Memory
<1>4. ghost'.saved = ghost.saved /\ (srv.stopping => ~ghost'.clean)
  BY <1>1, <1>2 DEF TypeOK, Exiting, Ghosts
<1>5. Dump' = Dump
  BY <1>1 DEF Dump
<1> HIDE DEF s
<1>6. CASE srv.stopping
  <2>1. srv' = Died /\ srv'.phase = "down"
    BY <1>1, <1>3, <1>6, DiedType DEF AfterSave
  <2> QED
    BY <1>1, <1>4, <1>5, <1>6, <2>1 DEF DumpInv
<1>7. CASE ~srv.stopping
  <2>1. srv' = [s EXCEPT !.phase = "serve", !.image = <<>>]
    BY <1>1, <1>3, <1>7 DEF AfterSave
  <2>2. /\ srv'.db = srv.db /\ srv'.phase = "serve"
        /\ srv'.enable = srv.enable /\ srv'.aofChild = srv.aofChild
        /\ srv'.rdbChild = srv.rdbChild
    BY <1>3, <2>1 DEF Memory
  <2> QED
    BY <1>1, <1>4, <2>2, DumpUntouched
<1> QED
  BY <1>6, <1>7

\* A restart loads the dump: what was reported saved is there, and all of the
\* dataset after an orderly stop.
LEMMA DumpRecovers ==
  ASSUME TypeOK, DumpInv, Restart
  PROVE  /\ DumpInv'
         /\ Begins(ghost.saved, srv'.db)
         /\ ghost.clean => srv'.db = ghost.seen
<1>1. /\ srv.phase = "down" /\ ~disk.conf /\ disk.orphans = {}
      /\ Begins(ghost.saved, Dump) /\ (ghost.clean => ghost.seen = Dump)
  BY DEF Restart, DumpInv
<1>2. srv' = Booted(Dump, FALSE) /\ disk' = disk
  BY <1>1 DEF Restart, Dump, TypeOK, Files
<1>3. /\ srv'.db = Dump /\ srv'.phase = "poll" /\ ~srv'.enable
      /\ srv'.aofChild = Absent /\ srv'.rdbChild = Absent
  BY <1>2 DEF Booted
<1>4. Dump' = Dump /\ ghost'.saved = ghost.saved
  BY <1>2 DEF Dump, Restart, TypeOK, Ghosts
<1>5. Begins(Dump, Dump)
  BY DumpTypes, PrefixSelf
<1> QED
  BY <1>1, <1>2, <1>3, <1>4, <1>5 DEF DumpInv

\* A step that does nothing to what the dump's invariant is about.
SameDump ==
  /\ srv'.phase # "down" /\ (srv.phase = "commit" => srv'.phase = "commit")
  /\ srv'.enable = srv.enable /\ srv'.aofChild = srv.aofChild
  /\ srv'.db = srv.db /\ srv'.rdbChild \in {srv.rdbChild, Absent}
  /\ disk'.dump = disk.dump /\ disk'.conf = disk.conf
  /\ disk'.orphans = disk.orphans /\ ghost'.saved = ghost.saved

\* Every step of a deployment in which the dump is sound.
LEMMA DumpStep ==
  ASSUME DirtyInv, plan \in DOMAIN Deployments, DumpSound, DumpInv, Next
  PROVE  DumpInv'
<1>0. TypeOK /\ srv \in Memory /\ ghost \in Ghosts /\ disk \in Files
  BY DEF DirtyInv, TypeOK
<1>1. CASE Write \/ ResumedWrite
  BY <1>0, <1>1, DumpWritten DEF Write, ResumedWrite
<1>2. CASE \E f \in {"config", "kill", "power", "rename"} : Spend(f)
  BY <1>0, <1>2, Allowed DEF Faults, DumpSound
<1>3. CASE aof_rewrite_background \/ AofChildEnds
  <2>1. srv.phase # "down" \/ srv.aofChild # Absent
    BY <1>3 DEF aof_rewrite_background, AofChildEnds
  <2>2. Died.aofChild = Absent
    BY DEF Died, Booted
  <2>3. ~srv.enable /\ srv.aofChild = Absent
    BY <2>1, <2>2 DEF DumpInv
  <2> QED
    BY <1>3, <2>3 DEF aof_rewrite_background, AofChildEnds
<1>4. CASE rdb_save_background
  BY <1>0, <1>4, DumpForked
<1>5. CASE do_save
  <2>1. /\ srv.phase = "serve" /\ disk' = disk /\ ghost' = GhostReaped(ghost)
        /\ srv' = Saving(RdbReaped(srv))
    BY <1>5 DEF do_save
  <2>2. RdbReaped(srv) \in Memory /\ SameLog(srv, RdbReaped(srv))
    BY <1>0, ReapedSame
  <2>3. /\ srv'.phase = "rotate" /\ srv'.db = srv.db /\ srv'.enable = srv.enable
        /\ srv'.aofChild = srv.aofChild
        /\ srv'.rdbChild = RdbReaped(srv).rdbChild
    BY <2>1, <2>2 DEF Saving, SameLog, Memory
  <2> QED
    BY <1>0, <2>1, <2>3, DumpReaped
<1>6. CASE EndTick
  <2>1. srv.phase = "timers" /\ ~Ended(srv.aofChild)
    BY <1>6 DEF EndTick, DumpInv, Ended
  <2>2. /\ disk' = disk /\ ghost' = GhostReaped(ghost)
        /\ srv' = [RdbReaped(srv) EXCEPT !.phase = "poll"]
    BY <1>6, <2>1 DEF EndTick
  <2>3. RdbReaped(srv) \in Memory /\ SameLog(srv, RdbReaped(srv))
    BY <1>0, ReapedSame
  <2>4. /\ srv'.phase = "poll" /\ srv'.db = srv.db /\ srv'.enable = srv.enable
        /\ srv'.aofChild = srv.aofChild
        /\ srv'.rdbChild = RdbReaped(srv).rdbChild
    BY <2>2, <2>3 DEF SameLog, Memory
  <2> QED
    BY <1>0, <2>1, <2>2, <2>4, DumpReaped
<1>7. CASE SaveFails
  BY <1>7, DumpNotSaved
<1>8. CASE SaveCommits
  BY <1>8, DumpCommitted
<1>9. CASE RdbChildEnds
  BY <1>9, DumpChildEnds
<1>10. CASE Restart
  BY <1>0, <1>10, DumpRecovers
<1>11. CASE \/ OrphanEnds \/ BootFails
            \/ RewriterOpens \/ RewriterWrites \/ RewriterEnds
  <2>1. CASE OrphanEnds
    BY <2>1 DEF OrphanEnds, DumpInv
  <2>2. CASE BootFails
    BY <2>2 DEF BootFails, DumpInv
  <2>3. CASE RewriterOpens \/ RewriterWrites \/ RewriterEnds
    <3>1. /\ srv' = srv /\ ghost' = ghost /\ disk'.dump = disk.dump
          /\ disk'.conf = disk.conf /\ disk'.orphans = disk.orphans
      BY <1>0, <2>3, RewriterType DEF RewriterFrame
    <3>2. Dump' = Dump
      BY <3>1 DEF Dump
    <3> QED
      BY <3>1, <3>2 DEF DumpInv
  <2> QED
    BY <1>11, <2>1, <2>2, <2>3
<1>12. CASE SaveRotates
  <2>1. /\ srv.phase = "rotate" /\ ghost' = ghost
        /\ srv' = [srv EXCEPT !.phase = "commit"]
        /\ disk' = disk \/ disk' = [disk EXCEPT !.bak = disk.dump, !.dump = Absent]
    BY <1>12 DEF SaveRotates
  <2>2. /\ srv'.phase = "commit" /\ srv'.db = srv.db /\ srv'.enable = srv.enable
        /\ srv'.aofChild = srv.aofChild /\ srv'.rdbChild = srv.rdbChild
    BY <1>0, <2>1 DEF Memory
  <2>3. disk'.conf = disk.conf /\ disk'.orphans = disk.orphans
    BY <1>0, <2>1 DEF Files
  <2>4. srv.rdbChild = Absent
    BY <2>1 DEF DirtyInv, SaveInv
  <2> QED
    BY <2>1, <2>2, <2>3, <2>4 DEF DumpInv
<1>13. CASE BgSaveForkFails \/ Wake
  <2>1. /\ srv.phase \notin {"down", "commit"} /\ disk' = disk /\ ghost' = ghost
        /\ \/ srv' = [srv EXCEPT !.dirtyAtSave = 0]
           \/ srv' = [srv EXCEPT !.phase = "serve"]
    BY <1>13 DEF BgSaveForkFails, Wake
  <2>2. SameDump
    BY <1>0, <2>1 DEF SameDump, Memory
  <2> QED
    BY <2>1, <2>2, DumpUntouched DEF SameDump
<1>14. CASE Flush \/ Shutdown
  <2>1. srv.phase \in {"poll", "serve"}
    BY <1>14 DEF Flush, Shutdown
  <2>2. PICK k \in 0..Len(srv.buf), next \in {"timers", "stopped"} :
          aof_flush(k, next)
    BY <1>14 DEF Flush, Shutdown
  <2>3. \E b, e :
          srv' = [srv EXCEPT !.phase = next, !.buf = b, !.err = e,
                             !.stopping = next = "stopped"]
    BY <2>2 DEF aof_flush
  <2>4. /\ srv'.phase = next /\ srv'.db = srv.db /\ srv'.enable = srv.enable
        /\ srv'.aofChild = srv.aofChild /\ srv'.rdbChild = srv.rdbChild
    BY <1>0, <2>3 DEF Memory
  <2>5. \E a : disk' = [disk EXCEPT !.aof = a]
    BY <2>2 DEF aof_flush
  <2>6. /\ disk'.dump = disk.dump /\ disk'.conf = disk.conf
        /\ disk'.orphans = disk.orphans
    BY <1>0, <2>5 DEF Files
  <2>7. ghost' = ghost \/ \E x : ghost' = [ghost EXCEPT !.safe = x]
    BY <2>2 DEF aof_flush
  <2>8. ghost'.saved = ghost.saved
    BY <1>0, <2>7 DEF Ghosts
  <2> QED
    BY <2>1, <2>4, <2>6, <2>8, DumpUntouched
<1>15. CASE QueueFsync \/ FsyncStarts \/ FsyncEnds
  <2>1. srv.phase # "down"
    BY <1>15, DiedType DEF QueueFsync, FsyncStarts, FsyncEnds, DumpInv
  <2>2. \E j : srv' = [srv EXCEPT !.job = j]
    BY <1>15 DEF QueueFsync, FsyncStarts, FsyncEnds
  <2>3. /\ srv'.phase = srv.phase /\ srv'.db = srv.db /\ srv'.enable = srv.enable
        /\ srv'.aofChild = srv.aofChild /\ srv'.rdbChild = srv.rdbChild
    BY <1>0, <2>2 DEF Memory
  <2>4. /\ disk' = disk \/ \E n : disk' = [disk EXCEPT !.aof.synced = n]
        /\ \/ ghost' = ghost
           \/ \E x : ghost' = [ghost EXCEPT !.safe = x]
           \/ \E x : ghost' = [ghost EXCEPT !.mark = x]
    BY <1>15 DEF QueueFsync, FsyncStarts, FsyncEnds
  <2>5. /\ disk'.dump = disk.dump /\ disk'.conf = disk.conf
        /\ disk'.orphans = disk.orphans /\ ghost'.saved = ghost.saved
    BY <1>0, <2>4 DEF Files, Ghosts
  <2> QED
    BY <2>1, <2>3, <2>5, DumpUntouched
<1>16. CASE StopReaps
  <2>1. srv.phase = "stopped" /\ ~Ended(srv.aofChild)
    BY <1>16 DEF StopReaps, DumpInv, Ended
  <2>2. /\ disk' = disk /\ ghost' = ghost
        /\ srv' = Saving([srv EXCEPT !.rdbChild = Absent])
    BY <1>16, <2>1 DEF StopReaps
  <2>3. /\ srv'.phase = "rotate" /\ srv'.db = srv.db /\ srv'.enable = srv.enable
        /\ srv'.aofChild = srv.aofChild /\ srv'.rdbChild = Absent
    BY <1>0, <2>2 DEF Saving, Memory
  <2> QED
    BY <2>1, <2>2, <2>3, DumpUntouched
<1>17. ConfigSet \/ EditConfig \/ Kill \/ PowerCut \/ SaveCommitFails =>
         \E f \in {"config", "kill", "power", "rename"} : Spend(f)
  BY DEF ConfigSet, EditConfig, Kill, PowerCut, SaveCommitFails
<1> QED
  BY <1>1, <1>2, <1>3, <1>4, <1>5, <1>6, <1>7, <1>8, <1>9, <1>10, <1>11, <1>12,
     <1>13, <1>14, <1>15, <1>16, <1>17
  DEF Next, Step

-----------------------------------------------------------------------------
(* The theorems.                                                           *)

\* The inductive invariant: types, the dirty counter (whose invariant knows
\* what a save under way holds), and for the deployments in which the log or
\* the dump is sound, what makes them so: for the log, also that nobody else
\* writes the file a rewrite is about to swap in.
DurabilityInv ==
  /\ DirtyInv /\ plan \in DOMAIN Deployments
  /\ LogSound => LogInv /\ TempInv
  /\ DumpSound => DumpInv

\* The server boots with an empty log of an empty dataset, and no dump.
LEMMA InitDurability == Init => DurabilityInv
<1> SUFFICES ASSUME Init
             PROVE  DurabilityInv
  OBVIOUS
<1>1. DirtyInv /\ plan \in DOMAIN Deployments
  BY InitDirty DEF Init
<1>2. /\ srv.phase = "poll" /\ srv.enable = Config.aof /\ srv.open = Config.aof
      /\ srv.buf = <<>> /\ srv.db = <<>> /\ srv.aofChild = Absent
      /\ srv.rdbChild = Absent /\ srv.job = Absent
  BY DEF Init, Booted
<1>3. /\ disk.aof = (IF Config.aof THEN NewAof(<<>>, <<>>, 0) ELSE Absent)
      /\ disk.dump = Absent /\ disk.orphans = {} /\ disk.conf = Config.aof
      /\ ghost.safe = 0 /\ ghost.saved = <<>>
      /\ disk.temp.writers = {} /\ disk.temp.torn = FALSE
  BY DEF Init
<1>6. TempInv
  BY <1>2, <1>3 DEF TempInv, Completed
<1>4. ASSUME LogSound PROVE LogInv
  <2>1. Config.aof
    BY <1>4 DEF LogSound
  <2>2. disk.aof = NewAof(<<>>, <<>>, 0)
    BY <1>3, <2>1
  <2>3. disk.aof # Absent
    BY <2>2, FramesEmpty, NewAofType, AbsentAssumption
  <2>4. disk.aof.image = <<>> /\ disk.aof.tail = <<>> /\ disk.aof.synced = Len(<<>>)
    BY <2>2 DEF NewAof
  <2>5. Logged(<<>>, <<>> \o <<>>, <<>>)
    <3>1. <<>> \o <<>> = <<>>
      OBVIOUS
    <3> QED
      BY <3>1, FramesEmpty, LoggedEmpty
  <2>6. JobInv
    BY <1>2 DEF JobInv
  <2>7. UpInv
    BY <1>2, <2>1, <2>4, <2>5, <2>6 DEF UpInv
  <2>8. Covers(disk.aof.synced) = 0
    BY <2>4 DEF Covers
  <2> QED
    BY <1>2, <1>3, <2>1, <2>3, <2>4, <2>7, <2>8 DEF LogInv
<1>5. ASSUME DumpSound PROVE DumpInv
  <2>1. ~Config.aof
    BY <1>5 DEF DumpSound
  <2>2. Dump = <<>> /\ Begins(<<>>, <<>>)
    BY <1>3, FramesEmpty, PrefixSelf DEF Dump
  <2> QED
    BY <1>2, <1>3, <2>1, <2>2 DEF DumpInv
<1> QED
  BY <1>1, <1>4, <1>5, <1>6 DEF DurabilityInv

\* It is kept by every step.
LEMMA StepDurability == DurabilityInv /\ [Next]_vars => DurabilityInv'
<1> SUFFICES ASSUME DurabilityInv, [Next]_vars
             PROVE  DurabilityInv'
  OBVIOUS
<1>1. DirtyInv'
  BY StepDirty DEF DurabilityInv
<1>2. plan' = plan /\ TypeOK /\ TypeOK'
  BY <1>1 DEF Next, vars, DurabilityInv, DirtyInv
<1>3. (LogSound' <=> LogSound) /\ (DumpSound' <=> DumpSound)
  BY <1>2 DEF LogSound, DumpSound, Config
<1>4. CASE Next
  BY <1>1, <1>2, <1>3, <1>4, LogStep, TempStep, DumpStep DEF DurabilityInv
<1>5. CASE UNCHANGED vars
  <2>1. srv' = srv /\ disk' = disk /\ ghost' = ghost /\ used' = used /\ plan' = plan
    BY <1>5 DEF vars
  <2>2. LogInv' <=> LogInv
    BY <2>1 DEF LogInv, DownInv, UpInv, JobInv, Covers, Config
  <2>3. DumpInv' <=> DumpInv
    BY <2>1 DEF DumpInv, Dump
  <2>4. TempInv' <=> TempInv
    BY <2>1 DEF TempInv, Config, Completed
  <2> QED
    BY <1>1, <1>2, <1>3, <2>2, <2>3, <2>4 DEF DurabilityInv
<1> QED
  BY <1>4, <1>5

\* LogReplays holds in every deployment: in those in which the log is sound, its
\* preamble is whole, and file and buffer replay to the dataset in memory,
\* rewrites that outlived their server included.
THEOREM LogReplaysData == Spec => []LogReplays
<1>1. ASSUME DurabilityInv PROVE LogReplays
  <2> SUFFICES ASSUME LogSound, srv.enable, srv.open
               PROVE  Loaded([disk.aof EXCEPT !.tail = @ \o srv.buf]) = srv.db
    BY <1>1 DEF LogReplays, LogIsData, LogLoads, DurabilityInv, TempInv
  <2>1. LogInv /\ TypeOK
    BY <1>1 DEF DurabilityInv, DirtyInv
  <2>2. srv.phase # "down"
    BY <2>1, DiedType DEF LogInv, DownInv
  <2>3. disk.aof # Absent /\ Logged(disk.aof.image, disk.aof.tail \o srv.buf, srv.db)
    BY <2>1, <2>2 DEF LogInv, UpInv
  <2>4. /\ disk.aof.image \in Data /\ disk.aof.tail \o srv.buf \in Bytes
        /\ srv.db \in Data /\ disk.aof \in AofFile
    BY <2>1, <2>3, LogTypes
  <2>5. disk.aof.image \o Replay(disk.aof.tail \o srv.buf) = srv.db
    BY <2>3, <2>4, LoggedLoads
  <2> DEFINE aof == [disk.aof EXCEPT !.tail = @ \o srv.buf]
  <2>6. aof.image = disk.aof.image /\ aof.tail = disk.aof.tail \o srv.buf
    BY <2>4 DEF AofFile
  <2> HIDE DEF aof
  <2>7. Loaded(aof) = srv.db
    BY <2>5, <2>6 DEF Loaded
  <2> QED
    BY <2>7 DEF aof
<1> QED
  BY <1>1, InitDurability, StepDurability, PTL DEF Spec

\* SyncedSurvives holds: a restart from a sound log loses only a suffix of the
\* writes, and none that an fdatasync covered.
THEOREM SyncedWritesSurvive == Spec => SyncedSurvives
<1>1. DurabilityInv /\ [Next]_vars => [LogSound => CrashStep]_vars
  <2> SUFFICES ASSUME DurabilityInv, Next, LogSound, Restart
               PROVE  Begins(srv'.db, ghost.seen) /\ Len(srv'.db) >= ghost.safe
    BY DEF CrashStep
  <2>1. TypeOK /\ LogInv /\ plan' = plan
    BY DEF DurabilityInv, DirtyInv, Next
  <2> QED
    BY <2>1, LogRecovers
<1> QED
  BY <1>1, InitDurability, StepDurability, PTL DEF Spec, SyncedSurvives

\* StopKeepsAll holds: after an orderly stop the server has the data it had,
\* and a restart from a sound dump has what was reported saved.
THEOREM StopKeepsData == Spec => StopKeepsAll
<1> DEFINE A == /\ LogSound \/ DumpSound => ShutdownStep
                /\ DumpSound => SavedStep
<1>1. DurabilityInv /\ [Next]_vars => [A]_vars
  <2> SUFFICES ASSUME DurabilityInv, Next, Restart
               PROVE  /\ LogSound \/ DumpSound =>
                           (ghost.clean => srv'.db = ghost.seen)
                      /\ DumpSound => Begins(ghost.saved, srv'.db)
    BY DEF ShutdownStep, SavedStep
  <2>1. TypeOK /\ plan' = plan
    BY DEF DurabilityInv, DirtyInv, Next
  <2>2. ASSUME LogSound PROVE ghost.clean => srv'.db = ghost.seen
    BY <2>1, <2>2, LogRecovers DEF DurabilityInv
  <2>3. ASSUME DumpSound
        PROVE  /\ ghost.clean => srv'.db = ghost.seen
               /\ Begins(ghost.saved, srv'.db)
    BY <2>1, <2>3, DumpRecovers DEF DurabilityInv
  <2> QED
    BY <2>2, <2>3
<1> QED
  BY <1>1, InitDurability, StepDurability, PTL DEF Spec, StopKeepsAll

=============================================================================
