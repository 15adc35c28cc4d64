------------------------- MODULE PersistenceProofs -------------------------
(***************************************************************************)
(* Type correctness of the persistence layer, and its dirty counter, for   *)
(* every limit: the number that decides when the next automatic save is    *)
(* due never drifts from the changes that no completed save holds.         *)
(***************************************************************************)
EXTENDS Persistence, SequenceTheorems, WellFoundedInduction, NaturalsInduction,
        TLAPS

\* A non-empty set of natural numbers has a least element.
LEMMA LeastExists ==
  ASSUME NEW S \in SUBSET Nat, S # {}
  PROVE  \E m \in S : \A x \in S : m <= x
<1>1. \E m \in S : \A x \in S : ~ (<<x, m>> \in OpToRel(<, Nat))
  BY WFMin, NatLessThanWellFounded
<1>2. PICK m \in S : \A x \in S : ~ (<<x, m>> \in OpToRel(<, Nat))
  BY <1>1
<1>3. ASSUME NEW x \in S PROVE m <= x
  <2>1. (x < m) => <<x, m>> \in OpToRel(<, Nat)
    BY Zenon DEF OpToRel
  <2>2. ~(x < m)
    BY <1>2, <2>1, Zenon
  <2> QED
    BY <2>2
<1> QED
  BY <1>3

\* The replay parses no more frames than the file has.
LEMMA ParsedBound ==
  ASSUME NEW tail \in Bytes
  PROVE  Parsed(tail) \in Nat /\ 2 * Parsed(tail) <= Len(tail)
<1> DEFINE n == Len(tail) \div 2
           B == {i \in 1..n + 1 : i > n \/ ~Whole(tail, i)}
<1>0. Len(tail) \in Nat
  BY DEF Bytes
<1>1. n \in Nat /\ 2 * n <= Len(tail)
  BY <1>0
<1>2. n + 1 \in B /\ B \in SUBSET Nat
  BY <1>1
<1>3. PICK m \in B : \A x \in B : m <= x
  BY <1>2, LeastExists
<1>4. Min(B) \in B
  BY <1>3 DEF Min
<1>5. Parsed(tail) = Min(B) - 1
  BY DEF Parsed
<1> HIDE DEF B
<1> QED
  BY <1>0, <1>1, <1>4, <1>5 DEF B

\* What an AOF loads is a dataset.
LEMMA LoadedIsData ==
  ASSUME NEW aof \in AofFile
  PROVE  Loaded(aof) \in Data
<1> DEFINE t == aof.tail
           p == Parsed(t)
           r == [i \in 1..p |-> t[2*i - 1][1]]
<1>1. t \in Bytes /\ aof.image \in Seq(Nat)
  BY DEF AofFile, Data
<1>2. p \in Nat /\ 2 * p <= Len(t) /\ Len(t) \in Nat
  BY <1>1, ParsedBound DEF Bytes
<1> HIDE DEF p
<1>3. ASSUME NEW i \in 1..p PROVE t[2*i - 1][1] \in Nat
  <2>1. 2*i - 1 \in 1..Len(t)
    BY <1>2
  <2>2. t[2*i - 1] \in Nat \X {1, 2}
    BY <1>1, <2>1 DEF Bytes
  <2> QED
    BY <2>2
<1>4. r \in [1..p -> Nat]
  BY <1>3
<1>5. r \in Seq(Nat)
  BY <1>2, <1>4, SeqDef
<1>6. Loaded(aof) = aof.image \o r
  BY DEF Loaded, Replay, p
<1> QED
  BY <1>1, <1>5, <1>6 DEF Data

-----------------------------------------------------------------------------
(* Type correctness.                                                       *)

\* Spending from a limit keeps the counters natural numbers.
LEMMA SpendKeeps ==
  ASSUME used \in [Faults -> Nat], NEW f \in Faults, Spend(f)
  PROVE  used' \in [Faults -> Nat]
BY DEF Spend

\* The memory main sets up around a dataset is well formed.
LEMMA BootedType ==
  ASSUME NEW db \in Data, NEW e \in BOOLEAN
  PROVE  /\ Booted(db, e) \in Memory
         /\ Booted(db, e).delta = <<>> /\ Booted(db, e).open = e
         /\ Booted(db, e).db = db /\ Booted(db, e).phase = "poll"
         /\ Booted(db, e).dirty = 0 /\ Booted(db, e).rdbChild = Absent
         /\ Booted(db, e).job = Absent
<1>1. <<>> \in Data /\ <<>> \in Bytes
  BY DEF Data, Bytes
<1> QED
  BY <1>1 DEF Booted, Memory

\* A server that is down has the memory of none.
LEMMA DiedType ==
  /\ Died \in Memory /\ Died.delta = <<>> /\ ~Died.open
  /\ Died.db = <<>> /\ Died.phase = "down"
  /\ Died.dirty = 0 /\ Died.rdbChild = Absent /\ Died.job = Absent
<1> DEFINE b == Booted(<<>>, FALSE)
<1>1. /\ b \in Memory /\ b.delta = <<>> /\ b.open = FALSE /\ b.db = <<>>
      /\ b.dirty = 0 /\ b.rdbChild = Absent /\ b.job = Absent
  <2>1. <<>> \in Data
    BY DEF Data
  <2> QED
    BY <2>1, BootedType
<1>2. Died = [b EXCEPT !.phase = "down"]
  BY DEF Died
<1> HIDE DEF b
<1> QED
  BY <1>1, <1>2 DEF Memory

\* A new log, created at start or swapped in by a rewrite, is a log.
LEMMA NewAofType ==
  ASSUME NEW image \in Data, NEW tail \in Bytes, NEW gen \in Nat
  PROVE  NewAof(image, tail, gen) \in AofFile
<1>1. Len(tail) \in Nat
  BY DEF Bytes
<1> QED
  BY <1>1 DEF NewAof, AofFile

\* What aof_flush has written, all of it or part of it, leaves a log.
LEMMA AppendedType ==
  ASSUME TypeOK, NEW aof \in AofFile, NEW k \in 0..Len(srv.buf)
  PROVE  Appended(aof, k) \in AofFile /\ Len(Appended(aof, k).tail) \in Nat
<1>1. srv.buf \in Bytes /\ aof.tail \in Bytes
  BY DEF TypeOK, Memory, AofFile
<1>2. SubSeq(srv.buf, 1, k) \in Bytes
  BY <1>1 DEF Bytes
<1>3. aof.tail \o SubSeq(srv.buf, 1, k) \in Bytes
  BY <1>1, <1>2 DEF Bytes
<1> DEFINE t == aof.tail \o SubSeq(srv.buf, 1, k)
<1>4. Appended(aof, k) = [aof EXCEPT !.tail = t]
  BY DEF Appended
<1>5. t \in Bytes
  BY <1>3
<1> HIDE DEF t
<1>6. Len(t) \in Nat
  BY <1>5 DEF Bytes
<1> QED
  BY <1>4, <1>5, <1>6 DEF AofFile

\* A propagated frame is bytes.
LEMMA FrameType ==
  ASSUME NEW w \in Nat, NEW b \in Bytes
  PROVE  b \o Frame(w) \in Bytes
<1>1. Frame(w) \in Bytes
  BY DEF Frame, Bytes
<1> QED
  BY <1>1 DEF Bytes

\* rdb_on_save_complete, the reap of the dump's child and the start of a save
\* leave the log's buffers and descriptor alone.
LEMMA ReapedType ==
  ASSUME NEW s \in Memory
  PROVE  LET t == RdbReaped(s) IN
         /\ t \in Memory /\ t.delta = s.delta /\ t.open = s.open
         /\ t.aofChild = s.aofChild /\ t.db = s.db /\ t.image = s.image
         /\ t.job = s.job
<1> DEFINE c == rdb_on_save_complete(s)
           t == RdbReaped(s)
<1>1. /\ c \in Memory /\ c.delta = s.delta /\ c.open = s.open
      /\ c.aofChild = s.aofChild /\ c.db = s.db /\ c.image = s.image
      /\ c.job = s.job
  <2> DEFINE d == IF s.dirty >= s.dirtyAtSave THEN s.dirty - s.dirtyAtSave ELSE 0
  <2>1. d \in Nat
    BY DEF Memory
  <2>2. c = [s EXCEPT !.dirty = d, !.dirtyAtSave = 0]
    BY DEF rdb_on_save_complete
  <2> HIDE DEF c, d
  <2> QED
    BY <2>1, <2>2 DEF Memory
<1> HIDE DEF c
<1>2. t = s \/ t = [s EXCEPT !.rdbChild = Absent]
      \/ t = [c EXCEPT !.rdbChild = Absent]
  BY DEF RdbReaped, c
<1> HIDE DEF t
<1>3. QED
  BY <1>1, <1>2 DEF Memory, t

\* The start of rdb_save changes the phase, the captured counter and the image.
LEMMA SavingType ==
  ASSUME NEW s \in Memory
  PROVE  LET t == Saving(s) IN
         /\ t \in Memory /\ t.delta = s.delta /\ t.open = s.open
         /\ t.aofChild = s.aofChild /\ t.db = s.db /\ t.image = s.db
         /\ t.phase = "rotate" /\ t.dirty = s.dirty
         /\ t.dirtyAtSave = s.dirty /\ t.rdbChild = s.rdbChild
         /\ t.job = s.job
BY DEF Saving, Memory

\* Remembering a reported save.
LEMMA ReportedType ==
  ASSUME NEW g \in Ghosts, NEW image \in Data
  PROVE  Reported(g, image) \in Ghosts /\ Reported(g, image).base = Len(image)
<1>1. Len(image) \in Nat
  BY DEF Data
<1> QED
  BY <1>1 DEF Reported, Ghosts

\* Remembering the dataset of a process that ends.
LEMMA ExitingType ==
  ASSUME TypeOK, NEW c \in BOOLEAN
  PROVE  Exiting(c) \in Ghosts /\ Exiting(c).base = ghost.base
BY DEF Exiting, TypeOK, Ghosts, Memory

\* Remembering the save of a child that is reaped.
LEMMA GhostReapedType ==
  ASSUME TypeOK
  PROVE  GhostReaped(ghost) \in Ghosts
<1>1. ASSUME Completed(srv.rdbChild) PROVE srv.rdbChild.image \in Data
  BY <1>1 DEF Completed, TypeOK, Memory, Child
<1> QED
  BY <1>1, ReportedType DEF GhostReaped, TypeOK

\* A writer keeps its image when its file loses its name or takes another.
LEMMA MovedType ==
  ASSUME NEW writers \in SUBSET Writer, NEW from,
         NEW to \in {"none", "temp", "log", "gone"}
  PROVE  Moved(writers, from, to) \in SUBSET Writer
<1>1. ASSUME NEW w \in writers PROVE [w EXCEPT !.on = to] \in Writer
  BY DEF Writer
<1> QED
  BY <1>1 DEF Moved

\* What unlink and rename leave of the temporary file.
LEMMA TempType ==
  ASSUME NEW t \in Temp
  PROVE  /\ Unlinked(t) \in Temp
         /\ t.file # Absent => Renamed(t) \in Temp
<1>1. Moved(t.writers, "temp", "gone") \in SUBSET Writer
  BY MovedType DEF Temp
<1>2. Moved(Moved(t.writers, "log", "gone"), "temp", "log") \in SUBSET Writer
  <2>1. Moved(t.writers, "log", "gone") \in SUBSET Writer
    BY MovedType DEF Temp
  <2> QED
    BY <2>1, MovedType
<1>3. t.file # Absent => t.file.torn \in BOOLEAN
  BY DEF Temp
<1> DEFINE m == Moved(t.writers, "temp", "gone")
<1>4. Unlinked(t) = [t EXCEPT !.file = Absent, !.writers = m]
  BY DEF Unlinked
<1> HIDE DEF m
<1>5. Unlinked(t) \in Temp
  BY <1>1, <1>4 DEF Temp, m
<1>6. t.file # Absent => Renamed(t) \in Temp
  BY <1>2, <1>3 DEF Renamed, Temp
<1> QED
  BY <1>5, <1>6

\* The reap of a rewrite, applied to a server memory s that agrees with srv on
\* the log: types, and what it leaves alone.
LEMMA RewriteReapType ==
  ASSUME TypeOK, NEW s \in Memory, s.delta = srv.delta, s.open = srv.open,
         srv.aofChild # Absent, aof_rewrite_reap(s)
  PROVE  /\ srv' \in Memory /\ disk' \in Files /\ used' \in [Faults -> Nat]
         /\ srv'.delta = <<>> /\ (srv'.open => disk'.aof # Absent)
         /\ srv'.job = s.job /\ (disk.aof # Absent => disk'.aof # Absent)
         /\ srv'.db = s.db /\ srv'.dirty = s.dirty /\ srv'.phase = s.phase
         /\ srv'.dirtyAtSave = s.dirtyAtSave /\ srv'.image = s.image
         /\ srv'.rdbChild = s.rdbChild
<1> DEFINE d == Dropped(s)
<1>1. /\ d \in Memory /\ d.delta = <<>> /\ d.open = s.open /\ d.db = s.db
      /\ d.dirty = s.dirty /\ d.phase = s.phase /\ d.image = s.image
      /\ d.dirtyAtSave = s.dirtyAtSave /\ d.rdbChild = s.rdbChild
      /\ d.job = s.job
  <2>1. <<>> \in Bytes
    BY DEF Bytes
  <2> QED
    BY <2>1 DEF Dropped, Memory
<1>2. disk.temp.file # Absent => Swapped \in AofFile
  <2>1. /\ srv.delta \in Bytes
        /\ disk.temp.file # Absent => disk.temp.file.image \in Data
    BY DEF TypeOK, Memory, Files, Temp
  <2>2. Gen + 1 \in Nat
    BY DEF Gen, TypeOK, Files, AofFile
  <2> QED
    BY <2>1, <2>2, NewAofType DEF Swapped
<1>3. /\ Unlinked(disk.temp) \in Temp
      /\ disk.temp.file # Absent => Renamed(disk.temp) \in Temp
  BY TempType DEF TypeOK, Files
<1>4. used' = used \/ Spend("child") \/ Spend("reopen")
  BY DEF aof_rewrite_reap
<1>5. used' \in [Faults -> Nat]
  BY <1>4, SpendKeeps DEF TypeOK, Faults
<1> DEFINE swap == [disk EXCEPT !.aof = Swapped, !.temp = Renamed(disk.temp)]
<1>6. \/ srv' = d /\ disk' = [disk EXCEPT !.temp = Unlinked(disk.temp)]
      \/ /\ disk.temp.file # Absent /\ disk' = swap
         /\ srv' = [d EXCEPT !.open = TRUE] \/ srv' = [d EXCEPT !.open = FALSE]
  BY DEF aof_rewrite_reap
<1> HIDE DEF d
<1>7. CASE srv' = d /\ disk' = [disk EXCEPT !.temp = Unlinked(disk.temp)]
  <2>1. disk' \in Files /\ disk'.aof = disk.aof
    BY <1>3, <1>7 DEF TypeOK, Files
  <2> QED
    BY <1>1, <1>5, <1>7, <2>1 DEF TypeOK
<1>8. CASE /\ disk.temp.file # Absent /\ disk' = swap
           /\ srv' = [d EXCEPT !.open = TRUE] \/ srv' = [d EXCEPT !.open = FALSE]
  <2>1. disk' \in Files /\ disk'.aof = Swapped
    BY <1>2, <1>3, <1>8 DEF TypeOK, Files
  <2>2. disk'.aof # Absent
    BY <1>2, <1>8, <2>1, AbsentAssumption
  <2>3. PICK b \in BOOLEAN : srv' = [d EXCEPT !.open = b]
    BY <1>8
  <2>4. /\ srv' \in Memory /\ srv'.delta = d.delta /\ srv'.job = d.job /\ srv'.db = d.db
        /\ srv'.dirty = d.dirty /\ srv'.phase = d.phase /\ srv'.image = d.image
        /\ srv'.dirtyAtSave = d.dirtyAtSave /\ srv'.rdbChild = d.rdbChild
    BY <1>1, <2>3 DEF Memory
  <2> QED
    BY <1>1, <1>5, <2>1, <2>2, <2>4
<1> QED
  BY <1>6, <1>7, <1>8

\* aof_flush: types, and what it leaves alone.
LEMMA FlushType ==
  ASSUME TypeOK, NEW k \in 0..Len(srv.buf),
         NEW next \in {"timers", "stopped"}, aof_flush(k, next)
  PROVE  /\ srv' \in Memory /\ disk' \in Files /\ ghost' \in Ghosts
         /\ used' \in [Faults -> Nat]
         /\ srv'.delta = srv.delta /\ srv'.aofChild = srv.aofChild
         /\ srv'.open = srv.open /\ srv'.job = srv.job
         /\ (disk.aof # Absent => disk'.aof # Absent)
         /\ srv'.phase = next /\ srv'.db = srv.db /\ srv'.dirty = srv.dirty
         /\ srv'.dirtyAtSave = srv.dirtyAtSave /\ srv'.rdbChild = srv.rdbChild
         /\ ghost'.base = ghost.base
<1> DEFINE wrote == srv.open /\ k > 0
           aof == IF wrote THEN Appended(disk.aof, k) ELSE disk.aof
           rest == IF srv.open THEN SubSeq(srv.buf, k + 1, Len(srv.buf)) ELSE srv.buf
           bad == IF srv.open /\ srv.buf # <<>> THEN k < Len(srv.buf) ELSE srv.err
<1>1. used' = used \/ Spend("short") \/ Spend("fsync")
  BY DEF aof_flush
<1>2. used' \in [Faults -> Nat]
  BY <1>1, SpendKeeps DEF Faults, TypeOK
<1>3. srv.buf \in Bytes /\ Len(srv.buf) \in Nat
  BY DEF TypeOK, Memory, Bytes
<1>4. rest \in Bytes /\ bad \in BOOLEAN
  <2>1. SubSeq(srv.buf, k + 1, Len(srv.buf)) \in Bytes
    BY <1>3 DEF Bytes
  <2>2. srv.err \in BOOLEAN
    BY DEF TypeOK, Memory
  <2>3. (k < Len(srv.buf)) \in BOOLEAN
    OBVIOUS
  <2> QED
    BY <1>3, <2>1, <2>2, <2>3, Zenon
<1>5. srv' = [srv EXCEPT !.phase = next, !.buf = rest, !.err = bad,
                         !.stopping = (next = "stopped")]
  BY DEF aof_flush
<1>6. /\ aof \in AofFile \cup {Absent}
      /\ srv.open => aof \in AofFile /\ Len(aof.tail) \in Nat
      /\ disk.aof # Absent => aof # Absent
  <2>1. srv.open => disk.aof \in AofFile
    BY DEF TypeOK, Files
  <2>2. ASSUME srv.open PROVE Len(disk.aof.tail) \in Nat
    BY <2>1, <2>2 DEF AofFile, Bytes
  <2>3. disk.aof \in AofFile \cup {Absent}
    BY DEF TypeOK, Files
  <2> QED
    BY <2>1, <2>2, <2>3, AppendedType, AbsentAssumption
<1>7. \/ disk' = [disk EXCEPT !.aof = aof]
      \/ srv.open /\ disk' = [disk EXCEPT !.aof = [aof EXCEPT !.synced = Len(aof.tail)]]
  BY DEF aof_flush
<1>8. ghost' = ghost \/ ghost' = [ghost EXCEPT !.safe = Flushed(srv')]
  BY DEF aof_flush
<1> HIDE DEF aof, rest, bad, wrote
<1>9. /\ srv' \in Memory /\ srv'.delta = srv.delta /\ srv'.open = srv.open
      /\ srv'.aofChild = srv.aofChild /\ srv'.phase = next /\ srv'.db = srv.db
      /\ srv'.dirty = srv.dirty /\ srv'.dirtyAtSave = srv.dirtyAtSave
      /\ srv'.rdbChild = srv.rdbChild /\ srv'.job = srv.job
  BY <1>4, <1>5 DEF TypeOK, Memory
<1>10. disk' \in Files /\ (disk.aof # Absent => disk'.aof # Absent)
  <2>1. CASE disk' = [disk EXCEPT !.aof = aof]
    BY <1>6, <2>1, AbsentAssumption DEF TypeOK, Files
  <2>2. CASE srv.open /\ disk' = [disk EXCEPT !.aof = [aof EXCEPT !.synced = Len(aof.tail)]]
    <3>1. [aof EXCEPT !.synced = Len(aof.tail)] \in AofFile
      BY <1>6, <2>2 DEF AofFile
    <3> QED
      BY <2>2, <3>1, AbsentAssumption DEF TypeOK, Files
  <2> QED
    BY <1>7, <2>1, <2>2
<1>11. Flushed(srv') \in Int
  <2>1. Len(srv'.db) \in Nat /\ Len(srv'.buf) \in Nat
    BY <1>9 DEF Memory, Data, Bytes
  <2> QED
    BY <2>1 DEF Flushed
<1>12. ghost' \in Ghosts /\ ghost'.base = ghost.base
  BY <1>8, <1>11 DEF TypeOK, Ghosts
<1> QED
  BY <1>2, <1>9, <1>10, <1>12

\* The library maximum of two integers is one of them.
LEMMA MaxOfTwo ==
  ASSUME NEW a \in Int, NEW b \in Int
  PROVE  Max({a, b}) \in {a, b}
<1>1. \E x \in {a, b} : \A y \in {a, b} : x >= y
  <2>1. a >= b \/ b >= a
    OBVIOUS
  <2> QED
    BY <2>1
<1> QED
  BY <1>1 DEF Max

\* The library minimum of two integers is one of them.
LEMMA MinOfTwo ==
  ASSUME NEW a \in Int, NEW b \in Int
  PROVE  Min({a, b}) \in {a, b}
<1>1. \E x \in {a, b} : \A y \in {a, b} : x <= y
  <2>1. a <= b \/ b <= a
    OBVIOUS
  <2> QED
    BY <2>1
<1> QED
  BY <1>1 DEF Min

\* The truncation in aof_load leaves a log.
LEMMA TrimmedType ==
  ASSUME NEW aof \in AofFile
  PROVE  Trimmed(aof) \in AofFile
<1> DEFINE good == 2 * Parsed(aof.tail)
           t == SubSeq(aof.tail, 1, good)
           n == Min({aof.synced, good})
<1>1. aof.tail \in Bytes /\ aof.synced \in Nat
  BY DEF AofFile
<1>2. good \in Nat /\ good <= Len(aof.tail) /\ Len(aof.tail) \in Nat
  BY <1>1, ParsedBound DEF Bytes
<1> HIDE DEF good
<1>3. t \in Bytes
  BY <1>1, <1>2 DEF Bytes
<1>4. n \in Nat
  BY <1>1, <1>2, MinOfTwo
<1>5. Trimmed(aof) = [aof EXCEPT !.tail = t, !.synced = n]
  BY DEF Trimmed, good
<1> HIDE DEF t, n
<1> QED
  BY <1>3, <1>4, <1>5 DEF AofFile

\* A step that leaves the log's part of the memory alone.
LEMMA LogKept ==
  ASSUME TypeOK, srv' \in Memory, disk' \in Files, ghost' \in Ghosts,
         used' \in [Faults -> Nat], srv'.delta = srv.delta,
         srv'.open = srv.open, srv'.aofChild = srv.aofChild,
         srv'.job = srv.job, disk.aof # Absent => disk'.aof # Absent
  PROVE  TypeOK'
BY DEF TypeOK

\* A step to a server that is down keeps the types if the files do.
LEMMA DownTyped ==
  ASSUME srv' = Died, disk' \in Files, ghost' \in Ghosts,
         used' \in [Faults -> Nat]
  PROVE  TypeOK'
BY DiedType DEF TypeOK

\* After rdb_save the server serves again or, at shutdown, is gone.
LEMMA AfterSaveType ==
  ASSUME NEW s \in Memory
  PROVE  \/ s.stopping /\ AfterSave(s) = Died
         \/ /\ ~s.stopping /\ AfterSave(s) \in Memory
            /\ AfterSave(s).delta = s.delta /\ AfterSave(s).open = s.open
            /\ AfterSave(s).aofChild = s.aofChild /\ AfterSave(s).job = s.job
            /\ AfterSave(s).db = s.db /\ AfterSave(s).dirty = s.dirty
            /\ AfterSave(s).rdbChild = s.rdbChild /\ AfterSave(s).phase = "serve"
<1>1. <<>> \in Data
  BY DEF Data
<1> QED
  BY <1>1 DEF AfterSave, Memory

\* rdb_on_save_complete changes the two counters only.
LEMMA CompletedType ==
  ASSUME TypeOK
  PROVE  LET c == rdb_on_save_complete(srv) IN
         /\ c \in Memory /\ c.delta = srv.delta /\ c.open = srv.open
         /\ c.aofChild = srv.aofChild /\ c.job = srv.job /\ c.db = srv.db
         /\ c.stopping = srv.stopping /\ c.rdbChild = srv.rdbChild
         /\ srv.dirty = srv.dirtyAtSave => c.dirty = 0
<1> DEFINE c == rdb_on_save_complete(srv)
           d == IF srv.dirty >= srv.dirtyAtSave THEN srv.dirty - srv.dirtyAtSave
                ELSE 0
<1>0. srv \in Memory /\ srv.dirty \in Nat /\ srv.dirtyAtSave \in Nat
  BY DEF TypeOK, Memory
<1>1. d \in Nat /\ (srv.dirty = srv.dirtyAtSave => d = 0)
  BY <1>0
<1>2. c = [srv EXCEPT !.dirty = d, !.dirtyAtSave = 0]
  BY DEF rdb_on_save_complete
<1> HIDE DEF c, d
<1>3. /\ c \in Memory /\ c.delta = srv.delta /\ c.open = srv.open
      /\ c.aofChild = srv.aofChild /\ c.job = srv.job /\ c.db = srv.db
      /\ c.stopping = srv.stopping /\ c.rdbChild = srv.rdbChild
      /\ c.dirty = d
  BY <1>0, <1>1, <1>2 DEF Memory
<1> QED
  BY <1>1, <1>3 DEF c

\* A write() that was cut short took a prefix of the buffer.
LEMMA InFlightBound ==
  ASSUME TypeOK, NEW k \in InFlight
  PROVE  k \in 0..Len(srv.buf)
<1>1. Len(srv.buf) \in Nat
  BY DEF TypeOK, Memory, Bytes
<1> QED
  BY <1>1 DEF InFlight

\* main loads a dataset, whichever file it chooses, and leaves a log.
LEMMA RestartType ==
  ASSUME TypeOK, Restart
  PROVE  /\ TypeOK' /\ srv'.phase = "poll" /\ srv'.dirty = 0
         /\ srv'.rdbChild = Absent /\ ghost'.base = Len(srv'.db)
<1> DEFINE db == IF disk.conf /\ disk.aof # Absent THEN Loaded(disk.aof)
                 ELSE IF disk.dump # Absent THEN disk.dump
                 ELSE <<>>
           f == IF disk.aof = Absent THEN NewAof(<<>>, <<>>, 0)
                ELSE Trimmed(disk.aof)
<1>0. /\ disk \in Files /\ ghost \in Ghosts /\ used \in [Faults -> Nat]
      /\ <<>> \in Data /\ <<>> \in Bytes /\ disk.conf \in BOOLEAN
  BY DEF TypeOK, Data, Bytes, Files
<1>1. /\ srv' = Booted(db, disk.conf) /\ used' = used
      /\ disk' = IF ~disk.conf THEN disk ELSE [disk EXCEPT !.aof = f]
      /\ ghost' = [ghost EXCEPT !.base = Len(srv'.db)]
  BY DEF Restart
<1>2. db \in Data
  <2>1. disk.dump \in Data \cup {Absent} /\ disk.aof \in AofFile \cup {Absent}
    BY <1>0 DEF Files
  <2> QED
    BY <1>0, <2>1, LoadedIsData
<1>3. f \in AofFile
  BY <1>0, NewAofType, TrimmedType DEF Files
<1> HIDE DEF db, f
<1>4. /\ srv' \in Memory /\ srv'.delta = <<>> /\ srv'.open = disk.conf
      /\ srv'.db = db /\ srv'.phase = "poll" /\ srv'.dirty = 0
      /\ srv'.rdbChild = Absent /\ srv'.job = Absent
  BY <1>0, <1>1, <1>2, BootedType
<1>5. disk' \in Files /\ (disk.conf => disk'.aof # Absent)
  BY <1>0, <1>1, <1>3, AbsentAssumption DEF Files
<1>6. ghost' \in Ghosts /\ ghost'.base = Len(srv'.db)
  <2>1. Len(srv'.db) \in Nat
    BY <1>2, <1>4 DEF Data
  <2> QED
    BY <1>0, <1>1, <2>1 DEF Ghosts
<1>7. TypeOK'
  BY <1>0, <1>1, <1>4, <1>5, <1>6 DEF TypeOK
<1> QED
  BY <1>4, <1>6, <1>7

\* A write command, run and propagated, keeps the types.
LEMMA WrittenType ==
  ASSUME TypeOK, Written, used' \in [Faults -> Nat]
  PROVE  /\ TypeOK' /\ ghost' = ghost
         /\ \E w \in Nat : srv'.db = Append(srv.db, w)
         /\ srv'.dirty = srv.dirty + 1
         /\ srv'.phase = srv.phase /\ srv'.dirtyAtSave = srv.dirtyAtSave
         /\ srv'.rdbChild = srv.rdbChild
<1> DEFINE w == used.write + used.resumed + 1
           d == Append(srv.db, w)
           n == srv.dirty + 1
           r == [srv EXCEPT !.db = d, !.dirty = n]
           b == srv.buf \o Frame(w)
           e == srv.delta \o Frame(w)
<1>1. w \in Nat
  <2>1. used.write \in Nat /\ used.resumed \in Nat
    BY DEF TypeOK, Faults
  <2> QED
    BY <2>1
<1>2. srv' = Propagated(r, w) /\ disk' = disk /\ ghost' = ghost
  BY DEF Written
<1> HIDE DEF w
<1>3. d \in Data
  BY <1>1 DEF TypeOK, Memory, Data
<1>4. b \in Bytes /\ e \in Bytes
  BY <1>1, FrameType DEF TypeOK, Memory
<1>9. n \in Nat
  BY DEF TypeOK, Memory
<1> HIDE DEF d, n
<1>5. /\ r \in Memory /\ r.delta = srv.delta /\ r.open = srv.open
      /\ r.aofChild = srv.aofChild /\ r.job = srv.job /\ r.db = d
      /\ r.dirty = n /\ r.phase = srv.phase /\ r.buf = srv.buf
      /\ r.dirtyAtSave = srv.dirtyAtSave /\ r.rdbChild = srv.rdbChild
  BY <1>3, <1>9 DEF TypeOK, Memory
<1> HIDE DEF r
<1>6. \/ srv' = r
      \/ srv' = [r EXCEPT !.buf = b, !.delta = srv.delta]
      \/ srv.aofChild # Absent /\ srv' = [r EXCEPT !.buf = b, !.delta = e]
  BY <1>2, <1>5 DEF Propagated
<1> HIDE DEF b, e
<1>7. /\ srv' \in Memory /\ srv'.open = srv.open
      /\ srv'.delta = srv.delta \/ srv.aofChild # Absent
      /\ srv'.aofChild = srv.aofChild /\ srv'.job = srv.job /\ srv'.db = d
      /\ srv'.dirty = n /\ srv'.phase = srv.phase
      /\ srv'.dirtyAtSave = srv.dirtyAtSave /\ srv'.rdbChild = srv.rdbChild
  <2>1. srv.delta \in Bytes
    BY DEF TypeOK, Memory
  <2> QED
    BY <1>4, <1>5, <1>6, <2>1 DEF Memory
<1>8. TypeOK'
  BY <1>2, <1>7 DEF TypeOK
<1> QED
  BY <1>1, <1>2, <1>7, <1>8 DEF d, n

\* What a rewriter that lost its parent may touch: the temporary file and the
\* bytes of the log.
RewriterFrame ==
  /\ srv' = srv /\ ghost' = ghost /\ used' \in [Faults -> Nat]
  /\ disk' \in Files /\ (disk.aof # Absent => disk'.aof # Absent)
  /\ disk'.dump = disk.dump /\ disk'.orphans = disk.orphans
  /\ disk'.conf = disk.conf

\* The three steps of such a rewriter keep the types.
LEMMA RewriterType ==
  ASSUME TypeOK, RewriterOpens \/ RewriterWrites \/ RewriterEnds
  PROVE  RewriterFrame
<1>0. /\ disk \in Files /\ disk.temp \in Temp /\ used \in [Faults -> Nat]
      /\ disk.temp.writers \in SUBSET Writer /\ <<>> \in Data
  BY DEF TypeOK, Files, Temp, Data
<1>1. srv' = srv /\ ghost' = ghost
  BY DEF RewriterOpens, RewriterWrites, RewriterEnds
<1>2. used' \in [Faults -> Nat]
  BY <1>0, SpendKeeps DEF RewriterOpens, RewriterWrites, RewriterEnds, Faults
<1>3. SUFFICES \/ \E u \in Temp : disk' = [disk EXCEPT !.temp = u]
               \/ \E f \in AofFile : disk' = [disk EXCEPT !.aof = f]
  BY <1>0, <1>1, <1>2, AbsentAssumption DEF RewriterFrame, Files
<1>4. CASE RewriterOpens
  <2> DEFINE n == [image |-> <<>>, torn |-> TRUE]
  <2>1. PICK w \in disk.temp.writers :
          disk' = [disk EXCEPT
            !.temp.file = n,
            !.temp.writers = (@ \ {w}) \cup {[w EXCEPT !.on = "temp"]}]
    BY <1>4 DEF RewriterOpens
  <2> DEFINE x == [w EXCEPT !.on = "temp"]
             v == (disk.temp.writers \ {w}) \cup {x}
             u == [disk.temp EXCEPT !.file = n, !.writers = v]
  <2>2. x \in Writer
    BY <1>0 DEF Writer
  <2>3. n \in [image : Data, torn : BOOLEAN]
    BY <1>0
  <2>4. v \in SUBSET Writer
    BY <1>0, <2>2
  <2>5. disk' = [disk EXCEPT !.temp = u]
    BY <1>0, <2>1 DEF Files
  <2> HIDE DEF n, v
  <2>6. u \in Temp
    BY <1>0, <2>3, <2>4 DEF Temp
  <2> QED
    BY <2>5, <2>6
<1>5. CASE RewriterWrites
  <2>1. \/ /\ disk.temp.file # Absent
           /\ disk' = [disk EXCEPT !.temp.file.torn = TRUE]
        \/ disk' = [disk EXCEPT !.temp.torn = TRUE]
        \/ /\ disk.aof # Absent
           /\ \E i \in DOMAIN disk.aof.tail :
                disk' = [disk EXCEPT !.aof.tail[i] = <<0, 2>>]
    BY <1>5 DEF RewriterWrites
  <2>2. CASE /\ disk.temp.file # Absent
             /\ disk' = [disk EXCEPT !.temp.file.torn = TRUE]
    <3> DEFINE n == [disk.temp.file EXCEPT !.torn = TRUE]
               u == [disk.temp EXCEPT !.file = n]
    <3>1. n \in [image : Data, torn : BOOLEAN]
      BY <1>0, <2>2 DEF Temp
    <3>2. disk' = [disk EXCEPT !.temp = u]
      BY <1>0, <2>2
    <3> HIDE DEF n
    <3>3. u \in Temp
      BY <1>0, <3>1 DEF Temp
    <3> QED
      BY <3>2, <3>3
  <2>3. CASE disk' = [disk EXCEPT !.temp.torn = TRUE]
    <3> DEFINE u == [disk.temp EXCEPT !.torn = TRUE]
    <3>1. disk' = [disk EXCEPT !.temp = u]
      BY <2>3
    <3>2. u \in Temp
      BY <1>0 DEF Temp
    <3> QED
      BY <3>1, <3>2
  <2>4. CASE /\ disk.aof # Absent
             /\ \E i \in DOMAIN disk.aof.tail :
                  disk' = [disk EXCEPT !.aof.tail[i] = <<0, 2>>]
    <3>1. disk.aof \in AofFile /\ disk.aof.tail \in Bytes
      BY <1>0, <2>4 DEF Files, AofFile
    <3>2. PICK i \in DOMAIN disk.aof.tail :
            disk' = [disk EXCEPT !.aof.tail[i] = <<0, 2>>]
      BY <2>4
    <3> DEFINE b == [disk.aof.tail EXCEPT ![i] = <<0, 2>>]
               f == [disk.aof EXCEPT !.tail = b]
    <3>3. b \in Bytes
      BY <3>1 DEF Bytes
    <3>4. disk' = [disk EXCEPT !.aof = f]
      BY <3>2
    <3> HIDE DEF b
    <3>5. f \in AofFile
      BY <3>1, <3>3 DEF AofFile
    <3> QED
      BY <3>4, <3>5
  <2> QED
    BY <2>1, <2>2, <2>3, <2>4
<1>6. CASE RewriterEnds
  <2> DEFINE t(w) == [disk.temp EXCEPT !.writers = @ \ {w}]
             n(w) == [image |-> w.image, torn |-> FALSE]
             u(w) == [t(w) EXCEPT !.file = n(w)]
  <2>1. PICK w \in disk.temp.writers :
          \/ disk' = [disk EXCEPT !.temp = t(w)]
          \/ disk' = [disk EXCEPT !.temp = u(w)]
          \/ disk' = [disk EXCEPT !.temp = Unlinked(t(w))]
    BY <1>6 DEF RewriterEnds
  <2>2. t(w) \in Temp
    BY <1>0 DEF Temp
  <2>3. n(w) \in [image : Data, torn : BOOLEAN]
    BY <1>0 DEF Writer
  <2> HIDE DEF n, t
  <2>4. u(w) \in Temp
    BY <2>2, <2>3 DEF Temp
  <2> HIDE DEF u
  <2> QED
    BY <2>1, <2>2, <2>4, TempType
<1> QED
  BY <1>4, <1>5, <1>6

\* Every step keeps the types, one case per action.
LEMMA StepTypes == TypeOK /\ [Next]_vars => TypeOK'
<1> SUFFICES ASSUME TypeOK, [Next]_vars PROVE TypeOK'
  OBVIOUS
<1>0. /\ used \in [Faults -> Nat] /\ srv \in Memory /\ disk \in Files
      /\ ghost \in Ghosts /\ <<>> \in Data /\ <<>> \in Bytes /\ srv.db \in Data
  BY DEF TypeOK, Data, Bytes, Memory
<1>1. CASE Write
  <2>1. used' \in [Faults -> Nat]
    BY <1>0, <1>1, SpendKeeps DEF Write, Faults
  <2> QED
    BY <1>1, <2>1, WrittenType DEF Write
<1>2. CASE ResumedWrite
  <2>1. used' \in [Faults -> Nat]
    BY <1>0, <1>2, SpendKeeps DEF ResumedWrite, Faults
  <2> QED
    BY <1>2, <2>1, WrittenType DEF ResumedWrite
<1>3. CASE ConfigSet
  <2>1. used' \in [Faults -> Nat]
    BY <1>0, <1>3, SpendKeeps DEF ConfigSet, Faults
  <2>2. ghost' = ghost /\ disk' = disk /\ srv' = [srv EXCEPT !.enable = ~@]
    BY <1>3 DEF ConfigSet
  <2>3. /\ srv' \in Memory /\ srv'.delta = srv.delta /\ srv'.open = srv.open
        /\ srv'.aofChild = srv.aofChild /\ srv'.job = srv.job
    BY <1>0, <2>2 DEF Memory
  <2> QED
    BY <1>0, <2>1, <2>2, <2>3, LogKept
<1>4. CASE aof_rewrite_background
  <2> DEFINE c == [image |-> srv.db, state |-> "running"]
  <2>1. used' \in [Faults -> Nat]
    BY <1>0, <1>4, SpendKeeps DEF aof_rewrite_background, Faults
  <2>2. /\ ghost' = ghost /\ disk' = disk
        /\ srv' = [srv EXCEPT !.delta = <<>>, !.aofChild = c]
    BY <1>4 DEF aof_rewrite_background
  <2>3. c \in Child
    BY <1>0 DEF Child
  <2> HIDE DEF c
  <2>4. /\ srv' \in Memory /\ srv'.delta = <<>> /\ srv'.open = srv.open
        /\ srv'.job = srv.job
    BY <1>0, <2>2, <2>3 DEF Memory
  <2> QED
    BY <1>0, <2>1, <2>2, <2>4 DEF TypeOK
<1>5. CASE rdb_save_background
  <2> DEFINE c == [image |-> srv.db, state |-> "running"]
  <2>1. used' \in [Faults -> Nat]
    BY <1>0, <1>5, SpendKeeps DEF rdb_save_background, Faults
  <2>2. /\ ghost' = ghost /\ disk' = disk
        /\ srv' = [srv EXCEPT !.dirtyAtSave = srv.dirty, !.rdbChild = c]
    BY <1>5 DEF rdb_save_background
  <2>3. c \in Child
    BY <1>0 DEF Child
  <2> HIDE DEF c
  <2>4. /\ srv' \in Memory /\ srv'.delta = srv.delta /\ srv'.open = srv.open
        /\ srv'.aofChild = srv.aofChild /\ srv'.job = srv.job
    BY <1>0, <2>2, <2>3 DEF Memory
  <2> QED
    BY <1>0, <2>1, <2>2, <2>4, LogKept
<1>6. CASE BgSaveForkFails
  <2>1. used' \in [Faults -> Nat]
    BY <1>0, <1>6, SpendKeeps DEF BgSaveForkFails, Faults
  <2>2. ghost' = ghost /\ disk' = disk /\ srv' = [srv EXCEPT !.dirtyAtSave = 0]
    BY <1>6 DEF BgSaveForkFails
  <2>3. /\ srv' \in Memory /\ srv'.delta = srv.delta /\ srv'.open = srv.open
        /\ srv'.aofChild = srv.aofChild /\ srv'.job = srv.job
    BY <1>0, <2>2 DEF Memory
  <2> QED
    BY <1>0, <2>1, <2>2, <2>3, LogKept
<1>7. CASE do_save
  <2> DEFINE t == RdbReaped(srv)
  <2>1. used' \in [Faults -> Nat]
    BY <1>0, <1>7, SpendKeeps DEF do_save, Faults
  <2>2. srv' = Saving(t) /\ ghost' = GhostReaped(ghost) /\ disk' = disk
    BY <1>7 DEF do_save
  <2>3. /\ t \in Memory /\ t.delta = srv.delta /\ t.open = srv.open
        /\ t.aofChild = srv.aofChild /\ t.job = srv.job
    BY <1>0, ReapedType
  <2> HIDE DEF t
  <2>4. /\ srv' \in Memory /\ srv'.delta = srv.delta /\ srv'.open = srv.open
        /\ srv'.aofChild = srv.aofChild /\ srv'.job = srv.job
    BY <2>2, <2>3, SavingType
  <2> QED
    BY <1>0, <2>1, <2>2, <2>4, GhostReapedType, LogKept
<1>8. CASE SaveFails \/ SaveCommitFails
  <2> DEFINE s == [srv EXCEPT !.dirtyAtSave = 0]
  <2>1. used' \in [Faults -> Nat]
    BY <1>0, <1>8, SpendKeeps DEF SaveFails, SaveCommitFails, Faults
  <2>2. srv' = AfterSave(s) /\ disk' = disk
        /\ (ghost' = ghost \/ ghost' = Exiting(FALSE))
    BY <1>8 DEF SaveFails, SaveCommitFails
  <2>3. /\ s \in Memory /\ s.delta = srv.delta /\ s.open = srv.open
        /\ s.aofChild = srv.aofChild /\ s.job = srv.job
    BY <1>0 DEF Memory
  <2> HIDE DEF s
  <2>4. ghost' \in Ghosts
    BY <1>0, <2>2, ExitingType
  <2>5. \/ srv' = Died
        \/ /\ srv' \in Memory /\ srv'.delta = srv.delta /\ srv'.open = srv.open
           /\ srv'.aofChild = srv.aofChild /\ srv'.job = srv.job
    BY <2>2, <2>3, AfterSaveType
  <2> QED
    BY <1>0, <2>1, <2>2, <2>4, <2>5, LogKept, DownTyped
<1>9. CASE SaveRotates
  <2>1. used' = used /\ ghost' = ghost /\ srv' = [srv EXCEPT !.phase = "commit"]
    BY <1>9 DEF SaveRotates
  <2>2. /\ srv' \in Memory /\ srv'.delta = srv.delta /\ srv'.open = srv.open
        /\ srv'.aofChild = srv.aofChild /\ srv'.job = srv.job
    BY <1>0, <2>1 DEF Memory
  <2>3. disk' \in Files /\ disk'.aof = disk.aof
    BY <1>0, <1>9 DEF SaveRotates, Files
  <2> QED
    BY <1>0, <2>1, <2>2, <2>3, LogKept
<1>10. CASE SaveCommits
  <2> DEFINE s == rdb_on_save_complete(srv)
             g == IF srv.stopping THEN Exiting(srv.buf = <<>>) ELSE ghost
  <2>1. /\ used' = used /\ srv' = AfterSave(s) /\ ghost' = Reported(g, srv.image)
        /\ disk' = [disk EXCEPT !.dump = srv.image]
    BY <1>10 DEF SaveCommits
  <2>2. /\ s \in Memory /\ s.delta = srv.delta /\ s.open = srv.open
        /\ s.aofChild = srv.aofChild /\ s.job = srv.job
    BY CompletedType
  <2>3. g \in Ghosts
    BY <1>0, ExitingType
  <2> HIDE DEF s, g
  <2>4. srv.image \in Data
    BY <1>0 DEF Memory
  <2>5. ghost' \in Ghosts
    BY <2>1, <2>3, <2>4, ReportedType
  <2>6. disk' \in Files /\ disk'.aof = disk.aof
    BY <1>0, <2>1, <2>4 DEF Files
  <2>7. \/ srv' = Died
        \/ /\ srv' \in Memory /\ srv'.delta = srv.delta /\ srv'.open = srv.open
           /\ srv'.aofChild = srv.aofChild /\ srv'.job = srv.job
    BY <2>1, <2>2, AfterSaveType
  <2> QED
    BY <1>0, <2>1, <2>5, <2>6, <2>7, LogKept, DownTyped
<1>11. CASE Flush
  <2>1. PICK k \in 0..Len(srv.buf) : aof_flush(k, "timers")
    BY <1>11 DEF Flush
  <2> QED
    BY <2>1, FlushType, LogKept
<1>12. CASE QueueFsync
  <2> DEFINE j == [state |-> "queued"]
             m == Flushed(srv)
  <2>1. /\ used' = used /\ disk' = disk /\ ghost' = [ghost EXCEPT !.mark = m]
        /\ srv' = [srv EXCEPT !.job = j]
    BY <1>12 DEF QueueFsync
  <2>2. j \in Job /\ j.state = "queued"
    BY DEF Job
  <2>3. m \in Int
    <3>1. Len(srv.db) \in Nat /\ Len(srv.buf) \in Nat
      BY <1>0 DEF Memory, Data, Bytes
    <3> QED
      BY <3>1 DEF Flushed
  <2> HIDE DEF j, m
  <2>4. /\ srv' \in Memory /\ srv'.delta = srv.delta /\ srv'.open = srv.open
        /\ srv'.aofChild = srv.aofChild /\ srv'.job = j
    BY <1>0, <2>1, <2>2 DEF Memory
  <2>5. ghost' \in Ghosts
    BY <1>0, <2>1, <2>3 DEF Ghosts
  <2> QED
    BY <1>0, <2>1, <2>2, <2>4, <2>5 DEF TypeOK
<1>13. CASE FsyncStarts
  <2> DEFINE r == [state |-> "syncing", gen |-> disk.aof.gen, len |-> Len(disk.aof.tail)]
  <2>1. /\ used' = used /\ disk' = disk /\ ghost' = ghost
        /\ \/ srv' = [srv EXCEPT !.job = Absent]
           \/ srv.open /\ srv' = [srv EXCEPT !.job = r]
    BY <1>13 DEF FsyncStarts
  <2>2. ASSUME srv.open PROVE r \in Job
    <3>1. disk.aof \in AofFile
      BY <1>0, <2>2 DEF Files, TypeOK
    <3>2. disk.aof.gen \in Nat /\ Len(disk.aof.tail) \in Nat
      BY <3>1 DEF AofFile, Bytes
    <3> QED
      BY <3>2 DEF Job
  <2> HIDE DEF r
  <2>3. /\ srv' \in Memory /\ srv'.delta = srv.delta /\ srv'.open = srv.open
        /\ srv'.aofChild = srv.aofChild /\ (srv'.job = Absent \/ srv.open)
    BY <1>0, <2>1, <2>2 DEF Memory
  <2> QED
    BY <1>0, <2>1, <2>3 DEF TypeOK
<1>14. CASE FsyncEnds
  <2>1. /\ srv.job # Absent /\ srv.job.state = "syncing"
        /\ srv' = [srv EXCEPT !.job = Absent]
    BY <1>14 DEF FsyncEnds
  <2>2. used' \in [Faults -> Nat]
    BY <1>0, <1>14, SpendKeeps DEF FsyncEnds, Faults
  <2>3. /\ srv' \in Memory /\ srv'.delta = srv.delta /\ srv'.open = srv.open
        /\ srv'.aofChild = srv.aofChild /\ srv'.job = Absent
    BY <1>0, <2>1 DEF Memory
  <2>4. /\ disk.aof \in AofFile
        /\ srv.job \in [state : {"syncing"}, gen : Nat, len : Nat]
    BY <1>0, <2>1 DEF TypeOK, Files, Memory, Job
  <2> DEFINE n == Max({disk.aof.synced, srv.job.len})
             h == Max({ghost.safe, ghost.mark})
             f == [disk.aof EXCEPT !.synced = n]
  <2>5. n \in Nat /\ h \in Int
    <3>1. disk.aof.synced \in Nat /\ srv.job.len \in Nat
      BY <2>4 DEF AofFile
    <3>2. ghost.safe \in Int /\ ghost.mark \in Int
      BY <1>0 DEF Ghosts
    <3> QED
      BY <3>1, <3>2, MaxOfTwo
  <2>6. /\ disk' = disk \/ disk' = [disk EXCEPT !.aof = f]
        /\ ghost' = ghost \/ ghost' = [ghost EXCEPT !.safe = h]
    BY <1>14 DEF FsyncEnds
  <2> HIDE DEF n, h
  <2>7. f \in AofFile
    BY <2>4, <2>5 DEF AofFile
  <2> HIDE DEF f
  <2>8. disk' \in Files /\ disk'.aof # Absent
    BY <1>0, <2>4, <2>6, <2>7, AbsentAssumption DEF Files
  <2>9. ghost' \in Ghosts
    BY <1>0, <2>5, <2>6 DEF Ghosts
  <2> QED
    BY <2>2, <2>3, <2>8, <2>9 DEF TypeOK
<1>15. CASE EndTick
  <2> DEFINE t == RdbReaped(srv)
             s == [t EXCEPT !.phase = "poll"]
  <2>1. /\ ghost' = GhostReaped(ghost)
        /\ \/ Ended(srv.aofChild) /\ aof_rewrite_reap(s)
           \/ srv' = s /\ disk' = disk /\ used' = used
    BY <1>15 DEF EndTick
  <2>2. /\ t \in Memory /\ t.delta = srv.delta /\ t.open = srv.open
        /\ t.aofChild = srv.aofChild /\ t.job = srv.job
    BY <1>0, ReapedType
  <2> HIDE DEF t
  <2>3. /\ s \in Memory /\ s.delta = srv.delta /\ s.open = srv.open
        /\ s.aofChild = srv.aofChild /\ s.job = srv.job
    BY <2>2 DEF Memory
  <2> HIDE DEF s
  <2>4. ghost' \in Ghosts
    BY <2>1, GhostReapedType
  <2>5. CASE Ended(srv.aofChild) /\ aof_rewrite_reap(s)
    <3>1. srv.aofChild # Absent
      BY <2>5 DEF Ended
    <3> QED
      BY <2>3, <2>4, <2>5, <3>1, RewriteReapType DEF TypeOK
  <2>6. CASE srv' = s /\ disk' = disk /\ used' = used
    BY <1>0, <2>3, <2>4, <2>6, LogKept
  <2> QED
    BY <2>1, <2>5, <2>6
<1>16. CASE AofChildEnds
  <2> DEFINE n == [image |-> srv.aofChild.image, torn |-> FALSE]
             t == [disk.temp EXCEPT !.file = n]
  <2>1. /\ ghost' = ghost /\ srv.aofChild # Absent
        /\ \/ srv' = [srv EXCEPT !.aofChild.state = "done"]
           \/ srv' = [srv EXCEPT !.aofChild.state = "failed"]
        /\ \/ disk' = [disk EXCEPT !.temp.file = n]
           \/ disk' = [disk EXCEPT !.temp = Unlinked(disk.temp)]
    BY <1>16 DEF AofChildEnds
  <2>2. used' \in [Faults -> Nat]
    BY <1>0, <1>16, SpendKeeps DEF AofChildEnds, Faults
  <2>3. srv.aofChild \in Child
    BY <1>0, <2>1 DEF Memory
  <2>4. PICK c \in Child : srv' = [srv EXCEPT !.aofChild = c]
    BY <2>1, <2>3 DEF Child
  <2>5. /\ srv' \in Memory /\ srv'.open = srv.open /\ srv'.job = srv.job
        /\ srv'.aofChild # Absent
    BY <1>0, <2>4, AbsentAssumption DEF Memory
  <2>6. t \in Temp /\ Unlinked(disk.temp) \in Temp
    <3>1. n \in [image : Data, torn : BOOLEAN] /\ disk.temp \in Temp
      BY <1>0, <2>3 DEF Files, Child
    <3> HIDE DEF n
    <3> QED
      BY <3>1, TempType DEF Temp
  <2>7. disk' \in Files /\ disk'.aof = disk.aof
    <3>1. \E u \in Temp : disk' = [disk EXCEPT !.temp = u]
      BY <2>1, <2>6
    <3> QED
      BY <1>0, <3>1 DEF Files
  <2> QED
    BY <1>0, <2>1, <2>2, <2>5, <2>7 DEF TypeOK
<1>17. CASE RdbChildEnds
  <2>1. /\ ghost' = ghost /\ srv.rdbChild # Absent
        /\ \/ srv' = [srv EXCEPT !.rdbChild.state = "done"]
           \/ srv' = [srv EXCEPT !.rdbChild.state = "failed"]
        /\ disk' = disk \/ disk' = [disk EXCEPT !.dump = srv.rdbChild.image]
    BY <1>17 DEF RdbChildEnds
  <2>2. used' \in [Faults -> Nat]
    BY <1>0, <1>17, SpendKeeps DEF RdbChildEnds, Faults
  <2>3. srv.rdbChild \in Child
    BY <1>0, <2>1 DEF Memory
  <2>4. PICK c \in Child : srv' = [srv EXCEPT !.rdbChild = c]
    BY <2>1, <2>3 DEF Child
  <2>5. /\ srv' \in Memory /\ srv'.delta = srv.delta /\ srv'.open = srv.open
        /\ srv'.aofChild = srv.aofChild /\ srv'.job = srv.job
    BY <1>0, <2>4 DEF Memory
  <2>6. disk' \in Files /\ disk'.aof = disk.aof
    BY <1>0, <2>1, <2>3 DEF Files, Child
  <2> QED
    BY <1>0, <2>1, <2>2, <2>5, <2>6, LogKept
<1>18. CASE OrphanEnds
  <2>1. PICK image \in disk.orphans :
          disk' = [disk EXCEPT !.dump = image, !.orphans = @ \ {image}]
    BY <1>18 DEF OrphanEnds
  <2>2. srv' = srv /\ ghost' = ghost /\ used' = used
    BY <1>18 DEF OrphanEnds
  <2>3. disk' \in Files /\ disk'.aof = disk.aof
    <3>1. image \in Data /\ disk.orphans \ {image} \in SUBSET Data
      BY <1>0 DEF Files
    <3> QED
      BY <1>0, <2>1, <3>1 DEF Files
  <2> QED
    BY <1>0, <2>2, <2>3, LogKept
<1>19. CASE Shutdown
  <2>1. PICK k \in 0..Len(srv.buf) : aof_flush(k, "stopped")
    BY <1>19 DEF Shutdown
  <2> QED
    BY <2>1, FlushType, LogKept
<1>20. CASE StopReaps
  <2> DEFINE t == [srv EXCEPT !.rdbChild = Absent]
             s == Saving(t)
  <2>1. /\ ghost' = ghost
        /\ \/ Ended(srv.aofChild) /\ aof_rewrite_reap(s)
           \/ srv' = s /\ disk' = disk /\ used' = used
    BY <1>20 DEF StopReaps
  <2>2. /\ t \in Memory /\ t.delta = srv.delta /\ t.open = srv.open
        /\ t.aofChild = srv.aofChild /\ t.job = srv.job
    BY <1>0 DEF Memory
  <2> HIDE DEF t
  <2>3. /\ s \in Memory /\ s.delta = srv.delta /\ s.open = srv.open
        /\ s.aofChild = srv.aofChild /\ s.job = srv.job
    BY <2>2, SavingType
  <2> HIDE DEF s
  <2>4. CASE Ended(srv.aofChild) /\ aof_rewrite_reap(s)
    <3>1. srv.aofChild # Absent
      BY <2>4 DEF Ended
    <3> QED
      BY <1>0, <2>1, <2>3, <2>4, <3>1, RewriteReapType DEF TypeOK
  <2>5. CASE srv' = s /\ disk' = disk /\ used' = used
    BY <1>0, <2>1, <2>3, <2>5, LogKept
  <2> QED
    BY <2>1, <2>4, <2>5
<1>21. CASE Kill
  <2>1. srv' = Died /\ ghost' \in Ghosts /\ used' \in [Faults -> Nat]
    BY <1>0, <1>21, SpendKeeps, ExitingType DEF Kill, Faults
  <2> DEFINE o == IF Runs(srv.rdbChild) THEN disk.orphans \cup {srv.rdbChild.image}
                  ELSE disk.orphans
             w == IF Runs(srv.aofChild)
                  THEN disk.temp.writers
                         \cup {[image |-> srv.aofChild.image, on |-> "none"]}
                  ELSE disk.temp.writers
             t == [disk.temp EXCEPT !.writers = w]
             a(k) == IF disk.aof = Absent THEN disk.aof ELSE Appended(disk.aof, k)
  <2>2. PICK k \in InFlight :
          disk' = [disk EXCEPT !.aof = a(k), !.orphans = o, !.temp.writers = w]
    BY <1>21 DEF Kill
  <2>3. k \in 0..Len(srv.buf)
    BY <1>0, InFlightBound
  <2>4. a(k) \in AofFile \cup {Absent}
    BY <1>0, <2>3, AppendedType DEF Files
  <2>5. o \in SUBSET Data /\ w \in SUBSET Writer
    BY <1>0 DEF Files, Temp, Writer, Memory, Child, Runs
  <2> HIDE DEF a, o, w
  <2>6. t \in Temp
    BY <1>0, <2>5 DEF Files, Temp
  <2>7. disk' = [disk EXCEPT !.aof = a(k), !.orphans = o, !.temp = t]
    BY <2>2
  <2> HIDE DEF t
  <2>8. disk' \in Files
    BY <1>0, <2>4, <2>5, <2>6, <2>7 DEF Files
  <2> QED
    BY <2>1, <2>8, DownTyped
<1>22. CASE PowerCut
  <2>1. srv' = Died /\ ghost' \in Ghosts /\ used' \in [Faults -> Nat]
    BY <1>0, <1>22, SpendKeeps, ExitingType DEF PowerCut, Faults
  <2> DEFINE t == [disk.temp EXCEPT !.writers = {}]
  <2>4. t \in Temp
    BY <1>0 DEF Files, Temp
  <2>2. CASE disk.aof = Absent
    <3>1. disk' = [disk EXCEPT !.orphans = {}, !.temp = t]
      BY <1>22, <2>2 DEF PowerCut
    <3>2. disk' \in Files
      BY <1>0, <2>4, <3>1 DEF Files
    <3> QED
      BY <2>1, <3>2, DownTyped
  <2>3. CASE disk.aof # Absent
    <3>1. PICK k \in InFlight, n \in Nat :
            disk' = [disk EXCEPT
              !.aof = [Appended(disk.aof, k) EXCEPT !.tail = SubSeq(@, 1, n)],
              !.orphans = {}, !.temp.writers = {}]
            /\ n <= Len(Appended(disk.aof, k).tail)
      <4>1. PICK k \in InFlight :
              \E n \in Appended(disk.aof, k).synced..Len(Appended(disk.aof, k).tail) :
                disk' = [disk EXCEPT
                  !.aof = [Appended(disk.aof, k) EXCEPT !.tail = SubSeq(@, 1, n)],
                  !.orphans = {}, !.temp.writers = {}]
        BY <1>22, <2>3 DEF PowerCut
      <4> DEFINE a == Appended(disk.aof, k)
      <4>2. a \in AofFile /\ Len(a.tail) \in Nat
        BY <1>0, <2>3, InFlightBound, AppendedType DEF Files
      <4>3. PICK n \in a.synced..Len(a.tail) :
              disk' = [disk EXCEPT !.aof = [a EXCEPT !.tail = SubSeq(@, 1, n)],
                                   !.orphans = {}, !.temp.writers = {}]
        BY <4>1
      <4> HIDE DEF a
      <4>4. a.synced \in Nat
        BY <4>2 DEF AofFile
      <4>5. n \in Nat /\ n <= Len(a.tail)
        BY <4>2, <4>4
      <4> QED
        BY <4>3, <4>5 DEF a
    <3> DEFINE a == Appended(disk.aof, k)
               b == SubSeq(a.tail, 1, n)
               f == [a EXCEPT !.tail = b]
    <3>2. a \in AofFile /\ Len(a.tail) \in Nat
      BY <1>0, <2>3, InFlightBound, AppendedType DEF Files
    <3>3. n <= Len(a.tail) /\ disk' = [disk EXCEPT !.aof = f, !.orphans = {}, !.temp = t]
      BY <3>1
    <3> HIDE DEF a
    <3>4. a.tail \in Bytes
      BY <3>2 DEF AofFile
    <3>5. b \in Bytes
      BY <3>2, <3>3, <3>4 DEF Bytes
    <3> HIDE DEF b
    <3>6. f \in AofFile
      BY <3>2, <3>5 DEF AofFile
    <3> HIDE DEF f, t
    <3>7. disk' \in Files
      BY <1>0, <2>4, <3>3, <3>6 DEF Files
    <3> QED
      BY <2>1, <3>7, DownTyped
  <2> QED
    BY <2>2, <2>3
<1>23. CASE EditConfig
  <2>1. used' \in [Faults -> Nat]
    BY <1>0, <1>23, SpendKeeps DEF EditConfig, Faults
  <2>2. /\ srv' = srv /\ ghost' = ghost /\ disk' = [disk EXCEPT !.conf = ~@]
    BY <1>23 DEF EditConfig
  <2>3. disk' \in Files /\ disk'.aof = disk.aof
    BY <1>0, <2>2 DEF Files
  <2> QED
    BY <1>0, <2>1, <2>2, <2>3, LogKept
<1>24. CASE Restart
  BY <1>24, RestartType
<1>25. CASE BootFails \/ UNCHANGED vars
  BY <1>0, <1>25, LogKept DEF BootFails, vars
<1>26. CASE Wake
  <2>1. /\ ghost' = ghost /\ disk' = disk /\ used' = used
        /\ srv' = [srv EXCEPT !.phase = "serve"]
    BY <1>26 DEF Wake
  <2>2. /\ srv' \in Memory /\ srv'.delta = srv.delta /\ srv'.open = srv.open
        /\ srv'.aofChild = srv.aofChild /\ srv'.job = srv.job
    BY <1>0, <2>1 DEF Memory
  <2> QED
    BY <1>0, <2>1, <2>2, LogKept
<1>27. CASE RewriterOpens \/ RewriterWrites \/ RewriterEnds
  <2>1. RewriterFrame
    BY <1>0, <1>27, RewriterType
  <2> QED
    BY <1>0, <2>1, LogKept DEF RewriterFrame
<1> QED
  BY <1>1, <1>2, <1>3, <1>4, <1>5, <1>6, <1>7, <1>8, <1>9, <1>10, <1>11,
     <1>12, <1>13, <1>14, <1>15, <1>16, <1>17, <1>18, <1>19, <1>20, <1>21,
     <1>22, <1>23, <1>24, <1>25, <1>26, <1>27 DEF Next, Step

\* The initial state has the types.
LEMMA InitTypes == Init => TypeOK
<1> SUFFICES ASSUME Init PROVE TypeOK
  OBVIOUS
<1>1. /\ <<>> \in Data /\ <<>> \in Bytes /\ Config.aof \in BOOLEAN
      /\ used \in [Faults -> Nat]
  BY DeploymentsAssumption DEF Config, Init, Data, Bytes, Deployment
<1> DEFINE f == IF Config.aof THEN NewAof(<<>>, <<>>, 0) ELSE Absent
<1>2. /\ f \in AofFile \cup {Absent}
      /\ Config.aof => f # Absent
  BY <1>1, NewAofType, AbsentAssumption
<1> DEFINE t == [file |-> Absent, writers |-> {}, torn |-> FALSE]
<1>3. disk = [aof |-> f, dump |-> Absent, bak |-> Absent, orphans |-> {},
              temp |-> t, conf |-> Config.aof]
  BY DEF Init
<1>7. t \in Temp
  BY DEF Temp
<1> HIDE DEF f, t
<1>4. disk \in Files /\ (Config.aof => disk.aof # Absent)
  BY <1>1, <1>2, <1>3, <1>7 DEF Files
<1>5. ghost \in Ghosts
  BY <1>1 DEF Init, Ghosts
<1>6. /\ srv \in Memory /\ srv.delta = <<>> /\ srv.open = Config.aof
      /\ srv.job = Absent
  BY <1>1, BootedType DEF Init
<1> QED
  BY <1>1, <1>4, <1>5, <1>6 DEF TypeOK

\* The shapes of memory, files and children hold in every state, the
\* rewrite's delta never outlives its child, and every descriptor in use, by
\* the loop or by an fsync job on a worker, has its file.
THEOREM PersistenceTypes == Spec => []TypeOK
<1>1. TypeOK /\ [Next]_vars => TypeOK'
  BY StepTypes
<1> QED
  BY <1>1, InitTypes, PTL DEF Spec

-----------------------------------------------------------------------------
(* The dirty counter.                                                      *)

\* The counter captured at the fork is what the child's image adds to the
\* last completed save.
ChildInv ==
  srv.rdbChild # Absent =>
    /\ Len(srv.rdbChild.image) <= Len(srv.db)
    /\ srv.rdbChild.state # "failed" =>
         srv.dirtyAtSave = Len(srv.rdbChild.image) - ghost.base

\* A foreground save writes the dataset as it is, with no child beside it.
SaveInv ==
  srv.phase \in {"rotate", "commit"} =>
    /\ srv.rdbChild = Absent
    /\ srv.image = srv.db /\ srv.dirtyAtSave = srv.dirty

DirtyInv == TypeOK /\ ChildInv /\ SaveInv /\ DirtyExact

\* A step that leaves the dataset, the counters and the child alone, and does
\* not enter or change a foreground save, keeps the invariant.
LEMMA Untouched ==
  ASSUME DirtyInv, TypeOK',
         srv'.db = srv.db, srv'.dirty = srv.dirty,
         srv'.dirtyAtSave = srv.dirtyAtSave, srv'.rdbChild = srv.rdbChild,
         ghost'.base = ghost.base, srv.phase # "down" \/ srv'.phase = "down",
         \/ srv'.phase \notin {"rotate", "commit"}
         \/ srv'.phase \in {"rotate", "commit"} /\ srv.phase \in {"rotate", "commit"}
            /\ srv'.image = srv.image
  PROVE  DirtyInv'
BY DEF DirtyInv, ChildInv, SaveInv, DirtyExact

\* Nothing is claimed of a server that is down.
LEMMA DownKeeps ==
  ASSUME TypeOK', srv' = Died
  PROVE  DirtyInv'
BY DiedType DEF DirtyInv, ChildInv, SaveInv, DirtyExact

\* Arithmetic: both sides of a difference grow by one.
LEMMA OneMore ==
  ASSUME NEW a \in Nat, NEW b \in Nat
  PROVE  (a - b) + 1 = (a + 1) - b
OBVIOUS

\* Arithmetic: taking the captured changes off the counter.
LEMMA Difference ==
  ASSUME NEW a \in Nat, NEW b \in Nat, NEW c \in Nat,
         b <= a, b - c \in Nat, a - c \in Nat
  PROVE  /\ a - c >= b - c
         /\ (a - c) - (b - c) = a - b
OBVIOUS

\* Reaping the child moves the counter and the base together.
LEMMA ReapKeeps ==
  ASSUME DirtyInv, srv.phase # "down",
         srv.rdbChild = Absent \/ Ended(srv.rdbChild)
  PROVE  /\ RdbReaped(srv).rdbChild = Absent
         /\ RdbReaped(srv).dirty = Len(srv.db) - GhostReaped(ghost).base
<1> DEFINE c == srv.rdbChild
<1>0. /\ srv \in Memory /\ Len(srv.db) \in Nat /\ ghost \in Ghosts
      /\ srv.dirty \in Nat /\ srv.dirtyAtSave \in Nat /\ ghost.base \in Nat
      /\ srv.dirty = Len(srv.db) - ghost.base
  BY DEF DirtyInv, DirtyExact, TypeOK, Memory, Data, Ghosts
<1>1. CASE c = Absent
  <2>1. RdbReaped(srv) = srv /\ GhostReaped(ghost) = ghost
    BY <1>1 DEF RdbReaped, GhostReaped, Ended, Completed
  <2> QED
    BY <1>0, <1>1, <2>1
<1>2. CASE c # Absent /\ ~Completed(c)
  <2>1. RdbReaped(srv) = [srv EXCEPT !.rdbChild = Absent] /\ GhostReaped(ghost) = ghost
    BY <1>2 DEF RdbReaped, GhostReaped
  <2> QED
    BY <1>0, <2>1 DEF Memory
<1>3. CASE Completed(c)
  <2>1. /\ c # Absent /\ c.state = "done"
    BY <1>3 DEF Completed
  <2>2. c \in Child
    BY <1>0, <2>1 DEF Memory
  <2>3. /\ c.image \in Data /\ Len(c.image) \in Nat
        /\ Len(c.image) <= Len(srv.db)
        /\ srv.dirtyAtSave = Len(c.image) - ghost.base
    BY <2>1, <2>2 DEF DirtyInv, ChildInv, Child, Data
  <2> DEFINE m == Len(c.image)
             l == Len(srv.db)
             d == l - m
  <2>4. srv.dirty >= srv.dirtyAtSave /\ srv.dirty - srv.dirtyAtSave = d
    <3>1. m - ghost.base \in Nat /\ l - ghost.base \in Nat
      BY <1>0, <2>3, Zenon
    <3>2. /\ l - ghost.base >= m - ghost.base
          /\ (l - ghost.base) - (m - ghost.base) = l - m
      BY <1>0, <2>3, <3>1, Difference, Zenon
    <3> QED
      BY <1>0, <2>3, <3>2, Zenon
  <2>5. rdb_on_save_complete(srv) = [srv EXCEPT !.dirty = d, !.dirtyAtSave = 0]
    BY <2>4, Zenon DEF rdb_on_save_complete
  <2>6. RdbReaped(srv) = [rdb_on_save_complete(srv) EXCEPT !.rdbChild = Absent]
    BY <1>3, <2>1 DEF RdbReaped, Ended
  <2>7. GhostReaped(ghost).base = m
    BY <1>0, <1>3, <2>3, ReportedType DEF GhostReaped
  <2> HIDE DEF d
  <2>8. RdbReaped(srv).rdbChild = Absent /\ RdbReaped(srv).dirty = d
    BY <1>0, <2>5, <2>6 DEF Memory
  <2> QED
    BY <2>7, <2>8 DEF d
<1> QED
  BY <1>1, <1>2, <1>3 DEF Completed

\* A write lengthens the dataset and the counter by one.
LEMMA WriteKeeps ==
  ASSUME DirtyInv, Written, used' \in [Faults -> Nat],
         srv.phase \in {"serve", "timers"}
  PROVE  DirtyInv'
<1>0. /\ Len(srv.db) \in Nat /\ ghost.base \in Nat /\ srv.db \in Data
      /\ srv.dirty = Len(srv.db) - ghost.base
  BY DEF DirtyInv, DirtyExact, TypeOK, Memory, Data, Ghosts
<1>1. /\ TypeOK' /\ ghost' = ghost
      /\ \E w \in Nat : srv'.db = Append(srv.db, w)
      /\ srv'.dirty = srv.dirty + 1
      /\ srv'.phase = srv.phase /\ srv'.dirtyAtSave = srv.dirtyAtSave
      /\ srv'.rdbChild = srv.rdbChild
  BY WrittenType DEF DirtyInv
<1>2. Len(srv'.db) = Len(srv.db) + 1
  BY <1>0, <1>1 DEF Data
<1>3. ChildInv'
  <2>1. CASE srv.rdbChild = Absent
    BY <1>1, <2>1 DEF ChildInv
  <2>2. CASE srv.rdbChild # Absent
    <3>1. Len(srv.rdbChild.image) \in Nat
      BY <2>2 DEF DirtyInv, TypeOK, Memory, Child, Data
    <3>2. Len(srv.rdbChild.image) <= Len(srv.db)
      BY <2>2 DEF DirtyInv, ChildInv
    <3>3. Len(srv.rdbChild.image) <= Len(srv'.db)
      BY <1>0, <1>2, <3>1, <3>2
    <3> QED
      BY <1>1, <2>2, <3>3 DEF DirtyInv, ChildInv
  <2> QED
    BY <2>1, <2>2
<1>4. DirtyExact'
  <2>1. (Len(srv.db) - ghost.base) + 1 = (Len(srv.db) + 1) - ghost.base
    BY <1>0, OneMore, Zenon
  <2> QED
    BY <1>0, <1>1, <1>2, <2>1, Zenon DEF DirtyExact
<1> QED
  BY <1>1, <1>3, <1>4 DEF DirtyInv, SaveInv

\* Ending the tick with the reaps, whatever becomes of the rewrite.
LEMMA TickKeeps ==
  ASSUME DirtyInv, srv.phase # "down", TypeOK',
         ghost' = GhostReaped(ghost), srv'.phase = "poll",
         srv'.db = srv.db, srv'.dirty = RdbReaped(srv).dirty,
         srv'.dirtyAtSave = RdbReaped(srv).dirtyAtSave,
         srv'.rdbChild = RdbReaped(srv).rdbChild
  PROVE  DirtyInv'
<1>1. CASE srv.rdbChild = Absent \/ Ended(srv.rdbChild)
  <2>1. srv'.rdbChild = Absent /\ srv'.dirty = Len(srv'.db) - ghost'.base
    BY <1>1, ReapKeeps
  <2> QED
    BY <2>1 DEF DirtyInv, ChildInv, SaveInv, DirtyExact
<1>2. CASE srv.rdbChild # Absent /\ ~Ended(srv.rdbChild)
  <2>1. RdbReaped(srv) = srv /\ ghost' = ghost
    BY <1>2 DEF RdbReaped, GhostReaped, Ended, Completed
  <2> QED
    BY <2>1, Untouched
<1> QED
  BY <1>1, <1>2

\* Entering a foreground save with a counter that is right.
LEMMA SavingKeeps ==
  ASSUME TypeOK', srv'.phase = "rotate", srv'.image = srv'.db,
         srv'.dirtyAtSave = srv'.dirty, srv'.rdbChild = Absent,
         srv'.dirty = Len(srv'.db) - ghost'.base
  PROVE  DirtyInv'
BY DEF DirtyInv, ChildInv, SaveInv, DirtyExact

\* Leaving a foreground save: the process ends, or serves again.
LEMMA SavedKeeps ==
  ASSUME TypeOK', NEW s \in Memory, srv' = AfterSave(s),
         s.rdbChild = Absent, ~s.stopping => s.dirty = Len(s.db) - ghost'.base
  PROVE  DirtyInv'
<1>1. CASE srv' = Died
  BY <1>1, DownKeeps
<1>2. CASE /\ srv'.db = s.db /\ srv'.dirty = s.dirty /\ ~s.stopping
           /\ srv'.rdbChild = s.rdbChild /\ srv'.phase = "serve"
  BY <1>2 DEF DirtyInv, ChildInv, SaveInv, DirtyExact
<1> QED
  BY <1>1, <1>2, AfterSaveType

\* Every step keeps the invariant of the dirty counter, one case per action.
LEMMA StepDirty == DirtyInv /\ [Next]_vars => DirtyInv'
<1> SUFFICES ASSUME DirtyInv, [Next]_vars PROVE DirtyInv'
  OBVIOUS
<1>0. /\ TypeOK /\ TypeOK' /\ srv \in Memory /\ used \in [Faults -> Nat]
      /\ ghost \in Ghosts
  BY StepTypes DEF DirtyInv, TypeOK
<1>1. CASE Write
  BY <1>0, <1>1, WriteKeeps DEF Write, TypeOK
<1>2. CASE ResumedWrite
  BY <1>0, <1>2, WriteKeeps DEF ResumedWrite, TypeOK
<1>3. CASE ConfigSet
  <2>1. /\ srv.phase = "serve" /\ ghost' = ghost
        /\ srv' = [srv EXCEPT !.enable = ~@]
    BY <1>3 DEF ConfigSet
  <2>2. /\ srv'.db = srv.db /\ srv'.dirty = srv.dirty
        /\ srv'.dirtyAtSave = srv.dirtyAtSave /\ srv'.rdbChild = srv.rdbChild
        /\ srv'.phase = srv.phase
    BY <1>0, <2>1 DEF Memory
  <2> QED
    BY <1>0, <2>1, <2>2, Untouched
<1>4. CASE aof_rewrite_background
  <2> DEFINE c == [image |-> srv.db, state |-> "running"]
  <2>1. /\ srv.phase \in {"serve", "timers"} /\ ghost' = ghost
        /\ srv' = [srv EXCEPT !.delta = <<>>, !.aofChild = c]
    BY <1>4 DEF aof_rewrite_background
  <2> HIDE DEF c
  <2>2. /\ srv'.db = srv.db /\ srv'.dirty = srv.dirty
        /\ srv'.dirtyAtSave = srv.dirtyAtSave /\ srv'.rdbChild = srv.rdbChild
        /\ srv'.phase = srv.phase
    BY <1>0, <2>1 DEF Memory
  <2> QED
    BY <1>0, <2>1, <2>2, Untouched
<1>5. CASE rdb_save_background
  <2> DEFINE c == [image |-> srv.db, state |-> "running"]
  <2>1. /\ srv.phase \in {"serve", "timers"} /\ ghost' = ghost
        /\ srv' = [srv EXCEPT !.dirtyAtSave = srv.dirty, !.rdbChild = c]
    BY <1>5 DEF rdb_save_background
  <2>2. c.image = srv.db
    OBVIOUS
  <2> HIDE DEF c
  <2>3. /\ srv'.phase = srv.phase /\ srv'.db = srv.db
        /\ srv'.dirty = srv.dirty /\ srv'.dirtyAtSave = srv.dirty
        /\ srv'.rdbChild = c
    BY <1>0, <2>1 DEF Memory
  <2>4. srv.dirty = Len(srv.db) - ghost.base /\ Len(srv.db) <= Len(srv.db)
    BY <1>0, <2>1 DEF DirtyInv, DirtyExact, Memory, Data
  <2> QED
    BY <1>0, <2>1, <2>2, <2>3, <2>4 DEF DirtyInv, ChildInv, SaveInv, DirtyExact
<1>6. CASE BgSaveForkFails
  <2>1. /\ srv.phase \in {"serve", "timers"} /\ ghost' = ghost
        /\ srv.rdbChild = Absent
        /\ srv' = [srv EXCEPT !.dirtyAtSave = 0]
    BY <1>6 DEF BgSaveForkFails
  <2>2. /\ srv'.phase = srv.phase /\ srv'.db = srv.db
        /\ srv'.dirty = srv.dirty /\ srv'.rdbChild = Absent
    BY <1>0, <2>1 DEF Memory
  <2> QED
    BY <1>0, <2>1, <2>2 DEF DirtyInv, ChildInv, SaveInv, DirtyExact
<1>7. CASE do_save
  <2> DEFINE t == RdbReaped(srv)
  <2>1. /\ srv.phase = "serve" /\ ghost' = GhostReaped(ghost)
        /\ srv.rdbChild = Absent \/ Ended(srv.rdbChild)
        /\ srv' = Saving(t)
    BY <1>7 DEF do_save
  <2>2. t \in Memory /\ t.db = srv.db /\ t.rdbChild = Absent
        /\ t.dirty = Len(srv.db) - ghost'.base
    BY <1>0, <2>1, ReapedType, ReapKeeps
  <2> HIDE DEF t
  <2>3. /\ srv'.phase = "rotate" /\ srv'.db = srv.db /\ srv'.image = srv.db
        /\ srv'.dirty = t.dirty /\ srv'.dirtyAtSave = t.dirty
        /\ srv'.rdbChild = Absent
    BY <2>1, <2>2, SavingType
  <2> QED
    BY <1>0, <2>2, <2>3, SavingKeeps
<1>8. CASE SaveFails \/ SaveCommitFails
  <2> DEFINE s == [srv EXCEPT !.dirtyAtSave = 0]
  <2>1. /\ srv.phase \in {"rotate", "commit"} /\ srv' = AfterSave(s)
        /\ ghost' = IF srv.stopping THEN Exiting(FALSE) ELSE ghost
    BY <1>8 DEF SaveFails, SaveCommitFails
  <2>2. /\ s \in Memory /\ s.rdbChild = srv.rdbChild /\ s.dirty = srv.dirty
        /\ s.db = srv.db /\ s.stopping = srv.stopping
    BY <1>0 DEF Memory
  <2>3. srv.rdbChild = Absent /\ srv.dirty = Len(srv.db) - ghost.base
    BY <2>1 DEF DirtyInv, SaveInv, DirtyExact
  <2> HIDE DEF s
  <2> QED
    BY <1>0, <2>1, <2>2, <2>3, SavedKeeps
<1>9. CASE SaveRotates
  <2>1. /\ srv.phase = "rotate" /\ ghost' = ghost
        /\ srv' = [srv EXCEPT !.phase = "commit"]
    BY <1>9 DEF SaveRotates
  <2>2. /\ srv'.db = srv.db /\ srv'.dirty = srv.dirty
        /\ srv'.dirtyAtSave = srv.dirtyAtSave /\ srv'.rdbChild = srv.rdbChild
        /\ srv'.phase = "commit" /\ srv'.image = srv.image
    BY <1>0, <2>1 DEF Memory
  <2> QED
    BY <1>0, <2>1, <2>2, Untouched
<1>10. CASE SaveCommits
  <2> DEFINE s == rdb_on_save_complete(srv)
             g == IF srv.stopping THEN Exiting(srv.buf = <<>>) ELSE ghost
  <2>1. /\ srv.phase = "commit" /\ srv' = AfterSave(s)
        /\ ghost' = Reported(g, srv.image)
    BY <1>10 DEF SaveCommits
  <2>2. /\ srv.rdbChild = Absent /\ srv.dirtyAtSave = srv.dirty
        /\ srv.image = srv.db /\ srv.image \in Data /\ Len(srv.db) \in Nat
    BY <1>0, <2>1 DEF DirtyInv, SaveInv, Memory, Data
  <2>3. s \in Memory /\ s.db = srv.db /\ s.rdbChild = Absent /\ s.dirty = 0
    BY <1>0, <2>2, CompletedType
  <2>4. g \in Ghosts
    BY <1>0, ExitingType
  <2> HIDE DEF s, g
  <2>5. ghost'.base = Len(srv.db)
    BY <2>1, <2>2, <2>4, ReportedType
  <2>6. 0 = Len(srv.db) - Len(srv.db)
    BY <2>2
  <2> QED
    BY <1>0, <2>1, <2>3, <2>5, <2>6, SavedKeeps
<1>11. CASE Flush
  <2>1. PICK k \in 0..Len(srv.buf) : aof_flush(k, "timers")
    BY <1>11 DEF Flush
  <2>2. srv.phase = "serve"
    BY <1>11 DEF Flush
  <2> QED
    BY <1>0, <2>1, <2>2, FlushType, Untouched
<1>12. CASE QueueFsync \/ FsyncStarts \/ FsyncEnds
  <2>1. /\ \E j : srv' = [srv EXCEPT !.job = j]
        /\ ghost' = ghost \/ (\E m : ghost' = [ghost EXCEPT !.mark = m])
           \/ (\E m : ghost' = [ghost EXCEPT !.safe = m])
    BY <1>12 DEF QueueFsync, FsyncStarts, FsyncEnds
  <2>2. /\ srv'.db = srv.db /\ srv'.dirty = srv.dirty
        /\ srv'.dirtyAtSave = srv.dirtyAtSave /\ srv'.rdbChild = srv.rdbChild
        /\ srv'.phase = srv.phase /\ srv'.image = srv.image
    BY <1>0, <2>1 DEF Memory
  <2>3. ghost'.base = ghost.base
    BY <1>0, <2>1 DEF Ghosts
  <2> QED
    BY <1>0, <2>2, <2>3, Untouched
<1>13. CASE EndTick
  <2> DEFINE t == RdbReaped(srv)
             s == [t EXCEPT !.phase = "poll"]
  <2>1. /\ ghost' = GhostReaped(ghost) /\ srv.phase = "timers"
        /\ (Ended(srv.aofChild) /\ aof_rewrite_reap(s)) \/ srv' = s
    BY <1>13 DEF EndTick
  <2>2. /\ t \in Memory /\ t.delta = srv.delta /\ t.open = srv.open
        /\ t.db = srv.db
    BY <1>0, ReapedType
  <2> HIDE DEF t
  <2>3. /\ s \in Memory /\ s.delta = srv.delta /\ s.open = srv.open
        /\ s.db = srv.db /\ s.phase = "poll" /\ s.dirty = t.dirty
        /\ s.dirtyAtSave = t.dirtyAtSave /\ s.rdbChild = t.rdbChild
    BY <2>2 DEF Memory
  <2> HIDE DEF s
  <2>4. /\ srv'.db = srv.db /\ srv'.phase = "poll" /\ srv'.dirty = t.dirty
        /\ srv'.dirtyAtSave = t.dirtyAtSave /\ srv'.rdbChild = t.rdbChild
    <3>1. Ended(srv.aofChild) => srv.aofChild # Absent
      BY DEF Ended
    <3> QED
      BY <1>0, <2>1, <2>3, <3>1, RewriteReapType
  <2> QED
    BY <1>0, <2>1, <2>4, TickKeeps DEF t
<1>14. CASE AofChildEnds
  <2>1. /\ ghost' = ghost /\ \E c : srv' = [srv EXCEPT !.aofChild = c]
    BY <1>14 DEF AofChildEnds
  <2>2. /\ srv'.db = srv.db /\ srv'.dirty = srv.dirty
        /\ srv'.dirtyAtSave = srv.dirtyAtSave /\ srv'.rdbChild = srv.rdbChild
        /\ srv'.phase = srv.phase /\ srv'.image = srv.image
    BY <1>0, <2>1 DEF Memory
  <2> QED
    BY <1>0, <2>1, <2>2, Untouched
<1>15. CASE RdbChildEnds
  <2>1. /\ ghost' = ghost /\ srv.rdbChild # Absent /\ ~Ended(srv.rdbChild)
        /\ \/ srv' = [srv EXCEPT !.rdbChild.state = "done"]
           \/ srv' = [srv EXCEPT !.rdbChild.state = "failed"]
    BY <1>15 DEF RdbChildEnds
  <2>2. srv.rdbChild \in Child /\ srv.rdbChild.state = "running"
    BY <1>0, <2>1 DEF Memory, Ended
  <2>3. PICK c \in Child : /\ srv' = [srv EXCEPT !.rdbChild = c]
                           /\ c.image = srv.rdbChild.image
    BY <2>1, <2>2 DEF Child
  <2>4. /\ srv'.db = srv.db /\ srv'.dirty = srv.dirty
        /\ srv'.dirtyAtSave = srv.dirtyAtSave /\ srv'.rdbChild = c
        /\ srv'.phase = srv.phase
    BY <1>0, <2>3 DEF Memory
  <2>5. ChildInv'
    BY <2>1, <2>2, <2>3, <2>4 DEF DirtyInv, ChildInv
  <2>6. SaveInv' /\ DirtyExact'
    BY <2>1, <2>4 DEF DirtyInv, SaveInv, DirtyExact
  <2> QED
    BY <1>0, <2>5, <2>6 DEF DirtyInv
<1>16. CASE \/ OrphanEnds \/ RewriterOpens \/ RewriterWrites \/ RewriterEnds
            \/ EditConfig \/ BootFails \/ UNCHANGED vars
  <2>1. srv' = srv /\ ghost' = ghost
    BY <1>16 DEF OrphanEnds, RewriterOpens, RewriterWrites, RewriterEnds,
                 EditConfig, BootFails, vars
  <2> QED
    BY <1>0, <2>1 DEF DirtyInv, ChildInv, SaveInv, DirtyExact
<1>17. CASE Shutdown
  <2>1. PICK k \in 0..Len(srv.buf) : aof_flush(k, "stopped")
    BY <1>17 DEF Shutdown
  <2>2. srv.phase = "poll"
    BY <1>17 DEF Shutdown
  <2> QED
    BY <1>0, <2>1, <2>2, FlushType, Untouched
<1>18. CASE StopReaps
  <2> DEFINE t == [srv EXCEPT !.rdbChild = Absent]
             s == Saving(t)
  <2>1. /\ ghost' = ghost /\ srv.phase = "stopped"
        /\ (Ended(srv.aofChild) /\ aof_rewrite_reap(s)) \/ srv' = s
    BY <1>18 DEF StopReaps
  <2>2. /\ t \in Memory /\ t.delta = srv.delta /\ t.open = srv.open
        /\ t.db = srv.db /\ t.dirty = srv.dirty /\ t.rdbChild = Absent
    BY <1>0 DEF Memory
  <2> HIDE DEF t
  <2>3. /\ s \in Memory /\ s.delta = srv.delta /\ s.open = srv.open
        /\ s.db = srv.db /\ s.image = srv.db /\ s.phase = "rotate"
        /\ s.dirty = srv.dirty /\ s.dirtyAtSave = srv.dirty
        /\ s.rdbChild = Absent
    BY <2>2, SavingType
  <2> HIDE DEF s
  <2>4. /\ srv'.db = srv.db /\ srv'.image = srv.db /\ srv'.phase = "rotate"
        /\ srv'.dirty = srv.dirty /\ srv'.dirtyAtSave = srv.dirty
        /\ srv'.rdbChild = Absent
    <3>1. Ended(srv.aofChild) => srv.aofChild # Absent
      BY DEF Ended
    <3> QED
      BY <1>0, <2>1, <2>3, <3>1, RewriteReapType
  <2>5. srv.dirty = Len(srv.db) - ghost.base
    BY <2>1 DEF DirtyInv, DirtyExact
  <2> QED
    BY <1>0, <2>1, <2>4, <2>5, SavingKeeps
<1>19. CASE Kill \/ PowerCut
  <2>1. srv' = Died
    BY <1>19 DEF Kill, PowerCut
  <2> QED
    BY <1>0, <2>1, DownKeeps
<1>20. CASE Restart
  <2>1. /\ srv'.phase = "poll" /\ srv'.dirty = 0 /\ srv'.rdbChild = Absent
        /\ ghost'.base = Len(srv'.db)
    BY <1>0, <1>20, RestartType
  <2>2. Len(srv'.db) \in Nat
    BY <1>0 DEF TypeOK, Memory, Data
  <2>3. 0 = Len(srv'.db) - Len(srv'.db)
    BY <2>2
  <2> QED
    BY <1>0, <2>1, <2>3 DEF DirtyInv, ChildInv, SaveInv, DirtyExact
<1>21. CASE Wake
  <2>1. /\ srv.phase = "poll" /\ ghost' = ghost
        /\ srv' = [srv EXCEPT !.phase = "serve"]
    BY <1>21 DEF Wake
  <2>2. /\ srv'.db = srv.db /\ srv'.dirty = srv.dirty
        /\ srv'.dirtyAtSave = srv.dirtyAtSave /\ srv'.rdbChild = srv.rdbChild
        /\ srv'.phase = "serve"
    BY <1>0, <2>1 DEF Memory
  <2> QED
    BY <1>0, <2>1, <2>2, Untouched
<1> QED
  BY <1>1, <1>2, <1>3, <1>4, <1>5, <1>6, <1>7, <1>8, <1>9, <1>10, <1>11,
     <1>12, <1>13, <1>14, <1>15, <1>16, <1>17, <1>18, <1>19, <1>20, <1>21
     DEF Next, Step

\* The counter is right when the server starts.
LEMMA InitDirty == Init => DirtyInv
<1> SUFFICES ASSUME Init PROVE DirtyInv
  OBVIOUS
<1>1. TypeOK
  BY InitTypes
<1>2. /\ srv.dirty = 0 /\ srv.rdbChild = Absent /\ srv.phase = "poll"
      /\ srv.db = <<>>
  <2>1. <<>> \in Data /\ Config.aof \in BOOLEAN
    BY DeploymentsAssumption DEF Config, Data, Init, Deployment
  <2> QED
    BY <2>1, BootedType DEF Init
<1>3. ghost.base = 0
  BY DEF Init
<1>4. Len(srv.db) = 0
  BY <1>2
<1> QED
  BY <1>1, <1>2, <1>3, <1>4 DEF DirtyInv, ChildInv, SaveInv, DirtyExact

\* The counter behind the automatic saves is exact in every state of a running
\* server: it is the number of changes that neither the newest completed save
\* nor the boot holds, through overlapping writes, forks, failed saves, reaps
\* and restarts.
THEOREM DirtyCounterExact == Spec => []DirtyExact
<1>1. DirtyInv /\ [Next]_vars => DirtyInv'
  BY StepDirty
<1>2. DirtyInv => DirtyExact
  BY DEF DirtyInv
<1> QED
  BY <1>1, <1>2, InitDirty, PTL DEF Spec

-----------------------------------------------------------------------------
(* The temporary file of a rewrite.                                        *)

\* A step that spends from a limit is one the deployment allows.
LEMMA Allowed ==
  ASSUME TypeOK, plan \in DOMAIN Deployments, NEW f \in Faults, Spend(f)
  PROVE  Config.limit[f] # 0
<1>1. Config.limit[f] \in Nat /\ used[f] \in Nat
  BY DeploymentsAssumption DEF Config, Deployment, TypeOK
<1> QED
  BY <1>1 DEF Spend

\* One process at a time writes the temporary file and none writes the log: a
\* rewriter without its parent and a rewrite under way exclude each other, and
\* a rewrite that is done finds its own image.
TempInv ==
  /\ ~disk.temp.torn
  /\ \A w \in disk.temp.writers : w.on # "log"
  /\ srv.aofChild # Absent \/ disk.temp.writers # {} => used["rewrite"] # 0
  /\ disk.temp.writers # {} =>
       Config.limit["kill"] # 0 /\ srv.aofChild = Absent
  /\ Completed(srv.aofChild) =>
       disk.temp.file = [image |-> srv.aofChild.image, torn |-> FALSE]

\* What was spent stays spent.
LEMMA StaysSpent ==
  ASSUME TypeOK, used' = used \/ \E f \in Faults : Spend(f)
  PROVE  used["rewrite"] # 0 => used'["rewrite"] # 0
BY DEF TypeOK, Spend, Faults

\* A step that leaves the temporary file alone, and starts no rewrite.
LEMMA TempSame ==
  ASSUME TypeOK, TempInv, plan' = plan, disk'.temp = disk.temp,
         srv'.aofChild \in {srv.aofChild, Absent},
         used' = used \/ \E f \in Faults : Spend(f)
  PROVE  TempInv'
BY StaysSpent DEF TempInv, Config, Completed

\* A file without writers loses its name.
LEMMA UnlinkedAlone ==
  ASSUME NEW t \in Temp, t.writers = {}
  PROVE  Unlinked(t).writers = {} /\ Unlinked(t).torn = t.torn
         /\ Unlinked(t).file = Absent
<1>1. Moved(t.writers, "temp", "gone") = {}
  BY DEF Moved
<1> QED
  BY <1>1 DEF Unlinked, Temp

\* A rewriter that loses its parent has not opened its file.
LEMMA TempKilled ==
  ASSUME TypeOK, plan \in DOMAIN Deployments, TempInv, Kill, plan' = plan
  PROVE  TempInv'
<1> DEFINE w == IF Runs(srv.aofChild)
                THEN disk.temp.writers
                       \cup {[image |-> srv.aofChild.image, on |-> "none"]}
                ELSE disk.temp.writers
<1>1. \E a, o : disk' = [disk EXCEPT !.aof = a, !.orphans = o, !.temp.writers = w]
  BY DEF Kill
<1>2. disk \in Files /\ disk.temp \in Temp /\ "kill" \in Faults /\ Spend("kill")
  BY DEF TypeOK, Files, Kill, Faults
<1>3. /\ srv.aofChild # Absent => used["rewrite"] # 0
      /\ \A v \in w : v.on # "log"
      /\ w # {} => used["rewrite"] # 0
  BY DEF TempInv, Runs
<1> HIDE DEF w
<1>4. disk'.temp.writers = w /\ disk'.temp.torn = disk.temp.torn
  BY <1>1, <1>2 DEF Files, Temp
<1>5. srv'.aofChild = Absent
  BY DEF Kill, Died, Booted
<1>6. Config.limit["kill"] # 0
  BY <1>2, Allowed
<1>7. used["rewrite"] # 0 => used'["rewrite"] # 0
  BY <1>2, StaysSpent
<1> QED
  BY <1>3, <1>4, <1>5, <1>6, <1>7 DEF TempInv, Config, Completed

\* The reap finds the image of its own child in the temporary file.
LEMMA TempReaped ==
  ASSUME TypeOK, TempInv, NEW s \in Memory, Ended(srv.aofChild),
         aof_rewrite_reap(s), plan' = plan
  PROVE  TempInv'
<1>1. /\ srv.aofChild # Absent /\ disk.temp.writers = {} /\ disk \in Files
      /\ disk.temp \in Temp
  BY DEF Ended, TempInv, TypeOK, Files
<1>2. srv'.aofChild = Absent
  <2> DEFINE d == Dropped(s)
  <2>3. <<>> \in Bytes
    BY DEF Bytes
  <2>1. d \in Memory /\ d.aofChild = Absent
    BY <2>3 DEF Dropped, Memory
  <2>2. srv' = d \/ \E b : srv' = [d EXCEPT !.open = b]
    BY DEF aof_rewrite_reap
  <2> HIDE DEF d
  <2> QED
    BY <2>1, <2>2 DEF Memory
<1>3. \/ disk' = [disk EXCEPT !.temp = Unlinked(disk.temp)]
      \/ /\ srv.aofChild.state = "done"
         /\ disk' = [disk EXCEPT !.aof = Swapped, !.temp = Renamed(disk.temp)]
  BY DEF aof_rewrite_reap
<1>4. CASE disk' = [disk EXCEPT !.temp = Unlinked(disk.temp)]
  <2>1. disk'.temp = Unlinked(disk.temp)
    BY <1>1, <1>4 DEF Files
  <2> QED
    BY <1>1, <1>2, <2>1, UnlinkedAlone DEF TempInv, Completed
<1>5. CASE /\ srv.aofChild.state = "done"
           /\ disk' = [disk EXCEPT !.aof = Swapped, !.temp = Renamed(disk.temp)]
  <2>1. disk.temp.file.torn = FALSE
    BY <1>1, <1>5 DEF TempInv, Completed
  <2>2. disk'.temp = Renamed(disk.temp)
    BY <1>1, <1>5 DEF Files
  <2>3. Renamed(disk.temp).torn = FALSE /\ Renamed(disk.temp).writers = {}
    BY <1>1, <2>1 DEF Renamed, Moved
  <2> QED
    BY <1>2, <2>2, <2>3 DEF TempInv, Completed
<1> QED
  BY <1>3, <1>4, <1>5

\* The child of a running server has the temporary file to itself.
LEMMA TempWritten ==
  ASSUME TypeOK, TempInv, AofChildEnds, plan' = plan
  PROVE  TempInv'
<1> DEFINE n == [image |-> srv.aofChild.image, torn |-> FALSE]
<1>1. /\ srv.aofChild # Absent /\ disk.temp.writers = {} /\ disk \in Files
      /\ disk.temp \in Temp /\ srv \in Memory /\ srv.aofChild \in Child
  BY DEF AofChildEnds, TempInv, TypeOK, Files, Memory
<1>2. used["rewrite"] # 0 /\ used'["rewrite"] # 0
  <2>1. used' = used \/ Spend("child")
    BY DEF AofChildEnds
  <2> QED
    BY <1>1, <2>1, StaysSpent DEF TempInv, Faults
<1>3. CASE /\ srv' = [srv EXCEPT !.aofChild.state = "done"]
           /\ disk' = [disk EXCEPT !.temp.file = n]
  <2>1. srv'.aofChild.image = srv.aofChild.image
    BY <1>1, <1>3 DEF Memory, Child
  <2> HIDE DEF n
  <2>2. /\ disk'.temp.file = n /\ disk'.temp.torn = disk.temp.torn
        /\ disk'.temp.writers = {}
    BY <1>1, <1>3 DEF Files, Temp
  <2> QED
    BY <1>2, <2>1, <2>2 DEF TempInv, Config, n
<1>4. CASE /\ srv' = [srv EXCEPT !.aofChild.state = "failed"]
           /\ disk' = [disk EXCEPT !.temp = Unlinked(disk.temp)]
  <2>1. srv'.aofChild.state = "failed"
    BY <1>1, <1>4 DEF Memory, Child
  <2>2. disk'.temp = Unlinked(disk.temp)
    BY <1>1, <1>4 DEF Files
  <2> QED
    BY <1>1, <1>2, <2>1, <2>2, UnlinkedAlone DEF TempInv, Completed
<1> QED
  BY <1>3, <1>4 DEF AofChildEnds

\* No rewrite starts beside a rewriter of an earlier server.
LEMMA TempStarts ==
  ASSUME TypeOK, plan \in DOMAIN Deployments, LogSound, TempInv,
         aof_rewrite_background, plan' = plan
  PROVE  TempInv'
<1> DEFINE c == [image |-> srv.db, state |-> "running"]
<1>1. Spend("rewrite") /\ "rewrite" \in Faults /\ disk' = disk
  BY DEF aof_rewrite_background, Faults
<1>2. srv'.aofChild = c
  BY DEF aof_rewrite_background, TypeOK, Memory
<1>3. used["rewrite"] \in Nat /\ Config.limit["rewrite"] \in Nat
  BY <1>1, DeploymentsAssumption DEF Config, Deployment, TypeOK
<1>4. used["rewrite"] < Config.limit["rewrite"] /\ used'["rewrite"] # 0
  BY <1>1, <1>3 DEF Spend, TypeOK
<1>5. disk.temp.writers = {}
  <2>1. Config.limit["kill"] = 0 \/ Config.limit["rewrite"] = 1
    BY <1>3, <1>4 DEF LogSound
  <2>2. Config.limit["rewrite"] = 1 => used["rewrite"] = 0
    BY <1>3, <1>4
  <2> QED
    BY <2>1, <2>2 DEF TempInv
<1>6. ~Completed(srv'.aofChild)
  BY <1>2 DEF Completed
<1> QED
  BY <1>1, <1>4, <1>5, <1>6 DEF TempInv

\* A rewriter without its parent writes the temporary file only.
LEMMA TempRewriter ==
  ASSUME TypeOK, TempInv, RewriterOpens \/ RewriterWrites \/ RewriterEnds,
         plan' = plan
  PROVE  TempInv' /\ disk'.aof = disk.aof
<1> DEFINE Alone(t) == ~t.torn /\ \A v \in t.writers : v.on # "log"
<1>0. /\ disk \in Files /\ disk.temp \in Temp /\ srv' = srv
      /\ disk.temp.writers \in SUBSET Writer
  BY DEF TypeOK, Files, Temp, RewriterOpens, RewriterWrites, RewriterEnds
<1>1. disk.temp.writers # {} /\ Alone(disk.temp)
  BY DEF TempInv, RewriterOpens, RewriterWrites, RewriterEnds
<1>2. /\ Config.limit["kill"] # 0 /\ srv.aofChild = Absent
      /\ used["rewrite"] # 0
  BY <1>1 DEF TempInv
<1>3. used'["rewrite"] # 0
  <2>1. used' = used \/ Spend("child")
    BY DEF RewriterOpens, RewriterWrites, RewriterEnds
  <2> QED
    BY <1>2, <2>1, StaysSpent DEF Faults
<1>4. SUFFICES \E u : Alone(u) /\ disk' = [disk EXCEPT !.temp = u]
  <2>1. PICK u : Alone(u) /\ disk' = [disk EXCEPT !.temp = u]
    BY <1>4
  <2>2. disk'.temp = u /\ disk'.aof = disk.aof
    BY <1>0, <2>1 DEF Files
  <2> QED
    BY <1>0, <1>2, <1>3, <2>1, <2>2 DEF TempInv, Config, Completed
<1>5. CASE RewriterOpens
  <2> DEFINE n == [image |-> <<>>, torn |-> TRUE]
  <2>1. PICK w \in disk.temp.writers :
          disk' = [disk EXCEPT
            !.temp.file = n,
            !.temp.writers = (@ \ {w}) \cup {[w EXCEPT !.on = "temp"]}]
    BY <1>5 DEF RewriterOpens
  <2> DEFINE x == [w EXCEPT !.on = "temp"]
             v == (disk.temp.writers \ {w}) \cup {x}
             u == [disk.temp EXCEPT !.file = n, !.writers = v]
  <2>2. x.on = "temp"
    BY <1>0 DEF Writer
  <2> HIDE DEF x
  <2>3. \A y \in v : y.on # "log"
    BY <1>1, <2>2
  <2>4. disk' = [disk EXCEPT !.temp = u]
    BY <1>0, <2>1 DEF Files, x
  <2> HIDE DEF n, v
  <2>5. u.torn = disk.temp.torn /\ u.writers = v
    BY <1>0 DEF Temp
  <2> HIDE DEF u
  <2> QED
    BY <1>1, <2>3, <2>4, <2>5
<1>6. CASE RewriterWrites
  <2> DEFINE n == [disk.temp.file EXCEPT !.torn = TRUE]
             u == [disk.temp EXCEPT !.file = n]
  <2>1. disk' = [disk EXCEPT !.temp.file.torn = TRUE]
    BY <1>1, <1>6 DEF RewriterWrites
  <2>2. disk' = [disk EXCEPT !.temp = u]
    BY <1>0, <2>1
  <2> HIDE DEF n
  <2>3. u.torn = disk.temp.torn /\ u.writers = disk.temp.writers
    BY <1>0 DEF Temp
  <2> HIDE DEF u
  <2> QED
    BY <1>1, <2>2, <2>3
<1>7. CASE RewriterEnds
  <2> DEFINE t(w) == [disk.temp EXCEPT !.writers = @ \ {w}]
             n(w) == [image |-> w.image, torn |-> FALSE]
             u(w) == [t(w) EXCEPT !.file = n(w)]
  <2>1. PICK w \in disk.temp.writers :
          \/ disk' = [disk EXCEPT !.temp = t(w)]
          \/ disk' = [disk EXCEPT !.temp = u(w)]
          \/ disk' = [disk EXCEPT !.temp = Unlinked(t(w))]
    BY <1>7 DEF RewriterEnds
  <2>2. t(w) \in Temp /\ Alone(t(w)) /\ t(w).writers \in SUBSET Writer
    BY <1>0, <1>1 DEF Temp
  <2> HIDE DEF n, t
  <2>3. u(w).torn = t(w).torn /\ u(w).writers = t(w).writers
    BY <2>2 DEF Temp
  <2> HIDE DEF u
  <2>4. /\ Unlinked(t(w)).torn = t(w).torn
        /\ Unlinked(t(w)).writers = Moved(t(w).writers, "temp", "gone")
    BY <2>2 DEF Unlinked, Temp
  <2>5. \A v \in Moved(t(w).writers, "temp", "gone") : v.on # "log"
    <3>1. ASSUME NEW y \in t(w).writers
          PROVE  [y EXCEPT !.on = "gone"].on = "gone"
      BY <2>2 DEF Writer
    <3> QED
      BY <2>2, <3>1 DEF Moved
  <2> QED
    BY <2>1, <2>2, <2>3, <2>4, <2>5
<1> QED
  BY <1>5, <1>6, <1>7

\* A command, run and propagated, is not about the rewriter.
LEMMA WrittenChild ==
  ASSUME TypeOK, Written
  PROVE  srv'.aofChild = srv.aofChild
<1> DEFINE w == used.write + used.resumed + 1
           q == [srv EXCEPT !.db = Append(@, w), !.dirty = @ + 1]
<1>1. srv' = Propagated(q, w)
  BY DEF Written
<1>2. q.aofChild = srv.aofChild /\ DOMAIN q = DOMAIN srv /\ srv \in Memory
  BY DEF TypeOK, Memory
<1> HIDE DEF w, q
<1>3. srv' = q \/ \E b, d : srv' = [q EXCEPT !.buf = b, !.delta = d]
  BY <1>1 DEF Propagated
<1> QED
  BY <1>2, <1>3 DEF Memory

\* What the steps that are not about a rewrite do to the rewriter and to its
\* file: nothing, or the rewriter is gone with the server.
NotRewrite ==
  /\ disk'.temp = disk.temp /\ srv'.aofChild \in {srv.aofChild, Absent}
  /\ used' = used \/ \E f \in Faults : Spend(f)

\* The commands and the steps of a save are such steps.
LEMMA CommandsNotRewrite ==
  ASSUME TypeOK,
         \/ Wake \/ Write \/ ResumedWrite \/ ConfigSet \/ rdb_save_background
         \/ BgSaveForkFails \/ do_save \/ SaveFails \/ SaveRotates
         \/ SaveCommitFails \/ SaveCommits \/ BootFails
  PROVE  NotRewrite
<1>0. srv \in Memory /\ disk \in Files
  BY DEF TypeOK
<1>1. CASE Write \/ ResumedWrite
  <2>1. disk' = disk /\ \E f \in Faults : Spend(f)
    BY <1>1 DEF Write, ResumedWrite, Written, Faults
  <2> QED
    BY <1>1, <2>1, WrittenChild DEF NotRewrite, Write, ResumedWrite
<1>2. CASE Wake \/ ConfigSet \/ rdb_save_background \/ BgSaveForkFails \/ BootFails
  <2>1. disk' = disk /\ (used' = used \/ \E f \in Faults : Spend(f))
    BY <1>2 DEF Wake, ConfigSet, rdb_save_background, BgSaveForkFails, BootFails,
                Faults
  <2>2. srv'.aofChild = srv.aofChild
    BY <1>0, <1>2 DEF Wake, ConfigSet, rdb_save_background, BgSaveForkFails,
                      BootFails, Memory
  <2> QED
    BY <2>1, <2>2 DEF NotRewrite
<1>3. CASE do_save
  <2> DEFINE t == RdbReaped(srv)
  <2>1. disk' = disk /\ Spend("save") /\ srv' = Saving(t)
    BY <1>3 DEF do_save
  <2>2. t \in Memory /\ t.aofChild = srv.aofChild
    BY <1>0, ReapedType
  <2> HIDE DEF t
  <2> QED
    BY <2>1, <2>2, SavingType DEF NotRewrite, Faults
<1>4. CASE SaveFails \/ SaveCommitFails \/ SaveCommits
  <2>1. PICK s \in Memory : srv' = AfterSave(s) /\ s.aofChild = srv.aofChild
    <3>1. /\ [srv EXCEPT !.dirtyAtSave = 0] \in Memory
          /\ [srv EXCEPT !.dirtyAtSave = 0].aofChild = srv.aofChild
      BY <1>0 DEF Memory
    <3> QED
      BY <1>4, <3>1, CompletedType DEF SaveFails, SaveCommitFails, SaveCommits
  <2>2. srv'.aofChild \in {srv.aofChild, Absent}
    <3>1. Died.aofChild = Absent
      BY DEF Died, Booted
    <3> QED
      BY <2>1, <3>1, AfterSaveType
  <2>3. disk' = disk \/ \E d : disk' = [disk EXCEPT !.dump = d]
    BY <1>4 DEF SaveFails, SaveCommitFails, SaveCommits
  <2>4. used' = used \/ \E f \in Faults : Spend(f)
    BY <1>4 DEF SaveFails, SaveCommitFails, SaveCommits, Faults
  <2>5. disk'.temp = disk.temp
    BY <1>0, <2>3 DEF Files
  <2> QED
    BY <2>2, <2>4, <2>5 DEF NotRewrite
<1>5. CASE SaveRotates
  <2>1. /\ srv' = [srv EXCEPT !.phase = "commit"] /\ used' = used
        /\ disk' = disk \/ disk' = [disk EXCEPT !.bak = disk.dump, !.dump = Absent]
    BY <1>5 DEF SaveRotates
  <2>2. disk'.temp = disk.temp /\ srv'.aofChild = srv.aofChild
    BY <1>0, <2>1 DEF Files, Memory
  <2> QED
    BY <2>1, <2>2 DEF NotRewrite
<1> QED
  BY <1>1, <1>2, <1>3, <1>4, <1>5

\* So are the flush, the fsync job, the saving children and the crashes.
LEMMA FilesNotRewrite ==
  ASSUME TypeOK,
         \/ Flush \/ QueueFsync \/ FsyncStarts \/ FsyncEnds \/ RdbChildEnds
         \/ OrphanEnds \/ Shutdown \/ EditConfig \/ Restart
  PROVE  NotRewrite
<1>0. srv \in Memory /\ disk \in Files
  BY DEF TypeOK
<1>1. CASE Flush \/ Shutdown
  <2>1. PICK k \in 0..Len(srv.buf), next \in {"timers", "stopped"} :
          aof_flush(k, next)
    BY <1>1 DEF Flush, Shutdown
  <2>2. srv'.aofChild = srv.aofChild
    BY <2>1, FlushType
  <2>3. /\ \E a : disk' = [disk EXCEPT !.aof = a]
        /\ used' = used \/ Spend("short") \/ Spend("fsync")
    BY <2>1 DEF aof_flush
  <2>4. disk'.temp = disk.temp
    BY <1>0, <2>3 DEF Files
  <2> QED
    BY <2>2, <2>3, <2>4 DEF NotRewrite, Faults
<1>2. CASE QueueFsync \/ FsyncStarts \/ FsyncEnds
  <2>1. /\ \E j : srv' = [srv EXCEPT !.job = j]
        /\ disk' = disk \/ \E n : disk' = [disk EXCEPT !.aof.synced = n]
        /\ used' = used \/ Spend("fsync")
    BY <1>2 DEF QueueFsync, FsyncStarts, FsyncEnds
  <2>2. disk'.temp = disk.temp /\ srv'.aofChild = srv.aofChild
    BY <1>0, <2>1 DEF Files, Memory
  <2> QED
    BY <2>1, <2>2 DEF NotRewrite, Faults
<1>3. CASE RdbChildEnds
  <2>1. /\ \E c : srv' = [srv EXCEPT !.rdbChild = c]
        /\ disk' = disk \/ disk' = [disk EXCEPT !.dump = srv.rdbChild.image]
        /\ used' = used \/ Spend("child")
    BY <1>3 DEF RdbChildEnds
  <2>2. disk'.temp = disk.temp /\ srv'.aofChild = srv.aofChild
    BY <1>0, <2>1 DEF Files, Memory
  <2> QED
    BY <2>1, <2>2 DEF NotRewrite, Faults
<1>4. CASE OrphanEnds \/ EditConfig
  <2>1. /\ srv' = srv /\ (used' = used \/ Spend("config"))
        /\ \/ \E d, o : disk' = [disk EXCEPT !.dump = d, !.orphans = o]
           \/ disk' = [disk EXCEPT !.conf = ~@]
    BY <1>4 DEF OrphanEnds, EditConfig
  <2>2. disk'.temp = disk.temp
    BY <1>0, <2>1 DEF Files
  <2> QED
    BY <2>1, <2>2 DEF NotRewrite, Faults
<1>5. CASE Restart
  <2>1. /\ \E db : srv' = Booted(db, disk.conf)
        /\ disk' = disk \/ \E a : disk' = [disk EXCEPT !.aof = a]
        /\ used' = used
    BY <1>5 DEF Restart
  <2>2. disk'.temp = disk.temp /\ srv'.aofChild = Absent
    BY <1>0, <2>1 DEF Files, Booted
  <2> QED
    BY <2>1, <2>2 DEF NotRewrite
<1> QED
  BY <1>1, <1>2, <1>3, <1>4, <1>5

\* Every step of a deployment in which the log is sound keeps TempInv.
LEMMA TempStep ==
  ASSUME TypeOK, plan \in DOMAIN Deployments, LogSound, TempInv, Next
  PROVE  TempInv'
<1>0. plan' = plan /\ srv \in Memory /\ disk \in Files
  BY DEF Next, TypeOK
<1>1. CASE NotRewrite
  BY <1>0, <1>1, TempSame DEF NotRewrite
<1>2. CASE aof_rewrite_background
  BY <1>0, <1>2, TempStarts
<1>3. CASE AofChildEnds
  BY <1>0, <1>3, TempWritten
<1>4. CASE RewriterOpens \/ RewriterWrites \/ RewriterEnds
  BY <1>0, <1>4, TempRewriter
<1>5. CASE Kill
  BY <1>0, <1>5, TempKilled
<1>6. CASE EndTick
  <2> DEFINE t == RdbReaped(srv)
             s == [t EXCEPT !.phase = "poll"]
  <2>1. \/ Ended(srv.aofChild) /\ aof_rewrite_reap(s)
        \/ srv' = s /\ disk' = disk /\ used' = used
    BY <1>6 DEF EndTick
  <2>2. t \in Memory /\ t.aofChild = srv.aofChild
    BY <1>0, ReapedType
  <2> HIDE DEF t
  <2>3. s \in Memory /\ s.aofChild = srv.aofChild
    BY <2>2 DEF Memory
  <2> HIDE DEF s
  <2> QED
    BY <1>0, <2>1, <2>3, TempReaped, TempSame
<1>7. CASE StopReaps
  <2> DEFINE t == [srv EXCEPT !.rdbChild = Absent]
             s == Saving(t)
  <2>1. \/ Ended(srv.aofChild) /\ aof_rewrite_reap(s)
        \/ srv' = s /\ disk' = disk /\ used' = used
    BY <1>7 DEF StopReaps
  <2>2. t \in Memory /\ t.aofChild = srv.aofChild
    BY <1>0 DEF Memory
  <2> HIDE DEF t
  <2>3. s \in Memory /\ s.aofChild = srv.aofChild
    BY <2>2, SavingType
  <2> HIDE DEF s
  <2> QED
    BY <1>0, <2>1, <2>3, TempReaped, TempSame
<1>8. CASE PowerCut
  <2>1. \/ disk' = [disk EXCEPT !.orphans = {}, !.temp.writers = {}]
        \/ \E a : disk' = [disk EXCEPT !.aof = a, !.orphans = {},
                                        !.temp.writers = {}]
    BY <1>8 DEF PowerCut
  <2>2. disk'.temp.writers = {} /\ disk'.temp.torn = disk.temp.torn
    <3> DEFINE t == [disk.temp EXCEPT !.writers = {}]
    <3>1. t.writers = {} /\ t.torn = disk.temp.torn
      BY <1>0 DEF Files, Temp
    <3>2. disk'.temp = t
      BY <1>0, <2>1 DEF Files
    <3> QED
      BY <3>1, <3>2
  <2>3. srv'.aofChild = Absent
    BY <1>8 DEF PowerCut, Died, Booted
  <2> QED
    BY <2>2, <2>3 DEF TempInv, Completed
<1> QED
  BY <1>1, <1>2, <1>3, <1>4, <1>5, <1>6, <1>7, <1>8,
     CommandsNotRewrite, FilesNotRewrite DEF Next, Step

=============================================================================
