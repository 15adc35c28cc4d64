----------------------------- MODULE ReplBacklog -----------------------------
(***************************************************************************)
(* The replication backlog: a ring that keeps the newest bytes of the      *)
(* write stream so that a replica which lost its link can be sent only     *)
(* what it missed (core/state.cpp, repl_backlog_feed/repl_backlog_copy).   *)
(*                                                                         *)
(* repl_backlog_pos is the write cursor and repl_backlog_histlen says how  *)
(* much of the ring is valid.  The stream itself is not stored anywhere in *)
(* the program; `stream` is the history variable the ring is compared      *)
(* with: the bytes fed since the position `base` of the master's stream.   *)
(***************************************************************************)
EXTENDS Integers, Sequences

CONSTANTS
  Byte,       \* the values a byte of the stream may take
  Zero,       \* the filler the ring is assigned at boot
  Cap,        \* repl-backlog-size, fixed at boot; 0 disables the ring
  MaxStream,  \* bound: bytes fed since the last adoption
  MaxFeed,    \* bound: bytes of one call of repl_backlog_feed
  Offsets     \* bound: offsets a +FULLRESYNC line may carry

ASSUME CapAssumption    == Cap \in Nat
ASSUME BoundAssumption  == MaxStream \in Nat /\ MaxFeed \in Nat
ASSUME OffsetAssumption == Offsets \subseteq Nat

VARIABLES
  repl_backlog,         \* the ring, indexed from 0 as in the code
  repl_backlog_pos,
  repl_backlog_histlen,
  master_repl_offset,
  base, stream          \* history variables

vars == <<repl_backlog, repl_backlog_pos, repl_backlog_histlen,
          master_repl_offset, base, stream>>

Min2(a, b) == IF a <= b THEN a ELSE b

(***************************************************************************)
(* memcpy(ring + at, bytes + from, n): n bytes of the argument, the ones   *)
(* after its first `from`, land in the ring from index `at` on.            *)
(***************************************************************************)
Copied(ring, at, bytes, from, n) ==
  [i \in DOMAIN ring |-> IF at <= i /\ i < at + n
                           THEN bytes[from + (i - at) + 1]
                           ELSE ring[i]]

(* A stretch of the ring, read without wrapping. *)
Stretch(at, n) == [i \in 1..n |-> repl_backlog[at + i - 1]]

(* The last n elements of a sequence. *)
LastN(s, n) == [i \in 1..n |-> s[Len(s) - n + i]]

repl_backlog_start_offset ==
  IF repl_backlog_histlen = 0
    THEN 0
    ELSE master_repl_offset - repl_backlog_histlen + 1

(***************************************************************************)
(* repl_backlog_copy(need): the last `need` bytes, oldest first, in at     *)
(* most two appends.  do_psync calls it only with need <= histlen.         *)
(***************************************************************************)
repl_backlog_copy(need) ==
  IF need = 0
    THEN <<>>
    ELSE LET start == (repl_backlog_pos + Cap - need) % Cap
             first == Min2(need, Cap - start)
         IN  Stretch(start, first) \o Stretch(0, need - first)

-----------------------------------------------------------------------------
(* repl_init: the ring is sized once, at boot. *)
Init ==
  /\ repl_backlog = [i \in 0..(Cap - 1) |-> Zero]
  /\ repl_backlog_pos = 0
  /\ repl_backlog_histlen = 0
  /\ master_repl_offset = 0
  /\ base = 0
  /\ stream = <<>>

(* How many of the fed bytes the ring keeps, and how many it skips. *)
Kept(bytes) == IF Len(bytes) >= Cap THEN Cap ELSE Len(bytes)

Skipped(bytes) == Len(bytes) - Kept(bytes)

(* Mutant: the tail that wraps around is not written. *)
repl_backlog_feed_NoWrap(bytes) ==
  LET len   == Kept(bytes)
      first == Min2(len, Cap - repl_backlog_pos)
  IN  /\ bytes # <<>>
      /\ Len(stream) + Len(bytes) <= MaxStream
      /\ master_repl_offset' = master_repl_offset + Len(bytes)
      /\ stream' = stream \o bytes
      /\ repl_backlog' = Copied(repl_backlog, repl_backlog_pos, bytes, Skipped(bytes), first)
      /\ repl_backlog_pos' = (repl_backlog_pos + len) % Cap
      /\ repl_backlog_histlen' = Min2(repl_backlog_histlen + len, Cap)
      /\ UNCHANGED base

(***************************************************************************)
(* repl_backlog_feed: at most two memcpys, up to the end of the ring and   *)
(* then the wrapped tail.  With Cap = 0 (ring disabled) nothing is kept    *)
(* and only the offset moves.                                              *)
(***************************************************************************)
repl_backlog_feed(bytes) ==
  LET len   == Kept(bytes)
      skip  == Skipped(bytes)
      first == Min2(len, Cap - repl_backlog_pos)
      head  == Copied(repl_backlog, repl_backlog_pos, bytes, skip, first)
  IN  /\ bytes # <<>>
      /\ Len(stream) + Len(bytes) <= MaxStream
      /\ master_repl_offset' = master_repl_offset + Len(bytes)
      /\ stream' = stream \o bytes
      /\ repl_backlog' = Copied(head, 0, bytes, skip + first, len - first)
      /\ repl_backlog_pos' = IF Cap = 0 THEN repl_backlog_pos
                                       ELSE (repl_backlog_pos + len) % Cap
      /\ repl_backlog_histlen' = Min2(repl_backlog_histlen + len, Cap)
      /\ UNCHANGED base

(***************************************************************************)
(* A +FULLRESYNC line: the node takes over the master's offset and empties *)
(* the ring by its cursor and length only; the old bytes stay in place.    *)
(***************************************************************************)
AdoptOffset(off) ==
  /\ master_repl_offset' = off
  /\ repl_backlog_pos' = 0
  /\ repl_backlog_histlen' = 0
  /\ base' = off
  /\ stream' = <<>>
  /\ UNCHANGED repl_backlog

Chunk == UNION {[1..n -> Byte] : n \in 1..MaxFeed}

Next ==
  \/ \E bytes \in Chunk : repl_backlog_feed(bytes)
  \/ \E off \in Offsets : AdoptOffset(off)

Spec == Init /\ [][Next]_vars

-----------------------------------------------------------------------------
(* Types, with the cursor inside the ring (at 0 when there is no ring). *)
TypeOK ==
  /\ repl_backlog \in [0..(Cap - 1) -> Byte \cup {Zero}]
  /\ repl_backlog_pos \in Nat
  /\ repl_backlog_pos = 0 \/ repl_backlog_pos < Cap
  /\ repl_backlog_histlen \in 0..Cap
  /\ master_repl_offset \in Nat
  /\ base \in Nat
  /\ stream \in Seq(Byte)

(***************************************************************************)
(* What PSYNC relies on: for every number of bytes the ring claims to      *)
(* hold, repl_backlog_copy hands back exactly the newest bytes of the      *)
(* stream, whatever wrapped or over-long feeds came before.                *)
(***************************************************************************)
CopyIsNewest ==
  \A need \in 0..repl_backlog_histlen :
    repl_backlog_copy(need) = LastN(stream, need)

(***************************************************************************)
(* The ring never claims fewer bytes than it could serve: as long as the   *)
(* stream since adoption fits, all of it is retained, and the offset INFO  *)
(* reports as the first retained byte is that of the first byte fed.       *)
(***************************************************************************)
NothingForgottenEarly ==
  /\ repl_backlog_histlen = Min2(Len(stream), Cap)
  /\ (stream # <<>> /\ Len(stream) <= Cap) => repl_backlog_start_offset = base + 1

(***************************************************************************)
(* The inductive form of CopyIsNewest: the byte k places behind the write  *)
(* cursor is the k-th newest byte of the stream.                           *)
(***************************************************************************)
RingHoldsStream ==
  \A k \in 1..repl_backlog_histlen :
    repl_backlog[(repl_backlog_pos + Cap - k) % Cap] = stream[Len(stream) + 1 - k]

(***************************************************************************)
(* The inductive invariant of the ring: the history length and the offset  *)
(* are what repl_backlog_feed has counted, and the ring holds the stream.  *)
(***************************************************************************)
RingInv ==
  /\ TypeOK
  /\ repl_backlog_histlen = Min2(Len(stream), Cap)
  /\ master_repl_offset = base + Len(stream)
  /\ RingHoldsStream
=============================================================================
