---------------------------- MODULE MCStructures ----------------------------
(***************************************************************************)
(* The data structures that a single thread uses, each with its commands:  *)
(* the backlog ring, lists over the deque, sorted sets over the AVL tree,  *)
(* the deadline heap, and the buffer and parser of a connection.  They     *)
(* share nothing; a behaviour exercises one.                               *)
(***************************************************************************)
EXTENDS ReplBacklog, Deque

VARIABLES
  which,              \* the structure of this behaviour
  ent, list_reply,    \* Lists
  zs, request, reply, \* ZSets
  heap, due,          \* TTLHeap
  frames, fed, conn   \* Wire

ListVars == <<ent, list_reply>>
ZSetVars == <<zs, request, reply>>
HeapVars == <<heap, due>>
WireVars == <<frames, fed, conn>>

MCByte == 1 .. 2
MCZero == 0
MCOffsets == {0, 5}
InlineSizes == [v \in Values |-> 1]
MixedSizes ==
  LET long == CHOOSE v \in Values : TRUE
  IN  [v \in Values |-> IF v = long THEN 3 ELSE 1]

List == INSTANCE Lists WITH
  reply <- list_reply, Indices <- {-6, -2, -1, 0, 1, 5}, Counts <- {-2, -1, 0, 1},
  MaxPush <- 2, MaxLen <- 5

Infinity == 100

ByRank(start, stop, rev) ==
  [by_score |-> FALSE, rev |-> rev, has_limit |-> FALSE, offset |-> 0, count |-> -1,
   start |-> start, stop |-> stop, lo |-> 0, hi |-> 0, lo_excl |-> FALSE, hi_excl |-> FALSE]

ByScore(lo, hi, lx, hx, rev, limit) ==
  [by_score |-> TRUE, rev |-> rev, has_limit |-> limit # <<>>,
   offset |-> IF limit = <<>> THEN 0 ELSE limit[1],
   count |-> IF limit = <<>> THEN -1 ELSE limit[2],
   start |-> 0, stop |-> 0, lo |-> lo, hi |-> hi, lo_excl |-> lx, hi_excl |-> hx]

MCRankRanges ==
  {ByRank(0, -1, FALSE), ByRank(1, 2, FALSE), ByRank(-2, -1, FALSE), ByRank(-9, 9, FALSE),
   ByRank(1, 2, TRUE), ByRank(-2, 9, TRUE), ByRank(2, 1, FALSE)}

MCScoreRanges ==
  LET inf == Infinity
  IN  {ByScore(-inf, inf, FALSE, FALSE, FALSE, <<>>), ByScore(-inf, inf, TRUE, TRUE, FALSE, <<>>),
       ByScore(1, 2, FALSE, TRUE, FALSE, <<>>), ByScore(1, 2, TRUE, FALSE, FALSE, <<>>),
       ByScore(1, 1, FALSE, FALSE, FALSE, <<>>), ByScore(2, 1, FALSE, FALSE, FALSE, <<>>),
       ByScore(-inf, 2, FALSE, FALSE, TRUE, <<1, 2>>), ByScore(1, inf, FALSE, FALSE, FALSE, <<1, 1>>),
       ByScore(1, 2, FALSE, FALSE, TRUE, <<2, -1>>), ByScore(1, 2, FALSE, FALSE, FALSE, <<-1, 1>>)}

ZSet == INSTANCE ZSets WITH
  NoNode <- 0, Members <- 1 .. 5, Inf <- Infinity, Scores <- {1, 2, Infinity},
  Increments <- {1, -Infinity}, RankRanges <- MCRankRanges, ScoreRanges <- MCScoreRanges,
  PopCounts <- 0 .. 2

TTL == INSTANCE TTLHeap WITH Entries <- 1 .. 6, Deadlines <- 1 .. 2

Ten == [i \in 1 .. 10 |-> "a"]

\* Strings of no byte, of bytes that are part of the protocol, and of a length
\* with two digits; a line with blanks, a bare one, one without CR.
MCRequests == {<< <<"a">> >>, << <<"CR", "LF">>, <<>> >>, << <<"*", "$">> >>, <<Ten>>}

MCLines ==
  {[bytes |-> <<"SP", "a", "SP", "SP", "b", "CR", "LF">>, args |-> << <<"a">>, <<"b">> >>],
   [bytes |-> <<"CR", "LF">>, args |-> <<>>],
   [bytes |-> <<"a", "CR", "b", "LF">>, args |-> << <<"a", "CR", "b">> >>]}

\* No argument, too many, no number, no string, a string too long, its end
\* missing, a line too long.
MCBroken ==
  {<<"*", "0", "CR", "LF">>, <<"*", "3", "CR", "LF">>, <<"*", "a", "CR", "LF">>,
   <<"*", "1", "CR", "LF", "a">>, <<"*", "1", "CR", "LF", "$", "1", "1", "CR", "LF">>,
   <<"*", "1", "CR", "LF", "$", "1", "CR", "LF", "a", "a", "a">>, Ten}

WireConn == INSTANCE Wire WITH
  Byte <- {"*", "$", "CR", "LF", "SP", "a", "b", "0", "1", "2", "3", "?"}, Junk <- "?",
  FirstCap <- 4, MinCap <- 4, k_max_inline <- 6, k_max_args <- 2, k_max_msg <- 10,
  k_max_incoming <- 24,
  Requests <- MCRequests, Lines <- MCLines, Broken <- MCBroken

-----------------------------------------------------------------------------
AllInit ==
  /\ which \in {"backlog", "list", "zset", "heap", "wire"}
  /\ Init /\ List!Init /\ ZSet!Init /\ TTL!Init
  /\ \/ which = "wire" /\ WireConn!WireInit
     \/ which # "wire" /\ frames = <<>> /\ fed = 0 /\ conn = <<>>

AllNext ==
  /\ \/ which = "backlog" /\ Next /\ UNCHANGED <<ListVars, ZSetVars, HeapVars, WireVars>>
     \/ which = "list" /\ List!Next /\ UNCHANGED <<vars, ZSetVars, HeapVars, WireVars>>
     \/ which = "zset" /\ ZSet!Next /\ UNCHANGED <<vars, ListVars, HeapVars, WireVars>>
     \/ which = "heap" /\ TTL!Next /\ UNCHANGED <<vars, ListVars, ZSetVars, WireVars>>
     \/ which = "wire" /\ WireConn!WireNext /\ UNCHANGED <<vars, ListVars, ZSetVars, HeapVars>>
  /\ UNCHANGED which

AllSpec == AllInit /\ [][AllNext]_<<vars, ListVars, ZSetVars, HeapVars, WireVars, which>>

\* Replies are never read back.
View == <<vars, ent, zs, HeapVars, WireVars, which>>

-----------------------------------------------------------------------------
\* List!ElemBytesExact: the charge of a list is the "sum capacity() of the live
\* elements" (ds/deque.h).  It fails where strings have buffers of different sizes.
ListBytesExact == List!ElemBytesExact

\* List!DeadSlotsEmpty and List!CapPower: nothing that was popped, trimmed,
\* removed or shifted away stays in the ring; its capacity is a power of two
\* times the first one, which makes the mask of deque_phys a remainder; and the
\* charge is exact for strings that need no buffer (deque_pop_front, do_ltrim,
\* deque_close_gap, deque_grow).
ListSound == List!TypeOK /\ List!DeadSlotsEmpty /\ List!CapPower /\ ListBytesExact

\* List!RefinesList: every list command answers and changes the list as it would
\* a plain sequence, whatever the position of the ring (do_lpush to do_ltrim).
RefinesList == List!RefinesList

\* ZSet!IndexesAgree and ZSet!SeeksExact: the tree is a balanced, ordered index
\* of exactly the members of the hash index, and seeking and walking by an
\* offset agree with its order (avl_fix, avl_del, zset_insert, zset_delete,
\* zset_seekge, zset_seekle, avl_offset).
IndexesAgree == ZSet!TypeOK /\ ZSet!IndexesAgree /\ ZSet!SeeksExact

\* ZSet!RefinesZSet: every sorted-set command answers what the sorted sequence
\* of the members says and changes the set accordingly (do_zadd to do_zpopmin).
RefinesZSet == ZSet!RefinesZSet

\* TTL!HeapFaithful and TTL!RootDueFirst: heap items and the entries' heap_idx
\* name each other, the heap holds exactly the entries with a deadline, and its
\* root, which expiry and volatile-ttl eviction take, is due first (heap_delete,
\* heap_update).
HeapFaithful == TTL!HeapFaithful /\ TTL!RootDueFirst

\* WireConn!FramesIntact: however the bytes of a connection are cut on their way,
\* exactly the requests that have arrived whole are dispatched, with the arguments
\* that were encoded (parse_resp_request, buf_append, buf_consume, aof_encode).
FramesIntact == which = "wire" => WireConn!FramesIntact
=============================================================================
