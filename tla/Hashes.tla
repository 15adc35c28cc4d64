------------------------------- MODULE Hashes -------------------------------
(***************************************************************************)
(* The hash commands of commands.cpp on one key, over the typed layer of   *)
(* types/hash.cpp and the table of HashTable.  The key is missing (NoEntry)*)
(* or holds a map; a command that removes the last field deletes the key.  *)
(* A client may be in the middle of an HSCAN while others write.           *)
(***************************************************************************)
EXTENDS HashTable

CONSTANTS
    Fields,
    Pairs,          \* the fields HDEL and HMGET name, two at a time
    Values,         \* the values clients give each field
    Counters,       \* the fields HINCRBY is used on
    Increments,     \* and its increments
    MaxInt,         \* INT64_MAX; a value in -MaxInt - 1 .. MaxInt is an integer
    Length,         \* the length of a value
    Inline,         \* the longest string std::string keeps without the heap
    MaxScans        \* bound: scans a client starts

VARIABLES
    ent,        \* the entry of the key: a map, or NoEntry
    request,    \* the last request
    reply,      \* and its answer
    scan        \* the client's HSCAN: its cursor, the fields it has been
                \* sent, the fields that have been there all along

vars == <<ent, request, reply, scan>>

NoEntry == EmptyMap

Missing == ent = NoEntry

\* The map as a function from fields to values
Contents(h) ==
    LET nodes == Nodes(h)
    IN  [f \in {n.key : n \in nodes} |-> (CHOOSE n \in nodes : n.key = f).val]

Abstract == INSTANCE HashSpec WITH hash <- Contents(ent)

Int64(n) == Abstract!Int64(n)
Bulk(v) == Abstract!Bulk(v)
Array(s) == Abstract!Array(s)
Page(items) == Abstract!Page(items)
Listing(header, sent, items) == Abstract!Listing(header, sent, items)
Error == Abstract!Error
Nil == Abstract!Nil
Integral(v) == Abstract!Integral(v)

-----------------------------------------------------------------------------
(* types/hash.cpp                                                          *)

\* The capacity of a string of this capacity after a value is moved into it:
\* a short value is copied into the buffer, a long one brings its own.
Capacity(cap, v) == IF Length[v] <= Inline THEN cap ELSE Length[v]

\* hash_node_bytes, without the part that is the same for every node
hash_node_bytes(n) == 1 + n.cap

\* Mutant: the new value's capacity is not charged.
UpdatedUncharged(h, f, v) ==
    LET upd(n) == IF n.key = f THEN [n EXCEPT !.val = v, !.cap = Capacity(@, v)] ELSE n
        tab(t) == [t EXCEPT !.tab = [s \in DOMAIN @ |->
                                       [i \in DOMAIN @[s] |-> upd(@[s][i])]]]
    IN  [h EXCEPT !.newer = tab(@), !.older = tab(@)]

\* The entry with the value of a field replaced, its node staying in place
Updated(h, f, v) ==
    LET upd(n) == IF n.key = f THEN [n EXCEPT !.val = v, !.cap = Capacity(@, v)] ELSE n
        tab(t) == [t EXCEPT !.tab = [s \in DOMAIN @ |->
                                       [i \in DOMAIN @[s] |-> upd(@[s][i])]]]
        old    == Head(Found(h, f)).cap
    IN  [h EXCEPT !.newer = tab(@), !.older = tab(@),
                  !.elem_bytes = @ - old + Capacity(old, v)]

hash_set(m, f, v) ==
    LET node == [key |-> f, val |-> v, cap |-> Capacity(Inline, v)]
        Set(h) == IF Found(h, f) # <<>> THEN Updated(h, f, v)
                  ELSE [hm_insert(h, node) EXCEPT !.elem_bytes = @ + hash_node_bytes(node)]
    IN  Set(hm_help_rehashing(m))

\* hash_get: the map it leaves behind, and the node it returns
Helped(h) == IF h = NoEntry THEN h ELSE hm_help_rehashing(h)

hash_get(f) == Found(Helped(ent), f)

hash_del(h, f) ==
    LET Freed(node) == IF node = <<>> THEN 0 ELSE hash_node_bytes(Head(node))
    IN  [hm_delete(h, f) EXCEPT !.elem_bytes = @ - Freed(Found(hm_help_rehashing(h), f))]

-----------------------------------------------------------------------------
(* commands.cpp                                                            *)

\* What the writers leave in the keyspace: no empty hash
Kept(h) == IF hm_size(h) = 0 THEN NoEntry ELSE h

\* After every write: a field that was deleted is no longer due to the scan
Noted(h) == scan' = [scan EXCEPT !.steady = @ \cap Keys(h)]

do_hset(f, v) ==
    /\ request' = <<"hset", f, v>>
    /\ ent' = hash_set(ent, f, v)
    /\ reply' = Int64(IF hash_get(f) = <<>> THEN 1 ELSE 0)
    /\ Noted(ent')

do_hsetnx(f, v) ==
    /\ request' = <<"hsetnx", f, v>>
    /\ IF hash_get(f) # <<>> THEN ent' = Helped(ent) /\ reply' = Int64(0)
       ELSE ent' = hash_set(Helped(ent), f, v) /\ reply' = Int64(1)
    /\ Noted(ent')

do_hdel(f, g) ==
    /\ request' = <<"hdel", f, g>>
    /\ ent' = IF Missing THEN ent ELSE Kept(FoldLeft(hash_del, ent, <<f, g>>))
    /\ reply' = Int64(hm_size(ent) - hm_size(ent'))
    /\ Noted(ent')

do_hincrby(f, n) ==
    LET Current(found) == IF found = <<>> THEN 0 ELSE Head(found).val
        Over(cur) == (n > 0 /\ cur > MaxInt - n) \/ (n < 0 /\ cur < -MaxInt - 1 - n)
    IN  /\ request' = <<"hincrby", f, n>>
        /\ \E cur \in {Current(hash_get(f))} :
             IF ~Integral(cur) \/ Over(cur) THEN ent' = Helped(ent) /\ reply' = Error
             ELSE ent' = hash_set(Helped(ent), f, cur + n) /\ reply' = Int64(cur + n)
        /\ Noted(ent')

Value(found) == IF found = <<>> THEN Nil ELSE Bulk(Head(found).val)

do_hget(f) ==
    /\ request' = <<"hget", f>>
    /\ reply' = Value(hash_get(f))
    /\ ent' = Helped(ent)
    /\ UNCHANGED scan

\* Two fields; the second lookup sees the map the first one left
do_hmget(f, g) ==
    /\ request' = <<"hmget", f, g>>
    /\ reply' = Array(<<Value(hash_get(f)), Value(Found(Helped(Helped(ent)), g))>>)
    /\ ent' = Helped(Helped(ent))
    /\ UNCHANGED scan

do_hexists(f) ==
    /\ request' = <<"hexists", f>>
    /\ reply' = Int64(IF hash_get(f) = <<>> THEN 0 ELSE 1)
    /\ ent' = Helped(ent)
    /\ UNCHANGED scan

do_hstrlen(f) ==
    /\ request' = <<"hstrlen", f>>
    /\ LET Size(found) == IF found = <<>> THEN 0 ELSE Length[Head(found).val]
       IN  reply' = Int64(Size(hash_get(f)))
    /\ ent' = Helped(ent)
    /\ UNCHANGED scan

do_hlen ==
    /\ request' = <<"hlen">>
    /\ reply' = Int64(hm_size(ent))
    /\ UNCHANGED <<ent, scan>>

\* HGETALL, HKEYS and HVALS: the header is written before the walk
h_collect_reply ==
    LET sent == hm_foreach(ent)
    IN  /\ request' = <<"hgetall">>
        /\ reply' = Listing(hm_size(ent), Len(sent), {<<n.key, n.val>> : n \in ToSet(sent)})
        /\ UNCHANGED <<ent, scan>>

\* One call, from the cursor the previous one returned
do_hscan(count) ==
    LET start == scan.cursor = 0
    IN  /\ start => scan.started < MaxScans
        /\ request' = <<"hscan">>
        /\ \E r \in {hm_scan(ent, scan.cursor, count)} :
             /\ reply' = Page({<<n.key, n.val>> : n \in ToSet(r.nodes)})
             /\ scan' = [cursor  |-> r.cursor,
                         started |-> IF start THEN scan.started + 1 ELSE scan.started,
                         steady  |-> IF start THEN Keys(ent) ELSE scan.steady,
                         sent    |-> {n.key : n \in ToSet(r.nodes)}
                                       \cup (IF start THEN {} ELSE scan.sent)]
        /\ UNCHANGED ent

-----------------------------------------------------------------------------
Init ==
    /\ ent = NoEntry
    /\ request = <<>>
    /\ reply = Nil
    /\ scan = [cursor |-> 0, started |-> 0, steady |-> {}, sent |-> {}]

Next ==
    \/ \E f \in Fields : \E v \in Values[f] : do_hset(f, v) \/ do_hsetnx(f, v)
    \/ \E p \in Pairs : do_hdel(p[1], p[2]) \/ do_hmget(p[1], p[2])
    \/ \E f \in Counters, n \in Increments : do_hincrby(f, n)
    \/ \E f \in Fields : do_hget(f) \/ do_hexists(f) \/ do_hstrlen(f)
    \/ do_hlen \/ h_collect_reply
    \/ \E count \in 1 .. 2 : do_hscan(count)

Spec == Init /\ [][Next]_vars

-----------------------------------------------------------------------------
(* Properties                                                              *)

TypeOK ==
    /\ ent.newer.size \in Nat /\ ent.older.size \in Nat
    /\ ent.migrate_pos \in Nat /\ ent.elem_bytes \in Nat
    /\ scan.cursor \in 0 .. 2 ^ Bits - 1
    /\ scan.started \in 0 .. MaxScans
    /\ scan.steady \subseteq Fields /\ scan.sent \subseteq Fields

\* In the middle of any rehash every node hangs in the chain its hash selects,
\* no field is held twice, the sizes count the nodes and the slots that have
\* been migrated are empty.
MapWellFormed == WellFormed(ent)

\* hm_help_rehashing does enough work per call: the table that takes the
\* inserts is never filled past its limit while the old one is still draining.
MapLoadBounded == LoadBounded(ent)

\* Every hash command, at any point of a rehash, does to the client's hash and
\* answers exactly what it would on a plain function; and the header of a
\* listing announces the items that follow.
RefinesHash == Abstract!ISpec

\* hashtable.h says of elem_bytes: "sum per node bytes, maintained by the typed
\* layer".
ElemBytesExact ==
    ent.elem_bytes =
        FoldLeft(LAMBDA sum, n : sum + hash_node_bytes(n), 0, hm_foreach(ent))

\* hm_scan visits the slots "in an order that survives table resizes": when the
\* cursor comes back to 0, every field that was in the hash from the first call
\* to the last has been sent, whatever was inserted, deleted and rehashed in
\* between.
ScanComplete ==
    scan.started > 0 /\ scan.cursor = 0 => scan.steady \subseteq scan.sent

\* Whenever a client calls HSCAN with its cursor, the call ends the scan or moves
\* the cursor forward in reversed-bit order, never back and never nowhere: a scan
\* ends however the table is resized or recreated between its calls.
ScanAdvances ==
    [](\A count \in 1 .. 2 :
         \E next \in {hm_scan(ent, scan.cursor, count).cursor} :
            next = 0 \/ rev_bits(next) > rev_bits(scan.cursor))

=============================================================================
