-------------------------------- MODULE Sets --------------------------------
(***************************************************************************)
(* The set commands of commands.cpp over the typed layer of types/set.cpp  *)
(* and the table of HashTable.  A key is missing (NoKey), holds a set as a *)
(* map, or holds a value of another type.  Expired keys are found by the   *)
(* lookups of a command, one after the other, each reading the clock: a    *)
(* key of Volatile may be found expired, and deleted, by any of them.      *)
(***************************************************************************)
EXTENDS HashTable

CONSTANTS
    SKeys, Members,
    Counts,         \* the counts of SPOP and SRANDMEMBER
    Other,          \* a value of another type
    Bytes,          \* the capacity of each member's string
    Volatile        \* the keys that have a TTL

VARIABLES
    db,         \* the entry of each key
    request,    \* the last request
    reply,      \* its answer
    feed,       \* the frame the command put in the log instead of itself, or <<>>
    stale       \* whether a command used an entry it had itself deleted

vars == <<db, request, reply, feed, stale>>

NoKey == EmptyMap

Contents(e) == IF e = Other THEN Other ELSE Keys(e)

Abstract == INSTANCE SetSpec WITH sets <- [k \in SKeys |-> Contents(db[k])]

Int64(n) == Abstract!Int64(n)
Array(s) == Abstract!Array(s)
Listing(header, sent, items) == Abstract!Listing(header, sent, items)
Page(items) == Abstract!Page(items)
WrongType == Abstract!WrongType
Ok == Abstract!Ok

-----------------------------------------------------------------------------
(* types/set.cpp                                                           *)

set_node_bytes(m) == 1 + Bytes[m]

Helped(e) == IF e \in {NoKey, Other} THEN e ELSE hm_help_rehashing(e)

set_is_member(e, m) == Found(Helped(e), m) # <<>>

set_add(e, m) ==
    LET Add(h) == IF Found(h, m) # <<>> THEN h
                  ELSE [hm_insert(h, [key |-> m]) EXCEPT !.elem_bytes = @ + set_node_bytes(m)]
    IN  Add(Helped(e))

set_remove(e, m) ==
    LET Freed == IF set_is_member(e, m) THEN set_node_bytes(m) ELSE 0
    IN  [hm_delete(e, m) EXCEPT !.elem_bytes = @ - Freed]

\* The map after n lookups in it
LookedUp(e, n) ==
    LET times[i \in 0 .. n] == IF i = 0 THEN e ELSE Helped(times[i - 1])
    IN  times[n]

-----------------------------------------------------------------------------
(* commands.cpp: lookups                                                   *)

\* The keyspaces a lookup of k can leave behind
Lookup(d, k) ==
    {d} \cup (IF k \in Volatile /\ d[k] # NoKey THEN {[d EXCEPT ![k] = NoKey]} ELSE {})

\* What a command that empties a set leaves in the keyspace
Kept(e) == IF hm_size(e) = 0 THEN NoKey ELSE e

Answer(req, ans) ==
    /\ request' = req
    /\ reply' = ans
    /\ feed' = <<>>

\* Commands on one key.  Typed(k, d) is the rest of the command on a key that
\* is not of another type.
OneKey(req, k, Typed(_)) ==
    \E d \in Lookup(db, k) :
        /\ IF d[k] = Other THEN db' = d /\ Answer(req, WrongType) ELSE Typed(d)
        /\ UNCHANGED stale

do_sadd(k, m) ==
    LET typed(d) == /\ db' = [d EXCEPT ![k] = set_add(@, m)]
                    /\ Answer(<<"sadd", k, m>>, Int64(IF set_is_member(d[k], m) THEN 0 ELSE 1))
    IN  OneKey(<<"sadd", k, m>>, k, typed)

do_srem(k, m) ==
    LET typed(d) ==
          /\ db' = IF d[k] = NoKey THEN d ELSE [d EXCEPT ![k] = Kept(set_remove(@, m))]
          /\ Answer(<<"srem", k, m>>, Int64(IF set_is_member(d[k], m) THEN 1 ELSE 0))
    IN  OneKey(<<"srem", k, m>>, k, typed)

Is(e, m) == IF set_is_member(e, m) THEN 1 ELSE 0

do_sismember(k, m) ==
    LET typed(d) == /\ db' = [d EXCEPT ![k] = Helped(@)]
                    /\ Answer(<<"sismember", k, m>>, Int64(Is(d[k], m)))
    IN  OneKey(<<"sismember", k, m>>, k, typed)

do_smismember(k, m, n) ==
    LET typed(d) == /\ db' = [d EXCEPT ![k] = LookedUp(@, 2)]
                    /\ Answer(<<"smismember", k, m, n>>,
                              Array(<<Is(d[k], m), Is(Helped(d[k]), n)>>))
    IN  OneKey(<<"smismember", k, m, n>>, k, typed)

do_scard(k) ==
    LET typed(d) == db' = d /\ Answer(<<"scard", k>>, Int64(hm_size(d[k])))
    IN  OneKey(<<"scard", k>>, k, typed)

\* The header is written from the sizes, then the tables are walked
do_smembers(k) ==
    LET typed(d) == LET sent == hm_foreach(d[k])
                    IN  /\ db' = d
                        /\ Answer(<<"smembers", k>>,
                                  Listing(hm_size(d[k]), Len(sent), {n.key : n \in ToSet(sent)}))
    IN  OneKey(<<"smembers", k>>, k, typed)

do_sscan(k, cursor, count) ==
    LET typed(d) == LET r == hm_scan(d[k], cursor, count)
                    IN  db' = d /\ Answer(<<"sscan", k>>, Page({n.key : n \in ToSet(r.nodes)}))
    IN  OneKey(<<"sscan", k>>, k, typed)

-----------------------------------------------------------------------------
(* commands.cpp: random members                                            *)

\* The orders in which n nodes can be drawn, each removed before the next draw
Drawn(e, n) ==
    LET size == IF n < hm_size(e) THEN n ELSE hm_size(e)
    IN  {p \in [1 .. size -> {r.key : r \in hm_random(e)}] : IsInjective(p)}

Without(e, picks) == FoldLeft(hm_delete, e, picks)

do_spop(k, n) ==
    LET typed(d) ==
          IF d[k] = NoKey \/ n = 0
          THEN db' = d /\ Answer(<<"spop", k, n>>, Listing(0, 0, {}))
          ELSE \E p \in Drawn(d[k], n) :
                 LET bytes == FoldLeft(LAMBDA b, m : b + set_node_bytes(m), 0, p)
                 IN  /\ db' = [d EXCEPT ![k] = Kept([Without(@, p) EXCEPT !.elem_bytes = @ - bytes])]
                     /\ request' = <<"spop", k, n>>
                     /\ reply' = Listing(Len(p), Len(p), ToSet(p))
                     /\ feed' = <<"srem", k, ToSet(p)>>
    IN  OneKey(<<"spop", k, n>>, k, typed)

\* A positive count takes nodes out and puts them back; a negative one only
\* looks
do_srandmember(k, n) ==
    LET req == <<"srandmember", k, n>>
        typed(d) ==
          IF d[k] = NoKey \/ n = 0 THEN db' = d /\ Answer(req, Listing(0, 0, {}))
          ELSE IF n > 0
          THEN \E p \in Drawn(d[k], n) :
                 /\ db' = [d EXCEPT ![k] = FoldLeft(LAMBDA e, m : hm_insert(e, [key |-> m]),
                                                    Without(@, p), p)]
                 /\ Answer(req, Listing(Len(p), Len(p), ToSet(p)))
          ELSE \E p \in [1 .. -n -> {r.key : r \in hm_random(d[k])}] :
                 db' = d /\ Answer(req, Listing(-n, -n, ToSet(p)))
    IN  OneKey(req, k, typed)

-----------------------------------------------------------------------------
(* commands.cpp: commands on several keys                                  *)

\* sinter_impl, sunion_impl and sdiff_impl on two keys: first the lookups,
\* which keep pointers to the entries, then the members of one set tested
\* against the other.  The lookups of sunion_impl are each followed by their
\* own use.
Members2(op, d, j, k) ==
    LET walked == IF op = "inter" /\ hm_size(d[k]) < hm_size(d[j]) THEN k ELSE j
        tested == IF walked = j THEN k ELSE j
        nodes  == hm_foreach(d[walked])
        all    == [i \in DOMAIN nodes |-> nodes[i].key]
    IN  CASE op = "union" -> SetToSortSeq(Keys(d[j]) \cup Keys(d[k]), <)
          [] op = "inter" -> SelectSeq(all, LAMBDA m : set_is_member(d[tested], m))
          [] op = "diff"  -> SelectSeq(all, LAMBDA m : ~set_is_member(d[tested], m))

\* What the membership tests do to the table they are made in
Tested(op, d, j, k) ==
    LET walked == IF op = "inter" /\ hm_size(d[k]) < hm_size(d[j]) THEN k ELSE j
        tested == IF walked = j THEN k ELSE j
    IN  IF op = "union" \/ (op = "inter" /\ NoKey \in {d[j], d[k]}) THEN d
        ELSE [d EXCEPT ![tested] = LookedUp(@, hm_size(d[walked]))]

\* The two lookups, a wrong type ending the command at the first one met (for
\* SMOVE a missing source too), and the rest of the command on the keyspace
\* they leave
TwoKeys(req, op, j, k, Then(_)) ==
    \E d1 \in Lookup(db, j) :
        IF d1[j] = Other THEN db' = d1 /\ Answer(req, WrongType) /\ UNCHANGED stale
        ELSE IF op = "move" /\ d1[j] = NoKey
        THEN db' = d1 /\ Answer(req, Int64(0)) /\ UNCHANGED stale
        ELSE \E d2 \in Lookup(d1, k) :
               /\ IF d2[k] = Other THEN db' = d2 /\ Answer(req, WrongType) ELSE Then(d2)
               /\ stale' = (stale \/ (op \in {"diff", "move"} /\ d2[k] # Other
                                        /\ d1[j] # NoKey /\ d2[j] = NoKey))

Exactly(result) == Listing(Len(result), Len(result), ToSet(result))

\* SINTER, SUNION, SDIFF
Combine(op, j, k) ==
    LET then(d) == /\ db' = Tested(op, d, j, k)
                   /\ Answer(<<op, j, k>>, Exactly(Members2(op, d, j, k)))
    IN  TwoKeys(<<op, j, k>>, op, j, k, then)

\* Mutant: the result is added to what the destination held.
StoreMerges(d, dkey, result) ==
    [d EXCEPT ![dkey] = FoldLeft(set_add, IF @ = Other THEN NoKey ELSE @, result)]

set_store_result(d, dkey, result) ==
    [d EXCEPT ![dkey] = FoldLeft(set_add, NoKey, result)]

\* SINTERSTORE, SUNIONSTORE, SDIFFSTORE: "compute first, then store"
CombineStore(op, dkey, j, k) ==
    LET then(d) ==
          \E result \in {Members2(op, d, j, k)} :
            /\ db' = set_store_result(Tested(op, d, j, k), dkey, result)
            /\ Answer(<<op, dkey, j, k>>, Int64(Len(result)))
    IN  TwoKeys(<<op, dkey, j, k>>, op, j, k, then)

do_smove(s, t, m) ==
    LET req == <<"smove", s, t, m>>
        moved(d) == [d EXCEPT ![s] = Kept(set_remove(Helped(@), m)), ![t] = set_add(@, m)]
        then(d) ==
          IF ~set_is_member(d[s], m) \/ s = t
          THEN /\ db' = [d EXCEPT ![s] = Helped(@)]
               /\ Answer(req, Int64(Is(d[s], m)))
          ELSE db' = moved(d) /\ Answer(req, Int64(1))
    IN  TwoKeys(req, "move", s, t, then)

\* The commands of other types that change what a key holds
do_set(k) ==
    /\ db' = [db EXCEPT ![k] = Other]
    /\ Answer(<<"set", k>>, Ok)
    /\ UNCHANGED stale

do_del(k) ==
    /\ db' = [db EXCEPT ![k] = NoKey]
    /\ Answer(<<"del", k>>, Int64(IF db[k] = NoKey THEN 0 ELSE 1))
    /\ UNCHANGED stale

-----------------------------------------------------------------------------
Init ==
    /\ db = [k \in SKeys |-> NoKey]
    /\ request = <<>> /\ reply = Ok /\ feed = <<>>
    /\ stale = FALSE

Next ==
    \/ \E k \in SKeys, m \in Members : do_sadd(k, m) \/ do_srem(k, m) \/ do_sismember(k, m)
    \/ \E k \in SKeys, m, n \in Members : do_smismember(k, m, n)
    \/ \E k \in SKeys : do_scard(k) \/ do_smembers(k) \/ do_set(k) \/ do_del(k)
    \/ \E k \in SKeys, cursor \in 0 .. 1 : do_sscan(k, cursor, 2)
    \/ \E k \in SKeys, n \in Counts : (n >= 0 /\ do_spop(k, n)) \/ do_srandmember(k, n)
    \/ \E op \in {"inter", "union", "diff"}, j, k \in SKeys :
          Combine(op, j, k) \/ \E d \in SKeys : CombineStore(op, d, j, k)
    \/ \E s, t \in SKeys, m \in Members : do_smove(s, t, m)

Spec == Init /\ [][Next]_vars

-----------------------------------------------------------------------------
(* Properties                                                              *)

TypeOK ==
    \A k \in SKeys : db[k] # Other =>
        /\ db[k].newer.size \in Nat /\ db[k].older.size \in Nat
        /\ db[k].migrate_pos \in Nat /\ db[k].elem_bytes \in Nat

\* Taking random nodes out of a map and putting them back, membership tests in
\* the middle of a rehash and destructive moves between two sets leave every
\* map well formed, and never leave an empty set in the keyspace.
SetsWellFormed ==
    \A k \in SKeys : db[k] # Other =>
        /\ WellFormed(db[k])
        /\ hm_size(db[k]) = 0 => db[k] = NoKey

\* Every set command, on sets that are at any point of a rehash, also when a
\* key is both operand and destination or named twice, does to the sets and
\* answers exactly what it would on plain sets; SPOP feeds the log with a
\* removal of exactly what it sent.
RefinesSets == Abstract!ISpec

\* The charge a set carries is the sum of its members' charges, SPOP's and
\* SMOVE's own bookkeeping included.
SetBytesExact ==
    \A k \in SKeys : db[k] # Other =>
        db[k].elem_bytes = FoldLeft(LAMBDA b, n : b + set_node_bytes(n.key), 0, hm_foreach(db[k]))

\* lookup_set_ro is documented as "Non-destructive", for "all read-only
\* lookups": a command that has looked up its operands may use the entries it
\* found.
OperandsLive == ~stale

=============================================================================
