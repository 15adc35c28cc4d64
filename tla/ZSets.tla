-------------------------------- MODULE ZSets --------------------------------
(***************************************************************************)
(* The sorted-set commands of commands.cpp on one key, over types/zset.cpp *)
(* and the tree of AVL.  A sorted set is indexed twice: by (score, name)   *)
(* in the tree and by name in a hash table, which is here the set of the   *)
(* names it holds (HashTable and Hashes show that a map is one).           *)
(***************************************************************************)
EXTENDS AVL

CONSTANTS
    Members,        \* numbered in the order of their names
    Scores, Inf,
    Increments,     \* the increments of ZINCRBY
    RankRanges,     \* the ranges clients ask for, as ZRangeSpec records
    ScoreRanges,
    PopCounts

VARIABLES
    zs,         \* the sorted set, NoEntry when there is no key
    request,    \* the last request
    reply       \* and its answer

vars == <<zs, request, reply>>

NoEntry == [root |-> NoNode, tree |-> <<>>, score |-> <<>>, hmap |-> {}]

Abstract == INSTANCE ZSetSpec WITH zset <- zs.score

Int64(n) == Abstract!Int64(n)
Score(s) == Abstract!Score(s)
Array(s) == Abstract!Array(s)
Nil == Abstract!Nil
NaN == Abstract!NaN

-----------------------------------------------------------------------------
(* types/zset.cpp                                                          *)

With(f, x, v) == [y \in DOMAIN f \cup {x} |-> IF y = x THEN v ELSE f[y]]
Without(f, x) == [y \in DOMAIN f \ {x} |-> f[y]]

zless(z, m, n) ==
    IF z.score[m] # z.score[n] THEN z.score[m] < z.score[n] ELSE m < n

\* Where tree_insert hangs m: under which node, and on which side
RECURSIVE Leaf(_, _, _)
Leaf(z, n, m) ==
    LET side == IF zless(z, m, n) THEN "left" ELSE "right"
    IN  IF z.tree[n][side] = NoNode THEN <<n, side>> ELSE Leaf(z, z.tree[n][side], m)

\* m is in z.score and not yet in z.tree
tree_insert(z, m) ==
    LET t0 == With(z.tree, m, avl_init)
        at == Leaf(z, z.root, m)
        t1 == [t0 EXCEPT ![at[1]][at[2]] = m, ![m].parent = at[1]]
        Rooted(f) == [z EXCEPT !.tree = f[1], !.root = f[2]]
    IN  Rooted(avl_fix(IF z.root = NoNode THEN t0 ELSE t1, m))

Detached(z, m) ==
    LET Rooted(d) == [z EXCEPT !.tree = Without(d[1], m), !.root = d[2]]
    IN  Rooted(avl_del(z.tree, m))

zset_update(z, m, s) ==
    IF z.score[m] = s THEN z
    ELSE tree_insert([Detached(z, m) EXCEPT !.score[m] = s], m)

zset_lookup(z, m) == z.root # NoNode /\ m \in z.hmap

zset_insert(z, m, s) ==
    IF zset_lookup(z, m) THEN zset_update(z, m, s)
    ELSE tree_insert([z EXCEPT !.score = With(@, m, s), !.hmap = @ \cup {m}], m)

zset_delete(z, m) ==
    [Detached([z EXCEPT !.hmap = @ \ {m}], m) EXCEPT !.score = Without(@, m)]

\* How many members are below a score
RECURSIVE CountBelow(_, _, _, _)
CountBelow(z, n, s, inclusive) ==
    IF n = NoNode THEN 0
    ELSE IF z.score[n] < s \/ (inclusive /\ z.score[n] = s)
    THEN avl_cnt(z.tree, z.tree[n].left) + 1 + CountBelow(z, z.tree[n].right, s, inclusive)
    ELSE CountBelow(z, z.tree[n].left, s, inclusive)

zset_count_below(z, s, inclusive) == CountBelow(z, z.root, s, inclusive)

RECURSIVE AtRank(_, _, _)
AtRank(z, n, rank) ==
    IF n = NoNode THEN NoNode
    ELSE LET left == avl_cnt(z.tree, z.tree[n].left)
         IN  IF rank < left THEN AtRank(z, z.tree[n].left, rank)
             ELSE IF rank = left THEN n
             ELSE AtRank(z, z.tree[n].right, rank - (left + 1))

zset_at_rank(z, rank) == AtRank(z, z.root, rank)

\* The first member not before (s, m), and the last one not after it
RECURSIVE SeekGe(_, _, _, _, _)
SeekGe(z, n, found, s, m) ==
    IF n = NoNode THEN found
    ELSE IF z.score[n] < s \/ (z.score[n] = s /\ n < m)
    THEN SeekGe(z, z.tree[n].right, found, s, m)
    ELSE SeekGe(z, z.tree[n].left, n, s, m)

zset_seekge(z, s, m) == SeekGe(z, z.root, NoNode, s, m)

RECURSIVE SeekLe(_, _, _, _, _)
SeekLe(z, n, found, s, m) ==
    IF n = NoNode THEN found
    ELSE IF s < z.score[n] \/ (s = z.score[n] /\ m < n)
    THEN SeekLe(z, z.tree[n].left, found, s, m)
    ELSE SeekLe(z, z.tree[n].right, n, s, m)

zset_seekle(z, s, m) == SeekLe(z, z.root, NoNode, s, m)

-----------------------------------------------------------------------------
(* commands.cpp                                                            *)

Missing == zs = NoEntry

\* An empty sorted set does not outlive its last member
Kept(z) == IF z.hmap = {} THEN NoEntry ELSE z

do_zadd(m, s) ==
    /\ request' = <<"zadd", m, s>>
    /\ zs' = zset_insert(zs, m, s)
    /\ reply' = Int64(IF zset_lookup(zs, m) THEN 0 ELSE 1)

\* Doubles as far as they matter here: the infinities absorb, their sum is NaN
Plus(x, y) == IF Inf \in {x, y} THEN Inf ELSE IF -Inf \in {x, y} THEN -Inf ELSE x + y

do_zincrby(m, i) ==
    LET known == zset_lookup(zs, m)
    IN  /\ request' = <<"zincrby", m, i>>
        /\ IF known /\ {zs.score[m], i} = {Inf, -Inf}
           THEN reply' = NaN /\ UNCHANGED zs
           ELSE LET s == IF known THEN Plus(zs.score[m], i) ELSE i
                IN  /\ s \in Scores             \* bound
                    /\ zs' = zset_insert(zs, m, s)
                    /\ reply' = Score(s)

do_zrem(m) ==
    /\ request' = <<"zrem", m>>
    /\ zs' = IF zset_lookup(zs, m) THEN Kept(zset_delete(zs, m)) ELSE zs
    /\ reply' = Int64(IF zset_lookup(zs, m) THEN 1 ELSE 0)

Query(q, m, answer) ==
    /\ request' = <<q, m>>
    /\ reply' = IF zset_lookup(zs, m) THEN answer ELSE Nil
    /\ UNCHANGED zs

do_zscore(m) == Query("zscore", m, Score(zs.score[m]))

do_zrank(m) == Query("zrank", m, Int64(avl_rank(zs.tree, m)))

do_zrevrank(m) ==
    Query("zrevrank", m, Int64(avl_cnt(zs.tree, zs.root) - 1 - avl_rank(zs.tree, m)))

do_zcard ==
    /\ request' = <<"zcard">>
    /\ reply' = Int64(avl_cnt(zs.tree, zs.root))
    /\ UNCHANGED zs

\* Mutant: exclusive bounds are taken as inclusive.
IntervalInclusive(r) ==
    IF r.by_score
    THEN <<zset_count_below(zs, r.lo, FALSE), zset_count_below(zs, r.hi, TRUE)>>
    ELSE <<0, avl_cnt(zs.tree, zs.root)>>

\* The ascending rank interval [lo, hi) of a request
zrange_interval(r) ==
    IF r.by_score
    THEN <<zset_count_below(zs, r.lo, r.lo_excl), zset_count_below(zs, r.hi, ~r.hi_excl)>>
    ELSE LET card == avl_cnt(zs.tree, zs.root)
             s0 == IF r.start < 0 THEN r.start + card ELSE r.start
             e0 == IF r.stop < 0 THEN r.stop + card ELSE r.stop
             s  == IF s0 < 0 THEN 0 ELSE s0
             e  == IF e0 >= card THEN card - 1 ELSE e0
         IN  IF s > e0 \/ s >= card THEN <<0, 0>>
             ELSE IF r.rev THEN <<card - 1 - e, card - s>>
             ELSE <<s, e + 1>>

\* n nodes from a node on, one avl_offset at a time
RECURSIVE Walk(_, _, _)
Walk(m, n, step) ==
    IF n = 0 \/ m = NoNode THEN <<>>
    ELSE <<m>> \o Walk(avl_offset(zs.tree, m, step), n - 1, step)

Emitted(s) == Array([i \in DOMAIN s |-> <<s[i], zs.score[s[i]]>>])

Span(i) == IF i[2] > i[1] THEN i[2] - i[1] ELSE 0

\* LIMIT: how many of `all` members are skipped, and how many are taken
Limited(r, all) ==
    IF ~r.has_limit THEN <<0, all>>
    ELSE IF r.offset < 0 \/ r.offset >= all THEN <<0, 0>>
    ELSE <<r.offset, IF r.count >= 0 /\ r.count < all - r.offset THEN r.count
                     ELSE all - r.offset>>

zrange_emit(r) ==
    LET Taken(i, l) ==
          IF l[2] = 0 THEN <<>>
          ELSE Walk(zset_at_rank(zs, IF r.rev THEN i[2] - 1 - l[1] ELSE i[1] + l[1]),
                    l[2], IF r.rev THEN -1 ELSE 1)
        Cut(i) == Taken(i, Limited(r, Span(i)))
    IN  Emitted(Cut(zrange_interval(r)))

\* ZRANGE, ZREVRANGE, ZRANGEBYSCORE, ZREVRANGEBYSCORE
zrange_generic(r) ==
    /\ request' = <<"zrange", r>>
    /\ reply' = IF Missing THEN Array(<<>>) ELSE zrange_emit(r)
    /\ UNCHANGED zs

do_zcount(r) ==
    /\ request' = <<"zcount", r>>
    /\ reply' = Int64(Span(zrange_interval(r)))
    /\ UNCHANGED zs

\* ZREMRANGEBYRANK, ZREMRANGEBYSCORE: collect first, delete second
zremrange_generic(r) ==
    LET Doomed(i) == IF Span(i) = 0 THEN <<>> ELSE Walk(zset_at_rank(zs, i[1]), Span(i), 1)
    IN  /\ request' = <<"zremrange", r>>
        /\ \E doomed \in {Doomed(zrange_interval(r))} :
             /\ zs' = Kept(FoldLeft(zset_delete, zs, doomed))
             /\ reply' = Int64(Len(doomed))

\* The leftmost node, count times
RECURSIVE Popped(_, _)
Popped(z, count) ==
    IF count = 0 \/ z.root = NoNode THEN <<z, <<>>>>
    ELSE LET m == Leftmost(z.tree, z.root)
             After(r) == <<r[1], <<<<m, z.score[m]>>>> \o r[2]>>
         IN  After(Popped(zset_delete(z, m), count - 1))

do_zpopmin(count) ==
    /\ request' = <<"zpopmin", count>>
    /\ \E r \in {Popped(zs, count)} : zs' = Kept(r[1]) /\ reply' = Array(r[2])

-----------------------------------------------------------------------------
Init == zs = NoEntry /\ request = <<>> /\ reply = Nil

\* The ranges a removal can name: ascending, without LIMIT
Ascending == {r \in RankRanges \cup ScoreRanges : ~r.rev /\ ~r.has_limit}

Next ==
    \/ \E m \in Members, s \in Scores : do_zadd(m, s)
    \/ \E m \in Members, i \in Increments : do_zincrby(m, i)
    \/ \E m \in Members : do_zrem(m) \/ do_zscore(m) \/ do_zrank(m) \/ do_zrevrank(m)
    \/ do_zcard
    \/ \E r \in ScoreRanges : do_zcount(r)
    \/ \E r \in RankRanges \cup ScoreRanges : zrange_generic(r)
    \/ \E r \in Ascending : zremrange_generic(r)
    \/ \E n \in PopCounts : do_zpopmin(n)

Spec == Init /\ [][Next]_vars

-----------------------------------------------------------------------------
(* Properties                                                              *)

TypeOK ==
    /\ zs.root \in Members \cup {NoNode}
    /\ zs.tree \in [zs.hmap -> [parent : Members \cup {NoNode}, left : Members \cup {NoNode},
                                right : Members \cup {NoNode}, height : Nat, cnt : Nat]]
    /\ zs.score \in [zs.hmap -> Scores]

\* Whatever was inserted, re-scored, removed and popped, by single members or
\* by ranges, the tree is balanced, its parent links, heights and subtree sizes
\* are right, and its in-order walk is the members of the hash index sorted by
\* score and name.
IndexesAgree ==
    /\ SoundTree(zs.tree, zs.root)
    /\ InOrder(zs.tree, zs.root) = Abstract!Sorted(zs.score)
    /\ zs.hmap = DOMAIN zs.score

\* Every sorted-set command answers, from subtree sizes and walks of the tree,
\* exactly what the sorted sequence of the members says, and changes the set
\* accordingly.
RefinesZSet == Abstract!ISpec

\* zset_seekge and zset_seekle find the first pair at or after a position of
\* the order and the last pair at or before it; walking by an offset from any
\* member arrives at the member that many ranks away.
SeeksExact ==
    LET s == Abstract!Sorted(zs.score)
        at(i) == IF i \in DOMAIN s THEN s[i] ELSE NoNode
        below(x, m) == {i \in DOMAIN s : zs.score[s[i]] < x \/ (zs.score[s[i]] = x /\ s[i] < m)}
        upto(x, m) == {i \in DOMAIN s : zs.score[s[i]] < x \/ (zs.score[s[i]] = x /\ s[i] <= m)}
    IN  /\ \A x \in Scores, m \in Members :
             /\ zset_seekge(zs, x, m) = at(Cardinality(below(x, m)) + 1)
             /\ zset_seekle(zs, x, m) = at(Cardinality(upto(x, m)))
        /\ \A i \in DOMAIN s, d \in -Len(s) .. Len(s) :
             avl_offset(zs.tree, s[i], d) = at(i + d)

=============================================================================
