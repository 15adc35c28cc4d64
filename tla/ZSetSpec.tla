------------------------------ MODULE ZSetSpec ------------------------------
(***************************************************************************)
(* What the sorted-set commands promise: a key holds a finite function     *)
(* from members to scores, and every reply is read off the members sorted  *)
(* by score and then by name.                                              *)
(***************************************************************************)
EXTENDS Integers, Sequences, FiniteSets, SequencesExt

CONSTANTS
    Members,        \* numbered in the order of their names
    Scores,         \* finite scores and the two infinities
    Inf,            \* +inf; -inf is -Inf
    Increments, RankRanges, ScoreRanges, PopCounts

VARIABLES zset, request, reply

ivars == <<zset, request, reply>>

Int64(n) == <<"integer", n>>
Score(s) == <<"double", s>>
Array(s) == <<"array", s>>
Nil == <<"nil">>
NaN == <<"nan">>

Before(z, m, n) == z[m] < z[n] \/ (z[m] = z[n] /\ m < n)

\* The members in order
Sorted(z) == SetToSortSeq(DOMAIN z, LAMBDA m, n : Before(z, m, n))

Pair(m) == <<m, zset[m]>>

Pairs(s) == [i \in DOMAIN s |-> Pair(s[i])]

Drop(S) == zset' = [m \in DOMAIN zset \ S |-> zset[m]]

Put(m, s) == [n \in DOMAIN zset \cup {m} |-> IF n = m THEN s ELSE zset[n]]

\* The members a range of ranks or of scores names, as a set
InRanks(r) ==
    LET card == Cardinality(DOMAIN zset)
        at(i) == IF i < 0 THEN i + card ELSE i
        s == IF r.rev THEN Reverse(Sorted(zset)) ELSE Sorted(zset)
    IN  {s[i] : i \in {j \in 1 .. card : at(r.start) <= j - 1 /\ j - 1 <= at(r.stop)}}

InScores(r) ==
    {m \in DOMAIN zset :
        /\ zset[m] > r.lo \/ (zset[m] = r.lo /\ ~r.lo_excl)
        /\ zset[m] < r.hi \/ (zset[m] = r.hi /\ ~r.hi_excl)}

\* The members of S in the order of the range
Listed(S, r) ==
    LET up == SelectSeq(Sorted(zset), LAMBDA m : m \in S)
    IN  IF r.rev THEN Reverse(up) ELSE up

Limited(s, r) ==
    IF ~r.has_limit THEN s
    ELSE IF r.offset < 0 THEN <<>>
    ELSE LET rest == SubSeq(s, r.offset + 1, Len(s))
         IN  IF r.count < 0 THEN rest
             ELSE SubSeq(rest, 1, IF r.count < Len(rest) THEN r.count ELSE Len(rest))

ZAdd(m, s) ==
    /\ request' = <<"zadd", m, s>>
    /\ zset' = Put(m, s)
    /\ reply' = Int64(IF m \in DOMAIN zset THEN 0 ELSE 1)

ZIncrBy(m, i) ==
    /\ request' = <<"zincrby", m, i>>
    /\ LET old == IF m \in DOMAIN zset THEN zset[m] ELSE 0
           new == IF Inf \in {old, i} THEN Inf ELSE IF -Inf \in {old, i} THEN -Inf ELSE old + i
       IN  IF {Inf, -Inf} = {old, i}
           THEN reply' = NaN /\ UNCHANGED zset
           ELSE reply' = Score(new) /\ zset' = Put(m, new)

ZRem(m) ==
    /\ request' = <<"zrem", m>>
    /\ Drop({m})
    /\ reply' = Int64(IF m \in DOMAIN zset THEN 1 ELSE 0)

Rank(m) == (CHOOSE i \in DOMAIN Sorted(zset) : Sorted(zset)[i] = m) - 1

ZQuery(m) ==
    /\ \E q \in {"zscore", "zrank", "zrevrank"} :
         /\ request' = <<q, m>>
         /\ reply' = IF m \notin DOMAIN zset THEN Nil
                     ELSE IF q = "zscore" THEN Score(zset[m])
                     ELSE IF q = "zrank" THEN Int64(Rank(m))
                     ELSE Int64(Cardinality(DOMAIN zset) - 1 - Rank(m))
    /\ UNCHANGED zset

ZCard ==
    /\ request' = <<"zcard">>
    /\ reply' = Int64(Cardinality(DOMAIN zset))
    /\ UNCHANGED zset

ZCount(r) ==
    /\ request' = <<"zcount", r>>
    /\ reply' = Int64(Cardinality(InScores(r)))
    /\ UNCHANGED zset

ZRange(r) ==
    /\ request' = <<"zrange", r>>
    /\ reply' = Array(Pairs(Limited(Listed(IF r.by_score THEN InScores(r) ELSE InRanks(r), r), r)))
    /\ UNCHANGED zset

ZRemRange(r) ==
    /\ request' = <<"zremrange", r>>
    /\ LET doomed == IF r.by_score THEN InScores(r) ELSE InRanks(r)
       IN  Drop(doomed) /\ reply' = Int64(Cardinality(doomed))

ZPopMin(n) ==
    /\ request' = <<"zpopmin", n>>
    /\ LET card == Cardinality(DOMAIN zset)
           low  == SubSeq(Sorted(zset), 1, IF n < card THEN n ELSE card)
       IN  Drop(ToSet(low)) /\ reply' = Array(Pairs(low))

IInit == zset = <<>> /\ request = <<>> /\ reply = Nil

INext ==
    \/ \E m \in Members, s \in Scores : ZAdd(m, s)
    \/ \E m \in Members, i \in Increments : ZIncrBy(m, i)
    \/ \E m \in Members : ZRem(m) \/ ZQuery(m)
    \/ ZCard
    \/ \E r \in ScoreRanges : ZCount(r)
    \/ \E r \in RankRanges \cup ScoreRanges : ZRange(r) \/ ZRemRange(r)
    \/ \E n \in PopCounts : ZPopMin(n)

ISpec == IInit /\ [][INext]_ivars

=============================================================================
