------------------------------ MODULE SetSpec ------------------------------
(***************************************************************************)
(* What the set commands promise: a key holds a finite set or a value of   *)
(* another type, an empty set is a missing key, every reply is determined  *)
(* by the sets except for the members SPOP and SRANDMEMBER draw, and SPOP  *)
(* feeds the log with the removal of exactly the members it drew.          *)
(***************************************************************************)
EXTENDS Integers, Sequences, FiniteSets

CONSTANTS SKeys, Members, Counts, Other

VARIABLES
    sets,       \* the members of each key, {} when there is no key, or Other
    request,    \* the last request
    reply,      \* its answer
    feed        \* the frame it put in the log instead of itself, or <<>>

ivars == <<sets, request, reply, feed>>

Int64(n) == <<"integer", n>>
Array(s) == <<"array", s>>
Listing(header, sent, items) == <<"listing", header, sent, items>>
Page(items) == <<"page", items>>
WrongType == <<"wrongtype">>
Ok == <<"ok">>

Exactly(S) == Listing(Cardinality(S), Cardinality(S), S)
Is(m, S) == IF m \in S THEN 1 ELSE 0

\* A request that changes nothing and whose operands are all sets
Reads(ks, answer) ==
    /\ reply' = IF \E i \in DOMAIN ks : sets[ks[i]] = Other THEN WrongType ELSE answer
    /\ UNCHANGED sets
    /\ feed' = <<>>

\* A request that changes key k to S, when its operands are all sets
Writes(ks, k, S, answer) ==
    /\ IF \E i \in DOMAIN ks : sets[ks[i]] = Other
       THEN reply' = WrongType /\ UNCHANGED sets
       ELSE reply' = answer /\ sets' = [sets EXCEPT ![k] = S]
    /\ feed' = <<>>

SAdd(k, m) ==
    /\ request' = <<"sadd", k, m>>
    /\ Writes(<<k>>, k, sets[k] \cup {m}, Int64(1 - Is(m, sets[k])))

SRem(k, m) ==
    /\ request' = <<"srem", k, m>>
    /\ Writes(<<k>>, k, sets[k] \ {m}, Int64(Is(m, sets[k])))

SIsMember(k, m) ==
    /\ request' = <<"sismember", k, m>>
    /\ Reads(<<k>>, Int64(Is(m, sets[k])))

SMIsMember(k, m, n) ==
    /\ request' = <<"smismember", k, m, n>>
    /\ Reads(<<k>>, Array(<<Is(m, sets[k]), Is(n, sets[k])>>))

SCard(k) ==
    /\ request' = <<"scard", k>>
    /\ Reads(<<k>>, Int64(Cardinality(sets[k])))

SMembers(k) ==
    /\ request' = <<"smembers", k>>
    /\ Reads(<<k>>, Exactly(sets[k]))

\* min(n, |S|) distinct members
Draws(S, n) ==
    {D \in SUBSET S : Cardinality(D) = IF n < Cardinality(S) THEN n ELSE Cardinality(S)}

SPop(k, n) ==
    /\ request' = <<"spop", k, n>>
    /\ IF sets[k] = Other THEN reply' = WrongType /\ UNCHANGED sets /\ feed' = <<>>
       ELSE \E D \in Draws(sets[k], n) :
              /\ reply' = Exactly(D)
              /\ sets' = [sets EXCEPT ![k] = @ \ D]
              /\ feed' = IF D = {} THEN <<>> ELSE <<"srem", k, D>>

\* Distinct members for a positive count, |n| draws with repetition for a
\* negative one
SRandMember(k, n) ==
    /\ request' = <<"srandmember", k, n>>
    /\ \/ n >= 0 /\ sets[k] = Other /\ Reads(<<k>>, Ok)
       \/ n >= 0 /\ sets[k] # Other /\ \E D \in Draws(sets[k], n) : Reads(<<k>>, Exactly(D))
       \/ n < 0 /\ sets[k] \in {Other, {}} /\ Reads(<<k>>, Exactly({}))
       \/ /\ n < 0 /\ sets[k] \notin {Other, {}}
          /\ \E D \in SUBSET sets[k] \ {{}} : Reads(<<k>>, Listing(-n, -n, D))

SScan(k) ==
    /\ request' = <<"sscan", k>>
    /\ IF sets[k] = Other THEN Reads(<<k>>, Ok)
       ELSE \E D \in SUBSET sets[k] : Reads(<<k>>, Page(D))

Combined(op, S, T) ==
    IF op = "inter" THEN S \cap T ELSE IF op = "union" THEN S \cup T ELSE S \ T

Combine(op, j, k) ==
    /\ request' = <<op, j, k>>
    /\ Reads(<<j, k>>, Exactly(Combined(op, sets[j], sets[k])))

CombineStore(op, d, j, k) ==
    /\ request' = <<op, d, j, k>>
    /\ LET S == Combined(op, sets[j], sets[k])
       IN  Writes(<<j, k>>, d, S, Int64(Cardinality(S)))

SMove(s, d, m) ==
    /\ request' = <<"smove", s, d, m>>
    /\ feed' = <<>>
    /\ IF sets[s] = {} THEN reply' = Int64(0) /\ UNCHANGED sets
       ELSE IF Other \in {sets[s], sets[d]} THEN reply' = WrongType /\ UNCHANGED sets
       ELSE /\ reply' = Int64(Is(m, sets[s]))
            /\ sets' = IF m \in sets[s] /\ s # d
                       THEN [sets EXCEPT ![s] = @ \ {m}, ![d] = @ \cup {m}]
                       ELSE sets

\* SET, which replaces a value of any type, and DEL
Set(k) ==
    /\ request' = <<"set", k>>
    /\ sets' = [sets EXCEPT ![k] = Other]
    /\ reply' = Ok /\ feed' = <<>>

Del(k) ==
    /\ request' = <<"del", k>>
    /\ sets' = [sets EXCEPT ![k] = {}]
    /\ reply' = Int64(IF sets[k] = {} THEN 0 ELSE 1) /\ feed' = <<>>

IInit == sets = [k \in SKeys |-> {}] /\ request = <<>> /\ reply = Ok /\ feed = <<>>

INext ==
    \/ \E k \in SKeys, m \in Members : SAdd(k, m) \/ SRem(k, m) \/ SIsMember(k, m)
    \/ \E k \in SKeys, m, n \in Members : SMIsMember(k, m, n)
    \/ \E k \in SKeys : SCard(k) \/ SMembers(k) \/ SScan(k) \/ Set(k) \/ Del(k)
    \/ \E k \in SKeys, n \in Counts : (n >= 0 /\ SPop(k, n)) \/ SRandMember(k, n)
    \/ \E op \in {"inter", "union", "diff"}, j, k \in SKeys :
          Combine(op, j, k) \/ \E d \in SKeys : CombineStore(op, d, j, k)
    \/ \E s, d \in SKeys, m \in Members : SMove(s, d, m)

ISpec == IInit /\ [][INext]_ivars

=============================================================================
