------------------------------ MODULE HashSpec ------------------------------
(***************************************************************************)
(* What the hash commands promise: a key holds a finite function from      *)
(* fields to values, a key without fields is a missing key, and every      *)
(* reply is determined by that function.  A reply that lists the hash is a *)
(* header, the number of items that follow it and the set of those items:  *)
(* their order is not promised.                                            *)
(***************************************************************************)
EXTENDS Integers, Sequences, FiniteSets, Functions, TLC

CONSTANTS Fields, Pairs, Values, Counters, Increments, MaxInt, Length

VARIABLES
    hash,       \* the fields of the key, the empty function when there is no key
    request,    \* the last request
    reply       \* and its answer

ivars == <<hash, request, reply>>

Int64(n) == <<"integer", n>>
Bulk(v) == <<"bulk", v>>
Array(s) == <<"array", s>>
Page(items) == <<"page", items>>
Listing(header, sent, items) == <<"listing", header, sent, items>>
Error == <<"error">>
Nil == <<"nil">>

Integral(v) == v \in -MaxInt - 1 .. MaxInt

Read(f) == IF f \in DOMAIN hash THEN Bulk(hash[f]) ELSE Nil

With(f, v) == (f :> v) @@ hash

HSet(f, v) ==
    /\ request' = <<"hset", f, v>>
    /\ hash' = With(f, v)
    /\ reply' = Int64(IF f \in DOMAIN hash THEN 0 ELSE 1)

HSetNx(f, v) ==
    /\ request' = <<"hsetnx", f, v>>
    /\ hash' = IF f \in DOMAIN hash THEN hash ELSE With(f, v)
    /\ reply' = Int64(IF f \in DOMAIN hash THEN 0 ELSE 1)

HDel(f, g) ==
    /\ request' = <<"hdel", f, g>>
    /\ hash' = Restrict(hash, DOMAIN hash \ {f, g})
    /\ reply' = Int64(Cardinality(DOMAIN hash \cap {f, g}))

HIncrBy(f, n) ==
    /\ request' = <<"hincrby", f, n>>
    /\ LET cur == IF f \in DOMAIN hash THEN hash[f] ELSE 0
       IN  IF Integral(cur) /\ Integral(cur + n)
           THEN hash' = With(f, cur + n) /\ reply' = Int64(cur + n)
           ELSE reply' = Error /\ UNCHANGED hash

HGet(f) ==
    /\ request' = <<"hget", f>>
    /\ reply' = Read(f)
    /\ UNCHANGED hash

HMGet(f, g) ==
    /\ request' = <<"hmget", f, g>>
    /\ reply' = Array(<<Read(f), Read(g)>>)
    /\ UNCHANGED hash

HExists(f) ==
    /\ request' = <<"hexists", f>>
    /\ reply' = Int64(IF f \in DOMAIN hash THEN 1 ELSE 0)
    /\ UNCHANGED hash

HStrLen(f) ==
    /\ request' = <<"hstrlen", f>>
    /\ reply' = Int64(IF f \in DOMAIN hash THEN Length[hash[f]] ELSE 0)
    /\ UNCHANGED hash

HLen ==
    /\ request' = <<"hlen">>
    /\ reply' = Int64(Cardinality(DOMAIN hash))
    /\ UNCHANGED hash

HGetAll ==
    /\ request' = <<"hgetall">>
    /\ LET n == Cardinality(DOMAIN hash)
       IN  reply' = Listing(n, n, {<<f, hash[f]>> : f \in DOMAIN hash})
    /\ UNCHANGED hash

\* One call of HSCAN: it lists some of the fields, and promises more only over
\* a whole scan, which Hashes states by itself.
HScan ==
    /\ request' = <<"hscan">>
    /\ \E F \in SUBSET DOMAIN hash : reply' = Page({<<f, hash[f]>> : f \in F})
    /\ UNCHANGED hash

IInit == hash = <<>> /\ request = <<>> /\ reply = Nil

INext ==
    \/ \E f \in Fields : \E v \in Values[f] : HSet(f, v) \/ HSetNx(f, v)
    \/ \E p \in Pairs : HDel(p[1], p[2]) \/ HMGet(p[1], p[2])
    \/ \E f \in Counters, n \in Increments : HIncrBy(f, n)
    \/ \E f \in Fields : HGet(f) \/ HExists(f) \/ HStrLen(f)
    \/ HLen \/ HGetAll \/ HScan

ISpec == IInit /\ [][INext]_ivars

=============================================================================
