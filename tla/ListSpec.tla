------------------------------ MODULE ListSpec ------------------------------
(***************************************************************************)
(* What the list commands promise to their clients: a key holds a finite   *)
(* sequence, a key whose sequence becomes empty is the same as a missing   *)
(* key, and every reply is a function of that sequence.  There is no ring, *)
(* no capacity and no slot here; Lists is shown to implement this module.  *)
(***************************************************************************)
EXTENDS Integers, Sequences, FiniteSets, SequencesExt

CONSTANTS Values, Indices, Counts, MaxPush

VARIABLES
    list,       \* the value of the key, <<>> when there is no key
    reply       \* the last answer

ivars == <<list, reply>>

Int64(n) == <<"integer", n>>
Bulk(v) == <<"bulk", v>>
Array(s) == <<"array", s>>
Status(s) == <<"status", s>>
Nil == <<"nil">>

Pushed == UNION {[1 .. n -> Values] : n \in 1 .. MaxPush}

\* A client's index, counted from the end when negative, as a position
Position(i) == IF i < 0 THEN Len(list) + i + 1 ELSE i + 1

Between(i, j) == {p \in DOMAIN list : p >= Position(i) /\ p <= Position(j)}

\* The subsequence of the elements at the positions P
At(P) ==
    [n \in 1 .. Cardinality(P) |->
        list[CHOOSE p \in P : Cardinality({q \in P : q <= p}) = n]]

\* The positions LREM takes: the first or the last |n| copies of v, or all
Victims(n, v) ==
    LET copies == {p \in DOMAIN list : list[p] = v}
    IN  {p \in copies :
            \/ n = 0
            \/ n > 0 /\ Cardinality({q \in copies : q < p}) < n
            \/ n < 0 /\ Cardinality({q \in copies : q > p}) < -n}

LPush(vs) ==
    /\ list' = Reverse(vs) \o list
    /\ reply' = Int64(Len(list'))

RPush(vs) ==
    /\ list' = list \o vs
    /\ reply' = Int64(Len(list'))

LPop ==
    IF list = <<>> THEN reply' = Nil /\ UNCHANGED list
    ELSE reply' = Bulk(Head(list)) /\ list' = Tail(list)

RPop ==
    IF list = <<>> THEN reply' = Nil /\ UNCHANGED list
    ELSE reply' = Bulk(Last(list)) /\ list' = Front(list)

LLen ==
    /\ reply' = Int64(Len(list))
    /\ UNCHANGED list

LIndex(i) ==
    /\ reply' = IF Position(i) \in DOMAIN list THEN Bulk(list[Position(i)]) ELSE Nil
    /\ UNCHANGED list

LRange(i, j) ==
    /\ reply' = Array(At(Between(i, j)))
    /\ UNCHANGED list

LSet(i, v) ==
    IF Position(i) \in DOMAIN list
    THEN reply' = Status("ok") /\ list' = [list EXCEPT ![Position(i)] = v]
    ELSE reply' = Status("error") /\ UNCHANGED list

LInsert(before, pivot, v) ==
    IF list = <<>> THEN reply' = Int64(0) /\ UNCHANGED list
    ELSE IF pivot \notin Range(list) THEN reply' = Int64(-1) /\ UNCHANGED list
    ELSE LET first == CHOOSE p \in DOMAIN list :
                        list[p] = pivot /\ \A q \in 1 .. p - 1 : list[q] # pivot
         IN  /\ list' = InsertAt(list, IF before THEN first ELSE first + 1, v)
             /\ reply' = Int64(Len(list'))

LRem(n, v) ==
    /\ list' = At(DOMAIN list \ Victims(n, v))
    /\ reply' = Int64(Cardinality(Victims(n, v)))

LTrim(i, j) ==
    /\ list' = At(Between(i, j))
    /\ reply' = Status("ok")

IInit == list = <<>> /\ reply = Nil

INext ==
    \/ \E vs \in Pushed : LPush(vs) \/ RPush(vs)
    \/ LPop \/ RPop \/ LLen
    \/ \E i, j \in Indices : LIndex(i) \/ LRange(i, j) \/ LTrim(i, j)
    \/ \E i \in Indices, v \in Values : LSet(i, v)
    \/ \E before \in BOOLEAN, pivot, v \in Values : LInsert(before, pivot, v)
    \/ \E n \in Counts, v \in Values : LRem(n, v)

ISpec == IInit /\ [][INext]_ivars

=============================================================================
