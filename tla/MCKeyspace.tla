---------------------------- MODULE MCKeyspace ----------------------------
(* Instances of Keyspace for TLC: which commands clients send. *)
EXTENDS Keyspace

CONSTANTS k1, k2, k3

\* The commands of one key.
On(k) ==
    {[op |-> o, key |-> k] : o \in {"get", "getdel", "append", "incr", "add", "persist"}}
        \cup {[op |-> o, key |-> k, val |-> MaxVal] : o \in {"set", "setnx", "getset"}}
        \cup {[op |-> "setex", key |-> k, val |-> MaxVal, ttl |-> t] : t \in TTLs}
        \cup {[op |-> "expire", key |-> k, ttl |-> t] : t \in TTLs \cup {0}}
        \cup {[op |-> "pexpireat", key |-> k, at |-> a] : a \in 1 .. MaxTime}
        \cup {[op |-> "getex", key |-> k, persist |-> a = 0, at |-> a] : a \in 0 .. MaxTime}
        \cup {SetOpts(k, 0, x = "nx", x = "xx", FALSE, e = 0, e) :
                x \in {"", "nx", "xx"}, e \in 0 .. MaxTime}
        \cup {SetOpts(k, MaxVal, FALSE, FALSE, TRUE, FALSE, 0)}
        \cup {Del(k)}

\* The commands of two keys.
OnBoth(a, b) ==
    {[op |-> o, pairs |-> <<<<a, 0>>, <<b, MaxVal>>>>] : o \in {"mset", "msetnx"}}
        \cup {[op |-> o, key |-> a, dst |-> d] : o \in {"rename", "renamenx"}, d \in {a, b}}
        \cup {[op |-> o, keys |-> <<a, b>>] : o \in {"del", "exists"}}

\* One write of more than two batches of evictions remove, so that clients can keep
\* the loop armed.
OnAll == [op |-> "mset", pairs |-> <<<<k1, MaxVal>>, <<k2, MaxVal>>, <<k3, MaxVal>>>>]

OnTwo ==
    On(k1) \cup On(k2) \cup OnBoth(k1, k2) \cup OnBoth(k2, k1) \cup {[op |-> "flushall"]}

\* Three keys are used where every key is a victim, and two of them otherwise.
MCCommands ==
    [p \in Policies |-> IF p = "allkeys-random" THEN On(k1) \cup OnBoth(k1, k3) \cup {OnAll} ELSE OnTwo]
=============================================================================
