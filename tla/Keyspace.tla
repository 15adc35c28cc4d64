----------------------------- MODULE Keyspace -----------------------------
(***************************************************************************)
(* The keyspace of a master and of a copy of it: the entries of g_data.db, *)
(* the deadline heap, used_memory, lazy and active expiry, eviction, and   *)
(* the generic and string commands of src/src/commands/commands.cpp with   *)
(* what propagate_cmd puts on the log for each.  A copy is a replica or a  *)
(* replay of the AOF: both run the logged commands through do_request with *)
(* g_loading set, so both are the node `copy` that takes frames from       *)
(* `link`.  A node is a record [db, heap, used]; the commands are          *)
(* functions from a node, a command and the time to a node and the number  *)
(* of writes the command counted.                                          *)
(*                                                                         *)
(* A string value is a number: its size in memory for entry_mem_usage and  *)
(* its value for INCR.  "set" stands for every type that is not a string.  *)
(* The monotonic and the wall clock advance together, and do not advance   *)
(* during a command.                                                       *)
(***************************************************************************)
EXTENDS Integers, FiniteSets, Heap

CONSTANTS
    Keys,          \* the key names
    MaxVal,        \* INT64_MAX for INCR, and the longest string
    MaxTime,       \* the clock stops here
    TTLs,          \* relative times to live that clients pass
    MaxMemory,     \* the values of g_config.maxmemory, 0 for unlimited
    Policies,      \* the values of g_config.maxmemory_policy
    EvictWork,     \* victims per call of free_memory_if_needed (99)
    ExpireWork,    \* keys expired per timer tick (2001)
    MaxLink,       \* bound on the frames under way
    InStep,        \* TRUE: a frame is applied before the clock moves
    Commands       \* the commands clients may send, under each policy

ASSUME KeyspaceAssumption ==
    /\ Entries = Keys
    /\ EvictWork \in Nat \ {0} /\ ExpireWork \in Nat \ {0}
    /\ Policies \subseteq {"noeviction", "allkeys-random", "volatile-random", "volatile-ttl"}

VARIABLES
    master, copy,   \* the two nodes
    link,           \* frames logged and not yet applied: [cmd, last]
    partial,        \* the key of a command applied in part, or NoKey
    clock,
    limit,          \* g_config.maxmemory
    policy,         \* g_config.maxmemory_policy
    evict_pending,  \* g_data.g_evict_pending
    oom             \* the last command was refused with -OOM

vars == <<master, copy, link, partial, clock, limit, policy, evict_pending, oom>>

NoKey == "no key"
Absent == [type |-> "none", val |-> 0, mem |-> 0]
EmptyNode == [db |-> [k \in Keys |-> Absent], heap |-> EmptyHeap, used |-> 0]

Present(n, k) == n.db[k].type # "none"

-----------------------------------------------------------------------------
(* Entries and their memory: src/src/core/state.cpp *)

entry_mem_usage(e) == IF e.type = "str" THEN 1 + e.val ELSE 2

mem_reaccount(n, k) ==
    LET now == entry_mem_usage(n.db[k])
    IN  [n EXCEPT !.used = @ + now - n.db[k].mem, !.db[k].mem = now]

entry_new(n, k, type) == [n EXCEPT !.db[k] = [Absent EXCEPT !.type = type]]

\* hm_delete and entry_del: every caller does both
entry_del(n, k) ==
    [n EXCEPT !.used = @ - n.db[k].mem,
              !.heap = ClearTTL(@, k),
              !.db[k] = Absent]

\* Deletion that leaves the deadline in the heap.
DelKeepsTTL(n, k) == [n EXCEPT !.used = @ - n.db[k].mem, !.db[k] = Absent]

TTLSet(n, k, at) == [n EXCEPT !.heap = SetTTL(@, k, at)]
TTLCleared(n, k) == [n EXCEPT !.heap = ClearTTL(@, k)]

Expired(n, k, t) == entry_has_ttl(n.heap, k) /\ Deadline(n.heap, k) <= t

expire_if_needed(n, k, t) == IF Expired(n, k, t) THEN entry_del(n, k) ELSE n

\* The value is stored and the entry's memory recomputed.
Stored(n, k, v) == mem_reaccount([n EXCEPT !.db[k].val = v], k)

-----------------------------------------------------------------------------
(* lookup_entry: what was found, and the node after the lookup *)

lookup_entry(n, k, t, want, create, replace) ==
    LET Miss(d) == IF create THEN [rc |-> "OK", n |-> entry_new(d, k, want)]
                   ELSE [rc |-> "MISSING", n |-> d]
        Look(e) == IF ~Present(e, k) THEN Miss(e)
                   ELSE IF e.db[k].type = want THEN [rc |-> "OK", n |-> e]
                   ELSE IF replace THEN Miss(entry_del(e, k))
                   ELSE [rc |-> "WRONGTYPE", n |-> e]
    IN  Look(expire_if_needed(n, k, t))

\* A command that changed nothing but what its lookup expired, and one that
\* counted d writes.
Nothing(n) == [n |-> n, dirty |-> 0]
Wrote(n, d) == [n |-> n, dirty |-> d]

-----------------------------------------------------------------------------
(* The string commands *)

do_get(n, c, t) == Nothing(lookup_entry(n, c.key, t, "str", FALSE, FALSE).n)

SetPlain(n, k, v, t) ==
    Stored(TTLCleared(lookup_entry(n, k, t, "str", TRUE, TRUE).n, k), k, v)

\* SET with options: NX, XX and GET look first, KEEPTTL reads the deadline
\* before the write, and a deadline already past deletes the key.
SetWithOpts(n, c, t) ==
    LET Keep(e) == IF c.keepttl /\ Present(e, c.key) /\ entry_has_ttl(e.heap, c.key)
                   THEN Deadline(e.heap, c.key) ELSE 0
        Timed(w, at) == IF at = 0 THEN w ELSE TTLSet(w, c.key, at)
        Set(e) ==
          LET old == Present(e, c.key)
          IN  CASE c.get /\ old /\ e.db[c.key].type # "str" -> Nothing(e)
                [] (c.nx /\ old) \/ (c.xx /\ ~old) -> Nothing(e)
                [] c.at # 0 /\ c.at <= t ->
                      IF old THEN Wrote(entry_del(e, c.key), 1) ELSE Nothing(e)
                [] OTHER -> Wrote(Timed(SetPlain(e, c.key, c.val, t),
                                        IF c.at # 0 THEN c.at ELSE Keep(e)), 1)
    IN  Set(expire_if_needed(n, c.key, t))

do_set(n, c, t) ==
    IF c.op = "set" THEN Wrote(SetPlain(n, c.key, c.val, t), 1) ELSE SetWithOpts(n, c, t)

setex_generic(n, c, t) ==
    LET w == lookup_entry(n, c.key, t, "str", TRUE, TRUE).n
    IN  Wrote(Stored(TTLSet(w, c.key, t + c.ttl), c.key, c.val), 1)

do_setnx(n, c, t) ==
    LET Set(e) ==
          IF Present(e, c.key)
          THEN Nothing(e)
          ELSE Wrote(Stored(lookup_entry(e, c.key, t, "str", TRUE, FALSE).n, c.key, c.val), 1)
    IN  Set(expire_if_needed(n, c.key, t))

do_getset(n, c, t) ==
    LET Set(e) ==
          IF Present(e, c.key) /\ e.db[c.key].type # "str"
          THEN Nothing(e)
          ELSE IF Present(e, c.key)
          THEN Wrote(Stored(TTLCleared(e, c.key), c.key, c.val), 1)
          ELSE Wrote(Stored(entry_new(e, c.key, "str"), c.key, c.val), 1)
    IN  Set(expire_if_needed(n, c.key, t))

do_getdel(n, c, t) ==
    LET Take(l) == IF l.rc = "OK" THEN Wrote(entry_del(l.n, c.key), 1) ELSE Nothing(l.n)
    IN  Take(lookup_entry(n, c.key, t, "str", FALSE, FALSE))

\* GETEX key [PERSIST | a deadline]
do_getex(n, c, t) ==
    LET Touch(l) ==
          CASE l.rc # "OK" -> Nothing(l.n)
            [] l.rc = "OK" /\ c.persist ->
                  IF entry_has_ttl(l.n.heap, c.key)
                  THEN Wrote(TTLCleared(l.n, c.key), 1) ELSE Nothing(l.n)
            [] l.rc = "OK" /\ ~c.persist /\ c.at <= t -> Wrote(entry_del(l.n, c.key), 1)
            [] OTHER -> Wrote(TTLSet(l.n, c.key, c.at), 1)
    IN  Touch(lookup_entry(n, c.key, t, "str", FALSE, FALSE))

\* APPEND of one byte; the deadline stays.
do_append(n, c, t) ==
    LET Longer(l) == IF l.rc = "WRONGTYPE"
                     THEN Nothing(l.n)
                     ELSE Wrote(Stored(l.n, c.key, l.n.db[c.key].val + 1), 1)
    IN  Longer(lookup_entry(n, c.key, t, "str", TRUE, FALSE))

\* The entry is created only once the new value is known to be good.
incr_generic(n, c, t) ==
    LET Add(l) ==
          LET cur == IF l.rc = "OK" THEN l.n.db[c.key].val ELSE 0
              w == IF l.rc = "MISSING" THEN lookup_entry(l.n, c.key, t, "str", TRUE, FALSE).n
                   ELSE l.n
          IN  IF l.rc = "WRONGTYPE" \/ cur > MaxVal - 1
              THEN Nothing(l.n)
              ELSE Wrote(Stored(w, c.key, cur + 1), 1)
    IN  Add(lookup_entry(n, c.key, t, "str", FALSE, FALSE))

\* MSET and MSETNX of every pair of c.pairs
do_mset(n, c, t) ==
    Wrote(FoldLeft(LAMBDA m, p : SetPlain(m, p[1], p[2], t), n, c.pairs), Len(c.pairs))

\* The existence check stops at the first key alive.
do_msetnx(n, c, t) ==
    LET alive(i) == Present(n, c.pairs[i][1]) /\ ~Expired(n, c.pairs[i][1], t)
        seen == SelectInSeq([i \in 1 .. Len(c.pairs) |-> alive(i)], LAMBDA b : b)
        upto == IF seen = 0 THEN Len(c.pairs) ELSE seen
        put(m, p) == Stored(lookup_entry(m, p[1], t, "str", TRUE, FALSE).n, p[1], p[2])
        Set(e) == IF seen # 0 THEN Nothing(e) ELSE Wrote(FoldLeft(put, e, c.pairs), Len(c.pairs))
    IN  Set(FoldLeft(LAMBDA m, p : expire_if_needed(m, p[1], t), n, SubSeq(c.pairs, 1, upto)))

-----------------------------------------------------------------------------
(* The generic commands *)

\* A write that creates or grows a value of another type: SADD, LPUSH, ...
AddMember(n, c, t) ==
    LET Add(l) == IF l.rc = "WRONGTYPE" THEN Nothing(l.n) ELSE Wrote(Stored(l.n, c.key, 0), 1)
    IN  Add(lookup_entry(n, c.key, t, "set", TRUE, FALSE))

\* EXISTS, TOUCH, TYPE, TTL: nothing but the expiry of what they look at.
do_exists(n, c, t) == Nothing(FoldLeft(LAMBDA m, k : expire_if_needed(m, k, t), n, c.keys))

\* DEL looks at no deadline: an expired key still counts as deleted.
do_del(n, c, t) ==
    LET del(r, k) == IF Present(r.n, k) THEN Wrote(entry_del(r.n, k), r.dirty + 1) ELSE r
    IN  FoldLeft(del, Nothing(n), c.keys)

\* EXPIRE: a ttl that is not positive deletes the key.
expire_generic(n, c, t) ==
    LET Timed(e) == IF ~Present(e, c.key) THEN Nothing(e)
                    ELSE IF c.ttl <= 0 THEN Wrote(entry_del(e, c.key), 1)
                    ELSE Wrote(TTLSet(e, c.key, t + c.ttl), 1)
    IN  Timed(expire_if_needed(n, c.key, t))

\* PEXPIREAT: so does a deadline already past.
expireat_generic(n, c, t) ==
    LET Timed(e) == IF ~Present(e, c.key) THEN Nothing(e)
                    ELSE IF c.at <= t THEN Wrote(entry_del(e, c.key), 1)
                    ELSE Wrote(TTLSet(e, c.key, c.at), 1)
    IN  Timed(expire_if_needed(n, c.key, t))

do_persist(n, c, t) ==
    LET Untimed(e) == IF Present(e, c.key) /\ entry_has_ttl(e.heap, c.key)
                      THEN Wrote(TTLCleared(e, c.key), 1)
                      ELSE Nothing(e)
    IN  Untimed(expire_if_needed(n, c.key, t))

\* The entry moves to its new key and takes its place in the heap along: the
\* heap's refs are addresses of entries, which the model names by their keys.
Moved(n, src, dst) ==
    LET h == n.heap
        ref(r) == IF r = src THEN dst ELSE r
    IN  [n EXCEPT !.db = [@ EXCEPT ![dst] = n.db[src], ![src] = Absent],
                  !.heap = [a |-> [i \in 1 .. Len(h.a) |-> [h.a[i] EXCEPT !.ref = ref(@)]],
                            idx |-> [h.idx EXCEPT ![dst] = h.idx[src], ![src] = NO_TTL]]]

\* A rename over a key whose old entry is dropped without leaving the heap.
RenameOverwrites(n, src, dst, nx, t) ==
    LET e == expire_if_needed(expire_if_needed(n, src, t), dst, t)
    IN  CASE ~Present(e, src) -> [rc |-> -1, n |-> e]
          [] Present(e, src) /\ src = dst -> [rc |-> IF nx THEN 0 ELSE 1, n |-> e]
          [] Present(e, src) /\ src # dst /\ Present(e, dst) /\ nx -> [rc |-> 0, n |-> e]
          [] OTHER -> [rc |-> 1, n |-> mem_reaccount(Moved(DelKeepsTTL(e, dst), src, dst), dst)]

rename_key(n, src, dst, nx, t) ==
    LET Onto(d) == [rc |-> 1, n |-> mem_reaccount(Moved(d, src, dst), dst)]
        Target(e) == IF ~Present(e, dst) THEN Onto(e)
                     ELSE IF nx THEN [rc |-> 0, n |-> e]
                     ELSE Onto(entry_del(e, dst))
        Source(s) == IF ~Present(s, src) THEN [rc |-> -1, n |-> s]
                     ELSE IF src = dst THEN [rc |-> IF nx THEN 0 ELSE 1, n |-> s]
                     ELSE Target(expire_if_needed(s, dst, t))
    IN  Source(expire_if_needed(n, src, t))

\* RENAME counts a write even when it renames a key to itself.
do_rename(n, c, t) ==
    LET Counted(r) == IF r.rc = -1 THEN Nothing(r.n) ELSE Wrote(r.n, 1)
    IN  Counted(rename_key(n, c.key, c.dst, FALSE, t))

do_renamenx(n, c, t) ==
    LET Counted(r) == IF r.rc = 1 THEN Wrote(r.n, 1) ELSE Nothing(r.n)
    IN  Counted(rename_key(n, c.key, c.dst, TRUE, t))

\* FLUSHALL drops the table and deletes every entry that was in it.
do_flushall(n) ==
    Wrote(FoldLeft(LAMBDA m, k : entry_del(m, k), n, SetToSeq({k \in Keys : Present(n, k)})), 1)

\* spec.fn of the command table
Run(n, c, t) ==
    CASE c.op = "get"       -> do_get(n, c, t)
      [] c.op = "exists"    -> do_exists(n, c, t)
      [] c.op \in {"set", "set opts"} -> do_set(n, c, t)
      [] c.op = "setex"     -> setex_generic(n, c, t)
      [] c.op = "setnx"     -> do_setnx(n, c, t)
      [] c.op = "getset"    -> do_getset(n, c, t)
      [] c.op = "getdel"    -> do_getdel(n, c, t)
      [] c.op = "getex"     -> do_getex(n, c, t)
      [] c.op = "append"    -> do_append(n, c, t)
      [] c.op = "incr"      -> incr_generic(n, c, t)
      [] c.op = "mset"      -> do_mset(n, c, t)
      [] c.op = "msetnx"    -> do_msetnx(n, c, t)
      [] c.op = "add"       -> AddMember(n, c, t)
      [] c.op = "del"       -> do_del(n, c, t)
      [] c.op = "expire"    -> expire_generic(n, c, t)
      [] c.op = "pexpireat" -> expireat_generic(n, c, t)
      [] c.op = "persist"   -> do_persist(n, c, t)
      [] c.op = "rename"    -> do_rename(n, c, t)
      [] c.op = "renamenx"  -> do_renamenx(n, c, t)
      [] c.op = "flushall"  -> do_flushall(n)

-----------------------------------------------------------------------------
(* What a write that ran is logged as *)

PExpireAt(k, at) == [op |-> "pexpireat", key |-> k, at |-> at]
Del(k) == [op |-> "del", keys |-> <<k>>]
PlainSet(k, v) == [op |-> "set", key |-> k, val |-> v]
SetOpts(k, v, nx, xx, get, keepttl, at) ==
    [op |-> "set opts", key |-> k, val |-> v, nx |-> nx, xx |-> xx, get |-> get,
     keepttl |-> keepttl, at |-> at]

\* SET with options: NX, XX and GET are settled, the deadline is absolute
SetEffect(c, t) ==
    IF c.at # 0 /\ c.at <= t THEN Del(c.key)
    ELSE IF c.at # 0 THEN SetOpts(c.key, c.val, FALSE, FALSE, FALSE, FALSE, c.at)
    ELSE IF c.keepttl THEN SetOpts(c.key, c.val, FALSE, FALSE, FALSE, TRUE, 0)
    ELSE PlainSet(c.key, c.val)

GetexEffect(c, t) ==
    IF c.persist THEN [op |-> "persist", key |-> c.key]
    ELSE IF c.at <= t THEN Del(c.key)
    ELSE PExpireAt(c.key, c.at)

propagate_cmd(c, t) ==
    CASE c.op = "expire"   -> <<PExpireAt(c.key, t + c.ttl)>>
      [] c.op = "set opts" -> <<SetEffect(c, t)>>
      [] c.op = "setex"    -> <<PlainSet(c.key, c.val), PExpireAt(c.key, t + c.ttl)>>
      [] c.op = "getex"    -> <<GetexEffect(c, t)>>
      [] OTHER             -> <<c>>

\* The frames of one command, the last of them marked.
Frames(cmds) == [i \in 1 .. Len(cmds) |-> [cmd |-> cmds[i], last |-> i = Len(cmds)]]

-----------------------------------------------------------------------------
(* Eviction *)

\* What evict_pick_victim may return.  The LRU and LFU policies sample, so any
\* entry they may sample may be the best of the sample.
evict_pick_victim(n) ==
    CASE policy = "noeviction"      -> {}
      [] policy = "allkeys-random"  -> {k \in Keys : Present(n, k)}
      [] policy = "volatile-random" -> {k \in Keys : entry_has_ttl(n.heap, k)}
      [] policy = "volatile-ttl"    -> IF n.heap.a = <<>> THEN {} ELSE {n.heap.a[1].ref}

\* The ends of the eviction loop that may take w more victims.
RECURSIVE Evictions(_, _, _)
Evictions(n, w, sent) ==
    LET end(ok, pending) == {[n |-> n, sent |-> sent, ok |-> ok, pending |-> pending]}
        more(k) == Evictions(entry_del(n, k), w - 1, sent \o Frames(<<Del(k)>>))
    IN  IF n.used <= limit THEN end(TRUE, FALSE)
        ELSE IF w = 0 THEN end(TRUE, TRUE)
        ELSE IF evict_pick_victim(n) = {} THEN end(FALSE, FALSE)
        ELSE UNION {more(k) : k \in evict_pick_victim(n)}

\* Eviction that tells nobody.
SilentEvictions(n) ==
    IF limit = 0 THEN {[n |-> n, sent |-> <<>>, ok |-> TRUE, pending |-> FALSE]}
    ELSE {[r EXCEPT !.sent = <<>>] : r \in Evictions(n, EvictWork, <<>>)}

\* Already under the limit, and g_evict_pending left as it was.
StaysArmed(n) ==
    IF limit = 0 THEN {[n |-> n, sent |-> <<>>, ok |-> TRUE, pending |-> FALSE]}
    ELSE IF n.used <= limit THEN {[n |-> n, sent |-> <<>>, ok |-> TRUE, pending |-> evict_pending]}
    ELSE Evictions(n, EvictWork, <<>>)

\* A batch that runs out and refuses the write.
BatchRefuses(n) ==
    IF limit = 0 THEN {[n |-> n, sent |-> <<>>, ok |-> TRUE, pending |-> FALSE]}
    ELSE {[r EXCEPT !.ok = ~r.pending] : r \in Evictions(n, EvictWork, <<>>)}

free_memory_if_needed(n) ==
    IF limit = 0 THEN {[n |-> n, sent |-> <<>>, ok |-> TRUE, pending |-> FALSE]}
    ELSE Evictions(n, EvictWork, <<>>)

\* The write commands that make room first.
cmd_can_grow_memory(c) ==
    c.op \in {"set", "set opts", "setex", "setnx", "getset", "append", "incr", "mset",
              "msetnx", "add"}

-----------------------------------------------------------------------------
Init ==
    /\ master = EmptyNode /\ copy = EmptyNode
    /\ link = <<>> /\ partial = NoKey
    /\ clock = 0
    /\ limit \in MaxMemory
    /\ policy \in Policies
    /\ limit = 0 => policy = "noeviction"   \* it is not looked at
    /\ evict_pending = FALSE
    /\ oom = FALSE

\* The tail of do_request: make room or refuse, run, and log what ran.
do_request(c) ==
    /\ Len(link) < MaxLink
    /\ c.op = "append" => master.db[c.key].val < MaxVal
    /\ \E room \in IF cmd_can_grow_memory(c) THEN free_memory_if_needed(master)
                   ELSE {[n |-> master, sent |-> <<>>, ok |-> TRUE, pending |-> evict_pending]} :
          /\ \E r \in {IF room.ok THEN Run(room.n, c, clock) ELSE Nothing(room.n)} :
               /\ master' = r.n
               /\ link' = link \o room.sent
                            \o (IF r.dirty > 0 THEN Frames(propagate_cmd(c, clock)) ELSE <<>>)
          /\ evict_pending' = room.pending
          /\ oom' = ~room.ok
    /\ UNCHANGED <<copy, partial, clock, limit, policy>>

\* evict_tick, once per turn of the event loop
evict_tick ==
    /\ evict_pending
    /\ \E room \in free_memory_if_needed(master) :
          /\ master' = room.n
          /\ link' = link \o room.sent
          /\ evict_pending' = room.pending
    /\ oom' = FALSE
    /\ UNCHANGED <<copy, partial, clock, limit, policy>>

\* The expiry loop of process_timers takes due roots, w of them at most.
RECURSIVE ExpireRoots(_, _)
ExpireRoots(n, w) ==
    IF w = 0 \/ n.heap.a = <<>> \/ n.heap.a[1].val > clock THEN n
    ELSE ExpireRoots(entry_del(n, n.heap.a[1].ref), w - 1)

\* An expiry loop that leaves a root due at this very moment.
ExpireStrictly(n) ==
    IF n.heap.a = <<>> \/ n.heap.a[1].val >= clock THEN n ELSE ExpireRoots(n, ExpireWork)

process_timers(n) == ExpireRoots(n, ExpireWork)

ExpireMaster ==
    /\ process_timers(master) # master
    /\ master' = process_timers(master)
    /\ oom' = FALSE
    /\ UNCHANGED <<copy, link, partial, clock, limit, policy, evict_pending>>

ExpireCopy ==
    /\ process_timers(copy) # copy
    /\ copy' = process_timers(copy)
    /\ oom' = FALSE
    /\ UNCHANGED <<master, link, partial, clock, limit, policy, evict_pending>>

\* repl_apply, or one round of aof_load: the frame runs with g_loading set,
\* so nothing is evicted and nothing is logged.
repl_apply ==
    /\ link # <<>>
    /\ copy' = Run(copy, Head(link).cmd, clock).n
    /\ partial' = IF Head(link).last THEN NoKey ELSE Head(link).cmd.key
    /\ link' = Tail(link)
    /\ oom' = FALSE
    /\ UNCHANGED <<master, clock, limit, policy, evict_pending>>

\* Time passes.
Tick ==
    /\ clock < MaxTime
    /\ InStep => link = <<>>
    /\ clock' = clock + 1
    /\ oom' = FALSE
    /\ UNCHANGED <<master, copy, link, partial, limit, policy, evict_pending>>

Next ==
    \/ \E c \in Commands[policy] : do_request(c)
    \/ evict_tick \/ ExpireMaster \/ ExpireCopy \/ repl_apply \/ Tick

\* The event loop runs evict_tick and process_timers on every turn.
Fairness == WF_vars(evict_tick) /\ WF_vars(ExpireMaster) /\ WF_vars(ExpireCopy)

Spec == Init /\ [][Next]_vars /\ Fairness

-----------------------------------------------------------------------------
NodeType ==
    [db : [Keys -> [type : {"none", "str", "set"}, val : 0 .. MaxVal, mem : 0 .. MaxVal + 2]],
     heap : [a : Seq([val : Nat, ref : Keys]), idx : [Keys -> 0 .. Cardinality(Keys)]],
     used : Nat]

\* The nodes, the frames under way and the eviction state have the ranges of
\* the code's fields; used_memory, a size_t, never falls below zero.
TypeOK ==
    /\ master \in NodeType /\ copy \in NodeType
    /\ \A i \in 1 .. Len(link) : link[i].last \in BOOLEAN
    /\ partial \in Keys \cup {NoKey}
    /\ clock \in 0 .. MaxTime
    /\ limit \in MaxMemory /\ policy \in Policies
    /\ evict_pending \in BOOLEAN /\ oom \in BOOLEAN

\* On both nodes the heap is in order and holds exactly the deadlines of
\* entries that are in the table: a deletion, replacement or rename never
\* leaves behind the deadline of an entry that is gone (entry_del, rename_key).
HeapExact ==
    \A n \in {master, copy} :
        /\ HeapOrdered(n.heap) /\ BackPointers(n.heap)
        /\ \A k \in Keys : entry_has_ttl(n.heap, k) => Present(n, k)

\* mem_selfcheck: used_memory is the sum of what entry_mem_usage gives for
\* every entry, after every command, expiry and eviction.
MemExact ==
    \A n \in {master, copy} :
        n.used = FoldLeft(LAMBDA a, k : a + (IF Present(n, k) THEN entry_mem_usage(n.db[k]) ELSE 0),
                          0, SetToSeq(Keys))

\* The books are right on both nodes: types, deadlines and memory, whatever mix
\* of commands, expiries and evictions came before.
BooksExact == TypeOK /\ HeapExact /\ MemExact

\* What a client sees of a node at time t: expired keys are not there.
Visible(n, t) ==
    [k \in Keys |-> IF Present(n, k) /\ ~Expired(n, k, t)
                    THEN [type |-> n.db[k].type, val |-> n.db[k].val,
                          due |-> IF entry_has_ttl(n.heap, k) THEN Deadline(n.heap, k) ELSE 0]
                    ELSE Absent]

\* Once every frame has been applied the copy shows its clients the same keys,
\* values and deadlines as the master: what propagate_cmd logs is the effect
\* of the command, evictions included (README: writes are "logged as their
\* effect, with absolute deadlines").
Converged == link = <<>> => Visible(copy, clock) = Visible(master, clock)

\* A log cut between two frames of one command leaves no key of that command
\* without a deadline (propagate_cmd: "One frame, not SET + PEXPIREAT: a crash
\* between two frames would leave a key that should expire but never does").
CutKeepsDeadline == partial # NoKey => entry_has_ttl(copy.heap, partial)

\* A write is refused with -OOM only when usage is over the limit and the
\* policy has nothing left to evict (free_memory_if_needed).
OomJustified == oom => master.used > limit /\ evict_pick_victim(master) = {}

\* An eviction that ran out of its batch is finished by later ticks (g_evict_pending:
\* "continue on ticks"): the loop, which does not sleep while it is armed, stays armed
\* only as long as clients go on writing more than the batches remove.
EvictionEnds == []<><<master'.used > master.used>>_vars \/ []<>(~evict_pending)

\* Every key whose deadline has passed is eventually deleted from the table,
\* or given a new deadline, whether or not a client asks for it.
ExpiredGone ==
    \A k \in Keys : Expired(master, k, clock) ~> ~Expired(master, k, clock)
=============================================================================
