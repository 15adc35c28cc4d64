---------------------------- MODULE Transactions ----------------------------
(***************************************************************************)
(* MULTI / EXEC / DISCARD / WATCH / UNWATCH on one master, with the watch  *)
(* registry that every write, eviction and flush goes through              *)
(* (commands.cpp, watch_touch .. watch_clear_conn, do_multi .. do_unwatch, *)
(* do_request), and the pause a FAILOVER imposes on writes.                *)
(*                                                                         *)
(* The event loop is single threaded: a request runs to its end, so an     *)
(* EXEC in progress (`running`) excludes every other request.  Values are  *)
(* left out: a command names keys and changes some of them.  Expiry does   *)
(* not invalidate a watch, by decision of the project, and is no change    *)
(* here.                                                                   *)
(***************************************************************************)
EXTENDS Naturals, Sequences

CONSTANTS
  Conn, Key,
  Idle,       \* `running` when no EXEC is in progress
  Nothing,    \* `parked` of a connection that is not parked
  MaxQueue    \* bound: commands of one transaction

ASSUME ValueAssumption ==
  /\ Idle \notin Conn
  /\ Nothing \notin [op : {"write"}, keys : SUBSET Key] \cup [op : {"flushall"}]
ASSUME BoundAssumption == MaxQueue \in Nat

VARIABLES
  open,            \* connected clients
  in_multi, multi_dirty, watch_dirty, queue_cmds, watched_keys,   \* Conn
  watchers,        \* g_data.watchers; an absent bucket is the empty set
  paused,          \* a FAILOVER is under way
  parked,          \* fo_cmd: the parked write of each connection
  running, batch,  \* the EXEC in progress and what is left of it
  changed,         \* history: the watched keys that changed since WATCH
  named,           \* history: those that an effective write named, or that went
  leftover,        \* history: watches that an earlier attempt left behind
  intruded         \* history: somebody else's write ran inside an EXEC

txnVars   == <<in_multi, multi_dirty, queue_cmds>>
watchVars == <<watch_dirty, watched_keys, watchers, changed, named, leftover>>
execVars  == <<running, batch, intruded>>
pauseVars == <<paused, parked>>
vars == <<open, txnVars, watchVars, execVars, pauseVars>>

(* What a queue may hold, as far as transactions can tell commands apart. *)
WriteCmd == [op : {"write"}, keys : SUBSET Key \ {{}}] \cup [op : {"flushall"}]
Cmd      == WriteCmd \cup [op : {"failover_abort"}]

Init ==
  /\ open = {}
  /\ in_multi = [c \in Conn |-> FALSE]
  /\ multi_dirty = [c \in Conn |-> FALSE]
  /\ watch_dirty = [c \in Conn |-> FALSE]
  /\ queue_cmds = [c \in Conn |-> <<>>]
  /\ watched_keys = [c \in Conn |-> {}]
  /\ watchers = [k \in Key |-> {}]
  /\ paused = FALSE
  /\ parked = [c \in Conn |-> Nothing]
  /\ running = Idle
  /\ batch = <<>>
  /\ changed = [c \in Conn |-> {}]
  /\ named = [c \in Conn |-> {}]
  /\ leftover = [c \in Conn |-> {}]
  /\ intruded = FALSE

-----------------------------------------------------------------------------
(***************************************************************************)
(* watch_touch for each touched key, or watch_touch_all.  The registry     *)
(* says who is marked; the histories go by what each client watches.       *)
(***************************************************************************)
Touch(effect) ==
  /\ watch_dirty' = [c \in Conn |-> watch_dirty[c] \/ \E k \in effect.touched : c \in watchers[k]]
  /\ changed' = [c \in Conn |-> changed[c] \cup (effect.changed \cap watched_keys[c])]
  /\ named' = [c \in Conn |-> named[c] \cup (effect.touched \cap watched_keys[c])]
  /\ UNCHANGED <<watched_keys, watchers, leftover>>

(* Mutant: the buckets of the registry keep the connection. *)
watch_clear_conn_KeepsRegistry(c) ==
  /\ watched_keys' = [watched_keys EXCEPT ![c] = {}]
  /\ watch_dirty' = [watch_dirty EXCEPT ![c] = FALSE]
  /\ changed' = [changed EXCEPT ![c] = {}]
  /\ named' = [named EXCEPT ![c] = {}]
  /\ leftover' = [leftover EXCEPT ![c] = {}]
  /\ UNCHANGED watchers

(* watch_clear_conn, with watch_unlink for each key *)
watch_clear_conn(c) ==
  /\ watchers' = [k \in Key |-> IF k \in watched_keys[c] THEN watchers[k] \ {c} ELSE watchers[k]]
  /\ watched_keys' = [watched_keys EXCEPT ![c] = {}]
  /\ watch_dirty' = [watch_dirty EXCEPT ![c] = FALSE]
  /\ changed' = [changed EXCEPT ![c] = {}]
  /\ named' = [named EXCEPT ![c] = {}]
  /\ leftover' = [leftover EXCEPT ![c] = {}]

(* A client whose next request may be read: not parked, no EXEC running. *)
Serves(c) == c \in open /\ running = Idle /\ parked[c] = Nothing

(* Victims of an eviction: each is touched, and each is gone. *)
Effect == [touched : SUBSET Key, changed : SUBSET Key]
Evicted(keys) == [touched |-> keys, changed |-> keys]

(***************************************************************************)
(* What a write may do.  Victims are evicted to make room first.  Then, if *)
(* the handler moved g_writes_since_save, all the keys the command names   *)
(* are touched, whichever of them it changed; the counter also moves for a *)
(* write that leaves its keys as they were (SET of the same value), and    *)
(* stays when the write is refused or has nothing to do.  FLUSHALL names   *)
(* no key and touches every watcher, whichever keys existed.               *)
(***************************************************************************)
Effects(cmd) ==
  IF cmd.op = "flushall"
    THEN {[touched |-> Key, changed |-> gone] : gone \in SUBSET Key}
    ELSE {Evicted(keys) : keys \in SUBSET Key} \cup
         {[touched |-> evicted \cup cmd.keys, changed |-> evicted \cup own] :
            evicted \in SUBSET Key, own \in SUBSET cmd.keys}

-----------------------------------------------------------------------------
Connect(c) ==
  /\ c \notin open /\ running = Idle
  /\ open' = open \cup {c}
  /\ UNCHANGED <<txnVars, watchVars, execVars, pauseVars>>

(* conn_destroy *)
Disconnect(c) ==
  /\ c \in open /\ running = Idle
  /\ open' = open \ {c}
  /\ in_multi' = [in_multi EXCEPT ![c] = FALSE]
  /\ multi_dirty' = [multi_dirty EXCEPT ![c] = FALSE]
  /\ queue_cmds' = [queue_cmds EXCEPT ![c] = <<>>]
  /\ watch_clear_conn(c)
  /\ parked' = [parked EXCEPT ![c] = Nothing]
  /\ UNCHANGED <<execVars, paused>>

do_multi(c) ==
  /\ Serves(c) /\ ~in_multi[c]
  /\ in_multi' = [in_multi EXCEPT ![c] = TRUE]
  /\ multi_dirty' = [multi_dirty EXCEPT ![c] = FALSE]
  /\ queue_cmds' = [queue_cmds EXCEPT ![c] = <<>>]
  /\ UNCHANGED <<open, watchVars, execVars, pauseVars>>

(* The transaction is over, however it went. *)
LeaveMulti(c) ==
  /\ in_multi' = [in_multi EXCEPT ![c] = FALSE]
  /\ multi_dirty' = [multi_dirty EXCEPT ![c] = FALSE]
  /\ queue_cmds' = [queue_cmds EXCEPT ![c] = <<>>]

do_discard(c) ==
  /\ Serves(c) /\ in_multi[c]
  /\ LeaveMulti(c)
  /\ watch_clear_conn(c)
  /\ UNCHANGED <<open, execVars, pauseVars>>

do_watch(c, key) ==
  /\ Serves(c) /\ ~in_multi[c]
  /\ watched_keys' = [watched_keys EXCEPT ![c] = @ \cup {key}]
  /\ watchers' = IF key \in watched_keys[c] THEN watchers
                   ELSE [watchers EXCEPT ![key] = @ \cup {c}]
  /\ UNCHANGED <<open, txnVars, watch_dirty, changed, named, leftover, execVars, pauseVars>>

(* Valid inside MULTI too, and never queued. *)
do_unwatch(c) ==
  /\ Serves(c)
  /\ watch_clear_conn(c)
  /\ UNCHANGED <<open, txnVars, execVars, pauseVars>>

(***************************************************************************)
(* resp_err_txn: unknown command, no permission, wrong arity, not enough   *)
(* replicas, SUBSCRIBE inside MULTI.                                       *)
(***************************************************************************)
Reject(c) ==
  /\ Serves(c) /\ in_multi[c]
  /\ multi_dirty' = [multi_dirty EXCEPT ![c] = TRUE]
  /\ UNCHANGED <<open, in_multi, queue_cmds, watchVars, execVars, pauseVars>>

(* Inside MULTI a command is queued; a write during a pause poisons. *)
Queue(c, cmd) ==
  /\ Serves(c) /\ in_multi[c] /\ Len(queue_cmds[c]) < MaxQueue
  /\ IF paused /\ cmd \in WriteCmd
       THEN /\ multi_dirty' = [multi_dirty EXCEPT ![c] = TRUE]
            /\ UNCHANGED queue_cmds
       ELSE /\ queue_cmds' = [queue_cmds EXCEPT ![c] = Append(@, cmd)]
            /\ UNCHANGED multi_dirty
  /\ UNCHANGED <<open, in_multi, watchVars, execVars, pauseVars>>

(* A write outside MULTI: parked during a pause, otherwise run. *)
Write(c, cmd) ==
  /\ Serves(c) /\ ~in_multi[c]
  /\ \/ /\ paused
        /\ parked' = [parked EXCEPT ![c] = cmd]
        /\ UNCHANGED <<watchVars, paused>>
     \/ /\ ~paused
        /\ \E effect \in Effects(cmd) : Touch(effect)
        /\ UNCHANGED pauseVars
  /\ UNCHANGED <<open, txnVars, execVars>>

(* evict_tick: one more batch of victims. *)
evict_tick ==
  /\ running = Idle
  /\ \E keys \in SUBSET Key : Touch(Evicted(keys))
  /\ UNCHANGED <<open, txnVars, execVars, pauseVars>>

-----------------------------------------------------------------------------
(* FAILOVER: writes pause until the hand-over fails or is aborted. *)
PauseBegins ==
  /\ running = Idle /\ ~paused
  /\ paused' = TRUE
  /\ UNCHANGED <<open, txnVars, watchVars, execVars, parked>>

(***************************************************************************)
(* fo_resume_paused_writes: the parked writes run, one after the other, on *)
(* a node that is still master.                                            *)
(***************************************************************************)
Parked == {c \in Conn : parked[c] # Nothing}

fo_resume_paused_writes ==
  /\ paused' = FALSE
  /\ parked' = [c \in Conn |-> Nothing]
  /\ \E effect \in [Parked -> Effect] :
       /\ \A c \in Parked : effect[c] \in Effects(parked[c])
       /\ Touch([touched |-> UNION {effect[c].touched : c \in Parked},
                 changed |-> UNION {effect[c].changed : c \in Parked}])

PauseEnds ==
  /\ running = Idle /\ paused
  /\ fo_resume_paused_writes
  /\ UNCHANGED <<open, txnVars, execVars>>

-----------------------------------------------------------------------------
(***************************************************************************)
(* do_exec: a poisoned batch and a broken watch each drop the transaction; *)
(* otherwise the watches are cleared and the batch starts.                 *)
(***************************************************************************)
ExecAborts(c) ==
  /\ Serves(c) /\ in_multi[c] /\ multi_dirty[c]
  /\ LeaveMulti(c)
  /\ leftover' = [leftover EXCEPT ![c] = watched_keys[c]]
  /\ UNCHANGED <<open, watch_dirty, watched_keys, watchers, changed, named, execVars, pauseVars>>

ExecFails(c) ==
  /\ Serves(c) /\ in_multi[c] /\ ~multi_dirty[c] /\ watch_dirty[c]
  /\ in_multi' = [in_multi EXCEPT ![c] = FALSE]
  /\ queue_cmds' = [queue_cmds EXCEPT ![c] = <<>>]
  /\ watch_clear_conn(c)
  /\ UNCHANGED <<open, multi_dirty, execVars, pauseVars>>

(* Mutant: commits in spite of a broken watch. *)
ExecStarts_IgnoresWatch(c) ==
  /\ Serves(c) /\ in_multi[c] /\ ~multi_dirty[c]
  /\ batch' = queue_cmds[c]
  /\ running' = c
  /\ LeaveMulti(c)
  /\ watch_clear_conn(c)
  /\ UNCHANGED <<open, intruded, pauseVars>>

ExecStarts(c) ==
  /\ Serves(c) /\ in_multi[c] /\ ~multi_dirty[c] /\ ~watch_dirty[c]
  /\ batch' = queue_cmds[c]
  /\ running' = c
  /\ LeaveMulti(c)
  /\ watch_clear_conn(c)
  /\ UNCHANGED <<open, intruded, pauseVars>>

(* One command of the batch, dispatched like any other. *)
ExecCommand ==
  /\ running # Idle /\ batch # <<>>
  /\ batch' = Tail(batch)
  /\ LET cmd == Head(batch)
     IN  \/ /\ cmd \in WriteCmd /\ paused           \* -FAILOVER, nothing runs
            /\ UNCHANGED <<watchVars, pauseVars, intruded>>
         \/ /\ cmd \in WriteCmd /\ ~paused
            /\ \E effect \in Effects(cmd) : Touch(effect)
            /\ UNCHANGED <<pauseVars, intruded>>
         \/ /\ cmd \notin WriteCmd /\ paused
            /\ fo_resume_paused_writes
            /\ intruded' = (intruded \/ Parked # {})
         \/ /\ cmd \notin WriteCmd /\ ~paused        \* no failover in progress
            /\ UNCHANGED <<watchVars, pauseVars, intruded>>
  /\ UNCHANGED <<open, txnVars, running>>

ExecEnds ==
  /\ running # Idle /\ batch = <<>>
  /\ running' = Idle
  /\ UNCHANGED <<open, txnVars, watchVars, batch, intruded, pauseVars>>

Next ==
  \/ \E c \in Conn :
       \/ Connect(c) \/ Disconnect(c)
       \/ do_multi(c) \/ do_discard(c) \/ do_unwatch(c) \/ Reject(c)
       \/ ExecAborts(c) \/ ExecFails(c) \/ ExecStarts(c)
       \/ \E k \in Key : do_watch(c, k)
       \/ \E cmd \in WriteCmd : Write(c, cmd)
       \/ \E cmd \in Cmd : Queue(c, cmd)
  \/ evict_tick \/ PauseBegins \/ PauseEnds \/ ExecCommand \/ ExecEnds

Spec == Init /\ [][Next]_vars

-----------------------------------------------------------------------------
(* The types of the variables. *)
TypeOK ==
  /\ open \subseteq Conn
  /\ in_multi \in [Conn -> BOOLEAN]
  /\ multi_dirty \in [Conn -> BOOLEAN]
  /\ watch_dirty \in [Conn -> BOOLEAN]
  /\ queue_cmds \in [Conn -> Seq(Cmd)]
  /\ watched_keys \in [Conn -> SUBSET Key]
  /\ watchers \in [Key -> SUBSET Conn]
  /\ paused \in BOOLEAN
  /\ parked \in [Conn -> WriteCmd \cup {Nothing}]
  /\ running \in Conn \cup {Idle}
  /\ batch \in Seq(Cmd)
  /\ changed \in [Conn -> SUBSET Key]
  /\ named \in [Conn -> SUBSET Key]
  /\ leftover \in [Conn -> SUBSET Key]
  /\ intruded \in BOOLEAN

(***************************************************************************)
(* The registry and the connections agree, in both directions, and a       *)
(* closed connection is nowhere in it: watch_touch never follows a pointer *)
(* to a destroyed Conn, and no watch is forgotten.                         *)
(***************************************************************************)
RegistryExact ==
  \A c \in Conn :
    /\ \A k \in Key : c \in watchers[k] <=> k \in watched_keys[c]
    /\ c \notin open => watched_keys[c] = {}

(***************************************************************************)
(* Eager marking is conservative and no more than that: a connection with  *)
(* a changed watched key is marked, so no abort is missed; and a marked    *)
(* connection watches a key that was evicted, flushed or named by a write  *)
(* that took effect since its WATCH, so an abort always has a cause.       *)
(***************************************************************************)
MarksSound ==
  \A c \in Conn :
    /\ changed[c] # {} => watch_dirty[c]
    /\ watch_dirty[c] => named[c] # {}

(***************************************************************************)
(* EXEC runs its batch only if every watched key is as it was at WATCH.    *)
(***************************************************************************)
ExecOnlyIfUnchanged ==
  [][\A c \in Conn : running = Idle /\ running' = c => changed[c] = {}]_vars

(***************************************************************************)
(* A queue and a poison mark belong to an open transaction of a connected  *)
(* client: nothing of an ended attempt leaks into the next one.            *)
(***************************************************************************)
NothingOutlivesMulti ==
  \A c \in Conn : (queue_cmds[c] # <<>> \/ multi_dirty[c]) => in_multi[c] /\ c \in open

(***************************************************************************)
(* What EXEC relies on: an exact registry, marks that miss no change and   *)
(* are never without a cause, and attempts that are kept apart.            *)
(***************************************************************************)
WatchesSound == TypeOK /\ RegistryExact /\ MarksSound /\ NothingOutlivesMulti

(***************************************************************************)
(* "A watch guards the next attempt only" (do_discard): once a transaction *)
(* has ended, none of the keys watched for it is watched any more.         *)
(***************************************************************************)
WatchGuardsOneAttempt == \A c \in Conn : leftover[c] = {}

(***************************************************************************)
(* EXEC is "atomic by construction" (do_exec): no other client's write     *)
(* runs while a batch does.                                                *)
(***************************************************************************)
ExecAtomic == ~intruded
=============================================================================
