------------------------------ MODULE EventLoop ------------------------------
(***************************************************************************)
(* The main loop of server/server.cpp.  One turn of it is: sleep in poll   *)
(* until something happens or until next_timer_ms, handle what happened,   *)
(* run every timed duty that is due (process_timers, evict_tick), reap     *)
(* children.  The model has the intrusive lists that hold the connections  *)
(* by the time they were last active, and every deadline of the server.    *)
(*                                                                         *)
(* `srv' is the server between two turns.  Each operator takes and returns *)
(* such a record; the handlers and the sweep of one turn are composed      *)
(* within one action, since one thread runs them.  Time passes between two *)
(* turns: in poll, or while the loop spins because poll has no time to     *)
(* wait.  Commands are abstracted to what they do to the deadlines.        *)
(***************************************************************************)
EXTENDS Integers, Sequences, FiniteSets, FiniteSetsExt, SequencesExt

CONSTANTS
  Slots,             \* connections open at a time: the entries of fd2conn
  k_idle_timeout_ms, k_io_timeout_ms, tls_handshake_timeout_ms,
  repl_timeout_ms, repl_ping_period_ms, k_repl_ack_period_ms,
  k_repl_retry_min_ms, k_repl_retry_max_ms,
  SaveAfter,         \* the seconds of a save condition with one change
  ChildPoll,         \* how long the loop sleeps at most while a child runs
  k_max_works,       \* keys expired by one sweep, less one
  Delays,            \* what WAIT, FAILOVER and EXPIRE are given
  aof_enable,        \* whether there is a log; every write makes it large
                     \* enough for an automatic rewrite
  EverySec,          \* whether appendfsync is everysec
  FsyncPeriod, CheckPeriod,
  MaxTime, MaxTurns  \* bounds on the clock and on the events

ASSUME SlotsAssumption == Slots \in Nat \ {0}
ASSUME TimesAssumption ==
  {k_idle_timeout_ms, k_io_timeout_ms, tls_handshake_timeout_ms, repl_timeout_ms,
   repl_ping_period_ms, k_repl_ack_period_ms, k_repl_retry_min_ms, ChildPoll}
     \subseteq Nat \ {0}

VARIABLES
  srv,     \* the server
  now,     \* the monotonic clock; it starts at one, since a deadline of 0 is none
  wake,    \* when poll returns by itself, or None
  slept,   \* when poll was entered
  turns    \* events so far, for the bound

vars == <<srv, now, wake, slept, turns>>

None == -1
Null == 0
Conns == 1 .. Slots
Timers == {"IDLE", "IO", "HANDSHAKE"}
\* The heads of idle_list, io_list and hs_list.
ListOf == [IDLE |-> Slots + 1, IO |-> Slots + 2, HANDSHAKE |-> Slots + 3]
Children == {"rdb", "aof"}

Timeout(timer) ==
  CASE timer = "IDLE" -> k_idle_timeout_ms
    [] timer = "IO" -> k_io_timeout_ms
    [] timer = "HANDSHAKE" -> tls_handshake_timeout_ms

\* A free entry of fd2conn, and a new Conn of a kind: "client", "tls" (its
\* handshake is not done), "replica" or "link" (to our master).  `heard' is when
\* the connection last had an event or was sent the rest of a reply.
Closed ==
  [kind |-> "none", timer_type |-> "IO", last_active_ms |-> 0, heard |-> 0,
   wait |-> None, parked |-> FALSE, ack_time_ms |-> 0, synced |-> FALSE]

Of(s, kind) == {c \in Conns : s.conn[c].kind = kind}
Free(s) == Of(s, "none")
Replicas(s) == Of(s, "replica")
MasterLink(s) == Of(s, "link")
Waiters(s) == {c \in Conns : s.conn[c].wait # None}
Paused(s) == {c \in Conns : s.conn[c].parked}

Each(s, C, Op(_, _)) == FoldLeft(Op, s, SetToSeq(C))

-----------------------------------------------------------------------------
\* ds/list.h
dlist_init(s, n) == [s EXCEPT !.next[n] = n, !.prev[n] = n]

dlist_detach(s, n) ==
  [s EXCEPT !.next[s.prev[n]] = s.next[n], !.prev[s.next[n]] = s.prev[n]]

dlist_insert_before(s, target, rookie) ==
  LET p == s.prev[target]
  IN  [s EXCEPT !.next[p] = rookie, !.prev[rookie] = p,
                !.next[rookie] = target, !.prev[target] = rookie]

\* Only the connections of clients are in a list: an idle master or replica is
\* a healthy one.
conn_set_timer(s, c, type, t) ==
  IF s.conn[c].kind \in {"link", "replica"}
  THEN dlist_init(dlist_detach(s, c), c)
  ELSE dlist_insert_before(
         [dlist_detach(s, c) EXCEPT !.conn[c].timer_type = type, !.conn[c].last_active_ms = t],
         ListOf[type], c)

\* Mutant: the node of a closed connection stays in its list.
StaysListed(s, c) ==
  [s EXCEPT !.streaming = @ /\ s.conn[c].kind # "link",
            !.conn[c] = Closed, !.next[c] = Null, !.prev[c] = Null]

\* repl_link_lost, wait_remove_conn, fo_paused_remove_conn and repl_remove_conn
\* are the reset of the entry; the state of the link goes with the link.
conn_destroy(s, c) ==
  [dlist_detach(s, c) EXCEPT
     !.streaming = @ /\ s.conn[c].kind # "link",
     !.conn[c] = Closed, !.next[c] = Null, !.prev[c] = Null]

\* The reply is drained: handle_write, from a readiness event or from conn_resume.
handle_write(s, c, t) == conn_set_timer([s EXCEPT !.conn[c].heard = t], c, "IDLE", t)

-----------------------------------------------------------------------------
\* The timed duties, in the order of process_timers.

\* The loops over idle_list, io_list and hs_list: close the front while it is due.
RECURSIVE CloseExpired(_, _, _)
CloseExpired(s, type, t) ==
  LET front == s.next[ListOf[type]]
  IN  IF front = ListOf[type] \/ s.conn[front].last_active_ms + Timeout(type) > t
      THEN s
      ELSE CloseExpired(conn_destroy(s, front), type, t)

\* The loop over the heap of deadlines.
ExpireKeys(s, t) ==
  [s EXCEPT !.ttl = {d \in @ : d > t \/ Cardinality({e \in @ : e < d}) > k_max_works}]

rdb_save_background(s) ==
  IF s.child["rdb"] # "none" THEN s
  ELSE [s EXCEPT !.child["rdb"] = "runs", !.dirty_at_save = s.dirty]

PeriodicSave(s, t) ==
  IF s.child["rdb"] = "none" /\ s.dirty > 0 /\ t - s.last_save_ms >= SaveAfter
  THEN rdb_save_background([s EXCEPT !.last_save_ms = t])
  ELSE s

PeriodicFsync(s, t) ==
  IF aof_enable /\ EverySec /\ t - s.last_fsync_ms >= FsyncPeriod
  THEN [s EXCEPT !.last_fsync_ms = t, !.unsynced = FALSE]
  ELSE s

aof_rewrite_background(s) ==
  IF aof_enable /\ \A k \in Children : s.child[k] = "none"
  THEN [s EXCEPT !.child["aof"] = "runs"] ELSE s

\* The automatic rewrite of a log that has grown.
PeriodicRewrite(s, t) ==
  IF /\ aof_enable /\ \A k \in Children : s.child[k] = "none"
     /\ t - s.aof_check_ms >= CheckPeriod
  THEN LET checked == [s EXCEPT !.aof_check_ms = t]
       IN  IF s.grown THEN aof_rewrite_background(checked) ELSE checked
  ELSE s

\* A write: it is counted, and reaches the log with the flush of the turn.
Written(s) == [s EXCEPT !.dirty = @ + 1, !.unsynced = aof_enable /\ EverySec, !.grown = aof_enable]

\* What is propagated moves the offset past what the replicas acknowledged.
propagate(s) ==
  [s EXCEPT !.conn = [c \in Conns |-> [s.conn[c] EXCEPT !.synced = FALSE]]]

\* A WAIT for one replica is over when one has acknowledged its offset, or late.
wait_try_resume(s, t) ==
  LET acked == \E r \in Replicas(s) : s.conn[r].synced
      done == {c \in Waiters(s) : acked \/ (s.conn[c].wait # 0 /\ t >= s.conn[c].wait)}
      wait_finish(u, c) == handle_write([u EXCEPT !.conn[c].wait = None], c, t)
  IN  Each(s, done, wait_finish)

\* A write: parked while a FAILOVER runs, refused by a replica, else done.
Write(s, c, t) ==
  IF s.failover_state # "NONE" THEN [s EXCEPT !.conn[c].parked = TRUE]
  ELSE IF s.replica_mode THEN handle_write(s, c, t)
  ELSE handle_write(propagate(Written(s)), c, t)

failover_reset(s, t) ==
  LET over == [s EXCEPT !.failover_state = "NONE", !.failover_deadline_ms = 0,
                        !.failover_force = FALSE, !.failover_target = Null]
      fo_resume(u, c) == Write([u EXCEPT !.conn[c].parked = FALSE], c, t)
  IN  Each(over, Paused(s), fo_resume)

repl_stop(s) ==
  [Each(s, MasterLink(s), conn_destroy) EXCEPT !.replica_mode = FALSE, !.streaming = FALSE]

\* Dialling fails when no descriptor is free, before anything is changed.
repl_start(s, t) ==
  LET c == Min(Free(s))
      new == [Closed EXCEPT !.kind = "link"]
  IN  dlist_init([repl_stop(s) EXCEPT !.conn[c] = new, !.replica_mode = TRUE,
                                      !.master_last_io_ms = t], c)

\* The master's half of repl_cron: a keep-alive, and replicas that fell silent.
PingReplicas(s, t) ==
  IF Replicas(s) # {} /\ t >= s.repl_ping_at_ms
  THEN propagate([s EXCEPT !.repl_ping_at_ms = t + repl_ping_period_ms])
  ELSE s

DropSilent(s, t) ==
  Each(s, {r \in Replicas(s) : /\ s.conn[r].ack_time_ms # 0
                               /\ t - s.conn[r].ack_time_ms > repl_timeout_ms}, conn_destroy)

\* The replica's half: its master fell silent, or is acknowledged, or dialled again.
KeepMaster(s, t) ==
  LET delay == IF s.repl_retry_delay_ms = 0 THEN k_repl_retry_min_ms
               ELSE Min({s.repl_retry_delay_ms * 2, k_repl_retry_max_ms})
      later == [s EXCEPT !.repl_retry_delay_ms = delay, !.repl_retry_at_ms = t + delay]
  IN  CASE ~s.replica_mode -> s
        [] s.replica_mode /\ MasterLink(s) # {} ->
             IF t - s.master_last_io_ms > repl_timeout_ms
             THEN Each(s, MasterLink(s), conn_destroy)
             ELSE IF s.streaming
             THEN [s EXCEPT !.repl_retry_delay_ms = 0,
                            !.repl_ack_at_ms = IF t >= @ THEN t + k_repl_ack_period_ms ELSE @]
             ELSE s
        [] s.replica_mode /\ MasterLink(s) = {} ->
             IF t < s.repl_retry_at_ms THEN s
             ELSE IF Free(s) = {} THEN later ELSE repl_start(later, t)

repl_cron(s, t) == KeepMaster(DropSilent(PingReplicas(s, t), t), t)

failover_cron(s, t) ==
  LET target == s.failover_target
      expired == s.failover_deadline_ms # 0 /\ t >= s.failover_deadline_ms
      alone == Each([s EXCEPT !.failover_state = "IN_PROGRESS"], Replicas(s), conn_destroy)
  IN  IF s.failover_state # "WAIT_FOR_SYNC" THEN s
      ELSE IF target \notin Replicas(s) THEN failover_reset(s, t)
      ELSE IF s.conn[target].synced \/ (expired /\ s.failover_force) THEN repl_start(alone, t)
      ELSE IF expired THEN failover_reset(s, t)
      ELSE s

process_timers(s, t) ==
  LET closed == CloseExpired(CloseExpired(CloseExpired(s, "IDLE", t), "IO", t), "HANDSHAKE", t)
      saved == PeriodicFsync(PeriodicSave(ExpireKeys(closed, t), t), t)
      rewritten == PeriodicRewrite(saved, t)
  IN  failover_cron(repl_cron(wait_try_resume(rewritten, t), t), t)

\* Evicting what is over maxmemory takes several batches; each propagates.
evict_tick(s) == IF s.evict = 0 THEN s ELSE propagate(Written([s EXCEPT !.evict = @ - 1]))

Sweep(s, t) == evict_tick(process_timers(s, t))

\* How each child is found by waitpid: it runs, or ended by itself with a status.
Exits(s) ==
  {exit \in [Children -> {"runs", "ok", "failed"}] :
     \A k \in Children : s.child[k] = "none" => exit[k] = "runs"}

\* rdb_check_background_save and aof_check_background_rewrite
Reap(s, exit, t) ==
  [s EXCEPT
     !.child = [k \in Children |-> IF exit[k] = "runs" THEN s.child[k] ELSE "none"],
     !.last_save_ms = IF exit["rdb"] = "ok" THEN t ELSE @,
     !.dirty = IF exit["rdb"] = "ok" THEN @ - s.dirty_at_save ELSE @,
     !.grown = @ /\ exit["aof"] # "ok"]

-----------------------------------------------------------------------------
\* Mutant: a handshake with the master is not timed.
StreamingOnly(s) ==
     (IF s.replica_mode /\ MasterLink(s) = {} THEN {s.repl_retry_at_ms} ELSE {})
  \cup (IF s.streaming THEN {s.master_last_io_ms + repl_timeout_ms, s.repl_ack_at_ms} ELSE {})
  \cup (IF Replicas(s) # {} THEN {s.repl_ping_at_ms} ELSE {})
  \cup {s.conn[r].ack_time_ms + repl_timeout_ms :
          r \in {q \in Replicas(s) : s.conn[q].ack_time_ms # 0}}

\* The deadlines of repl_cron.
ReplDeadlines(s) ==
     (IF s.replica_mode /\ MasterLink(s) = {} THEN {s.repl_retry_at_ms} ELSE {})
  \cup (IF MasterLink(s) # {} THEN {s.master_last_io_ms + repl_timeout_ms} ELSE {})
  \cup (IF s.streaming THEN {s.repl_ack_at_ms} ELSE {})
  \cup (IF Replicas(s) # {} THEN {s.repl_ping_at_ms} ELSE {})
  \cup {s.conn[r].ack_time_ms + repl_timeout_ms :
          r \in {q \in Replicas(s) : s.conn[q].ack_time_ms # 0}}

\* Every deadline that wakes the loop.
Deadlines(s, t) ==
     {s.conn[s.next[ListOf[l]]].last_active_ms + Timeout(l) :
        l \in {k \in Timers : s.next[ListOf[k]] # ListOf[k]}}
  \cup s.ttl
  \cup (IF s.dirty > 0 THEN {s.last_save_ms + SaveAfter} ELSE {})
  \cup (IF \E k \in Children : s.child[k] # "none" THEN {t + ChildPoll} ELSE {})
  \cup ReplDeadlines(s)
  \cup (IF s.failover_state # "NONE" THEN {s.failover_deadline_ms} \ {0} ELSE {})
  \cup ({s.conn[c].wait : c \in Waiters(s)} \ {0})

next_timer_ms(s, t) ==
  IF s.evict > 0 THEN t
  ELSE IF Deadlines(s, t) = {} THEN None
  ELSE Max({t, Min(Deadlines(s, t))})

\* The rest of the turn, once the events are handled, and the next poll.
Finish(s) ==
  /\ \E swept \in {Sweep(s, now)} : \E exit \in Exits(swept) : srv' = Reap(swept, exit, now)
  /\ wake' = next_timer_ms(srv', now)
  /\ slept' = now
  /\ UNCHANGED now

Event(s) == turns < MaxTurns /\ turns' = turns + 1 /\ Finish(s)

-----------------------------------------------------------------------------
\* Mutant: a byte of the handshake renews its deadline.
TouchAll(s, c, t) ==
  conn_set_timer([s EXCEPT !.conn[c].heard = IF @ # 0 /\ s.conn[c].kind = "tls" THEN @ ELSE t],
                 c, s.conn[c].timer_type, t)

\* What a turn begins with.  An event on a connection first renews its timer,
\* a handshake excepted: its deadline counts from accept.
Touch(s, c, t) ==
  IF s.conn[c].timer_type = "HANDSHAKE" THEN s
  ELSE conn_set_timer([s EXCEPT !.conn[c].heard = t], c, s.conn[c].timer_type, t)

\* handle_read, as far as the timer: what was idle is now in the middle of I/O.
Read(c) ==
  LET Busy(s) == IF s.conn[c].timer_type = "IDLE" THEN conn_set_timer(s, c, "IO", now) ELSE s
  IN  Busy(Touch(srv, c, now))

handle_accept(s, is_tls, t) ==
  LET c == Min(Free(s))
      new == [Closed EXCEPT !.kind = IF is_tls THEN "tls" ELSE "client",
                            !.last_active_ms = t, !.heard = t]
      in == dlist_insert_before([s EXCEPT !.conn[c] = new], ListOf["IO"], c)
  IN  IF is_tls THEN conn_set_timer(in, c, "HANDSHAKE", t) ELSE in

Accept(is_tls) == Free(srv) # {} /\ Event(handle_accept(srv, is_tls, now))

\* handle_tls_handshake: more rounds are needed, it is done, or it failed.
Handshake(c, r) ==
  /\ srv.conn[c].kind = "tls"
  /\ LET s == Touch(srv, c, now)
     IN  Event(CASE r = "again" -> s
                 [] r = "ok" -> conn_set_timer([s EXCEPT !.conn[c].kind = "client",
                                                         !.conn[c].heard = now], c, "IO", now)
                 [] r = "failed" -> conn_destroy(s, c))

\* POLLERR, or handle_read finds the connection closed.
Hangup(c) == srv.conn[c].kind # "none" /\ Event(conn_destroy(Touch(srv, c, now), c))

\* Part of a request, anything a gated client sends behind it, or a request
\* whose reply is not drained yet.
ReadSome(c) == srv.conn[c].kind = "client" /\ Event(Read(c))

\* A client whose requests are dispatched.
Ready(c) == srv.conn[c].kind = "client" /\ srv.conn[c].wait = None /\ ~srv.conn[c].parked

\* A reply drained, of a command that changes no deadline.
Answer(c) == Ready(c) /\ Event(handle_write(Read(c), c, now))

\* A write of a key with a deadline or none; `over' if it leaves more than
\* maxmemory, and more victims than one batch.
WriteKey(c, delay, over) ==
  /\ Ready(c)
  /\ LET s == Read(c)
         ok == s.failover_state = "NONE" /\ ~s.replica_mode
         deadline == IF delay = None THEN {} ELSE {now + delay}
     IN  Event(Write(IF ok THEN [s EXCEPT !.ttl = @ \cup deadline,
                                          !.evict = IF over THEN 2 ELSE @]
                           ELSE s, c, now))

do_wait(c, delay) ==
  /\ Ready(c)
  /\ LET s == Read(c)
         acked == \E r \in Replicas(s) : s.conn[r].synced
     IN  Event(IF acked THEN handle_write(s, c, now)
               ELSE [s EXCEPT !.conn[c].wait = IF delay = 0 THEN 0 ELSE now + delay])

\* BGSAVE and BGREWRITEAOF
Fork(c, k) ==
  /\ Ready(c)
  /\ LET s == Read(c)
     IN  Event(handle_write(IF k = "rdb" THEN rdb_save_background(s)
                            ELSE aof_rewrite_background(s), c, now))

\* PSYNC, whose reply (an image perhaps) is drained at once or not, and PSYNC
\* FAILOVER, which promotes this replica first.
do_psync(c, failover, drained) ==
  /\ Ready(c)
  /\ failover => srv.replica_mode
  /\ LET s == IF failover THEN repl_stop(Read(c)) ELSE Read(c)
         in == [s EXCEPT !.conn[c].kind = "replica"]
     IN  Event(IF drained THEN handle_write(in, c, now) ELSE in)

\* REPLCONF ACK, with the whole offset or less.
Ack(c, whole) ==
  /\ srv.conn[c].kind = "replica"
  /\ Event(wait_try_resume([Read(c) EXCEPT !.conn[c].ack_time_ms = now,
                                           !.conn[c].synced = whole], now))

do_replicaof(c, master) ==
  /\ Ready(c)
  /\ LET s == Read(c)
         start == IF Free(s) = {} THEN s ELSE repl_start(s, now)
     IN  Event(handle_write(IF master THEN start
                            ELSE IF s.replica_mode THEN repl_stop(s) ELSE s, c, now))

do_failover(c, target, delay, force) ==
  /\ Ready(c) /\ target \in Replicas(srv)
  /\ ~srv.replica_mode /\ srv.failover_state = "NONE"
  /\ force => delay # 0
  /\ Event(handle_write([Read(c) EXCEPT
              !.failover_state = "WAIT_FOR_SYNC", !.failover_target = target,
              !.failover_force = force,
              !.failover_deadline_ms = IF delay = 0 THEN 0 ELSE now + delay], c, now))

Abort(c) ==
  /\ Ready(c) /\ srv.failover_state = "WAIT_FOR_SYNC"
  /\ Event(handle_write(failover_reset(Read(c), now), c, now))

\* Bytes from our master: the answer to PSYNC, or a command it propagated.
\* Its image is one event, with its last byte.
repl_master_data(c, stream) ==
  /\ srv.conn[c].kind = "link"
  /\ LET s == [Read(c) EXCEPT !.master_last_io_ms = now]
         up == [s EXCEPT !.streaming = TRUE]
     IN  Event(CASE ~stream -> s
                 [] stream /\ s.streaming -> Written(s)
                 [] stream /\ ~s.streaming ->
                      IF s.failover_state = "NONE" THEN up ELSE failover_reset(up, now))

\* poll returns because its time is over.
TimedOut ==
  /\ wake # None /\ wake <= now
  /\ Finish(srv) /\ UNCHANGED turns

\* Time passes in poll until its time is over, and while the loop spins: poll was
\* entered with no time to wait, and the turn made of it ends after the clock moved.
Tick ==
  /\ now < MaxTime
  /\ wake # None => now < wake \/ slept = now
  /\ now' = now + 1
  /\ UNCHANGED <<srv, wake, slept, turns>>

\* A turn that an event on c begins.
Turn(c) ==
  \/ \E r \in {"again", "ok", "failed"} : Handshake(c, r)
  \/ Hangup(c) \/ ReadSome(c) \/ Answer(c) \/ Abort(c)
  \/ \E delay \in Delays \cup {None} : WriteKey(c, delay, FALSE)
  \/ WriteKey(c, None, TRUE)
  \/ \E delay \in Delays \cup {0} : do_wait(c, delay)
  \/ \E k \in Children : Fork(c, k)
  \/ \E failover, drained \in BOOLEAN : do_psync(c, failover, drained)
  \/ \E whole \in BOOLEAN : Ack(c, whole)
  \/ \E master \in BOOLEAN : do_replicaof(c, master)
  \/ \E target \in Conns, delay \in Delays \cup {0}, force \in BOOLEAN :
       do_failover(c, target, delay, force)
  \/ \E stream \in BOOLEAN : repl_master_data(c, stream)

\* The server as it starts.
Fresh ==
  [conn |-> [c \in Conns |-> Closed],
   next |-> [n \in 1 .. Slots + 3 |-> IF n \in Conns THEN Null ELSE n],
   prev |-> [n \in 1 .. Slots + 3 |-> IF n \in Conns THEN Null ELSE n],
   ttl |-> {}, dirty |-> 0, dirty_at_save |-> 0, last_save_ms |-> 1,
   child |-> [k \in Children |-> "none"],
   unsynced |-> FALSE, last_fsync_ms |-> 1, grown |-> FALSE, aof_check_ms |-> 1,
   evict |-> 0,
   replica_mode |-> FALSE, streaming |-> FALSE, master_last_io_ms |-> 0,
   repl_ack_at_ms |-> 0, repl_retry_at_ms |-> 0, repl_retry_delay_ms |-> 0,
   repl_ping_at_ms |-> 0,
   failover_state |-> "NONE", failover_target |-> Null,
   failover_deadline_ms |-> 0, failover_force |-> FALSE]

\* Behaviours begin with a server that nobody has reached, with a master that
\* has one client and one replica, or with a replica that dials and has a client:
\* what the first turns of a longer behaviour lead to.
Starts ==
  LET one == handle_accept(Fresh, FALSE, 1)
      two == handle_accept(one, FALSE, 1)
  IN  {Fresh, handle_write([two EXCEPT !.conn[2].kind = "replica"], 2, 1),
       handle_accept(repl_start(Fresh, 1), FALSE, 1)}

Init ==
  /\ srv \in {Sweep(s, 1) : s \in Starts}
  /\ now = 1 /\ slept = 1 /\ turns = 0
  /\ wake = next_timer_ms(srv, 1)

Next ==
  \/ \E is_tls \in BOOLEAN : Accept(is_tls)
  \/ \E c \in Conns : Turn(c)
  \/ TimedOut
  \/ Tick

Spec == Init /\ [][Next]_vars

-----------------------------------------------------------------------------
\* The connections of a list, from its head on.
RECURSIVE From(_, _, _)
From(s, n, count) ==
  IF n \notin Conns \/ count = 0 THEN <<>> ELSE <<n>> \o From(s, s.next[n], count - 1)

InOrder(s, type) == From(s, s.next[ListOf[type]], Slots + 1)

Plain(s) == Of(s, "client") \cup Of(s, "tls")

TypeOK ==
  /\ srv.conn \in [Conns -> [kind : {"none", "client", "tls", "replica", "link"},
                              timer_type : Timers, last_active_ms : 0 .. MaxTime,
                              heard : 0 .. MaxTime, wait : Int, parked : BOOLEAN,
                              ack_time_ms : 0 .. MaxTime, synced : BOOLEAN]]
  /\ Cardinality(MasterLink(srv)) <= 1
  /\ MasterLink(srv) # {} => srv.replica_mode
  /\ srv.streaming => MasterLink(srv) # {}

\* Every list is circular in both directions and sorted by last_active_ms, and
\* holds connections of its type; every client is in the list of its type, which
\* the sweep relies on when it looks at the front only, and the node of every
\* open connection can be detached (conn_set_timer, handle_accept, repl_start,
\* conn_destroy).
TimersSound ==
  /\ TypeOK
  /\ \A type \in Timers :
       LET q == InOrder(srv, type)
       IN  /\ Len(q) <= Slots /\ IsInjective(q)
           /\ \A i \in 1 .. Len(q) - 1 :
                srv.conn[q[i]].last_active_ms <= srv.conn[q[i + 1]].last_active_ms
           /\ \A c \in ToSet(q) : srv.conn[c].kind # "none" /\ srv.conn[c].timer_type = type
           /\ \A c \in Plain(srv) : srv.conn[c].timer_type = type => c \in ToSet(q)
  /\ \A n \in 1 .. Slots + 3 :
       \/ n \in Conns /\ srv.conn[n].kind = "none"
       \/ srv.next[n] # Null /\ srv.prev[srv.next[n]] = n /\ srv.next[srv.prev[n]] = n

Asleep == wake = None \/ now < wake

\* While the loop sleeps nothing is due, the two duties of the log excepted: a sweep
\* run before poll returns would do nothing but sync the log or start its rewrite
\* (process_timers has them, next_timer_ms does not).  So every deadline of the
\* connections, the keys, the save conditions, repl_cron, failover_cron and
\* wait_try_resume wakes the loop in time, and a child that ended is reaped soon.
NoOversleep ==
  LET duties(s) == [s EXCEPT !.last_fsync_ms = 0, !.unsynced = FALSE,
                             !.aof_check_ms = 0, !.child["aof"] = "none"]
  IN  /\ Asleep => duties(Sweep(srv, now)) = duties(srv)
      /\ (\E k \in Children : srv.child[k] # "none") => wake # None /\ wake <= slept + ChildPoll

\* While the loop sleeps nothing at all is due: "Everything periodic must appear in
\* next_timer_ms()" (DECISIONS.md).  It does not hold with a log: neither the sync of
\* everysec nor the automatic rewrite wakes the loop.
EverythingWakes ==
  LET duties(s) == [s EXCEPT !.last_fsync_ms = 0, !.aof_check_ms = 0]
  IN  Asleep => duties(Sweep(srv, now)) = duties(srv)

\* A turn leaves no client that has been silent for its timeout, unless the turn
\* itself served it: none survives behind one that is not due, and nothing but
\* the end of the handshake moves the deadline of a handshake.  And it closes none
\* early, but the one whose event it was (process_timers, conn_set_timer, main).
SilenceEnds ==
  [][LET turn == now' = now
         due(c) == srv.conn[c].heard + Timeout(srv.conn[c].timer_type) <= now
         gone(c) == srv'.conn[c].kind \in {"none", "link"}
     IN  turn => /\ \A c \in Plain(srv) : due(c) /\ ~gone(c) => srv'.conn[c].heard = now
                 /\ Cardinality({c \in Plain(srv) : gone(c) /\ ~due(c)}) <= turns' - turns]_vars
=============================================================================
