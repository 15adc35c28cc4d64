----------------------------- MODULE Sessions -----------------------------
(***************************************************************************)
(* Client connections and the event loop that serves them                  *)
(* (src/src/server/server.cpp, src/src/commands/commands.cpp): pipelined   *)
(* requests, replies that are put off (AUTH and HELLO verified by a worker *)
(* thread, WAIT, writes parked during a failover), pub/sub, ACL users that *)
(* come and go, and connections that are destroyed while the server still  *)
(* holds work for them.                                                    *)
(*                                                                         *)
(* The main thread runs one handler at a time, and a handler may run       *)
(* others: a completion resumes its connection, which runs the requests    *)
(* buffered behind it, and an acknowledgement among them resumes further   *)
(* connections.  So the server is one record and the code's functions are  *)
(* operators on it; the worker threads are the only concurrency.           *)
(*                                                                         *)
(* A connection is named by its id, as the code's raw Conn pointers name   *)
(* the object and not its file descriptor: a registry that still holds the *)
(* id of a destroyed connection holds a dangling pointer, and `freed` is   *)
(* set when the code follows one.  A user is named by its name and its     *)
(* incarnation, for the same reason.                                       *)
(***************************************************************************)
EXTENDS Integers, FiniteSets, Sequences, SequencesExt, FiniteSetsExt, TLC

CONSTANTS
    Fds,          \* file descriptors
    MaxConns,     \* connections accepted in a behaviour
    MaxSent,      \* requests the clients send in a behaviour
    Users,        \* names of the ACL users other than "default"
    Channels,     \* pub/sub channels
    Replicas,     \* attached replicas
    MaxAuth,      \* k_max_auth_inflight
    MaxFailed,    \* k_max_failed_auth
    Workers,      \* threads of the pool
    MaxTime,      \* the clock stops here
    MaxGen,       \* passwords a user is given in a behaviour
    Menus         \* sets of requests; a behaviour's clients use one of them

ASSUME SessionsAssumption ==
    /\ MaxAuth \in Nat \ {0} /\ Workers \in Nat \ {0}
    /\ "default" \notin Users

VARIABLES
    srv,     \* the server
    menu     \* the requests the clients of this behaviour send

vars == <<srv, menu>>

NoUser == <<"none", 0>>
Default == <<"default", 1>>
NoConn == [id |-> 0]

\* A fresh Conn.  wire holds the requests the kernel has and incoming those that
\* were read; out is everything ever put in the outgoing buffer: replies to the
\* request of that number, and pushes with number 0; asked is the names the
\* connection ever gave to AUTH.
NewConn(id, user) ==
    [id |-> id, user |-> user, proto |-> 2, hello |-> 0, failed |-> 0,
     auth_pending |-> FALSE, wait_pending |-> FALSE, fo_pending |-> FALSE,
     held |-> [no |-> 0, op |-> "none"], target |-> 0, num |-> 0, deadline |-> 0,
     want_close |-> FALSE, subs |-> {}, sent |-> 0,
     wire |-> <<>>, incoming |-> <<>>, out |-> <<>>, asked |-> {}]

Live(s) == {fd \in Fds : s.conn[fd] # NoConn}
IsLive(s, id) == \E fd \in Live(s) : s.conn[fd].id = id
FdOf(s, id) == CHOOSE fd \in Live(s) : s.conn[fd].id = id

\* The code follows a pointer to an object that is gone.
Freed(s) == [s EXCEPT !.freed = TRUE]

SaidOf(s, fd, no, what, ch) ==
    [s EXCEPT !.conn[fd].out = Append(@, [no |-> no, what |-> what, ch |-> ch])]

Said(s, fd, no, what) == SaidOf(s, fd, no, what, "none")

UserLive(s, u) == u = Default \/ (u[1] \in Users /\ s.users[u[1]].inc = u[2] /\ s.users[u[1]].exists)
Enabled(s, u) == u = Default \/ s.users[u[1]].enable

\* acl_initial_user: default when it needs no password
acl_initial_user(s) == IF s.nopass THEN Default ELSE NoUser

-----------------------------------------------------------------------------
(* Teardown *)

\* Teardown that leaves the connection among the waiters.
LeavesWaiter(s, fd) ==
    LET id == s.conn[fd].id
    IN  [s EXCEPT !.channels = [ch \in Channels |-> s.channels[ch] \ {id}],
                  !.fo_paused = @ \ {id},
                  !.conn[fd] = NoConn]

\* pubsub_remove_conn, wait_remove_conn, fo_paused_remove_conn, fd2conn[fd] = NULL
conn_destroy(s, fd) ==
    LET id == s.conn[fd].id
    IN  [s EXCEPT !.channels = [ch \in Channels |-> s.channels[ch] \ {id}],
                  !.waiters = @ \ {id},
                  !.fo_paused = @ \ {id},
                  !.conn[fd] = NoConn]

-----------------------------------------------------------------------------
(* AUTH and HELLO *)

Known(s, uname) ==
    IF uname = "default" THEN ~s.nopass
    ELSE s.users[uname].exists /\ s.users[uname].enable

\* The credential as it is when the job is queued: the worker sees no other.
Snapshot(s, uname) ==
    IF uname = "default" THEN [gen |-> 1, strong |-> TRUE]
    ELSE [gen |-> s.users[uname].gen, strong |-> s.users[uname].strong]

do_auth(s, fd, c) ==
    IF s.inflight >= MaxAuth
    THEN Said(s, fd, c.no, "BUSY")
    ELSE LET known == Known(s, c.user)
             job == [fd |-> fd, id |-> s.conn[fd].id, no |-> c.no, uname |-> c.user,
                     known |-> known, cred |-> Snapshot(s, c.user),
                     ok |-> known /\ c.gen = Snapshot(s, c.user).gen]
         IN  [s EXCEPT !.conn[fd].auth_pending = TRUE,
                       !.conn[fd].asked = @ \cup {c.user},
                       !.inflight = @ + 1,
                       !.queue = Append(@, job)]

\* HELLO 3, with or without AUTH
do_hello(s, fd, c) ==
    IF c.user # "none"
    THEN LET a == do_auth(s, fd, c)
         IN  IF a.conn[fd].auth_pending THEN [a EXCEPT !.conn[fd].hello = 3] ELSE a
    ELSE IF s.conn[fd].user = NoUser
    THEN Said(s, fd, c.no, "NOAUTH")
    ELSE Said([s EXCEPT !.conn[fd].proto = 3], fd, c.no, "map")

\* The upgrade of a weak credential, whether or not it is still there.
BlindRehash(s, job) ==
    IF job.uname # "default" /\ ~job.cred.strong
    THEN [s EXCEPT !.users[job.uname].gen = job.cred.gen, !.users[job.uname].strong = TRUE]
    ELSE s

\* The upgrade of a weak credential, if that very entry is still there
Rehash(s, job) ==
    IF job.uname # "default" /\ ~job.cred.strong
          /\ s.users[job.uname].gen = job.cred.gen /\ ~s.users[job.uname].strong
    THEN [s EXCEPT !.users[job.uname].strong = TRUE]
    ELSE s

-----------------------------------------------------------------------------
(* ACL users *)

deluser(s, fd, c) ==
    LET victim == <<c.user, s.users[c.user].inc>>
        cut(k) == IF k # NoConn /\ k.user = victim
                  THEN [k EXCEPT !.user = NoUser, !.want_close = TRUE] ELSE k
    IN  IF ~s.users[c.user].exists
        THEN Said(s, fd, c.no, "0")
        ELSE Said([s EXCEPT !.conn = [f \in Fds |-> cut(s.conn[f])],
                            !.users[c.user].exists = FALSE], fd, c.no, "1")

\* SETUSER name on|off resetpass >password: a user that is not there is new
setuser(s, fd, c) ==
    LET u == s.users[c.user]
    IN  Said([s EXCEPT !.users[c.user] =
                [exists |-> TRUE, enable |-> c.on, gen |-> u.gen + 1, strong |-> TRUE,
                 inc |-> IF u.exists THEN u.inc ELSE u.inc + 1]], fd, c.no, "OK")

-----------------------------------------------------------------------------
(* Pub/sub *)

do_subscribe(s, fd, c) ==
    SaidOf([s EXCEPT !.conn[fd].subs = @ \cup {c.ch},
                     !.channels[c.ch] = @ \cup {s.conn[fd].id}], fd, c.no, "subscribe", c.ch)

\* An explicit channel leaves the registry only if the connection held it.
do_unsubscribe(s, fd, c) ==
    SaidOf(IF c.ch \in s.conn[fd].subs
           THEN [s EXCEPT !.conn[fd].subs = @ \ {c.ch},
                          !.channels[c.ch] = @ \ {s.conn[fd].id}]
           ELSE s, fd, c.no, "unsubscribe", c.ch)

\* Fan-out into the subscribers' outgoing buffers, then the reply.
do_publish(s, fd, c) ==
    LET push(t, id) == IF IsLive(t, id) THEN SaidOf(t, FdOf(t, id), 0, "push", c.ch) ELSE Freed(t)
    IN  Said(FoldLeft(push, s, SetToSortSeq(s.channels[c.ch], <)), fd, c.no, "receivers")

-----------------------------------------------------------------------------
(* WAIT, and what resumes a connection *)

replicas_acked(s, offset) == Cardinality({r \in Replicas : s.acked[r] >= offset})

do_wait(s, fd, c) ==
    LET reached == replicas_acked(s, s.offset)
    IN  IF reached >= c.num
        THEN Said(s, fd, c.no, "reached")
        ELSE [s EXCEPT !.conn[fd] = [@ EXCEPT !.wait_pending = TRUE, !.held = c,
                                              !.target = s.offset, !.num = c.num,
                                              !.deadline = IF c.tmo = 0 THEN 0 ELSE s.clock + c.tmo],
                       !.waiters = @ \cup {s.conn[fd].id}]

\* A write: parked while a failover runs, refused by a replica, or applied.
DoWrite(s, fd, c) ==
    IF s.failover
    THEN [s EXCEPT !.conn[fd].fo_pending = TRUE, !.conn[fd].held = c,
                   !.fo_paused = @ \cup {s.conn[fd].id}]
    ELSE IF s.replica THEN Said(s, fd, c.no, "READONLY")
    ELSE Said([s EXCEPT !.offset = @ + 1], fd, c.no, "OK")

\* The commands a RESP2 connection may send while it is subscribed.
cmd_ok_in_subscribe(c) == c.op \in {"subscribe", "unsubscribe", "ping"}

\* A gate that does not know of AUTH.
GatedButAuth(k) == k.wait_pending \/ k.fo_pending

\* The connection takes no request while a reply of it is put off.
Gated(k) == k.auth_pending \/ k.wait_pending \/ k.fo_pending

Parsable(k) == ~Gated(k) /\ k.incoming # <<>>

RECURSIVE do_request(_, _, _), Drained(_, _), wait_try_resume(_)

\* try_one_request until it returns false
Drained(s, fd) ==
    LET k == s.conn[fd]
    IN  IF ~Parsable(k) THEN s
        ELSE Drained(do_request([s EXCEPT !.conn[fd].incoming = Tail(@)], fd, Head(k.incoming)), fd)

\* A resumption that only sends the reply.
FlushesOnly(s, fd) == IF s.conn[fd].want_close THEN conn_destroy(s, fd) ELSE s

conn_resume(s, fd) ==
    LET d == IF s.conn[fd].want_close THEN s ELSE Drained(s, fd)
    IN  IF d.conn[fd].want_close THEN conn_destroy(d, fd) ELSE d

\* Settle a deferred WAIT; the pointer was collected before others ran.
wait_finish(s, id) ==
    IF ~IsLive(s, id) THEN Freed(s)
    ELSE LET fd == FdOf(s, id)
         IN  conn_resume(Said([s EXCEPT !.conn[fd].wait_pending = FALSE, !.waiters = @ \ {id}],
                              fd, s.conn[fd].held.no, "reached"), fd)

\* A deadline that is never looked at.
SatisfiedByAcksOnly(s, k) == replicas_acked(s, k.target) >= k.num

Satisfied(s, k) ==
    \/ replicas_acked(s, k.target) >= k.num
    \/ k.deadline # 0 /\ s.clock >= k.deadline

wait_try_resume(s) ==
    LET done == {id \in s.waiters : IsLive(s, id) => Satisfied(s, s.conn[FdOf(s, id)])}
    IN  FoldLeft(wait_finish, s, SetToSortSeq(done, <))

\* The authenticated commands, by name
Dispatch(s, fd, c) ==
    CASE c.op = "ping"        -> Said(s, fd, c.no, "PONG")
      [] c.op = "write"       -> DoWrite(s, fd, c)
      [] c.op = "wait"        -> do_wait(s, fd, c)
      [] c.op = "replconf ack" -> wait_try_resume(Said(s, fd, c.no, "nothing"))
      [] c.op = "subscribe"   -> do_subscribe(s, fd, c)
      [] c.op = "unsubscribe" -> do_unsubscribe(s, fd, c)
      [] c.op = "publish"     -> do_publish(s, fd, c)
      [] c.op = "deluser"     -> deluser(s, fd, c)
      [] c.op = "setuser"     -> setuser(s, fd, c)

do_request(s, fd, c) ==
    LET k == s.conn[fd]
    IN  CASE c.op = "auth" -> do_auth(s, fd, c)
          [] c.op = "hello" -> do_hello(s, fd, c)
          [] c.op \notin {"auth", "hello"} ->
                IF k.user = NoUser THEN Said(s, fd, c.no, "NOAUTH")
                ELSE IF k.proto < 3 /\ k.subs # {} /\ ~cmd_ok_in_subscribe(c)
                THEN Said(s, fd, c.no, "ERR subscribe mode")
                ELSE IF ~UserLive(s, k.user) THEN Freed(s)
                ELSE IF ~Enabled(s, k.user) THEN Said(s, fd, c.no, "NOPERM")
                ELSE Dispatch(s, fd, c)

\* A completion that looks for its connection by fd only.
CompleteByFd(s, job) == s.conn[job.fd] # NoConn

\* The connection that asked is still there: same fd, same id
StillThere(s, job) == s.conn[job.fd] # NoConn /\ s.conn[job.fd].id = job.id

\* Its user may have been deleted or disabled during the verification
Granted(s, job) ==
    /\ job.ok /\ job.known
    /\ job.uname # "default" => s.users[job.uname].exists /\ s.users[job.uname].enable

auth_complete(s, job) ==
    LET fd == job.fd
        n == [s EXCEPT !.inflight = @ - 1]
        a == [n EXCEPT !.conn[fd].auth_pending = FALSE, !.conn[fd].hello = 0]
        who == IF job.uname = "default" THEN Default
               ELSE <<job.uname, s.users[job.uname].inc>>
        failed == s.conn[fd].failed + 1
        no == [a EXCEPT !.conn[fd].failed = failed,
                        !.conn[fd].want_close = @ \/ failed >= MaxFailed]
        in == [Rehash(a, job) EXCEPT !.conn[fd].user = who,
                                     !.conn[fd].failed = 0,
                                     !.conn[fd].proto = IF s.conn[fd].hello # 0 THEN 3 ELSE @]
    IN  IF ~StillThere(s, job) THEN n
        ELSE IF Granted(s, job) THEN conn_resume(Said(in, fd, job.no, job.uname), fd)
        ELSE conn_resume(Said(no, fd, job.no, "WRONGPASS"), fd)

\* The parked writes run again once the failover is over; a connection marked
\* for closing is left to the loop.
Unpark(s, id) ==
    LET fd == FdOf(s, id)
        u == [s EXCEPT !.conn[fd].fo_pending = FALSE]
    IN  IF ~IsLive(s, id) THEN Freed(s)
        ELSE IF u.conn[fd].want_close THEN u
        ELSE conn_resume(do_request(u, fd, u.conn[fd].held), fd)

fo_resume_paused_writes(s) ==
    FoldLeft(Unpark, [s EXCEPT !.fo_paused = {}], SetToSortSeq(s.fo_paused, <))

-----------------------------------------------------------------------------
\* The clients of this behaviour send such requests.
Uses(op) == \E c \in menu : c.op = op

Init ==
    /\ menu \in Menus
    /\ \E nopass \in BOOLEAN :
          /\ nopass \/ Uses("auth")
          /\ srv = [conn |-> [fd \in Fds |-> NoConn], next_id |-> 1, sent |-> 0, freed |-> FALSE,
                 nopass |-> nopass, replica |-> FALSE,
                 users |-> [u \in Users |-> [exists |-> TRUE, enable |-> TRUE, inc |-> 1,
                                             gen |-> 1, strong |-> FALSE]],
                 channels |-> [ch \in Channels |-> {}],
                 waiters |-> {}, fo_paused |-> {}, failover |-> FALSE,
                 inflight |-> 0, queue |-> <<>>, running |-> {}, posted |-> <<>>,
                 offset |-> 0, acked |-> [r \in Replicas |-> 0], clock |-> 0]

\* A new connection takes the lowest free descriptor.
handle_accept ==
    /\ srv.next_id <= MaxConns
    /\ Fds # Live(srv)
    /\ LET fd == Min(Fds \ Live(srv))
       IN  srv' = [srv EXCEPT !.conn[fd] = NewConn(srv.next_id, acl_initial_user(srv)),
                              !.next_id = @ + 1]
    /\ UNCHANGED menu

\* The client sends one more request.
Send(fd, c) ==
    /\ srv.conn[fd] # NoConn
    /\ srv.sent < MaxSent
    /\ srv' = [srv EXCEPT !.conn[fd].wire = Append(@, [no |-> srv.conn[fd].sent + 1] @@ c),
                          !.conn[fd].sent = @ + 1,
                          !.sent = @ + 1]
    /\ UNCHANGED menu

\* A readable connection: everything is read and, unless a reply is put off,
\* run; then a marked connection closes.
handle_read(fd) ==
    /\ srv.conn[fd] # NoConn
    /\ srv.conn[fd].wire # <<>>
    /\ LET d == Drained([srv EXCEPT !.conn[fd].incoming = @ \o srv.conn[fd].wire,
                                    !.conn[fd].wire = <<>>], fd)
       IN  srv' = IF d.conn[fd].want_close THEN conn_destroy(d, fd) ELSE d
    /\ UNCHANGED menu

\* The peer closed, an error, or an idle or I/O timeout
Closed(fd) ==
    /\ srv.conn[fd] # NoConn
    /\ srv' = conn_destroy(srv, fd)
    /\ UNCHANGED menu

\* A thread of the pool takes the oldest job ...
worker_take ==
    /\ srv.queue # <<>>
    /\ Cardinality(srv.running) < Workers
    /\ srv' = [srv EXCEPT !.running = @ \cup {Head(srv.queue)}, !.queue = Tail(@)]
    /\ UNCHANGED menu

\* ... and posts its verdict to the loop.
auth_verify_job(job) ==
    /\ srv' = [srv EXCEPT !.running = @ \ {job}, !.posted = Append(@, job)]
    /\ UNCHANGED menu

\* The loop runs every completion that was posted.
loop_drain ==
    /\ srv.posted # <<>>
    /\ srv' = FoldLeft(auth_complete, [srv EXCEPT !.posted = <<>>], srv.posted)
    /\ UNCHANGED menu

\* REPLCONF ACK on a replica's connection
Acknowledged(r) ==
    /\ srv.acked[r] < srv.offset
    /\ srv' = wait_try_resume([srv EXCEPT !.acked[r] = @ + 1])
    /\ UNCHANGED menu

\* To MaxTime, and on to the deadlines that were set.
ClockRuns ==
    /\ Uses("wait")
    /\ \/ srv.clock < MaxTime
       \/ \E fd \in Live(srv) : srv.conn[fd].wait_pending /\ srv.conn[fd].deadline > srv.clock

\* Time passes, and process_timers looks at the waiters.
Tick ==
    /\ ClockRuns
    /\ srv' = wait_try_resume([srv EXCEPT !.clock = @ + 1])
    /\ UNCHANGED menu

FailoverStart ==
    /\ Uses("write")
    /\ ~srv.failover /\ ~srv.replica
    /\ srv' = [srv EXCEPT !.failover = TRUE]
    /\ UNCHANGED menu

\* failover_reset: handed over, aborted or timed out
failover_reset(demoted) ==
    /\ srv.failover
    /\ srv' = fo_resume_paused_writes([srv EXCEPT !.failover = FALSE, !.replica = demoted])
    /\ UNCHANGED menu

\* A user is given MaxGen passwords at most.
Offered(c) ==
    c.op = "setuser" => srv.users[c.user].gen < MaxGen

Next ==
    \/ handle_accept
    \/ \E fd \in Fds : \/ \E c \in menu : Offered(c) /\ Send(fd, c)
                       \/ handle_read(fd)
                       \/ Closed(fd)
    \/ worker_take
    \/ \E job \in srv.running : auth_verify_job(job)
    \/ loop_drain
    \/ \E r \in Replicas : Acknowledged(r)
    \/ Tick
    \/ FailoverStart
    \/ \E demoted \in BOOLEAN : failover_reset(demoted)

\* Weak fairness of the background actions, each stated by the condition that
\* ends its being enabled, which only that action brings about: the workers take
\* jobs and finish them, the loop comes round, and the clock ticks.  A failover
\* need not end: without a TIMEOUT it has no deadline.
Fairness ==
    /\ []<>(srv.queue = <<>> \/ Cardinality(srv.running) = Workers)
    /\ \A id \in 1 .. MaxConns : []<>(\A job \in srv.running : job.id # id)
    /\ []<>(srv.posted = <<>>)
    /\ []<>(~ClockRuns)

Spec == Init /\ [][Next]_vars /\ Fairness

-----------------------------------------------------------------------------
Conns(s) == {s.conn[fd] : fd \in Live(s)}

\* The server's records have the fields and ranges the code gives them.
TypeOK ==
    /\ \A k \in Conns(srv) : /\ k.id \in 1 .. MaxConns /\ k.proto \in {2, 3}
                             /\ k.hello \in {0, 3} /\ k.failed \in 0 .. MaxFailed
                             /\ k.subs \subseteq Channels
    /\ srv.inflight \in 0 .. MaxAuth
    /\ \A r \in Replicas : srv.acked[r] \in 0 .. srv.offset

\* A message is pushed to a connection only between its subscription to the
\* channel and the end of it (pubsub_publish).
PushWithin(k) ==
    \A i \in 1 .. Len(k.out) : k.out[i].what = "push" =>
        LET ch == k.out[i].ch
            about == {j \in 1 .. i - 1 : k.out[j].ch = ch /\ k.out[j].no # 0}
        IN  about # {} /\ k.out[Max(about)].what = "subscribe"

\* Every request gets one reply, and the replies leave in the order of the
\* requests, however many of them are put off: what a connection has been sent
\* is the replies to its requests up to the one it waits for (try_one_request).
\* What is pushed between them comes from channels it is subscribed to.
RepliesInOrder ==
    \A k \in Conns(srv) :
       /\ PushWithin(k)
       /\ ~k.want_close =>
          LET replies == SelectSeq(k.out, LAMBDA m : m.no # 0)
              pending == IF Gated(k) THEN 1 ELSE 0
          IN  /\ Len(replies) = k.sent - Len(k.wire) - Len(k.incoming) - pending
              /\ \A i \in 1 .. Len(replies) : replies[i].no = i

\* A request that was read is run before the loop goes back to poll, unless a
\* reply of its connection is put off: no event would wake it up (conn_resume).
\* And no write stays parked once the failover is over, nor do those that were
\* read behind it (fo_resume_paused_writes).
NoneStranded ==
    /\ \A k \in Conns(srv) : ~k.want_close => ~Parsable(k)
    /\ ~srv.failover => \A k \in Conns(srv) : ~k.fo_pending

\* The server's lists of subscribers, waiters and parked writers name exactly
\* the living connections that are in that condition, and no pointer to a
\* destroyed connection or a deleted user is followed (conn_destroy).  The count
\* of verifications in flight is the number of jobs queued, running and posted,
\* whatever became of their connections (g_auth_inflight).
RegistriesExact ==
    /\ ~srv.freed
    /\ \A ch \in Channels : srv.channels[ch] = {k.id : k \in {c \in Conns(srv) : ch \in c.subs}}
    /\ srv.waiters = {k.id : k \in {c \in Conns(srv) : c.wait_pending}}
    /\ srv.fo_paused = {k.id : k \in {c \in Conns(srv) : c.fo_pending}}
    /\ srv.inflight = Len(srv.queue) + Cardinality(srv.running) + Len(srv.posted)
    /\ TypeOK

\* The user of a connection is there, in the incarnation it logged in as, and
\* the connection itself gave that name to AUTH (auth_complete, ACL DELUSER).
IdentityOwn ==
    \A k \in Conns(srv) : k.user # NoUser /\ k.user # acl_initial_user(srv) =>
        UserLive(srv, k.user) /\ k.user[1] \in k.asked

\* A password that was replaced does not come back: the upgrade of a hash that a
\* worker computed meanwhile leaves the new one alone (auth_complete).
PasswordsStay ==
    [][\A u \in Users : srv'.users[u].gen >= srv.users[u].gen]_vars

\* A reply of the connection is put off, and neither for an unbounded WAIT nor for
\* a failover, which may last for ever.
Owed(id) ==
    \E k \in Conns(srv) :
       k.id = id /\ (k.auth_pending \/ (k.wait_pending /\ k.deadline # 0))

\* A reply that was put off comes, or its connection closes: a verification ends
\* and a WAIT with a timeout times out, whatever the replicas, the other clients
\* and a failover that never ends do (auth_complete, wait_try_resume).
AnswersCome == \A id \in 1 .. MaxConns : Owed(id) ~> ~Owed(id)
=============================================================================
