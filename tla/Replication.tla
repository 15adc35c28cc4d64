----------------------------- MODULE Replication -----------------------------
(***************************************************************************)
(* Master/replica replication: the replica's link state machine            *)
(* (server.cpp, repl_start .. repl_master_data), the master's PSYNC, ACK   *)
(* and propagation (commands.cpp, propagate .. do_replicaof) and the       *)
(* coordinated FAILOVER (do_failover, failover_cron).                      *)
(*                                                                         *)
(* Abstractions.  The stream is counted in whole frames, not bytes: every  *)
(* offset the program computes falls on a frame boundary.  A frame is the  *)
(* number of a write, or PING.  A data set is the sequence of writes it    *)
(* has absorbed.  The ring is its length histlen; that it then serves the  *)
(* last histlen frames is what module ReplBacklog establishes.  `stream`   *)
(* is a history variable: the frames an offset counts, so that             *)
(* master_repl_offset is Len(stream).                                      *)
(***************************************************************************)
EXTENDS Integers, Sequences, FiniteSets, SequencesExt

CONSTANTS
  Node, Nil,
  Boot,         \* the `replicaof` directive of each node's configuration
  Cap,          \* repl-backlog-size, in frames; 0 disables the ring
  Plans,        \* what the operators may do: one plan per behaviour, see Plan
  MaxConns,     \* bound: sockets open at a time
  MaxIds,       \* bound: replication ids generated
  MaxWrites,    \* bound: client writes
  MaxFaults,    \* bound: time-outs, socket errors, bad images
  MaxRestarts   \* bound: crashes

ASSUME BootAssumption  == Boot \in [Node -> Node \cup {Nil}] /\ Nil \notin Node
ASSUME BoundAssumption ==
  {Cap, MaxConns, MaxIds, MaxWrites, MaxFaults, MaxRestarts} \subseteq Nat

(* A plan: the administrative commands issued, and bounds on them and on pings. *)
Plan(commands, most, pings) == [commands |-> commands, most |-> most, pings |-> pings]

VARIABLES
  node,   \* the state of each server
  conn,   \* the sockets between servers
  used    \* how much of each bound has been used, how many FAILOVERs were forced; the plan

vars == <<node, conn, used>>

PING    == 0
ConnIds == 1..MaxConns
NoLink  == 0    \* master_link == nullptr
NoId    == 0    \* an empty repl_id2, and the "?" of PSYNC
Frame   == 0..MaxWrites

Writes(frames) == SelectSeq(frames, LAMBDA f : f # PING)
Smaller(a, b)  == IF a <= b THEN a ELSE b
Offset(s)      == Len(s.stream)     \* master_repl_offset

-----------------------------------------------------------------------------
(***************************************************************************)
(* Sockets.  `from` is the node that dialled, `to` the one that accepted;  *)
(* each end is closed on its own and the peer learns of it later.          *)
(***************************************************************************)
NoConn == [from |-> Nil, to |-> Nil, dialled |-> FALSE, accepted |-> FALSE,
           up |-> <<>>, down |-> <<>>, is_replica |-> FALSE, ack_offset |-> 0]

DiallerCloses(c) ==
  IF c.accepted THEN [c EXCEPT !.dialled = FALSE, !.down = <<>>] ELSE NoConn

(* conn_destroy on the accepting side, with repl_remove_conn. *)
AcceptorCloses(c) ==
  IF c.dialled
    THEN [c EXCEPT !.accepted = FALSE, !.up = <<>>, !.is_replica = FALSE, !.ack_offset = 0]
    ELSE NoConn

(* g_data.replicas of node n. *)
Replicas(cs, n) == {k \in ConnIds : cs[k].to = n /\ cs[k].accepted /\ cs[k].is_replica}

FreeSlots(cs) == {k \in ConnIds : cs[k] = NoConn}
FirstFree(cs) == CHOOSE k \in FreeSlots(cs) : \A j \in FreeSlots(cs) : k <= j

FrameMsgs(frames) == [i \in DOMAIN frames |-> [type |-> "FRAME", frame |-> frames[i]]]

(* repl_feed_replicas.  Nobody will read what goes to a closed dialler. *)
FeedReplicas(cs, n, frames) ==
  [k \in ConnIds |-> IF k \in Replicas(cs, n) /\ cs[k].dialled
                       THEN [cs[k] EXCEPT !.down = @ \o FrameMsgs(frames)]
                       ELSE cs[k]]

-----------------------------------------------------------------------------
(* repl_backlog_feed *)
Fed(s, frames) == [s EXCEPT !.stream = @ \o frames, !.histlen = Smaller(@ + Len(frames), Cap)]

(* repl_stop, on the record; StopConn is what it does to the socket. *)
Stopped(s) == [s EXCEPT !.master_link = NoLink, !.replica_mode = FALSE,
                        !.repl_state = "NONE", !.master_host = Nil]

StopConn(cs, s) ==
  IF s.master_link = NoLink THEN cs ELSE [cs EXCEPT ![s.master_link] = DiallerCloses(@)]

(* Mutant: losing the link ends the role as well. *)
LinkLost_Promotes(s) == Stopped(s)

(* repl_link_lost: the role survives, the link does not. *)
LinkLost(s) == [s EXCEPT !.master_link = NoLink, !.repl_state = "NONE"]

(* Mutant: the promoted node keeps writing under the old id. *)
IdShifted_SameId(s, id) == [s EXCEPT !.repl_id2 = s.repl_id,
                                     !.second_repl_offset = Offset(s) + 1]

(* repl_shift_id: promotion retires the id under which we served so far. *)
IdShifted(s, id) == [s EXCEPT !.repl_id2 = s.repl_id,
                              !.second_repl_offset = Offset(s) + 1,
                              !.repl_id = id]

NotFailingOver(s) == [s EXCEPT !.failover_state = "NONE", !.failover_host = Nil,
                               !.failover_force = FALSE, !.failover_timed = FALSE,
                               !.paused = 0]

(* The PSYNC line repl_start queues, from the state before repl_stop. *)
PsyncLine(s) ==
  LET failover == s.failover_state = "IN_PROGRESS"
      history  == s.replica_mode \/ failover
  IN  [type |-> "PSYNC", id |-> IF history THEN s.repl_id ELSE NoId,
       want |-> IF history THEN Offset(s) + 1 ELSE 0, failover |-> failover]

(* repl_start, once the socket is there: drop the old role, dial, new role. *)
DialledConns(cs, n, s, host) ==
  LET left == StopConn(cs, s)
  IN  [left EXCEPT ![FirstFree(left)] =
         [NoConn EXCEPT !.from = n, !.to = host, !.dialled = TRUE, !.accepted = TRUE,
                        !.up = <<PsyncLine(s)>>]]

DialledNode(cs, s, host) ==
  [Stopped(s) EXCEPT !.master_host = host, !.replica_mode = TRUE, !.repl_state = "HANDSHAKE",
                     !.master_link = FirstFree(StopConn(cs, s))]

repl_start(cs, n, s, host) ==
  /\ FreeSlots(StopConn(cs, s)) # {}
  /\ node' = [node EXCEPT ![n] = DialledNode(cs, s, host)]
  /\ conn' = DialledConns(cs, n, s, host)

(***************************************************************************)
(* `count` client writes run on node n, whose record is s: each one is     *)
(* applied, fed to the ring and sent to every attached replica.            *)
(***************************************************************************)
RunWrites(cs, n, s, count) ==
  LET ids == [i \in 1..count |-> used.writes + i]
  IN  /\ node' = [node EXCEPT ![n] = [Fed(s, ids) EXCEPT !.data = @ \o ids]]
      /\ conn' = FeedReplicas(cs, n, ids)

(***************************************************************************)
(* failover_reset / FAILOVER ABORT: the pause is over; parked writes run   *)
(* on a node that is still master and get READONLY on one that is not.     *)
(***************************************************************************)
failover_reset(cs, n, s) ==
  LET count == IF s.replica_mode THEN 0 ELSE s.paused
  IN  /\ RunWrites(cs, n, NotFailingOver(s), count)
      /\ used' = [used EXCEPT !.writes = @ + count, !.parked = @ - s.paused]

-----------------------------------------------------------------------------
(* A server that has just started: its own new history, its data from disk. *)
Booted(id, data) ==
  [replica_mode |-> FALSE, master_host |-> Nil, repl_state |-> "NONE", master_link |-> NoLink,
   repl_id |-> id, repl_id2 |-> NoId, second_repl_offset |-> 0,
   stream |-> <<>>, histlen |-> 0, data |-> data, torn |-> FALSE,
   failover_state |-> "NONE", failover_host |-> Nil,
   failover_force |-> FALSE, failover_timed |-> FALSE, paused |-> 0]

(***************************************************************************)
(* Every server up: repl_init gave it an id of its own (Numbering), and a  *)
(* server configured with `replicaof` has dialled before its loop began.   *)
(***************************************************************************)
Numbering == CHOOSE f \in [Node -> 1..Cardinality(Node)] : IsInjective(f)

Init ==
  LET fresh(n) == Booted(Numbering[n], <<>>)
      dials    == {n \in Node : Boot[n] # Nil}
  IN  /\ node = [n \in Node |->
                   IF n \in dials
                     THEN [fresh(n) EXCEPT !.replica_mode = TRUE, !.master_host = Boot[n],
                             !.repl_state = "HANDSHAKE", !.master_link = Numbering[n]]
                     ELSE fresh(n)]
      /\ conn = [k \in ConnIds |->
                   IF \E n \in dials : Numbering[n] = k
                     THEN LET n == CHOOSE n \in dials : Numbering[n] = k
                          IN  [NoConn EXCEPT !.from = n, !.to = Boot[n], !.dialled = TRUE,
                                 !.accepted = TRUE, !.up = <<PsyncLine(fresh(n))>>]
                     ELSE NoConn]
      /\ \E plan \in Plans :
           used = [ids |-> Cardinality(Node), writes |-> 0, parked |-> 0, pings |-> 0,
                   faults |-> 0, restarts |-> 0, admin |-> 0, forced |-> 0, plan |-> plan]

-----------------------------------------------------------------------------
(* Clients and the master. *)

(***************************************************************************)
(* A client's write (do_request): parked while a failover runs, refused by *)
(* a replica (no state changes), otherwise run and propagated.             *)
(***************************************************************************)
ClientWrite(n) ==
  /\ used.writes + used.parked < MaxWrites
  /\ \/ /\ node[n].failover_state # "NONE"
        /\ node' = [node EXCEPT ![n].paused = @ + 1]
        /\ used' = [used EXCEPT !.parked = @ + 1]
        /\ UNCHANGED conn
     \/ /\ node[n].failover_state = "NONE" /\ ~node[n].replica_mode
        /\ RunWrites(conn, n, node[n], 1)
        /\ used' = [used EXCEPT !.writes = @ + 1]

(* A client whose write is parked goes away (fo_paused_remove_conn). *)
ParkedClientLeaves(n) ==
  /\ node[n].paused > 0
  /\ node' = [node EXCEPT ![n].paused = @ - 1]
  /\ used' = [used EXCEPT !.parked = @ - 1]
  /\ UNCHANGED conn

(* repl_cron -> repl_ping_replicas: a keep-alive is part of the stream. *)
PingReplicas(n) ==
  /\ used.pings < used.plan.pings
  /\ Replicas(conn, n) # {}
  /\ node' = [node EXCEPT ![n] = Fed(@, <<PING>>)]
  /\ conn' = FeedReplicas(conn, n, <<PING>>)
  /\ used' = [used EXCEPT !.pings = @ + 1]

(* Mutant: the retired id is honoured beyond the promotion boundary. *)
PartialOK_NoBoundary(s, req) ==
  /\ req.id # NoId /\ Cap > 0
  /\ req.id \in {s.repl_id, s.repl_id2}
  /\ req.want > 0 /\ req.want <= Offset(s) + 1
  /\ Offset(s) + 1 - req.want <= s.histlen

(***************************************************************************)
(* do_psync's decision, taken by a node with record s: is the gap in our   *)
(* history, and still in the ring?                                         *)
(***************************************************************************)
PartialOK(s, req) ==
  LET next == Offset(s) + 1
  IN  /\ req.id # NoId /\ Cap > 0
      /\ \/ req.id = s.repl_id
         \/ s.repl_id2 # NoId /\ req.id = s.repl_id2 /\ req.want <= s.second_repl_offset
      /\ req.want > 0
      /\ req.want <= next
      /\ next - req.want <= s.histlen

(* repl_backlog_copy: the newest `need` frames; the ring has no others. *)
RingTail(s, need) ==
  SubSeq(s.stream, Len(s.stream) - Smaller(need, s.histlen) + 1, Len(s.stream))

PsyncReply(s, req) ==
  IF PartialOK(s, req)
    THEN <<[type |-> "CONTINUE", id |-> s.repl_id]>>
           \o FrameMsgs(RingTail(s, Offset(s) + 1 - req.want))
    ELSE <<[type |-> "FULLRESYNC", id |-> s.repl_id, hist |-> s.stream],
           [type |-> "LEN"],
           [type |-> "IMAGE", data |-> s.data]>>

(* The head of k's request queue is consumed. *)
TakeUp(cs, k) == [cs EXCEPT ![k].up = Tail(@)]

(* The reply is queued and the connection becomes a replica. *)
Attached(cs, k, msgs) ==
  [cs EXCEPT ![k].down = IF cs[k].dialled THEN @ \o msgs ELSE @, ![k].is_replica = TRUE]

(***************************************************************************)
(* do_psync, all of it.  With FAILOVER the node first promotes itself,     *)
(* which closes its own link to the old master.                            *)
(***************************************************************************)
do_psync(k) ==
  LET m   == conn[k].to
      s   == node[m]
      req == Head(conn[k].up)
      cs  == TakeUp(conn, k)
  IN  /\ conn[k].accepted /\ conn[k].up # <<>> /\ req.type = "PSYNC"
      /\ \/ /\ req.failover /\ ~s.replica_mode
            /\ conn' = [cs EXCEPT ![k].down = IF cs[k].dialled
                                                THEN Append(@, [type |-> "ERR"]) ELSE @]
            /\ UNCHANGED <<node, used>>
         \/ /\ req.failover /\ s.replica_mode
            /\ used.ids < MaxIds
            /\ LET p == IdShifted(Stopped(s), used.ids + 1)
               IN  /\ node' = [node EXCEPT ![m] = p]
                   /\ conn' = Attached(StopConn(cs, s), k, PsyncReply(p, req))
            /\ used' = [used EXCEPT !.ids = @ + 1]
         \/ /\ ~req.failover
            /\ conn' = Attached(cs, k, PsyncReply(s, req))
            /\ UNCHANGED <<node, used>>

(* do_replconf ACK *)
ReplconfAck(k) ==
  /\ conn[k].accepted /\ conn[k].up # <<>> /\ Head(conn[k].up).type = "ACK"
  /\ conn' = [TakeUp(conn, k) EXCEPT ![k].ack_offset = Head(conn[k].up).offset]
  /\ UNCHANGED <<node, used>>

(* The accepting side finds the peer gone. *)
AcceptorSeesClose(k) ==
  /\ conn[k].accepted /\ ~conn[k].dialled
  /\ conn' = [conn EXCEPT ![k] = AcceptorCloses(@)]
  /\ UNCHANGED <<node, used>>

(* repl_cron drops a silent replica, or its socket fails. *)
ReplicaDropped(k) ==
  /\ used.faults < MaxFaults
  /\ conn[k].accepted /\ conn[k].dialled
  /\ conn' = [conn EXCEPT ![k] = AcceptorCloses(@)]
  /\ used' = [used EXCEPT !.faults = @ + 1]
  /\ UNCHANGED node

-----------------------------------------------------------------------------
(* The replica's end of the link (repl_master_data), one message at a time. *)

Link(n) == node[n].master_link

(* The next message on n's master link, in link phase `state`. *)
Reads(n, state, type) ==
  /\ Link(n) # NoLink
  /\ node[n].repl_state = state
  /\ conn[Link(n)].down # <<>>
  /\ Head(conn[Link(n)].down).type = type

TakeDown(n) == [conn EXCEPT ![Link(n)].down = Tail(@)]
Message(n)  == Head(conn[Link(n)].down)

(* want_close on the master link: conn_destroy, then repl_link_lost. *)
DropLink(n, s) ==
  /\ node' = [node EXCEPT ![n] = LinkLost(s)]
  /\ conn' = [conn EXCEPT ![Link(n)] = DiallerCloses(@)]

HandshakeRejected(n) ==
  /\ Reads(n, "HANDSHAKE", "ERR")
  /\ DropLink(n, node[n])
  /\ UNCHANGED used

(* What +CONTINUE does to the id: a promoted master renamed the history. *)
Renamed(s, id) ==
  IF id = s.repl_id THEN s
    ELSE [s EXCEPT !.repl_id = id, !.repl_id2 = NoId, !.second_repl_offset = 0]

(* A handshake that succeeds also ends our own FAILOVER. *)
HandshakeDone(n, s) ==
  IF s.failover_state # "NONE"
    THEN failover_reset(TakeDown(n), n, s)
    ELSE /\ node' = [node EXCEPT ![n] = s]
         /\ conn' = TakeDown(n)
         /\ UNCHANGED used

Continue(n) ==
  /\ Reads(n, "HANDSHAKE", "CONTINUE")
  /\ HandshakeDone(n, [Renamed(node[n], Message(n).id) EXCEPT !.repl_state = "STREAMING"])

(* The master's id and offset are adopted here, ahead of its image. *)
Adopted(s, msg) ==
  [s EXCEPT !.repl_id = msg.id, !.stream = msg.hist, !.repl_id2 = NoId,
            !.second_repl_offset = 0, !.histlen = 0, !.repl_state = "RDB_LEN", !.torn = TRUE]

FullResync(n) ==
  /\ Reads(n, "HANDSHAKE", "FULLRESYNC")
  /\ HandshakeDone(n, Adopted(node[n], Message(n)))

RdbLen(n) ==
  /\ Reads(n, "RDB_LEN", "LEN")
  /\ node' = [node EXCEPT ![n].repl_state = "RDB_BODY"]
  /\ conn' = TakeDown(n)
  /\ UNCHANGED used

(* Mutant: the image is loaded over the old data. *)
RdbLoaded_NoFlush(n) ==
  /\ Reads(n, "RDB_BODY", "IMAGE")
  /\ node' = [node EXCEPT ![n].data = @ \o Message(n).data, ![n].repl_state = "STREAMING",
                          ![n].torn = FALSE]
  /\ conn' = TakeDown(n)
  /\ UNCHANGED used

(* The image is complete: flushall, load it, start streaming. *)
RdbLoaded(n) ==
  /\ Reads(n, "RDB_BODY", "IMAGE")
  /\ node' = [node EXCEPT ![n].data = Message(n).data, ![n].repl_state = "STREAMING",
                          ![n].torn = FALSE]
  /\ conn' = TakeDown(n)
  /\ UNCHANGED used

(* flushall has run but the image does not load (its CRC is checked first). *)
RdbFails(n) ==
  /\ used.faults < MaxFaults
  /\ Reads(n, "RDB_BODY", "IMAGE")
  /\ DropLink(n, [node[n] EXCEPT !.data = <<>>])
  /\ used' = [used EXCEPT !.faults = @ + 1]

(* One frame of the stream: into our own ring, then through dispatch. *)
ApplyFrame(n) ==
  /\ Reads(n, "STREAMING", "FRAME")
  /\ LET frames == <<Message(n).frame>>
     IN  node' = [node EXCEPT ![n] = [Fed(@, frames) EXCEPT !.data = @ \o Writes(frames)]]
  /\ conn' = TakeDown(n)
  /\ UNCHANGED used

(* The replica finds the master gone; what it had not read is lost. *)
LinkClosed(n) ==
  /\ Link(n) # NoLink /\ ~conn[Link(n)].accepted
  /\ DropLink(n, node[n])
  /\ UNCHANGED used

(* repl_cron drops a silent master, or the socket fails. *)
LinkTimesOut(n) ==
  /\ used.faults < MaxFaults
  /\ Link(n) # NoLink /\ conn[Link(n)].accepted
  /\ DropLink(n, node[n])
  /\ used' = [used EXCEPT !.faults = @ + 1]

(* Mutant: reports the next byte it wants, as PSYNC does. *)
SendAck_Next(n) ==
  /\ Link(n) # NoLink /\ node[n].repl_state = "STREAMING"
  /\ conn[Link(n)].accepted /\ conn[Link(n)].up = <<>>
  /\ conn' = [conn EXCEPT ![Link(n)].up = <<[type |-> "ACK", offset |-> Offset(node[n]) + 1]>>]
  /\ UNCHANGED <<node, used>>

(***************************************************************************)
(* repl_cron: report progress.  The code repeats the report every second;  *)
(* one that is still in flight or would say nothing new is left out.       *)
(***************************************************************************)
SendAck(n) ==
  /\ Link(n) # NoLink /\ node[n].repl_state = "STREAMING"
  /\ conn[Link(n)].accepted /\ conn[Link(n)].up = <<>>
  /\ conn[Link(n)].ack_offset # Offset(node[n])
  /\ conn' = [conn EXCEPT ![Link(n)].up = <<[type |-> "ACK", offset |-> Offset(node[n])]>>]
  /\ UNCHANGED <<node, used>>

(* Mutant: no reconnection after a lost link. *)
Redial_Never(n) ==
  /\ node[n].replica_mode /\ Link(n) = NoLink /\ node[n].repl_state # "NONE"
  /\ repl_start(conn, n, node[n], node[n].master_host)
  /\ UNCHANGED used

(* repl_cron: a replica without a link dials its master again. *)
Redial(n) ==
  /\ node[n].replica_mode /\ Link(n) = NoLink
  /\ repl_start(conn, n, node[n], node[n].master_host)
  /\ UNCHANGED used

-----------------------------------------------------------------------------
(* Administration. *)

Command(name) == name \in used.plan.commands /\ used.admin < used.plan.most

ReplicaofNoOne(n) ==
  /\ Command("noone") /\ used.ids < MaxIds
  /\ node[n].replica_mode
  /\ node' = [node EXCEPT ![n] = IdShifted(Stopped(@), used.ids + 1)]
  /\ conn' = StopConn(conn, node[n])
  /\ used' = [used EXCEPT !.ids = @ + 1, !.admin = @ + 1]

(***************************************************************************)
(* REPLICAOF host port.  The operator builds no chains (the project's      *)
(* roadmap lists them as unsupported): nobody is connected to the node as  *)
(* a replica and the other one is not a replica itself.                    *)
(***************************************************************************)
Replicaof(n, host) ==
  /\ Command("replicaof")
  /\ host # n /\ ~node[host].replica_mode
  /\ \A k \in ConnIds : conn[k].to = n => ~conn[k].accepted
  /\ repl_start(conn, n, node[n], host)
  /\ used' = [used EXCEPT !.admin = @ + 1]

(* Attached connections of replica r: what replica_by_addr may return. *)
replica_by_addr(n, r) == {k \in Replicas(conn, n) : conn[k].from = r}

(* FAILOVER [TO r [FORCE]] [TIMEOUT ms]; FORCE needs TIMEOUT. *)
do_failover(n, r, force, timed) ==
  /\ Command(IF force THEN "force" ELSE "failover")
  /\ force => timed
  /\ ~node[n].replica_mode
  /\ node[n].failover_state = "NONE"
  /\ replica_by_addr(n, r) # {}
  /\ node' = [node EXCEPT ![n].failover_state = "WAIT_FOR_SYNC", ![n].failover_host = r,
                          ![n].failover_force = force, ![n].failover_timed = timed]
  /\ used' = [used EXCEPT !.admin = @ + 1, !.forced = @ + (IF force THEN 1 ELSE 0)]
  /\ UNCHANGED conn

(* FAILOVER ABORT, refused once the hand-over has begun. *)
FailoverAbort(n) ==
  /\ "abort" \in used.plan.commands
  /\ node[n].failover_state = "WAIT_FOR_SYNC"
  /\ failover_reset(conn, n, node[n])

(* All of g_data.replicas destroyed. *)
Abandoned(cs, n) ==
  [k \in ConnIds |-> IF k \in Replicas(cs, n) THEN AcceptorCloses(cs[k]) ELSE cs[k]]

(* The hand-over proper: state first, replicas next, then the dial. *)
HandOver(n) ==
  LET s == [node[n] EXCEPT !.failover_state = "IN_PROGRESS"]
  IN  \/ /\ repl_start(Abandoned(conn, n), n, s, s.failover_host)
         /\ UNCHANGED used
      \/ /\ used.faults < MaxFaults                    \* connect() fails at once
         /\ failover_reset(Abandoned(conn, n), n, s)

(* Mutant: hands over one frame early. *)
Synced_OneBehind(n, k) == conn[k].ack_offset + 1 >= Offset(node[n])

Synced(n, k) == conn[k].ack_offset >= Offset(node[n])

failover_cron(n) ==
  LET s == node[n]
  IN  /\ s.failover_state = "WAIT_FOR_SYNC"
      /\ \/ /\ replica_by_addr(n, s.failover_host) = {}
            /\ failover_reset(conn, n, s)
         \/ \E k \in replica_by_addr(n, s.failover_host) :
              \/ /\ Synced(n, k)
                 /\ HandOver(n)
              \/ /\ ~Synced(n, k) /\ s.failover_timed
                 /\ IF s.failover_force THEN HandOver(n) ELSE failover_reset(conn, n, s)

-----------------------------------------------------------------------------
(***************************************************************************)
(* A crash and the start that follows: every socket of n closes, a new id, *)
(* the data that had reached the disk, and the role its configuration says.*)
(***************************************************************************)
Crashed(n) ==
  [k \in ConnIds |-> IF conn[k].from = n /\ conn[k].dialled THEN DiallerCloses(conn[k])
                     ELSE IF conn[k].to = n /\ conn[k].accepted THEN AcceptorCloses(conn[k])
                     ELSE conn[k]]

Restart(n) ==
  /\ used.restarts < MaxRestarts /\ used.ids < MaxIds
  /\ \E kept \in 0..Len(node[n].data) :
       LET s == Booted(used.ids + 1, SubSeq(node[n].data, 1, kept))
       IN  IF Boot[n] = Nil
             THEN node' = [node EXCEPT ![n] = s] /\ conn' = Crashed(n)
             ELSE repl_start(Crashed(n), n, s, Boot[n])
  /\ used' = [used EXCEPT !.ids = @ + 1, !.restarts = @ + 1, !.parked = @ - node[n].paused]

-----------------------------------------------------------------------------
ReplicaStep(n) ==
  \/ HandshakeRejected(n) \/ Continue(n) \/ FullResync(n)
  \/ RdbLen(n) \/ RdbLoaded(n) \/ ApplyFrame(n)
  \/ LinkClosed(n) \/ Redial(n)

Next ==
  \/ \E n \in Node :
       \/ ClientWrite(n) \/ ParkedClientLeaves(n) \/ PingReplicas(n)
       \/ ReplicaStep(n) \/ SendAck(n) \/ RdbFails(n) \/ LinkTimesOut(n)
       \/ ReplicaofNoOne(n) \/ FailoverAbort(n) \/ failover_cron(n) \/ Restart(n)
       \/ \E m \in Node : Replicaof(n, m)
       \/ \E r \in Node, force, timed \in BOOLEAN : do_failover(n, r, force, timed)
  \/ \E k \in ConnIds :
       do_psync(k) \/ ReplconfAck(k) \/ AcceptorSeesClose(k) \/ ReplicaDropped(k)

Spec == Init /\ [][Next]_vars

(***************************************************************************)
(* The event loop serves every ready socket and runs repl_cron and         *)
(* failover_cron on every sweep.  Faults, clients and operators owe        *)
(* nothing.                                                                *)
(***************************************************************************)
Fairness ==
  /\ \A n \in Node : WF_vars(ReplicaStep(n)) /\ WF_vars(SendAck(n)) /\ WF_vars(failover_cron(n))
  /\ \A k \in ConnIds :
       WF_vars(do_psync(k)) /\ WF_vars(ReplconfAck(k)) /\ WF_vars(AcceptorSeesClose(k))

FairSpec == Spec /\ Fairness

-----------------------------------------------------------------------------
Request == [type : {"PSYNC"}, id : 0..MaxIds, want : Nat, failover : BOOLEAN]
             \cup [type : {"ACK"}, offset : Nat]
Answer  == [type : {"ERR", "LEN"}]
             \cup [type : {"CONTINUE"}, id : 1..MaxIds]
             \cup [type : {"FULLRESYNC"}, id : 1..MaxIds, hist : Seq(Frame)]
             \cup [type : {"IMAGE"}, data : Seq(Frame)]
             \cup [type : {"FRAME"}, frame : Frame]

(* Types, and that a node's link is a socket it dialled and has not closed. *)
TypeOK ==
  /\ node \in [Node ->
       [replica_mode : BOOLEAN, master_host : Node \cup {Nil},
        repl_state : {"NONE", "HANDSHAKE", "RDB_LEN", "RDB_BODY", "STREAMING"},
        master_link : {NoLink} \cup ConnIds, repl_id : 1..MaxIds, repl_id2 : 0..MaxIds,
        second_repl_offset : Nat, stream : Seq(Frame), histlen : 0..Cap,
        data : Seq(Frame), torn : BOOLEAN,
        failover_state : {"NONE", "WAIT_FOR_SYNC", "IN_PROGRESS"},
        failover_host : Node \cup {Nil}, failover_force : BOOLEAN,
        failover_timed : BOOLEAN, paused : 0..MaxWrites]]
  /\ conn \in [ConnIds ->
       [from : Node \cup {Nil}, to : Node \cup {Nil}, dialled : BOOLEAN, accepted : BOOLEAN,
        up : Seq(Request), down : Seq(Answer), is_replica : BOOLEAN, ack_offset : Nat]]
  /\ \A n \in Node : Link(n) # NoLink => conn[Link(n)].from = n /\ conn[Link(n)].dialled

(* Connections over which a node that is a master feeds a live replica. *)
LiveLinks ==
  {k \in ConnIds : /\ conn[k].is_replica /\ conn[k].accepted
                   /\ conn[k].dialled /\ Link(conn[k].from) = k
                   /\ ~node[conn[k].to].replica_mode}

Queued(k, type) == SelectSeq(conn[k].down, LAMBDA msg : msg.type = type)
InFlight(k) == [i \in DOMAIN Queued(k, "FRAME") |-> Queued(k, "FRAME")[i].frame]

(* The history and the data the replica will have before those frames. *)
HistoryOf(k) ==
  IF Queued(k, "FULLRESYNC") # <<>> THEN Queued(k, "FULLRESYNC")[1].hist
                                    ELSE node[conn[k].from].stream
DataOf(k) ==
  IF Queued(k, "IMAGE") # <<>> THEN Queued(k, "IMAGE")[1].data
                               ELSE node[conn[k].from].data

(***************************************************************************)
(* The replica's offset is its master's ("our offset is the MASTER's",     *)
(* repl_master_data): what it has counted, followed by what is on the      *)
(* wire, is the master's stream, through every partial or full resync.     *)
(***************************************************************************)
LinkExact ==
  \A k \in LiveLinks : HistoryOf(k) \o InFlight(k) = node[conn[k].to].stream

(***************************************************************************)
(* "Both resync paths leave a correct replica": an attached replica's data *)
(* and the writes on the wire are together the master's data set.          *)
(***************************************************************************)
ReplicaCorrect ==
  \A k \in LiveLinks : DataOf(k) \o Writes(InFlight(k)) = node[conn[k].to].data

(***************************************************************************)
(* The same, except where the last full resync of the replica, or of a     *)
(* replica since promoted, was cut short after +FULLRESYNC and before its  *)
(* image was loaded.                                                       *)
(***************************************************************************)
ReplicaCorrectIfWhole ==
  \A k \in LiveLinks :
    \/ node[conn[k].from].torn /\ Queued(k, "IMAGE") = <<>>
    \/ node[conn[k].to].torn
    \/ DataOf(k) \o Writes(InFlight(k)) = node[conn[k].to].data

(***************************************************************************)
(* A replica is in step with its master: the offsets (LinkExact) and the   *)
(* data (ReplicaCorrectIfWhole) both agree with what is on the wire.       *)
(***************************************************************************)
ReplicaInStep == TypeOK /\ LinkExact /\ ReplicaCorrectIfWhole

Agree(s, t, len) == \A i \in 1..len : i <= Len(s) /\ i <= Len(t) => s[i] = t[i]

(***************************************************************************)
(* A replication id names one history: two nodes with the same id never    *)
(* disagree on a frame, and a promoted node agrees with whoever still uses *)
(* the retired id below the promotion boundary.                            *)
(***************************************************************************)
OneHistoryPerId ==
  \A n, m \in Node :
    /\ node[n].repl_id = node[m].repl_id
         => Agree(node[n].stream, node[m].stream, Len(node[n].stream))
    /\ node[n].repl_id2 = node[m].repl_id
         => Agree(node[n].stream, node[m].stream, node[n].second_repl_offset - 1)

(***************************************************************************)
(* What an ACK is worth: every write up to an acknowledged offset is in    *)
(* the replica's data (unless its last full resync was cut short).  WAIT   *)
(* and FAILOVER decide on nothing else.                                    *)
(***************************************************************************)
AckMeansApplied ==
  \A k \in LiveLinks :
    LET m == node[conn[k].to]
        r == node[conn[k].from]
    IN  /\ conn[k].ack_offset <= Len(m.stream)
        /\ ~r.torn => \A i \in 1..conn[k].ack_offset :
                        m.stream[i] # PING => m.stream[i] \in ToSet(r.data)

(* replicas_acked: what WAIT counts, and answers with. *)
replicas_acked(n, offset) ==
  Cardinality({k \in Replicas(conn, n) : conn[k].ack_offset >= offset})

(***************************************************************************)
(* WAIT is documented as "how many replicas have applied everything        *)
(* written so far": its count never exceeds the number of servers that     *)
(* hold the master's data set.                                             *)
(***************************************************************************)
WaitCountsReplicas ==
  \A m \in Node : ~node[m].replica_mode /\ node[m].data # <<>> =>
    replicas_acked(m, Offset(node[m]))
      <= Cardinality({r \in Node \ {m} : IsPrefix(node[m].data, node[r].data)})

TakesWrites(n) == ~node[n].replica_mode /\ node[n].failover_state = "NONE"

(***************************************************************************)
(* A FAILOVER never leaves two servers that run client writes at once.     *)
(***************************************************************************)
OneWriter == \A n, m \in Node : TakesWrites(n) /\ TakesWrites(m) => n = m

(***************************************************************************)
(* A FAILOVER "loses nothing": as long as none was forced, whoever runs    *)
(* writes has every write ever run (unless it was promoted with a resync   *)
(* cut short).                                                             *)
(***************************************************************************)
NothingLost ==
  \A n \in Node : used.forced = 0 /\ TakesWrites(n) /\ ~node[n].torn =>
    node[n].data = [i \in 1..used.writes |-> i]

(***************************************************************************)
(* The hand-over begins only when the target has everything: until it is   *)
(* promoted, its data is that of the demoted master (a resync cut short    *)
(* excepted).  It is stated for histories without FORCE: a forced          *)
(* promotion can leave a master at offset 0, which nobody need acknowledge *)
(* before that master may hand over in its turn.                           *)
(***************************************************************************)
TargetInSync ==
  \A n \in Node :
    LET r == node[n].failover_host
    IN  /\ node[n].failover_state = "IN_PROGRESS" /\ used.forced = 0
        /\ node[r].replica_mode /\ ~node[r].torn /\ ~node[n].torn
        => node[r].data = node[n].data

(***************************************************************************)
(* Once the faults stop, every replica ends up streaming with its master's *)
(* exact history, whatever was cut, retried or restarted before.           *)
(***************************************************************************)
Converges ==
  <>[](\A n \in Node : node[n].replica_mode =>
         /\ node[n].repl_state = "STREAMING"
         /\ node[n].stream = node[node[n].master_host].stream)

(***************************************************************************)
(* A failover that has begun its hand-over ends, so that the writes parked *)
(* for it are answered.                                                    *)
(***************************************************************************)
HandOverEnds ==
  \A n \in Node : node[n].failover_state = "IN_PROGRESS" ~> node[n].failover_state = "NONE"
=============================================================================
