---------------------------- MODULE MCReplication ----------------------------
(***************************************************************************)
(* Small deployments of Replication: a master A with one replica B, or     *)
(* with two replicas B and C; and what their operators do.                 *)
(***************************************************************************)
EXTENDS Replication, TLC

CONSTANTS A, B, C

Pair == A :> Nil @@ B :> A
Trio == A :> Nil @@ B :> A @@ C :> A

(* Nobody interferes, without and with a keep-alive. *)
Idle    == {Plan({}, 0, 0)}
Beating == {Plan({}, 0, 1)}

(* One FAILOVER, without and with a keep-alive. *)
Drill        == {Plan({"failover"}, 1, 0)}
BeatingDrill == {Plan({"failover"}, 1, 1)}

(* Roles changed by hand, on either server, or by FAILOVER with its options. *)
ByHand     == Plan({"replicaof", "noone"}, 3, 0)
ByFailover == Plan({"failover", "force", "abort"}, 2, 0)
Roles      == {ByHand, ByFailover}

\* OneWriter where roles change by FAILOVER only: two servers never run client
\* writes at once.
FailoverOneWriter == used.plan = ByFailover => OneWriter

\* NothingLost and TargetInSync where roles change by FAILOVER only: unless one
\* was forced, the server that runs writes has every write ever run, and a
\* hand-over begins only when its target has the data of the demoted master.
FailoverLosesNothing == used.plan = ByFailover => NothingLost /\ TargetInSync
=============================================================================
