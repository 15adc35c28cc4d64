--------------------------- MODULE MCPersistence ---------------------------
(* Deployments for model checking Persistence: how the server is           *)
(* configured, and how often each input and each fault happens.            *)
EXTENDS Persistence, TLC

With(aof, policy, f) ==
  [aof |-> aof, policy |-> policy,
   limit |-> f @@ [x \in Faults |-> 0]]

\* The AOF with appendfsync everysec: rewrites, fsyncs, power cuts.
Rewrites ==
  With(TRUE, "everysec", [write |-> 2, rewrite |-> 2, fsync |-> 1, child |-> 1,
                          power |-> 1])

\* A rewrite whose server is killed, and its child lives on.
Kills ==
  With(TRUE, "everysec", [write |-> 2, rewrite |-> 1, child |-> 1, kill |-> 2])

\* The AOF with appendfsync always: short writes, crashes.
Errors ==
  With(TRUE, "always", [write |-> 2, resumed |-> 1, short |-> 2, fsync |-> 1,
                        power |-> 1, kill |-> 1])

\* The AOF and dumps together: renames, reopens, CONFIG, kills.
All ==
  With(TRUE, "no", [write |-> 1, rewrite |-> 1, bgsave |-> 1, config |-> 1,
                    rename |-> 1, reopen |-> 1, kill |-> 1])

\* Dumps only: SAVE, BGSAVE and orderly stops.
Stops ==
  With(FALSE, "no", [write |-> 3, save |-> 2, bgsave |-> 2, child |-> 1])

\* A rewrite that outlived its server, and a rewrite by the next one.
Orphans == With(TRUE, "no", [write |-> 1, rewrite |-> 2, kill |-> 1])

AllDeployments ==
  [rewrites |-> Rewrites, kills |-> Kills, errors |-> Errors, all |-> All,
   stops |-> Stops, orphans |-> Orphans]

\* The fairness of Persistence, for the deployment its liveness is checked in.
ErrorsSpec == Spec /\ WF_vars(plan = "errors" /\ Loop)

\* WritesReachLog under short writes: what is buffered when the loop is awake
\* reaches the file, or the server refuses writes.
WritesLand ==
  plan = "errors" /\ srv.phase = "serve" /\ srv.buf # <<>> ~> srv.buf = <<>> \/ srv.err

\* One deployment per finding.
Tick ==
  [tick |-> With(TRUE, "everysec", [write |-> 1, resumed |-> 1, rewrite |-> 1])]

DiskFull ==
  [disk_full |-> With(TRUE, "everysec", [write |-> 1, rewrite |-> 1, short |-> 1])]

Reopen ==
  [reopen |-> With(TRUE, "everysec", [write |-> 1, rewrite |-> 1, reopen |-> 1])]

Orphan == [orphan |-> Orphans]

SaveCrash ==
  [save_crash |-> With(FALSE, "no", [write |-> 2, save |-> 2, power |-> 1])]

TurnOn ==
  [turn_on |-> With(FALSE, "everysec", [write |-> 2, config |-> 1])]

=============================================================================
