---------------------------- MODULE Persistence ----------------------------
(***************************************************************************)
(* One server and its files: the append-only file (AOF) with its buffers,  *)
(* flush, background fsync and rewrite (persistence/aof.cpp, and the event *)
(* loop of server/server.cpp), and the RDB dump with SAVE, BGSAVE and the  *)
(* dirty counters (persistence/rdb.cpp), through kills, power cuts and     *)
(* restarts.                                                               *)
(*                                                                         *)
(* A write command is a number, a dataset the sequence of the writes it    *)
(* holds: a write that is replayed twice, or lost from the middle, shows.  *)
(* A logged frame is two halves, so that a short write() can tear it.      *)
(***************************************************************************)
EXTENDS Integers, Sequences, FiniteSetsExt

CONSTANTS
  Absent,     \* a file that does not exist, a child that was not forked
  Deployments \* the deployments considered, by name

Faults == {"write", "resumed", "rewrite", "save", "bgsave", "config",
           "fsync", "short", "child", "rename", "reopen", "kill", "power"}

\* A deployment: appendonly at the first boot, appendfsync, and how often each
\* input and each fault may happen.
Deployment ==
  [aof : BOOLEAN, policy : {"always", "everysec", "no"}, limit : [Faults -> Nat]]

ASSUME DeploymentsAssumption ==
  \A p \in DOMAIN Deployments : Deployments[p] \in Deployment

VARIABLES
  srv,    \* the memory of the server process and its children
  disk,   \* the files
  ghost,  \* what the properties remember
  used,   \* how much of each limit is spent
  plan    \* the name of the deployment

vars == <<srv, disk, ghost, used, plan>>

Config == Deployments[plan]

-----------------------------------------------------------------------------
(* Frames and files.                                                       *)

Frame(w) == << <<w, 1>>, <<w, 2>> >>

Whole(tail, i) ==
  tail[2*i - 1][2] = 1 /\ tail[2*i] = <<tail[2*i - 1][1], 2>>

\* How many commands the replay loop of aof_load parses before it meets the
\* end of the file, an incomplete frame or a malformed one.
Parsed(tail) ==
  Min({i \in 1..Len(tail) \div 2 + 1 : i > Len(tail) \div 2 \/ ~Whole(tail, i)}) - 1

Replay(tail) == [i \in 1..Parsed(tail) |-> tail[2*i - 1][1]]

\* The dataset a is the first writes of b.
Begins(a, b) == Len(a) <= Len(b) /\ a = SubSeq(b, 1, Len(a))

\* The dataset an AOF loads: its RDB preamble, then its RESP tail.
Loaded(aof) == aof.image \o Replay(aof.tail)

NewAof(image, tail, gen) ==
  [image |-> image, tail |-> tail, synced |-> Len(tail), gen |-> gen]

\* The live AOF after write() took the first k bytes of the buffer.
Appended(aof, k) == [aof EXCEPT !.tail = @ \o SubSeq(srv.buf, 1, k)]

\* How many writes of the dataset have left the buffer.
Flushed(s) == Len(s.db) - (Len(s.buf) + 1) \div 2

Spend(what) ==
  /\ used[what] < Config.limit[what]
  /\ used' = [used EXCEPT ![what] = @ + 1]

-----------------------------------------------------------------------------
(* Boot.                                                                   *)

\* main: the memory of a server that has just loaded `db'.
Booted(db, aofEnable) ==
  [phase |-> "poll", stopping |-> FALSE, db |-> db, buf |-> <<>>,
   delta |-> <<>>, enable |-> aofEnable, err |-> FALSE, open |-> aofEnable,
   dirty |-> 0, dirtyAtSave |-> 0, image |-> <<>>, aofChild |-> Absent,
   rdbChild |-> Absent, job |-> Absent]

Init ==
  /\ plan \in DOMAIN Deployments
  /\ srv = Booted(<<>>, Config.aof)
  /\ disk = [aof |-> IF Config.aof THEN NewAof(<<>>, <<>>, 0) ELSE Absent,
             dump |-> Absent, bak |-> Absent, orphans |-> {},
             temp |-> [file |-> Absent, writers |-> {}, torn |-> FALSE],
             conf |-> Config.aof]
  /\ ghost = [seen |-> <<>>, clean |-> FALSE, safe |-> 0, mark |-> 0,
              saved |-> <<>>, base |-> 0]
  /\ used = [f \in Faults |-> 0]

-----------------------------------------------------------------------------
(* The temporary file of a rewrite.  Its name is fixed, so a child that    *)
(* outlives its server shares it with the children of the next one.        *)

\* A writer whose file lost its name, or took another one, keeps its
\* descriptor.
Moved(writers, from, to) ==
  {IF w.on = from THEN [w EXCEPT !.on = to] ELSE w : w \in writers}

\* unlink(tmp)
Unlinked(t) == [t EXCEPT !.file = Absent, !.writers = Moved(@, "temp", "gone")]

\* rename(tmp, aof_path): a log written by two has their bytes mixed.
Renamed(t) ==
  [file |-> Absent, torn |-> t.file.torn,
   writers |-> Moved(Moved(t.writers, "log", "gone"), "temp", "log")]

-----------------------------------------------------------------------------
(* Commands.                                                               *)

\* poll returns: something happened, or a timer is due.
Wake ==
  /\ srv.phase = "poll"
  /\ srv' = [srv EXCEPT !.phase = "serve"]
  /\ UNCHANGED <<disk, ghost, used>>

\* Mutant: writes are not mirrored into the rewrite's delta.
Propagated_NoDelta(s, w) ==
  IF s.enable THEN [s EXCEPT !.buf = @ \o Frame(w)] ELSE s

\* propagate: one frame to the AOF buffer, and to the rewrite's delta while a
\* rewrite child runs.
Propagated(s, w) ==
  IF ~s.enable THEN s
  ELSE [s EXCEPT !.buf = @ \o Frame(w),
                 !.delta = IF s.aofChild = Absent THEN @ ELSE @ \o Frame(w)]

\* do_request on a command that changes the dataset; refused with MISCONF
\* while the log is in error.
Written ==
  LET w == used.write + used.resumed + 1 IN
  /\ ~(srv.enable /\ srv.err)
  /\ srv' = Propagated([srv EXCEPT !.db = Append(@, w), !.dirty = @ + 1], w)
  /\ UNCHANGED <<disk, ghost>>

Write == srv.phase = "serve" /\ Spend("write") /\ Written

\* wait_try_resume and fo_resume_paused_writes run a released client's
\* commands from process_timers, after this iteration's aof_flush.
ResumedWrite == srv.phase = "timers" /\ Spend("resumed") /\ Written

\* CONFIG SET appendonly: only the flag changes.
ConfigSet ==
  /\ srv.phase = "serve"
  /\ Spend("config")
  /\ srv' = [srv EXCEPT !.enable = ~@]
  /\ UNCHANGED <<disk, ghost>>

\* BGREWRITEAOF, or process_timers when the log has grown enough.
aof_rewrite_background ==
  /\ srv.phase \in {"serve", "timers"}
  /\ srv.enable /\ srv.aofChild = Absent /\ srv.rdbChild = Absent
  /\ Spend("rewrite")
  /\ srv' = [srv EXCEPT !.delta = <<>>,
                        !.aofChild = [image |-> srv.db, state |-> "running"]]
  /\ UNCHANGED <<disk, ghost>>

\* BGSAVE, or process_timers when a save condition is met.
rdb_save_background ==
  /\ srv.phase = "serve" \/ (srv.phase = "timers" /\ srv.dirty > 0)
  /\ srv.rdbChild = Absent
  /\ Spend("bgsave")
  /\ srv' = [srv EXCEPT !.dirtyAtSave = srv.dirty,
                        !.rdbChild = [image |-> srv.db, state |-> "running"]]
  /\ UNCHANGED <<disk, ghost>>

\* fork() failed: only the captured counter is reset.
BgSaveForkFails ==
  /\ srv.phase = "serve" \/ (srv.phase = "timers" /\ srv.dirty > 0)
  /\ srv.rdbChild = Absent
  /\ Spend("child")
  /\ srv' = [srv EXCEPT !.dirtyAtSave = 0]
  /\ UNCHANGED <<disk, ghost>>

-----------------------------------------------------------------------------
(* Saving the dump in the foreground: SAVE, and the save at shutdown.      *)

\* rdb_on_save_complete: the changes since the snapshot stay counted.
rdb_on_save_complete(s) ==
  [s EXCEPT !.dirty = IF @ >= s.dirtyAtSave THEN @ - s.dirtyAtSave ELSE 0,
            !.dirtyAtSave = 0]

Ended(child) == child # Absent /\ child.state # "running"

Completed(child) == child # Absent /\ child.state = "done"

\* Mutant: a failed child counts as a save.
RdbReaped_AnyStatus(s) ==
  IF ~Ended(s.rdbChild) THEN s
  ELSE [rdb_on_save_complete(s) EXCEPT !.rdbChild = Absent]

\* rdb_check_background_save.
RdbReaped(s) ==
  IF ~Ended(s.rdbChild) THEN s
  ELSE [(IF Completed(s.rdbChild) THEN rdb_on_save_complete(s) ELSE s)
          EXCEPT !.rdbChild = Absent]

\* What a reported save leaves for the properties to remember.
Reported(g, image) == [g EXCEPT !.saved = image, !.base = Len(image)]

GhostReaped(g) ==
  IF Completed(srv.rdbChild) THEN Reported(g, srv.rdbChild.image) ELSE g

\* rdb_save up to the closed and synced temporary file.
Saving(s) ==
  [s EXCEPT !.phase = "rotate", !.dirtyAtSave = s.dirty, !.image = s.db]

\* do_save: reap first, refuse while a background save still runs.
do_save ==
  /\ srv.phase = "serve"
  /\ srv.rdbChild = Absent \/ Ended(srv.rdbChild)
  /\ Spend("save")
  /\ srv' = Saving(RdbReaped(srv))
  /\ ghost' = GhostReaped(ghost)
  /\ UNCHANGED disk

\* No process: only the files are left.
Died == [Booted(<<>>, FALSE) EXCEPT !.phase = "down"]

AfterSave(s) ==
  IF s.stopping THEN Died ELSE [s EXCEPT !.phase = "serve", !.image = <<>>]

\* The process that ends leaves its dataset in `seen'.
Exiting(clean) ==
  [ghost EXCEPT !.seen = srv.db, !.clean = clean]

\* The temporary file cannot be written.
SaveFails ==
  /\ srv.phase = "rotate"
  /\ Spend("child")
  /\ srv' = AfterSave([srv EXCEPT !.dirtyAtSave = 0])
  /\ ghost' = IF srv.stopping THEN Exiting(FALSE) ELSE ghost
  /\ UNCHANGED disk

\* rename(filename, bak): the live dump steps aside.
SaveRotates ==
  /\ srv.phase = "rotate"
  /\ srv' = [srv EXCEPT !.phase = "commit"]
  /\ disk' = IF disk.dump = Absent THEN disk
             ELSE [disk EXCEPT !.bak = disk.dump, !.dump = Absent]
  /\ UNCHANGED <<ghost, used>>

\* The second rename() fails: the old dump stays aside.
SaveCommitFails ==
  /\ srv.phase = "commit"
  /\ Spend("rename")
  /\ srv' = AfterSave([srv EXCEPT !.dirtyAtSave = 0])
  /\ ghost' = IF srv.stopping THEN Exiting(FALSE) ELSE ghost
  /\ UNCHANGED disk

\* rename(tmp, filename), then the counters.
SaveCommits ==
  /\ srv.phase = "commit"
  /\ srv' = AfterSave(rdb_on_save_complete(srv))
  /\ disk' = [disk EXCEPT !.dump = srv.image]
  /\ ghost' = Reported(IF srv.stopping THEN Exiting(srv.buf = <<>>) ELSE ghost,
                       srv.image)
  /\ UNCHANGED used

-----------------------------------------------------------------------------
(* The event loop after the sockets: aof_flush, process_timers, the reaps. *)

\* aof_flush: all of the buffer, or the k bytes the disk took.  With
\* appendfsync always, and at shutdown, the loop then calls fdatasync itself.
aof_flush(k, next) ==
  LET wrote == srv.open /\ k > 0
      synced == srv.open /\ (next = "stopped" \/ (wrote /\ Config.policy = "always"))
      aof == IF wrote THEN Appended(disk.aof, k) ELSE disk.aof IN
  /\ srv' = [srv EXCEPT !.phase = next,
                        !.buf = IF srv.open THEN SubSeq(@, k + 1, Len(@)) ELSE @,
                        !.err = IF srv.open /\ srv.buf # <<>>
                                THEN k < Len(srv.buf) ELSE @,
                        !.stopping = next = "stopped"]
  /\ \/ /\ disk' = [disk EXCEPT !.aof =
                       IF synced THEN [aof EXCEPT !.synced = Len(aof.tail)]
                       ELSE aof]
        /\ ghost' = IF synced THEN [ghost EXCEPT !.safe = Flushed(srv')]
                    ELSE ghost
        /\ IF k < Len(srv.buf) /\ srv.open THEN Spend("short")
           ELSE UNCHANGED used
     \/ /\ synced /\ k = Len(srv.buf)
        /\ Spend("fsync")
        /\ disk' = [disk EXCEPT !.aof = aof]
        /\ UNCHANGED ghost

\* Mutant: a buffer of one command waits for more.
Flush_WhenLarge ==
  /\ srv.phase = "serve"
  /\ \/ Len(srv.buf) <= 2 /\ srv' = [srv EXCEPT !.phase = "timers"]
                          /\ UNCHANGED <<disk, ghost, used>>
     \/ Len(srv.buf) > 2 /\ \E k \in 0..Len(srv.buf) : aof_flush(k, "timers")

Flush ==
  /\ srv.phase = "serve"
  /\ \E k \in 0..Len(srv.buf) : aof_flush(k, "timers")

\* everysec: one fdatasync at a time goes to the thread pool.
QueueFsync ==
  /\ srv.phase = "timers"
  /\ srv.enable /\ Config.policy = "everysec" /\ srv.job = Absent
  /\ srv' = [srv EXCEPT !.job = [state |-> "queued"]]
  /\ ghost' = [ghost EXCEPT !.mark = Flushed(srv)]
  /\ UNCHANGED <<disk, used>>

\* aof_fsync_job, on a worker: read the descriptor ...
FsyncStarts ==
  /\ srv.job # Absent /\ srv.job.state = "queued"
  /\ srv' = [srv EXCEPT !.job =
       IF ~srv.open THEN Absent
       ELSE [state |-> "syncing", gen |-> disk.aof.gen,
             len |-> Len(disk.aof.tail)]]
  /\ UNCHANGED <<disk, ghost, used>>

\* ... and sync it.  The loop may have closed it meanwhile: then the call
\* does nothing for the live file.  A failure is not looked at.
FsyncEnds ==
  /\ srv.job # Absent /\ srv.job.state = "syncing"
  /\ srv' = [srv EXCEPT !.job = Absent]
  /\ \/ /\ disk' = IF disk.aof.gen # srv.job.gen THEN disk
                    ELSE [disk EXCEPT !.aof.synced = Max({@, srv.job.len})]
        /\ ghost' = [ghost EXCEPT !.safe = Max({@, ghost.mark})]
        /\ UNCHANGED used
     \/ Spend("fsync") /\ UNCHANGED <<disk, ghost>>

\* The rewrite is over, however it ended.
Dropped(s) == [s EXCEPT !.delta = <<>>, !.aofChild = Absent]

Gen == IF disk.aof = Absent THEN 0 ELSE disk.aof.gen

\* Mutant: the new file is renamed without fsync.
Swapped_NotSynced ==
  [NewAof(disk.temp.file.image, srv.delta, Gen + 1) EXCEPT !.synced = 0]

Swapped == NewAof(disk.temp.file.image, srv.delta, Gen + 1)

\* aof_rewrite_reap on the server memory s: append the delta, sync, rename,
\* reopen; any failure before the rename keeps the old file.
aof_rewrite_reap(s) ==
  \/ /\ srv.aofChild.state = "failed" \/ disk.temp.file = Absent
     /\ srv' = Dropped(s)
     /\ disk' = [disk EXCEPT !.temp = Unlinked(@)]
     /\ UNCHANGED used
  \/ /\ srv.aofChild.state = "done" /\ disk.temp.file # Absent
     /\ srv' = [Dropped(s) EXCEPT !.open = TRUE]
     /\ disk' = [disk EXCEPT !.aof = Swapped, !.temp = Renamed(@)]
     /\ UNCHANGED used
  \/ /\ srv.aofChild.state = "done"
     /\ Spend("child")
     /\ srv' = Dropped(s)
     /\ disk' = [disk EXCEPT !.temp = Unlinked(@)]
  \/ /\ srv.aofChild.state = "done" /\ disk.temp.file # Absent
     /\ Spend("reopen")
     /\ srv' = [Dropped(s) EXCEPT !.open = FALSE]
     /\ disk' = [disk EXCEPT !.aof = Swapped, !.temp = Renamed(@)]

\* rdb_check_background_save, then aof_check_background_rewrite; then the loop
\* sleeps in poll.
EndTick ==
  LET s == [RdbReaped(srv) EXCEPT !.phase = "poll"] IN
  /\ srv.phase = "timers"
  /\ ghost' = GhostReaped(ghost)
  /\ IF Ended(srv.aofChild) THEN aof_rewrite_reap(s)
     ELSE srv' = s /\ UNCHANGED <<disk, used>>

-----------------------------------------------------------------------------
(* The forked children.                                                    *)

\* aof_write_snapshot: truncate the temporary file, write and sync it; the
\* parent finalises.  A child that fails unlinks the file.
AofChildEnds ==
  /\ srv.aofChild # Absent /\ ~Ended(srv.aofChild)
  /\ \/ /\ srv' = [srv EXCEPT !.aofChild.state = "done"]
        /\ disk' = [disk EXCEPT !.temp.file = [image |-> srv.aofChild.image, torn |-> FALSE]]
        /\ UNCHANGED used
     \/ /\ Spend("child")
        /\ srv' = [srv EXCEPT !.aofChild.state = "failed"]
        /\ disk' = [disk EXCEPT !.temp = Unlinked(@)]
  /\ UNCHANGED ghost

\* rdb_write_snapshot: the child itself renames over the dump.
RdbChildEnds ==
  /\ srv.rdbChild # Absent /\ ~Ended(srv.rdbChild)
  /\ \/ /\ srv' = [srv EXCEPT !.rdbChild.state = "done"]
        /\ disk' = [disk EXCEPT !.dump = srv.rdbChild.image]
        /\ UNCHANGED used
     \/ /\ Spend("child")
        /\ srv' = [srv EXCEPT !.rdbChild.state = "failed"]
        /\ UNCHANGED disk
  /\ UNCHANGED ghost

\* ... also when the parent has died.
OrphanEnds ==
  /\ \E image \in disk.orphans :
       disk' = [disk EXCEPT !.dump = image, !.orphans = @ \ {image}]
  /\ UNCHANGED <<srv, ghost, used>>

\* aof_write_snapshot in a child whose parent has died: open(tmp, O_TRUNC),
\* which another child may have written ...
RewriterOpens ==
  /\ \E w \in disk.temp.writers :
       /\ w.on = "none"
       /\ disk' = [disk EXCEPT
            !.temp.file = [image |-> <<>>, torn |-> TRUE],
            !.temp.writers = (@ \ {w}) \cup {[w EXCEPT !.on = "temp"]}]
  /\ UNCHANGED <<srv, ghost, used>>

\* ... write() at its own offset, over what else is in the file: in the log the
\* bytes hit the preamble, whose CRC then fails, or a frame of the tail ...
RewriterWrites ==
  /\ \E w \in disk.temp.writers :
       \/ /\ w.on = "temp" /\ disk.temp.file # Absent
          /\ disk' = [disk EXCEPT !.temp.file.torn = TRUE]
       \/ /\ w.on = "log" /\ disk.aof # Absent
          /\ \/ disk' = [disk EXCEPT !.temp.torn = TRUE]
             \/ \E i \in DOMAIN disk.aof.tail :
                  disk' = [disk EXCEPT !.aof.tail[i] = <<0, 2>>]
  /\ UNCHANGED <<srv, ghost, used>>

\* ... and end, with the whole image in the file, with nothing more written, or
\* in an error, after which it unlinks the name whoever's file has it.
RewriterEnds ==
  /\ \E w \in disk.temp.writers :
       LET t == [disk.temp EXCEPT !.writers = @ \ {w}] IN
       \/ disk' = [disk EXCEPT !.temp = t] /\ UNCHANGED used
       \/ /\ w.on = "temp"
          /\ disk' = [disk EXCEPT !.temp = [t EXCEPT !.file = [image |-> w.image, torn |-> FALSE]]]
          /\ UNCHANGED used
       \/ Spend("child") /\ disk' = [disk EXCEPT !.temp = Unlinked(t)]
  /\ UNCHANGED <<srv, ghost>>

-----------------------------------------------------------------------------
(* Stopping, dying, restarting.                                            *)

\* SIGTERM, which the loop sees before it sleeps or when it interrupts poll: the
\* pool drains its jobs, then the last flush and sync.
Shutdown ==
  /\ srv.phase = "poll" /\ srv.job = Absent
  /\ \E k \in 0..Len(srv.buf) : aof_flush(k, "stopped")

\* Mutant: the shutdown does not wait for the child that saves the dump.
StopReaps_NoWait ==
  /\ srv.phase = "stopped"
  /\ srv.aofChild = Absent
  /\ srv' = Saving([srv EXCEPT !.rdbChild = Absent])
  /\ disk' = IF srv.rdbChild = Absent \/ Ended(srv.rdbChild) THEN disk
             ELSE [disk EXCEPT !.orphans = @ \cup {srv.rdbChild.image}]
  /\ UNCHANGED <<ghost, used>>

\* aof_rewrite_wait_shutdown, the wait for the dump's child, the last rdb_save.
StopReaps ==
  LET s == Saving([srv EXCEPT !.rdbChild = Absent]) IN
  /\ srv.phase = "stopped"
  /\ srv.rdbChild = Absent \/ Ended(srv.rdbChild)
  /\ \/ /\ srv.aofChild = Absent
        /\ srv' = s
        /\ UNCHANGED <<disk, used>>
     \/ Ended(srv.aofChild) /\ aof_rewrite_reap(s)
  /\ UNCHANGED ghost

\* What a write() that was under way has put in the file.
InFlight == IF srv.open /\ srv.phase \in {"poll", "serve"} THEN 0..Len(srv.buf) ELSE {0}

Runs(child) == child # Absent /\ ~Ended(child)

\* The process is killed; the kernel keeps what was written, and a child that
\* was saving the dump or rewriting the log lives on.
Kill ==
  /\ srv.phase # "down"
  /\ Spend("kill")
  /\ srv' = Died
  /\ ghost' = Exiting(FALSE)
  /\ \E k \in InFlight :
       disk' = [disk EXCEPT
         !.aof = IF @ = Absent THEN @ ELSE Appended(@, k),
         !.orphans = IF Runs(srv.rdbChild) THEN @ \cup {srv.rdbChild.image} ELSE @,
         !.temp.writers = IF Runs(srv.aofChild)
                          THEN @ \cup {[image |-> srv.aofChild.image, on |-> "none"]} ELSE @]

\* The machine stops: of the AOF only what was synced is sure to be there.
PowerCut ==
  /\ srv.phase # "down"
  /\ Spend("power")
  /\ srv' = Died
  /\ ghost' = Exiting(FALSE)
  /\ IF disk.aof = Absent THEN disk' = [disk EXCEPT !.orphans = {}, !.temp.writers = {}]
     ELSE \E k \in InFlight :
            LET aof == Appended(disk.aof, k) IN
            \E n \in aof.synced..Len(aof.tail) :
              disk' = [disk EXCEPT !.aof = [aof EXCEPT !.tail = SubSeq(@, 1, n)],
                                   !.orphans = {}, !.temp.writers = {}]

\* The operator edits appendonly in the configuration file.
EditConfig ==
  /\ srv.phase = "down"
  /\ Spend("config")
  /\ disk' = [disk EXCEPT !.conf = ~@]
  /\ UNCHANGED <<srv, ghost>>

\* aof_load cuts the file after the last command it could parse.
Trimmed(aof) ==
  LET good == 2 * Parsed(aof.tail) IN
  [aof EXCEPT !.tail = SubSeq(@, 1, good), !.synced = Min({@, good})]

\* main: the AOF before the dump, the dump only if it is there, else nothing;
\* then the AOF is opened, and created if need be.
Restart ==
  /\ srv.phase = "down"
  /\ disk.conf => ~disk.temp.torn
  /\ srv' = Booted(IF disk.conf /\ disk.aof # Absent THEN Loaded(disk.aof)
                   ELSE IF disk.dump # Absent THEN disk.dump
                   ELSE <<>>, disk.conf)
  /\ disk' = IF ~disk.conf THEN disk
             ELSE [disk EXCEPT !.aof = IF @ = Absent THEN NewAof(<<>>, <<>>, 0)
                                       ELSE Trimmed(@)]
  /\ ghost' = [ghost EXCEPT !.base = Len(srv'.db)]
  /\ UNCHANGED used

\* A log whose preamble is damaged: "refusing to serve partial data".
BootFails ==
  /\ srv.phase = "down"
  /\ disk.conf /\ disk.temp.torn
  /\ UNCHANGED <<srv, disk, ghost, used>>

Step ==
  \/ Wake \/ Write \/ ResumedWrite \/ ConfigSet
  \/ aof_rewrite_background \/ rdb_save_background \/ BgSaveForkFails
  \/ do_save \/ SaveFails \/ SaveRotates \/ SaveCommitFails \/ SaveCommits
  \/ Flush \/ QueueFsync \/ FsyncStarts \/ FsyncEnds \/ EndTick
  \/ AofChildEnds \/ RdbChildEnds \/ OrphanEnds
  \/ RewriterOpens \/ RewriterWrites \/ RewriterEnds
  \/ Shutdown \/ StopReaps \/ Kill \/ PowerCut \/ EditConfig \/ Restart \/ BootFails

Next == Step /\ UNCHANGED plan

Spec == Init /\ [][Next]_vars

\* The event loop is one thread: once awake it comes to aof_flush and back to
\* poll, and a SAVE it is in comes to its end.  Nothing promises that poll
\* returns.
Loop ==
  /\ Flush \/ EndTick \/ SaveRotates \/ SaveCommits
  /\ UNCHANGED plan

FairSpec == Spec /\ WF_vars(Loop)

-----------------------------------------------------------------------------
(* Properties.                                                             *)

Data == Seq(Nat)

Bytes == Seq(Nat \X {1, 2})

Child == [image : Data, state : {"running", "done", "failed"}]

Job == [state : {"queued"}] \cup [state : {"syncing"}, gen : Nat, len : Nat]

Memory ==
  [phase : {"poll", "serve", "timers", "rotate", "commit", "stopped", "down"},
   stopping : BOOLEAN, db : Data, buf : Bytes, delta : Bytes,
   enable : BOOLEAN, err : BOOLEAN, open : BOOLEAN,
   dirty : Nat, dirtyAtSave : Nat, image : Data,
   aofChild : Child \cup {Absent}, rdbChild : Child \cup {Absent},
   job : Job \cup {Absent}]

AofFile == [image : Data, tail : Bytes, synced : Nat, gen : Nat]

Writer == [image : Data, on : {"none", "temp", "log", "gone"}]

Temp ==
  [file : [image : Data, torn : BOOLEAN] \cup {Absent}, writers : SUBSET Writer,
   torn : BOOLEAN]

Files ==
  [aof : AofFile \cup {Absent}, dump : Data \cup {Absent},
   bak : Data \cup {Absent}, orphans : SUBSET Data, temp : Temp, conf : BOOLEAN]

\* A missing file is no file, and a child that was not forked no child.
ASSUME AbsentAssumption ==
  /\ Absent \notin AofFile /\ Absent \notin Child /\ Absent \notin Job
  /\ Absent \notin Data /\ Absent \notin [image : Data, torn : BOOLEAN]

Ghosts ==
  [seen : Data, clean : BOOLEAN, safe : Int, mark : Int, saved : Data,
   base : Nat]

\* The shapes of the state; the delta exists only while a rewrite child does
\* (aof_rewrite_reap clears it), and a descriptor in use has its file.
TypeOK ==
  /\ srv \in Memory /\ disk \in Files /\ ghost \in Ghosts
  /\ used \in [Faults -> Nat]
  /\ srv.delta # <<>> => srv.aofChild # Absent
  /\ srv.open \/ (srv.job # Absent /\ srv.job.state = "syncing") =>
       disk.aof # Absent

\* The log is the data: what is in the file, followed by what aof_flush still
\* has to write, replays to exactly the dataset in memory, through the swap
\* of a rewrite too (propagate, aof_flush, aof_rewrite_reap).
LogIsData ==
  srv.enable /\ srv.open =>
    Loaded([disk.aof EXCEPT !.tail = @ \o srv.buf]) = srv.db

\* The deployments in which the log can be relied on: the AOF is on and stays
\* on, and either nothing rewrites it, or each write() takes the whole buffer,
\* no command runs between the flush and the reap of the rewrite, the new file
\* can be reopened, and no server rewrites its log while a rewrite that it
\* inherited may still run: there are no kills, or there is one rewrite.
LogSound ==
  /\ Config.aof /\ Config.limit["config"] = 0
  /\ \/ Config.limit["rewrite"] = 0
     \/ /\ \A f \in {"short", "resumed", "reopen"} : Config.limit[f] = 0
        /\ Config.limit["kill"] = 0 \/ Config.limit["rewrite"] = 1

\* The deployments in which the dump can: no AOF, orderly stops only, and
\* rename() does not fail.
DumpSound ==
  /\ ~Config.aof
  /\ \A f \in {"config", "kill", "power", "rename"} : Config.limit[f] = 0

\* The log can be loaded: its preamble is one child's, whole.
LogLoads == ~disk.temp.torn

\* Both where the log is sound: it can be loaded and replays to the dataset,
\* through rewrites, orphaned ones too, or through short writes (aof_flush,
\* aof_rewrite_reap, aof_write_snapshot).
LogReplays == LogSound => LogLoads /\ LogIsData

CrashStep ==
  Restart /\ disk.conf => /\ Begins(srv'.db, ghost.seen)
                          /\ Len(srv'.db) >= ghost.safe

\* A restart from the AOF loses only a suffix of the writes, and nothing that
\* an fdatasync had covered, whichever file the fsync job met (aof_load,
\* aof_fsync_job, aof_rewrite_reap).
SyncedSurvives == [][LogSound => CrashStep]_vars

ShutdownStep == Restart /\ ghost.clean => srv'.db = ghost.seen

\* A server that was shut down in order starts again with the data it had
\* (main after the loop, main's choice of the file to load).
ShutdownKeepsAll == [][ShutdownStep]_vars

SavedStep == Restart /\ ~disk.conf => Begins(ghost.saved, srv'.db)

\* What a SAVE or a BGSAVE reported as saved is there after a restart that
\* loads the dump (rdb_save, rdb_write_snapshot, main).
SavedSurvives == [][SavedStep]_vars

\* Both where the log or the dump is sound: an orderly stop loses nothing, and
\* what was reported saved is loaded again.
StopKeepsAll ==
  [][/\ LogSound \/ DumpSound => ShutdownStep
     /\ DumpSound => SavedStep]_vars

\* g_writes_since_save counts exactly the changes that the newest completed
\* save, or the boot, does not hold, however writes and saves interleave
\* (rdb_save_background, rdb_on_save_complete, do_save).
DirtyExact ==
  srv.phase # "down" => srv.dirty = Len(srv.db) - ghost.base

\* Once the loop is awake, what is in the buffer reaches the file, or the server
\* goes into the state in which it refuses writes, before it sleeps again
\* (aof_flush, g_aof_write_err).  Bytes that a timer leaves behind wait for the
\* next event.
WritesReachLog ==
  srv.phase = "serve" /\ srv.buf # <<>> ~> srv.buf = <<>> \/ srv.err

=============================================================================
