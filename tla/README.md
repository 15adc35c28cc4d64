# A TLA+ model of MYRED

MYRED is a Redis-like server in C++: one event-loop thread, a small thread
pool, forked children for snapshots, an append-only file (AOF), RDB dumps,
master/replica replication with partial resync, coordinated failover,
transactions with optimistic locking, and five data types with deadlines and
eviction.  The modules here are translated from the code under `src/src/`.  They
are model-checked with TLC on small instances, and what matters most is proved
with TLAPS for every value of the constants.

Contents: [the system](#the-system-and-its-parts),
[modules](#modules-and-how-they-follow-the-code), [runs](#runs),
[what is proved](#what-is-proved), [findings](#findings),
[limits](#what-is-only-model-checked-and-what-is-not-modelled),
[plan](#plan).

## The system and its parts

| Part | State | Operations | Modules |
|---|---|---|---|
| Event loop, timers (`server.cpp`) | connections, three timer lists, every deadline | accept, read, answer, close, `process_timers`, `evict_tick`, the reaps, `next_timer_ms` | EventLoop |
| Client sessions (`server.cpp`, `commands.cpp`) | pipelined requests, deferred replies, users, channels | AUTH and HELLO on workers, WAIT, parked writes, pub/sub, closing | Sessions |
| Protocol and buffers (`protocol/`) | bytes | `buf_append`, `buf_consume`, `parse_resp_request`, `aof_encode`, `try_one_request` | Wire |
| Keyspace (`state.cpp`, `commands.cpp`) | entries, deadline heap, `used_memory` | string and generic commands, lazy and active expiry, eviction, what is logged | Keyspace, Heap, TTLHeap |
| Lists (`ds/deque`) | ring of strings | every list command | Deque, Lists, ListSpec |
| Hashes, sets (`ds/hashtable`, `types/`) | two tables and a rehash position | every hash and set command, SCAN | HashTable, Hashes, HashSpec, Sets, SetSpec |
| Sorted sets (`ds/avl`, `types/zset`) | tree with heights and counts, name index | every sorted-set command | AVL, ZSets, ZSetSpec |
| Transactions (`commands.cpp`) | queue, poison mark, watches, registry | MULTI, EXEC, DISCARD, WATCH, UNWATCH | Transactions |
| AOF and RDB (`aof.cpp`, `rdb.cpp`) | buffer, delta, files, children, fsync job, dirty counters | propagate, flush, fsync, rewrite, SAVE, BGSAVE, reap, load, start, stop | Persistence |
| Replication backlog (`state.cpp`) | ring, cursor, history length, offset | feed, copy, reset on a full resync | ReplBacklog |
| Replication and failover (`server.cpp`, `commands.cpp`) | roles, links, ids, offsets, acknowledgements, the hand-over | PSYNC, REPLCONF ACK, REPLICAOF, FAILOVER, keep-alives, time-outs, redial | Replication |

How they interact: the event loop calls everything else.  `do_request` runs a
command, marks watches, and hands the frame to the AOF buffer, the delta of a
running rewrite, the backlog and every replica.  Forked children work on a
snapshot while writes go on; workers verify passwords and sync the log while the
loop goes on.

The behaviours that are hard to test here: two servers and the sockets between
them interleave freely, and either end may close without the other knowing;
promotion renames a history that others still use; an fsync runs on a worker
while the loop replaces the file; a write to disk stops in the middle of a frame;
the process or the machine stops between any two steps; a reply comes due for a
connection that was closed and whose descriptor another client now has; a table
is read while it is rehashed and a scan goes on while it is resized.
`PROJECT.json` lists these hazards with the line where each bites and the
properties that cover it.

## Modules and how they follow the code

Definitions carry the name of the function they translate where TLA+ allows it;
`PROJECT.json` maps every one to its lines.  A definition whose comment begins
with *Mutant* is a deliberately wrong variant of the one behind it, used only to
confirm that a property can fail.  The single-threaded parts are operators that
take a state and return the next one, composed within one action as the code
composes its functions; actions are separate where the code yields.

**ReplBacklog.**  The ring of `repl_backlog_feed` and `repl_backlog_copy`, byte by
byte: two-part copies, feeds longer than the ring, the cursor modulo the
capacity, the reset when a replica adopts its master's offset.  `stream` is a
history variable, the bytes since the last adoption.

**Replication.**  Several servers (`node`) and the sockets between them (`conn`).
A socket has two ends that close on their own, a queue in each direction, and on
the accepting side the replica flag and acknowledged offset of `Conn`.  The
replica's read path (`repl_master_data`) is one action per message and phase;
`do_psync` is one action, promotion included, because the code does not yield
inside it.  `repl_cron` is split into its independent parts, since each has its
own clock.  `failover_reset` releases the parked writes inside the action that
calls it.  A `Plan` says which commands the operators give, how many, and how many
keep-alives fire.  A frame stands for its bytes (every offset the program
computes is a frame boundary); a data set is the sequence of writes it absorbed;
the ring is its length, which ReplBacklog justifies; time-outs may happen at any
moment, within a bound.  `stream` (the frames an offset counts) and `torn` (a
full resync is under way or was cut short) are history variables.

**Transactions.**  One master, any number of clients and keys.  A write names
keys, may evict others first, and changes some of those it names (`Effects`); if
it moved the change counter, `do_request` touches every key it names, changed or
not, so marking is conservative.  FLUSHALL touches every watcher.  An EXEC in
progress excludes every other request, and its batch runs one command at a time.
`changed`, `named` (the watched keys that were evicted, flushed or named by a
write that took effect), `leftover` and `intruded` are history variables.  Expiry is not a change of a watched key, by the project's
own decision (DECISIONS.md).

**Persistence.**  One server with its files.  `plan` names the deployment a
behaviour is about: whether the AOF is on, the fsync policy, and how often each
input and each fault may happen.  `srv` is the memory of the process,
its two children and the fsync job; `disk` is the AOF (preamble image, tail, how
much is synced), the dump, its `.bak`, saving children that outlived their parent,
the temporary file of a rewrite with the orphaned rewriters that have it open, and
the configuration.  `srv.phase` is the place in the event loop, `poll` being its
sleep; `rotate` and `commit` are the two renames of a foreground save, separate
because a crash can fall between them.  The temporary file has one fixed name
(`aof_path` + `.tmp`), so a rewriter whose server was killed shares it with the
next server's: it truncates, writes and unlinks whatever has the name, and keeps
writing through its descriptor after a rename (`disk.temp`).  A log whose preamble
was damaged that way is refused at the next start (`BootFails`).  A logged frame is two halves so that a short `write()` can
tear it, and replay parses the halves as `aof_load` does.  The fsync job reads
the descriptor in one step and syncs in another.  `ghost` holds what properties
remember: the data of the last process, what fdatasync covered, what was reported
as saved.

**Keyspace, Heap, TTLHeap.**  A master and a copy of it (a replica, or the replay
of the log: both run logged commands with `g_loading` set).  A node is its
entries, the deadline heap with back pointers, and `used_memory`.  The commands
are functions from a node, a command and the time to a node; what each logs goes
into `link`.  A string is a number that is both its size and its value for INCR.
TTLHeap drives the heap alone, with the six entries needed before a deletion moves
an item up.

**HashTable, Hashes, Sets.**  Chains, two tables, migration in steps of
`RehashWork`, the reverse-binary scan cursor.  Names hash to their number, so
that collisions are chosen.  A client may be in the middle of an HSCAN.

**AVL, ZSets.**  Nodes with parent, child links, heights and counts; rotations and
deletions as in the code; ranks by climbing.

**Deque, Lists.**  The ring of strings with buffers that have capacities, growth,
shrinking, gaps opened and closed.

**Wire.**  The buffer with `begin`, `end` and its capacity, bytes that arrive in
pieces of any size, both request forms, the limits, the three outcomes of the
parser.

**Sessions.**  Connections named by identity, as raw `Conn` pointers name objects
and not descriptors; following one that was freed sets `freed`.  The server is
one record and the functions are operators on it; the workers are the only
concurrency.

**EventLoop.**  One turn per action: poll returns for one event or a deadline, the
handler runs, then the whole sweep.  The timer lists are intrusive doubly linked
lists.  The sweep has every duty of `process_timers`, the sync and the automatic
rewrite of the log included; every write is taken to make the log large enough
for a rewrite.  Time passes in poll, and also while the loop spins because poll
has no time to wait.  A child's exit is what `waitpid` finds at the end of a turn.
Commands are abstracted to what they do to the deadlines.  One event per
turn is handled; dialling fails only when no descriptor is free; WAIT is for one
replica; time-outs are positive (0 turns them off in the code).

ListSpec, HashSpec, SetSpec and ZSetSpec are the abstract specifications: a
sequence, a function, sets, a sorted sequence.  The detailed modules carry the
refinement mapping (`Abstract`), and their refinement is a PROPERTY of the runs.

## Runs

Every constant that starts with `Max`, the `Plans`, the menus and command sets,
and every entry of a deployment's `limit` is a bound on the environment (clients, operators,
faults), never on the program.  Constants of the program that are large in the
code (table sizes, batch sizes, buffer sizes, time-outs) are small here.

| Run | Instance | Distinct states | Shows |
|---|---|---|---|
| `structures` | ring of 3 bytes and feeds of 0 to 5; lists of up to 5 over rings of 2, 4, 8; 5 members with 3 scores; 6 deadlines; requests cut at every byte | 33 thousand | each structure is sound and answers as its specification |
| `tables` | tables from 2 slots on, one node moved per call; 4 fields, 2 sets with 3 members, one scan | 26 thousand | the same at every point of a rehash; a scan misses nothing that stayed |
| `keyspace` | 3 keys, two values, 2 ticks, memory limits 0 and 1, four policies | 190 thousand | books exact, the copy equal, refusals justified, expired keys go, evictions end unless clients keep writing more |
| `sessions` | 2 descriptors, 3 connections, 3 requests, 2 workers, one user that is deleted and made again | 503 thousand | order of replies, nobody stranded, no dangling pointer, identity, AUTH and timed WAIT are answered, no write stays parked after a failover |
| `event_loop` | 3 connections, 5 ticks, 3 events, a log with everysec; started fresh, as master with a client and a replica, and as replica | 459 thousand | lists exact and sorted, poll oversleeps nothing but the two duties of the log, silence ends |
| `repl_resync` | master and replica, ring of 2 frames, 2 writes, a keep-alive, 2 link faults or bad images, a crash, fairness | 411 thousand | stream and data in step, an acknowledgement means applied, convergence |
| `repl_roles` | two servers, 3 REPLICAOF by hand or 2 of FAILOVER, FORCE, ABORT; 2 writes, a link fault | 1.5 million | histories not confused; FAILOVER leaves one writer and loses nothing unless forced |
| `transactions` | 2 clients, 2 keys, queues of one command, symmetric | 563 thousand | registry exact, no change unmarked and no mark without a cause, queues kept apart; the guard of EXEC |
| `durability` | six deployments: rewrites with fsyncs and power cuts; rewrites whose server is killed; short writes under `always`; AOF and dumps with failing renames and reopens; dumps alone; a rewrite beside an orphaned one | 1.5 million | the log replays to the data, synced writes survive, stops lose nothing, writes land, the dirty counter is exact |

The bounds are enough for the cases the properties are about.  The ring of 2
frames is smaller than the 3 frames that are sent, so that a gap inside the ring
and one beyond it occur; three sockets let a half-open old link exist beside a
new one and one of the opposite direction; two rewrites let the log that a first
one produced be replaced again; two short writes let a frame be torn, completed
and torn again; names 0 and 4 share a slot in every table of at most four slots,
and the third insertion starts a rehash; five members give every rotation and a
deletion with two children; three identities on two descriptors let a descriptor
be reused while work for its first owner is under way.  In `keyspace`, the policy
allkeys-random has an MSET of three keys among its commands: a batch of one
victim cannot undo it, so clients that repeat it keep an eviction pending for ever
(`evict_pending ~> ~evict_pending` fails there), which `EvictionEnds` allows for;
the other policies have two keys.

Deadlock is checked in `structures`, `tables`, `transactions` and `durability`.
In the others the system legitimately comes to rest when the bounds are used up.

Three more runs, marked `violation` in `PROJECT.json`, each show one disagreement
between the code and what a comment or a document says of it: `repl_cut_resync`,
`persist_save_crash` and `keyspace_replay`; see [Findings](#findings).

### Fairness

*Replication* (`FairSpec`): weak fairness of each replica's steps, of
acknowledgements, of `failover_cron` and of the handlers of every socket.  The
event loop serves every ready socket and calls `repl_cron` and `failover_cron` on
every pass, and `next_timer_ms` bounds how long it sleeps (which `event_loop`
checks).  Nothing is assumed of clients, operators, time-outs or faults.

*Persistence*: weak fairness of the loop once it is awake (flush, reaps, the steps
of a save), since it then waits for nobody.  Nothing promises that poll returns:
what a timer or an eviction writes behind the flush may stay in the buffer until
the next event, so `WritesLand` is about what is buffered while the loop is awake.
A child need not end.

*Keyspace*: weak fairness of `evict_tick` and of the expiry in `process_timers`,
which the loop calls on every pass.

*Sessions*: queued jobs are taken up by free workers, a verification ends, posted
completions are handled, and a WAIT's clock runs on: the thread pool, the loop and
time.  A failover need not end, since without TIMEOUT it has no deadline (and see
`HandOverEnds` under Findings); so `AnswersCome` promises nothing to a parked
write or a WAIT without time-out, and `NoneStranded` says that no write is parked
once the failover is over.

## What is proved

Assumptions: the sizes and bounds are natural numbers, the marker values
(`Absent`, `Idle`, `Nothing`) are not ordinary values, and the configurations are
well formed.  TLC evaluates them in the runs.

**ReplBacklogProofs**, for every capacity (0 included), every byte set and every
feed length.  `CopyIsNewest` is not inductive, as it only speaks of what a copy
returns.  `RingInv` says which slot holds which byte: the byte `k` places behind
the cursor is the `k`-th newest of the stream, for every `k` up to the history
length.  The feed step needs the cursor arithmetic modulo the capacity
(`CursorFed`): a slot behind the new cursor was either just written, in the first
or the wrapped part, or keeps its place relative to the old cursor.  From
`RingInv` follow `BacklogServesNewest` and `BacklogForgetsNothingEarly`.

**TransactionsProofs**, for any clients, keys and queue length.  The invariant
`Inv` joins the two-way agreement of registry and connections, that a changed
watched key leaves its watcher marked and that a mark has a cause, the ownership
of queues by open transactions, and that a closed connection watches nothing.  The
marking needs the agreement in both directions: a touch goes by the registry, a
change and a cause by what the client watches; and it needs that every effect
touches all it changes (`Covered`), evictions and the writes a failover releases
included.  `WatchesAreSound` is what the run checks; `ExecIsGuarded` is an action
property that follows from the same invariant.

**PersistenceProofs**, for every configuration and any number of writes, saves,
rewrites, faults and restarts.  `PersistenceTypes` also carries that a delta
exists only during a rewrite and that every descriptor in use has a file; the
second needs the fsync job in the invariant, as the worker keeps using what it
read.  `DirtyCounterExact` needs two strengthenings (`DirtyInv`): while a
background child exists the captured counter is the number of changes its image
holds beyond the last save and the image is not longer than the data, and the
same for the image of a foreground save in progress.  The failure paths are where
it could break: a child that fails leaves the captured counter behind, and the
next save overwrites it before it is used.

**DurabilityProofs**, for every deployment and any number of writes, rewrites,
saves, short writes, failed fsyncs, kills and power cuts: `LogReplays`,
`SyncedSurvives` and `StopKeepsAll`, the three data properties of the run
`durability`.  They are stated for the deployments where the code keeps them
(`LogSound`, `DumpSound`: the [findings](#findings) show each exclusion to be
needed).  None of the three is inductive.  `LogInv` says what the bytes are: the
tail of the file followed by the buffer is the frames of the writes since the
file's image, and the snapshot of a rewriting child followed by the delta is the
same log from a later image; so replacing one by the other when the child is
reaped, with an empty buffer, keeps it.  That the temporary file holds the image
of the child that is reaped is `TempInv`: a rewriter that outlived its server and
a rewrite under way exclude each other, no orphan has the log open, and a child
that is done finds its own image, whole.  For a crash it also bounds what has been
promised: an fsync job that met this file covers no more writes than the synced
bytes hold, one that met an earlier file no more than the image of this one, and
after the crash what is left is a beginning of the log that still covers the
promise.  That a beginning of the bytes, torn frame included, replays to a
beginning of the writes is `LoggedCut`.  `DumpInv` is a chain of beginnings: what
was reported saved, the dump on disk, the image of a running save, the data.
The step of a save that ends needs the dirty counter's invariant for the image.

**DequeProofs**, for every capacity, position and fill of the ring: pushing and
popping at either end do to the sequence the ring stands for what they should,
growth included.  The arithmetic is `deque_phys` modulo the capacity; growth
unrolls the ring to position 0.

**Wire**, at its end: for every block and position, `buf_append` appends and
`buf_consume` drops, whether the data moves, the block grows, the positions are
reset or nothing of this happens.

## Findings

Each is the counterexample TLC finds with the configuration in the first column.
The first three are runs of the project, and `PROJECT.json` quotes the line that
says otherwise.  The others are kept as configurations to try a fix with; run one
with `tlc -config <file> <module>`, the module being the one its name begins with
(`MCReplication` for `MCRepl...`, `EventLoop` for `MCEventLoop...`).

| Configuration, property | What happens |
|---|---|
| `MCReplCutResync.cfg`, `ReplicaCorrect` | id and offset are adopted at `+FULLRESYNC`; a link cut before the image makes the next `PSYNC` a partial one, on data that was never loaded |
| `MCPersistence_SaveCrash.cfg`, `SavedSurvives` | a stop between the renames of SAVE hides the dump from the next start |
| `MCKeyspace_Replay.cfg`, `Converged` | SET with a deadline replayed after it deletes the key, and the PERSIST logged behind it finds nothing |
| `MCKeyspace_Cut.cfg`, `CutKeepsDeadline` | SETEX and the like log two frames; a log cut between them keeps the key for ever |
| `MCTransactions_Watch.cfg`, `WatchGuardsOneAttempt` | EXECABORT keeps the watches, which then guard the following transaction |
| `MCTransactions_Watch.cfg` with `MaxQueue = 2` and `INVARIANT ExecAtomic` | FAILOVER ABORT inside EXEC runs other clients' parked writes in the batch |
| `MCReplFailoverPing.cfg`, `LinkExact` | a demoted node pings the replicas that redial it (`repl_cron`) and runs ahead of its own master's offset |
| `MCReplHandOver.cfg`, `HandOverEnds` | the answer to `PSYNC FAILOVER` is lost: it is repeated for ever, refused each time, and parked writes stay parked |
| `MCReplHandOver.cfg` with `SPECIFICATION Spec`, `MaxRestarts = 1` and `INVARIANT TargetInSync` | at offset 0 after a restart, a replica that acknowledged nothing counts as caught up |
| `MCReplWait.cfg`, `WaitCountsReplicas` | WAIT counts the half-open connection of a replica as well as its new one |
| `MCPersistence_DiskFull.cfg`, `LogIsData` | what a failed flush left buffered is logged again after a rewrite that contains it |
| `MCPersistence_DiskFull.cfg` with `Deployments <- Tick` | a write resumed from the timers is logged twice when a rewrite is reaped in the same iteration |
| `MCPersistence_Reopen.cfg`, `WritesReachLog` | a failed reopen after a rewrite stops logging without an error state |
| `MCPersistence_TurnOn.cfg`, `ShutdownKeepsAll` | turning appendonly on over a dump loses the dump's data at the second start |
| `MCPersistence_Orphan.cfg`, `LogLoads` | a rewriting child that outlived its killed server and the rewrite of the next one write the same temporary file; the log renamed from it does not load |
| `MCEventLoop_EverySec.cfg`, `EverythingWakes` | neither the fsync of everysec nor the automatic rewrite is among the deadlines of `next_timer_ms`, though DECISIONS.md:245 says "Everything periodic must appear in `next_timer_ms()`" |
| `MCSessions_Ack.cfg`, `RepliesInOrder` | resuming one waiter runs the REPLCONF ACK pipelined behind its WAIT, which resumes the other waiters; the outer loop of `wait_try_resume` then answers those again |
| `MCTables_Volatile.cfg`, `OperandsLive` | a set command holds the entry of its first operand while looking up the second, which may expire and free it |
| `MCStructures_Bytes.cfg`, `ListBytesExact` | strings that change hands in LREM take their buffers along, and the charge of the list drifts |

Smaller observations from the event loop, which no document contradicts: poll
spins while a hand-over is past its deadline in the state IN_PROGRESS
(`server.cpp:760` wakes for it, `failover_cron` does nothing), while a save is due
and a child runs, and for up to a millisecond at a replication time-out, whose
comparison is strict; a replica that never acknowledged anything is never timed
out, as its `ack_time_ms` is 0; what a timer or an eviction writes stays in the
AOF buffer until the next event; WAIT and parked clients are closed by the I/O
time-out like any other.

The passing runs are bounded so as to stay clear of these findings, and what they
show is limited accordingly:

- `ReplicaInStep`, `AckMeansApplied`, `NothingLost` and `TargetInSync` except
  servers whose last full resync was cut short.
- `repl_roles` has two servers, no restart and no keep-alive.  `NothingLost` and
  `TargetInSync` are stated for histories without FORCE, which may lose writes by
  design.  `Converges` is checked without role changes.
- `LogReplays` and `SyncedSurvives` are about the deployments of `LogSound`: with
  the AOF on for good, rewrites without short writes, resumed writes or failing
  reopens and either no kill or one rewrite, or short and resumed writes and kills
  without rewrites.  `StopKeepsAll` adds the
  dumps of `DumpSound`: no AOF, orderly stops, renames that succeed.  `WritesLand`
  is checked without rewrites.
- `keyspace` has a copy that applies each frame before the clock moves
  (`InStep`).  `tables` has no deadlines.  `structures` has strings without heap
  buffers.  `sessions` has no client that sends REPLCONF ACK.  `NoOversleep`
  excepts the fsync of everysec and the automatic rewrite.

## What is only model-checked, and what is not modelled

Only model-checked: liveness under fairness, which is beyond the prover; the
refinements of the data types, and what rests on recursive definitions (AVL,
Heap, Keyspace, Sessions, EventLoop), about which the prover's SMT backend is not
available; and the properties of the runs that no theorem of `PROJECT.json`
names.

Simplifications to know of: the dirty counter and the offsets are unbounded
(`uint32_t` and `uint64_t` in the code); a write counts one change; a rename is
durable once it returns; replies to clients, and hence the order of reply and
fsync under appendfsync always, are not part of Persistence; replication chains
are not configured by the operator, as the roadmap lists them as unsupported; a
replica's own AOF is not combined with its link; the clocks do not move during a
command, except between the lookups of a set command.

Not modelled, and why:

- the RDB byte format, its compression, CRC and loaders, the formatting of
  replies, INFO and CONFIG REWRITE: computation and output without a protocol of
  their own;
- TLS records and password hashing: another library's protocol and
  cryptographic computation;
- the command-line client: terminal input and output;
- glob patterns (KEYS, SCAN MATCH, PSUBSCRIBE), ACL rules and the command table:
  pure matching and tables, with no state that other steps depend on;
- the LRU and LFU clocks: they choose among victims, and eviction is modelled for
  any choice;
- keyspace notifications, the other CONFIG directives, `good_replicas`,
  signals, POLLOUT back-pressure, the mutex and stop
  protocol of the thread pool: left out for size; each is one gate, one field or
  one more caller of something modelled.

## Plan

1. *Done:* every component of the table above, with runs, mutants and the proofs
   listed.
2. Proofs of what is only model-checked, most telling first: histories and
   acknowledgements (Replication), the refinement of ListSpec.
3. An abstract specification of the durable store that Persistence refines, and
   of a replicated log that Replication refines.
