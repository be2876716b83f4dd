# Verification of gBASIC: its database, its actors and its web server

gBASIC is a BASIC interpreter written in C, with a database of its own, G-SQL
(`src/src/gsql/`), actors that are processes, and a web server in the
interpreter's event loop (both in `src/src/eval.c`). These are the parts of the
repository that make promises over crashes, over several processes and machines,
and against peers that do as they like. This directory holds TLA+ models of
them, the TLC runs that check them and the TLAPS proofs.

Paths below are relative to the root of this tree: the repository is `src/`,
and its C sources are in `src/src/`.

## 1. Inventory

| Part | State | Operations | What is hard | What makes it correct |
|---|---|---|---|---|
| Lease, `gsql/lease.c` | the 512-byte sector `DB.lease` on shared storage; per process: token, counter, `confirmed`, `fenced` | `gs_lease_take`, `gs_lease_keep`, `fence_check` before every fenced I/O call, `gs_lease_close` | machines with unrelated clocks, stalls, reboots, torn sectors, a check and the write it allows apart in time | at most one machine writes; one that was replaced never writes again |
| Storage engine, `gsql/lsm.c` | `GsStore`: memtable, frozen memtable, log and its chain, sorted files, manifest, spare log, `last_seq`, `durable_seq`, snapshots | commit, sync, begin read, flush in slices, spill, compaction in slices, backup, close, open with recovery and sweep | power loss between any two I/O calls, torn and reordered writes, names not yet durable, recycled logs, failed syncs | an open finds a prefix of the commits with every durable one |
| I/O layer, `gsql/io.c`, `gsql/io_sim.c` | files, names, what is synced | open, read, write, sync, rename, remove, `sync_dir` | what a crash leaves | the contract of `include/gsql_io.h` |
| Owner, `gsql/owner.c` | connections, the writer slot and its queue, the commit group, cursors, reads that work in slices | one poll loop; a handler per request; `work_step`, `group_sync`, `flush_out`, `timeouts`, `conn_cleanup` | state held over many turns by clients that come, cancel, stall and go | replies in order, DONE only when durable, slot and transaction agree, whoever waits is served |
| Versions, `gsql/lsm.c` | `Version` (memtables, levels of sorted files), snapshots, retired trees, the paused flush and compaction | lookup, cursors, freeze, flush and merge in slices, move down, sweep | what a slice leaves out while transactions begin and end around it | every transaction reads its snapshot |
| Client and the owner's life, `gsql/client.c`, `gsql/owner.c` | the socket's name, the store's lock, the ready line, a client's attempts and its request in flight | reach, start an owner, handshake, send, LOST; open, bind, linger, unlink, close | owners that race, leave, die or are replaced while clients connect | the owner that serves can be reached; no request twice; no refusal without a fault |
| Wire, `gsql/wire.c`, `gsql/v3.c` | none | encode and decode frames and values | malformed input | decode inverts encode |
| Tables, keys and versions, `gsql/table.c`, `key.c`, `version.c` | catalogue, rows, indexes | insert, update, delete, scan, format decisions | an index out of step with its rows | index and rows agree; key order is value order |
| SQL, `gsql/sql_*.c`, `xsort.c` | plans, operators, spill files | parse, plan, execute in slices | a slice at any row | the result of a statement |
| Actors, `eval.c` over `actor.c` | processes with a mailbox each, handles, a retain queue, monitors, children, a process group | spawn, send, receive (any, by tag, with a deadline), monitor, demonitor, exit | deaths at any point: in a spawn, before a wait, while a receiver sleeps | no message lost or doubled, a death told once and truly, nobody sleeps on one |
| Web server, `eval.c` | clients in a compact table, polled descriptors, `server.responses`, `draining`, `running`, deadlines | one loop iteration: hook, drain, poll, watchers, accept, read, responses, deadlines | program code that runs in the middle of the sweep; clients that leave between poll and use | an answer goes to who asked; nobody is dropped in silence; SIGTERM ends it |
| Rest of the evaluator, `eval.c` | environments, watchers, locks, timers | every statement and built-in | re-entrancy of watchers, lock order | watchers settle, locks are given up |
| Front end, modules, language server, REPL, platform | text and bindings | parse, format, serve | formats | outside this project |

How they interact: a program's client connects to the owner of the database,
starting one if there is none. The owner takes the lease, opens the engine on
the *fenced* I/O layer (each modifying call asks the lease first), and serves
requests from one thread. A commit goes owner -> engine -> log; its reply waits
in the owner's group until one sync has made the whole group durable. The
owner's loop also renews the lease and ends itself when the lease is lost.
Actors are separate processes of the interpreter and share only their mailboxes;
the web server, timers and sockets share one event loop per process, which runs
the program's watchers between its own steps.

`PROJECT.json` lists every part with what is and is not modelled, and every
hazard at its line.

## 2. Modules

| Module | Models | Extends |
|---|---|---|
| `Lease` | `lease.c` | standard modules |
| `LeaseProofs` | theorems about `Lease` | `Lease`, `TLAPS` |
| `Disk` | the durability contract as `io_sim.c` enforces it | `SequencesExt` |
| `DurableStore` | abstract: what the engine promises | standard modules |
| `Store` | `lsm.c`: commit, flush, spill, compaction, recovery | `Disk`, `Lists`; instantiates `DurableStore` |
| `StoreProofs` | theorems about `Store` | `Store`, `ListsProofs`, `FiniteSetTheorems`, `TLAPS` |
| `Lists` | a list without some of its elements (`fifo_remove`, the lists an actor scans) | standard modules |
| `ListsProofs` | lemmas about lists that several components need | `Lists`, `SequencesExt`, `TLAPS` |
| `Owner` | `owner.c`: the loop and every request | `SequencesExt`, `Lists` |
| `OwnerProofs` | theorems about `Owner` | `Owner`, `ListsProofs` |
| `Versions` | `lsm.c`: what a transaction reads, flush, compaction, sweep | `FiniteSetsExt`, `SequencesExt`, `Lists` |
| `VersionsProofs` | theorems about `Versions` | `Versions`, `ListsProofs`, `FiniteSetTheorems`, `TLAPS` |
| `Reach` | `client.c`, and the start and end of `owner.c` | standard modules |
| `ReachProofs` | theorems about `Reach` | `Reach`, `TLAPS` |
| `Actors` | `eval.c` 16465-18060, the POSIX half of `actor.c` | `SequencesExt`, `Lists` |
| `ActorsProofs` | theorems about `Actors` | `Actors`, `ListsProofs` |
| `WebServer` | `eval.c` 20955-23760: the server and its loop | `SequencesExt` |
| `MCLease`, `MCStore`, `MCOwner`, `MCVersions`, `MCReach`, `MCActors`, `MCWebServer` | the instances TLC checks | the module of the same name |

A definition whose comment begins "Seeded fault" is a plausible bug of the code
in the place of the definition after it; no action uses one. `PROJECT.json`
says which property each of them breaks.

### 2.1 Lease

One process per machine (the machine-local `flock` on `DB.lock`), one shared
sector. `pc` is where a machine's process is in `gs_lease_take`, in the loop, in
a renewal or in a close; each read or write of the sector is a step. A record
names the machine, its boot, the open that wrote it (the random token) and a
counter.

| Action | Code |
|---|---|
| `TakeRead`, `TakeCreate`, `TakeWrite` | `gs_lease_take` steps 1 and 2: create a lease, or overwrite one of this machine and boot |
| `WatchRefuse`, `Reread`, `ClaimWrite`, `Settled` | steps 3 and 4: watch for `dead_ms`, claim, settle, read again |
| `Confirm` | the label `taken`: the clock reading that dates the confirmation (`lease.c:261`) |
| `Keep`, `StoreWrite`, `RenewRead`, `RenewWrite`, `RenewCreate`, `RenewFails` | `gs_lease_keep`, `fence_check`, `renew` |
| `WriteLands` | the storage has the write that was allowed |
| `Close`, `Drop`, `FencedExit` | `gs_lease_close` |
| `Crash`, `Reboot` | the process or the machine goes down |
| `Tick` | time |

Time: the code compares differences of one machine's monotonic clock, so each
machine has a timer (`t`), the age of its confirmation (`age`) and, as a history
variable, the time since the sector last was its own (`lost`); they saturate at
`Dead`. `IoMax` bounds the time from a read of the sector to the write or
removal it decides, `WriteMax` that of a checked write, and `TakeMax` the time
from the access that takes the lease (the write of steps 1 and 2, the settling
read of step 4) to the clock reading that confirms it: the sync and the directory
sync of `lease_write` lie between. Nothing bounds an owner between two steps of
its loop, or a claimer between its re-read and its claim. A renewal takes its
clock reading before its read, so its age is `t`.

An error inside `gs_lease_take` ends the process, as `Crash` does; a write that
landed, or whose sync failed, and then reported an error is `TakeWrite` followed
by `Crash`. EEXIST and
the read that follows it are one step. A torn sector that stands still for
`dead_ms` is taken over, as in the code; the design says an observer does not
take over while it sees one.

Two constants name faults rather than times. `Overlap`: an owner closes cleanly,
or its machine tears the sector, while one that it replaced is still paused.
`SettleCrash`: a claimer dies between its claim and its settling read, and its
restart, finding a record of its own machine and boot, takes the lease at once.

### 2.2 Disk, Store and DurableStore

A disk is a value with two sides: what the running system sees (names, page
cache) and what the platter has, with the writes between them. For the names it
keeps `maybe`, the namespaces that the subsequences of the pending operations
lead to, rather than the operations: each operation adds to the set what it
makes of each of its members, and `SyncDir` leaves the one in view. `PowerLoss`
keeps any subset of the unsynced writes, some torn, and any subsequence of the
unflushed namespace operations; `FailedSync` puts any of a file's writes on the
platter and forgets the rest, while the page cache keeps all.

The engine has one thread: a call is a sequence of steps (`todo`), about one per
I/O operation, and only power loss and a kill come between them.

| Action | Code |
|---|---|
| `Commit`, `Insert`, `SyncIfNeeded`, `SyncLog` | `lsm_commit`, `log_append`, the sync |
| `CommitRuns` | a transaction larger than memory, spilled to files and named by one manifest |
| `Slice`, `Drain`, `Freeze` | the flush's share of a commit; the memtable frozen and the log changed |
| `Spare`, `MakeSpare`, `SyncSpare`, `NameSpare`, `Recycle` | the next log made ahead, or recycled |
| `Build`, `SyncSst`, `WriteManifest`, `SyncTmp`, `FlushDir`, `RenameManifest`, `Installed` | a sorted file and the manifest that names it |
| `Compact` | a compaction begun by `comp_start` |
| `SyncCall`, `BeginRead`, `FlushCall`, `Short`, `Swap` | the other calls; after `lsm_flush` the recycled log takes the place of a short empty one |
| `CloseCall`, `Close`, `CloseFailed` | a clean close, and the close of a failed store |
| `Open`, `CreateDb`, `Recover` | `lsm_open_base`: create, or read the manifest, replay, sweep |
| `LosePower`, `Kill` | the two ends |

A commit is a number; a memtable, a file or a log is the set of commits in it.
A record's checksum is the chain of the salts before it (`Sum`), which is what
lets replay tell the records of a recycled log from its own. Left out: keys and
values, levels, blobs, retired trees, pinned versions, backups, failures of
`sync_dir`, and a full disk. A partly built file is not named by anything, so of
a flush done in slices only the last is a step; the size that decides whether a
log is recycled is a choice. `Recover` is one step: a crash in it leaves a disk
from which another recovery starts.

`DurableStore` is the promise: commits in order, some of them hardened, and a
crash that leaves a prefix with every hardened one. `Store` implements it with
`hist` as itself and `durable` as `durable_seq` while the store is open.

### 2.3 Owner

`phase` is the place in `serve`'s loop: `process` (a request of some connection
is handled), `work` (each sliced read gets one slice, then `GroupSync` or
`Gather`), `flush`, `reap`, `timeouts`, `poll`. Clients act only in `poll`,
where their bytes are read. A connection is a record: its transaction (`tx`,
`depth`), its cursors, the read it works on, whether its reply waits for a sync
(`awaiting`), requests read (`q`) and replies not sent (`out`).

| Action | Code |
|---|---|
| `Hello`, `Ping`, `Bye`, `Read`, `Fetch`, `Close` | requests that do not write |
| `Park`, `BeginWrite`, `BeginRead`, `BeginNested` | `do_begin`, `writer_take` |
| `WriteInTxn`, `WriteRefused`, `AutoWrite` | `do_query` of a write |
| `CommitWrite`, `CommitNested`, `RollbackNested`, `EndOther` | `do_commit`, `do_rollback` |
| `Answers`, `WorkStep`, `Gather`, `GroupSync`, `Flush`, `Reap`, `Timeouts` | the rest of a turn |
| `Accept`, `Hangup`, `Receive`, `Cancel`, `BadFrame`, `Turn` | poll and what clients do |
| `Stop`, `LastSync`, `LastFlush`, `Cleanup` | the end of the loop |

The engine is its interface: a write transaction with a stack of savepoints, the
number of the last commit and of the last durable one, and whether it failed.
What an engine call may answer is a choice (`Commits`): a spilled commit is
durable whatever was asked; a commit that stands may still answer an error.
Contents are counted, one per successful statement, and `said` is the count the
client was told, per level of nesting.

Abstractions, each of which allows more behaviours than the code: connections
are swept in any order; any open transaction or cursor may be found idle on any
turn; back-pressure by `output_limit` is left out. A socket takes all of its
output, none or breaks. At most one cursor of each kind (own snapshot,
transaction) is kept. PREPARE answers like PING. The periodic wake-ups for the
lease are left out, and SIGTERM, a lost lease and the linger timeout are all
`Stop`.

### 2.4 Versions

Store says which commits survive; Versions says what a transaction reads. A
source (memtable, file) is a set of entries: a key, a sequence number that
stands for the value, and whether it is a deletion. A version names two
memtables, the files of level 0 in order, and the files of each deeper level; a
read transaction pins one with its snapshot. Key 0 is the catalogue's.

A spilled transaction commits its runs and the trees it drops with one manifest
(`Runs`); if the manifest fails, the retirements are taken back but the order to
sweep may stay (`RunsAborted`).

A call is a list of steps (`todo`), as in Store; a flush and a compaction are
paused between calls. Whether a memtable is full, a level over its limit, an
output cut or a budget spent is any outcome. A merge is a set: `rest` is what is
not merged yet, `out` what was kept.

| Action | Code |
|---|---|
| `Commit`, `Retire`, `Sync`, `Flush` | `lsm_commit` (a put, a deletion, a dropped tree), `lsm_sync`, `lsm_flush` |
| `SpilledCommit`, `Runs`, `RunsAborted` | `commit_runs` and its rollback |
| `BeginRead`, `Begin`, `EndRead` | `lsm_begin_read`, `txn_free` |
| `Freeze`, `FlushStep`, `FlushFails` | `freeze`, `flush_step_run`, `flush_install`, `flush_abandon` |
| `SweepDead` | `sweep_dead`, of whole files of retired trees |
| `CompStart`, `CompPause`, `CompFinish`, `CompDone`, `CompFails` | `maybe_compact`: `comp_start`, `l0_move_alone`, `gc_start`, `comp_step_run`, `comp_install` |
| `Crash` | the end of the process and the open after it |

`Lookup` is the point read (the first source that has the key), `Scan` the
cursor (all sources merged); `SnapshotReads` compares both with the history of
the commits. `FilesDurable` explains why the keep rule is safe: a freeze syncs
first and a spilled commit is durable, so nothing in a file is newer than
`durable_seq`, and no snapshot can fall between two versions a merge sees.

### 2.5 Reach

A client's way to an owner, step by step: connect to the socket's name; if
nobody answers, start an owner and read its ready line; connect again until a
deadline; HELLO; up to `Attempts` times. An owner opens the store (the lock,
then the lease), binds the name by a rename, serves, and at its end removes the
name, closes the listener and last gives up the lock.

| Action | Code |
|---|---|
| `Reach`, `Connect`, `StartOwner`, `ReadLine`, `StartTimeout`, `RetryTimeout` | `reach`, `start_owner` |
| `Welcome`, `HelloLost` | `handshake` |
| `Send`, `SendLost`, `Receive`, `Lost`, `Quit` | `gsql_client_send`, `gsql_client_recv`, `lost`, `gsql_client_close` |
| `OpenStore`, `Busy`, `Bind` | `gsql_owner_run`, with the loser's probe of the winner's socket, and `listen_on` |
| `Accept`, `Hangup`, `Apply`, `Reply`, `Linger`, `Fenced`, `Terminate` | `serve` |
| `Unlink`, `CloseListener`, `CloseStore` | the end of `gsql_owner_run` |
| `Kill`, `TakenAway` | the owner dies; another machine takes the lease and binds its socket |

Time is left out. A wait ends by what it waits for; that it runs out while an
owner is on its way is the fault `late`. `Lingers` says whether an owner that is
alone waits longer than the 2 ms between two tries of a client. The two places
of the socket (the database's directory, the runtime directory) are one name.
The database exists: creating one is left out. What a request does is Owner's;
here it is applied once, and `applied` counts.

### 2.6 Actors

What the kernel knows of a process (its stage, wait status, parent, process
group, mailbox) is in variables; what its interpreter knows is one record,
`interp[p]`, that goes with it. A process that ends first closes its descriptors
(`exiting`: others see it hung up) and later can be waited for (`zombie`).

| Action | Code |
|---|---|
| `Spawn`, `SpawnReturns`, `Boot`, `BootFailed` | `eval_spawn` up to and after its read of the control pipe; `eval_run_actor` |
| `Send` | `builtin_actor_send`: one frame, perhaps with a handle |
| `Receive`, `TakeFrame`, `WakeDown`, `Timeout` | `actor_receive_impl` over `actor_wait`; every pass reaps, collects downs and offers the retain queue (`Collect`) |
| `ReceiveFails` | a receive that waits raises: the poll or the read failed, or a frame was read and could not be decoded |
| `MonitorCall`, `Demonitor` | `monitor`, `demonitor` |
| `Finish`, `CleanupDone` | the end of a program: `actor_cleanup_children` |
| `Kill`, `ParentDied`, `Zombie` | signals, `PR_SET_PDEATHSIG`, the kernel |

A `send`, `spawn`, `monitor` or `demonitor` that raises changes nothing and is a
stutter. A receive that raises may have read its frame (`eval.c:16932`): the frame
is gone with what it carried, and `bad` has its number, apart from `got`, which has
those the program received. SIGTERM ends a process at
once: an actor that called `webserver.listen` has a handler that only sets a
flag, and is left out. A message is its tag, its place in the mailbox's order
and the handle it carries.

### 2.7 WebServer

`w` is the server: its table of clients, the queue `responses`, the counter of
requests, the flags of its record, and its sockets. `pc` is the place in
`webserver_loop_iterate`; `slots` is what the last `poll` said, still to be
served, and may be stale by then. Program code (a watcher's body, a native
handler, the drain hook) runs in `program` and returns to `back`.

| Action | Code |
|---|---|
| `Top`, `AfterHook` | `webserver_sync_shutdown`, the hook, `webserver_progress_drain`, responses, `webserver_finish_shutdown`, `poll` |
| `Sources` | timers, transfers and sockets that run watchers |
| `Accept`, `Serve`, `ReadClient` | `webserver_accept`, the sweep over the polled descriptors, `webserver_read_client` |
| `Pump` | `webserver_process_responses`, `webserver_check_timeouts` |
| `ProgAppend`, `ProgStream`, `ProgClose`, `ProgStop`, `ProgDrain`, `ProgReturn`, `HandlerReturn`, `ProgRaise` | what the program may do |
| `Connect`, `PeerSend`, `PeerLeaves`, `Expire`, `Sigterm` | peers, clock and signal, between any two steps |

Left out: TLS (a record already in the library's buffer does not show in `poll`),
writes that block, held and inherited listeners, an unbound server record,
several servers in one process, and what an upgraded connection does. Any
request may be refused by the parser (400, 413, 501).

`server.running = false` changes the record alone (`stopped`); the server goes on
until the next iteration looks (`running`, `shutdown`), while `webserver.close`
sets both. Two errors go into open streams, after an answer, and `OwnAnswer` says
so: the 503 of the hard stop, and the 500 of a program's raise, which also may
reach a peer other than the one whose request failed. `Raised` models what
`read_client` does then: it answers whoever is at its index, and if the table has
become shorter than that, it reads past its end (undefined in C; taken as a crash or
as an answer to any client). The loop ends with the raise in every case.

## 3. Runs

Distinct states are in parentheses.

| Run | Checks | Shows |
|---|---|---|
| `lease_any` (2.35 M) | `TypeOK`, `StaleWindow` | with every fault and the shipped order of the timings, no write is in flight later than `trust_ms`, one write and the time before the first confirmation after the lease last was its owner's |
| `lease_margin` (0.75 M) | `OneWriter`, `TakenNeverWrites` | if the settling outlasts the confirmation of a lease just taken, `trust_ms` and one write, at most one machine writes and a replaced owner never does |
| `store_power` (0.85 M) | `TypeOK`, `PageCacheComplete`, `OpenSound`, `LogNamed`, `KeepsPromise` | the engine implements `DurableStore`, and wherever a process dies, what it left opens with every commit |
| `owner_any` (3.3 M) | `TypeOK`, `InOrder`, `Atomic` | one client that pipelines any requests: replies in order, a transaction is what its client was told |
| `owner_race` (2.0 M) | `DoneDurable`, `SlotAgrees`, `ParkedAtHead`, `NoSleep` | two clients and the writer slot, with hang-ups, timeouts, cancels and failed syncs |
| `owner_served` (60 k) | `Served` | whoever parks is served |
| `versions` (1.30 M) | `TypeOK`, `SnapshotReads`, `FilesDurable`, `Layered` | every transaction reads its snapshot, by lookup and by cursor, around slices of flush and merge, moves, sweeps, errors and a crash |
| `reach` (334 k) | `TypeOK`, `Reachable`, `AtMostOnce`, `NoFalseRefusal`, `ReachEnds`, `OwnerLeaves` | two clients and the owners they start, with one kind of fault |
| `actors` (209 k) | `TypeOK`, `ExactlyOnce`, `OneDown`, `ReasonTrue`, `OldestFirst`, `Woken`, `SpawnEnds` | messages and deaths between a parent and its child |
| `web` (328 k) | `TypeOK`, `OwnAnswer`, `NeverSilent`, `Answered`, `TermEnds` | two peers against a program with watchers, timers and a hook, and one with a native handler |
| `store_killed` | `AckedSurvive` violated | an open after a kill counts as durable what only the page cache has |
| `web_append` | `ServiceSurvives` violated | a response that `append` accepted ends the service when its peer resets before the queue is sent |

The two runs marked "violated" are disagreements between the code and its documents;
`PROJECT.json` quotes the line each contradicts.

### Configurations beside the runs

Each of these is a small instance in which TLC finds a counterexample to a
predicate the documents or comments suggest. They are kept to be run by hand
(`tlc -config X.cfg MCModule`).

| Configuration | Predicate | What the trace shows |
|---|---|---|
| `lease_shipped` | `OneWriter` | `settle_ms` (2 s) is shorter than `trust_ms` (4 s): an owner that renewed between a rival's re-read and its claim, and is busy since, still trusts its confirmation when the rival has settled. `docs/gsql_lease_design.md:62` expects it to find the foreign token "within `renew_ms`" |
| `lease_stall` | `OneWriter` | an opener stalls between the access that takes the lease and `confirmed = now(l)` (`lease.c:261`); another machine watches, claims and settles meanwhile, and the opener comes back with a confirmation of age 0. No settling helps |
| `lease_restart` | `OneWriter` | a claimer killed while it settles takes the lease at its restart with no wait (`lease.c:218`), while the owner it claimed from still trusts a confirmation. No settling helps |
| `lease_overlap` | `TakenNeverWrites` | a paused owner that was replaced recreates the lease its successor removed at a clean close (`lease.c:285`; `docs/gsql_lease_design.md:66` and `:101`) |
| `store_failed_sync` | `AckedSurvive` | after a failed sync, reopening recovers from the page cache, not from "what is really on disk" (`docs/gsql_storage_design.md:60`) |
| `owner_dirty_read` | `WithheldUnseen` | a SELECT in a write transaction, whose snapshot is `last_seq` (`lsm.c:3909`), shows a commit whose reply still waits for its sync (`docs/gsql_group_commit_design.md:17`) |
| `owner_timeout` | `ReadsOpenTxn` | the idle timeout (`owner.c:1583`) ends a transaction under a sliced read of the same connection |
| `actors_group` | `CleanupReaches` | once every member of the actor group is gone, `setpgid` fails unseen (`eval.c:17827`), the next child stays in its parent's group, the SIGTERM of the exit misses it and the exit waits for it without a limit |
| `versions_sweep` | `DeadFilesSwept` | a tree is retired while a flush begun before is paused; the sweep finds nothing and clears its flag, and then the flush installs a file of the retired tree, which no sweep will drop (`lsm.c:2516`, against the comment at `lsm.c:2491`) |
| `web_raise` | `RaiseStaysHome` | a watcher that answered its own request, flushed the queue and then raised: the 500 goes to the peer that was moved to its index (`eval.c:22678`; `docs/plat-web-design-draft.md:362`) |
| `reach_alone` | `NoFalseRefusal` | with no linger, a rival's probe of the socket counts as the first connection, so the startup grace ends and the owner leaves before its own starter connects (`owner.c:1703`) |

### Bounds

* Lease: two machines, two opens each, one reboot each. One reboot is enough for
  a record of another boot, two opens for a restart beside a rival's takeover.
  The timings keep the order of the shipped ones (Renew 1, Trust 2, Dead 4,
  Settle 1 for 1, 4, 8 and 2 seconds), with `Settle` raised to 4 where the margin
  is assumed. `TakeMax` is 1, and in `lease_stall` 5: timers saturate at `Dead`,
  so a bound above it is none. `MaxCounter` is reached only by runs of renewals that repeat.
  Machines are symmetric. The theorems lift all of these bounds.
* Store: three commits with a memtable of two (one freeze, with a commit after
  it), two files that make a compaction, five log numbers (a log recycled and
  replayed), two opens: one to crash and one to recover and go on. `Mix` lets a
  power loss follow an open over a stale page cache; it is FALSE in
  `store_power` and TRUE in `store_killed` and `store_failed_sync`, which show what goes wrong then.
  Deadlock is not checked because every counter is bounded.
* Owner: `MaxReqs` requests per connection, `MaxQueue` read ahead. Five requests
  of one client reach a nested transaction and its end behind a HELLO; two
  clients with three each reach a parked request, its cancel and a group of two.
  Deadlock is not checked: an owner may sleep in `poll` for ever, or stop.
* Versions: four keys in three trees, two of which can be dropped; three commits,
  of which a spilled transaction takes two, and may drop one tree or both; level 0 that wants a merge at two files and
  two deeper levels; one open reader and one fault. The spilled transaction's
  first file spans the key its second file deletes, so that a move or a merge in
  the wrong order shows.
* Reach: two clients with two requests each; three owner processes, so that one
  leaves, one waits for its lock and a third is started; a pid is used again when
  nothing names it. `MaxFaults` 1: each kind of fault alone. With one stop, four
  attempts are needed and `ATTEMPTS` is five; two or three violate
  `NoFalseRefusal`. Deadlock is not checked: programs may end.
* Actors: a parent and a child, two messages, one monitor each, one kill. Two
  frames are enough for a mismatch that is held and overtaken; a third process
  adds nothing but the group, which has a configuration of its own.
* WebServer: two connections, requests of two chunks, one call of the program
  into the server beside its answers; one peer closes its side, the other resets.

### Fairness

Lease, Store and Versions state none: their properties are safety. `Owner!Fairness` is:

* weak fairness of the loop's own steps, and of its end: it is one thread that
  never blocks except in `poll`, which is not a step while it has nothing to do;
* strong fairness of `GroupSync`: `gather_bound_us` bounds the age of a group, so
  the loop cannot choose to gather for ever;
* strong fairness of `Expire(c)`: a transaction whose client is silent is idle
  longer than the timeout on some turn.

No fairness is assumed of clients, sockets or the engine's success. Of the others:

* Reach: weak fairness of what a running client does and of what a running owner
  does, its linger and its keeping of the lease included (both are bounded by
  timers in `serve`). None of opens, requests, faults or exits.
* Actors: weak fairness, per process, of the steps that wait for nothing: a read
  of a frame that is there, the return of a spawn, the end of an exit. None of
  the program's next statement, nor of timeouts.
* WebServer: the loop takes a step again and again until it ends (it is one
  thread, `poll` wakes at the next deadline, program code returns), and time
  passes (`Expire`). Stated over the steps that move the loop (`LoopMoves`).

`Served` excepts a queue behind a connection that is being closed and whose
client does not read (`Blocked`): such a connection keeps its place until its
output is taken, and nothing in the code bounds that time.

## 4. Proofs

What follows holds for every value of the constants: any number of machines,
connections, clients, processes, requests, keys, trees or levels, under the
assumptions of the modules alone (`LeaseAssumption`, `OwnerAssumption`,
`ReachAssumption`, the three of `Actors`, and `VersionsAssumption` with
`NoneAssumption`), which say no more than that names differ and that bounds are
numbers, but for the order of the lease's timings and, in `Versions`, for two
facts about the store: keys are ordered by their tree first, as internal keys
are, and a run of a spilled transaction is not empty. Each component's proof has
one inductive invariant, and one lemma per action that says the action keeps it.
TLC checked each of them on the configurations of its runs before it was proved.

| Module | Theorem | Property | Needs |
|---|---|---|---|
| `LeaseProofs` | `TypeCorrect`, `StaleWindowHolds` | `TypeOK`, `StaleWindow` | nothing more |
| | `OneWriterHolds`, `TakenNeverWritesHolds` | `OneWriter`, `TakenNeverWrites` | `Margin` |
| `OwnerProofs` | `TypeCorrect` | `TypeOK` | nothing more |
| | `RepliesInOrder`, `DoneIsDurable`, `AtomicTxns` | `InOrder`, `DoneDurable`, `Atomic` | nothing more |
| | `SlotsAgree`, `QueueCanMove`, `NeverSleeps` | `SlotAgrees`, `ParkedAtHead`, `NoSleep` | nothing more |
| `ReachProofs` | `TypeCorrect`, `ServingIsReachable`, `AppliedAtMostOnce` | `TypeOK`, `Reachable`, `AtMostOnce` | nothing more |
| `ActorsProofs` | `TypeCorrect`, `FramesExactlyOnce`, `ToldOnce`, `ReasonsTrue` | `TypeOK`, `ExactlyOnce`, `OneDown`, `ReasonTrue` | nothing more |
| | `OldestIsFirst` | `OldestFirst` (of steps) | nothing more |
| `StoreProofs` | `TypeCorrect` | `TypeOK` | nothing more |
| | `OpenCorrect`, `LogCorrect` | `OpenSound`, `LogNamed` | `~Mix` |
| `VersionsProofs` | `TypeCorrect`, `ReadsCorrect`, `FilesAreDurable`, `LevelsInOrder` | `TypeOK`, `SnapshotReads`, `FilesDurable`, `Layered` | nothing more |

### 4.1 Lease

`StaleWindowHolds` rests on `Timers` alone: `lost <= age + TakeMax` for every
owner, and `lost < TakeMax + Trust + t` for a write under way. It says something
where `TakeMax + Trust + WriteMax <= Dead`: timers saturate there. `OneWriterHolds` and
`TakenNeverWritesHolds` hold under
`Margin == TakeMax + Trust + WriteMax <= Settle /\ IoMax < Settle /\ ~Overlap /\ ~SettleCrash`,
which the shipped timings do not satisfy.

Neither of the last two is inductive. The invariant behind them has the parts

| Part | Says |
|---|---|
| `TypeOK`, `Timers` | types; an owner's confirmation is younger than its hold on the sector by no more than `TakeMax` (`lost <= age + TakeMax`), and the bounds on a step under way |
| `OneLive` | at most one process is live: it writes, has just taken the lease, is about to carry out what a read of the sector decided, or trusts its confirmation |
| `RecordGuards` | a record that is not settling is that of the last process that could write: every other one is quiet, but for a restart of its own machine |
| `NoRecordNoOwner` | a sector without a record has no owner |
| `DropAlone` | nobody becomes the owner between the read and the removal of a close |
| `TakerLive` | the last taker is the one that holds the sector, or could write |
| `SettleOutlasts` | while an opener settles, everything decided before its claim has aged as long as it has settled |

Each assumption of `Margin` but the one on `IoMax` has its configuration (kept
beside the runs) that shows it is needed: without `TakeMax + Trust + WriteMax <= Settle` there are `lease_shipped`
(a short settling) and `lease_stall` (an unbounded stall), without `~Overlap`
`lease_overlap`, and without `~SettleCrash` `lease_restart`. So the theorems say
under which conditions the protocol keeps one writer, and the configurations
that the code as shipped does not meet them.

### 4.2 Owner

None of the properties is inductive, because each is about one of the places a
request passes through while a turn moves it to the next. `IInv` is
`Sound /\ Turning`, and `Sound` says of each connection's record that it fits
the slot, the queue, the group and the engine (`Fits`):

| Part | Says |
|---|---|
| `Types`, `Engine` | types, with what `TypeOK` leaves open (the queue has nobody twice); `durable <= last`, the engine's transaction is the slot's, without one its contents and marks are empty, a group tells of commits that were made |
| `Order` | requests are numbered as they were sent; the newest that left the queue is the number of those heard, waiting for the socket and waiting for a sync; a read that works keeps its request at the head; a connection that is gone holds nothing. A connection that closes may owe its last answers, and one whose socket broke owes nothing |
| `Sent`, `Sees` | a reply that promises durability is about a synced commit, even before its socket takes it; a snapshot a client reads is synced |
| `Agrees` | a write transaction's depth, the counts its client was told, and the engine's contents and marks |
| `Parked` | a request in the queue for the slot is at its connection's head, after HELLO, outside any transaction |
| `Grouped` | a reply that waits for a sync has an entry in the group, unless its socket broke, and an entry is for the newest request that left its connection's queue |
| `Turning` | past `process`, unless the loop is busy, nobody could be served, and `slices` holds reads that work |

`InOrder` is `Order`; `DoneDurable` follows from `Sent`, when `Flushed` lets a
client read; `SlotAgrees` from `Fits` and `Engine`; `NoSleep` from `Turning`.
The hard steps are the ones that move many connections at once, `GroupSync`,
`Flush`, `Timeouts` and `Reap`: each is reduced to a lemma about one record, and
the queue and the group that remain are the lists `Dropped` leaves.

### 4.3 Reach

`IInv` adds to `Reachable` and `AtMostOnce`: `OwnerAgrees` (a process listens
from its bind to the close of its listener, and the store's lock is held by
whoever is past its open, so at most one process is), `ClientAgrees` (a client
is connected where it has an end) and `InFlight` (what is applied of the request
in flight is what its stage says, and nothing later was applied). The lock is
what makes `Reachable` hold: an owner removes the name before it lets the lock
go, and the next one binds only after it took it.

### 4.4 Actors

`IInv` says of each process's memory, `Sound`: its monitors, the downs in its
retain queue and the references it has seen or cancelled share each reference
out (`RefsOnce`); the retain queue is in the order of arrival (`Ordered`);
whoever holds or monitors with the handle that `spawn` returned has the bound
record of the child (`KidsAgree`), and no such handle travels in a frame
(`Carried`), which is why the one that hears how a child ended is its parent.
`Waits`: a receive that sleeps was offered everything retained, which
`OldestFirst` needs. `Numbered` ties memory and mailbox: the mailbox has the
last frames that arrived, and each earlier one was received, made its receive
raise, or is retained.
`DownTrue` is `ReasonTrue` of a message in the retain queue, where it stays
while other processes end.

### 4.5 Versions

Three promises hold each other up. A merge keeps, of one key, what some snapshot
may still read, and that is right only if no snapshot falls between two versions
it sees (`FilesDurable`); a lookup stops at the first source that has its key,
and that is right only if sources are ordered by age (`Layered`); and a flush or
a merge that was paused is installed over versions, snapshots and retired trees
that changed meanwhile. The properties are about `cur` and the readers; what
makes them inductive is mostly about the work under way. `IInv` is the
conjunction of

| Part | Says |
|---|---|
| `Types`, `Slots` | types; a call that ends by beginning a transaction has a reader's slot |
| `Drains` | what a spilled commit has behind it when it comes to install its runs: both memtables are empty and nothing is being flushed, so level 0 is the newest place there is |
| `Memory` | a memtable is frozen exactly while it is flushed, everything in it is durable, and what the flush has written is the flushed entries of the keys it passed; a memtable that no version holds is empty |
| `History` | every write has a number of its own, and memtables and files hold only writes |
| `FilesDurable` | no file has an entry newer than `durable` |
| `Layers`, of `cur` and of every reader's version | memtable newer than frozen one, newer than files; level 0 newest last; a level newer than the deeper ones; files of one deep level apart |
| `Inputs` | a paused compaction's inputs are still in the version; whatever else is there is newer above them, apart from them beside its outputs, and older below; its output so far is what `Keep` keeps of the entries it passed; and `bottom`, once true, stays true |
| `Truth` | what `cur` has of a key, at every snapshot from `durable` to `last`, is what the commits left; the same of every reader at its snapshot; but for trees retired by then |

`SnapshotReads` follows from `Truth` and `Layers`: by `SourcesInOrder` and
`SourcesComplete` the first source that has the key has the newest entry of all
(`LookupScan`). `Layered` is `Layers(cur)`, `FilesDurable` is a part.

The lemmas that carry `Truth` are about sets of entries alone. `Harmless`:
taking away an entry that is covered by a newer one below the oldest snapshot,
or a deletion with nothing under it, changes no snapshot from then on; it is why
`KeepAfter` and `Bottom` are enough for the flush and the merge. `Later` and
`Unseen`: an entry numbered above a snapshot is not seen by it. `CutOff`: when a
crash takes the commits above n, every later snapshot sees what n saw. The lemmas that
carry `Layers` (`StackWithout`, `StackAdded`, `StackGrown`, `StackMoved`) say
what files may leave, come to a deep level, come last to level 0, and what
happens when the memtables change. Each action is one of these.

`Truth` has to be about all of `durable .. last`, although no transaction reads
above `durable`: the next sync raises it. And `Inputs` must say that whatever
lies above the inputs is newer, because level 0 grows while the compaction is
paused. TLC checked `IInv` on the states of the run `versions` before the proof.

### 4.6 Store

A power loss may leave any of the namespaces in `maybe`, so what makes the
manifest right is a statement about all of them, at each step of each call
(`Worlds`: the namespaces an open may meet; once a process was killed and its
successor has not flushed, only the one in view). `Types` is what the types need:

| Part | Says |
|---|---|
| `DiskShape`, `DiskKinds` | every namespace leads to inodes of its own kind; a platter has what the page cache has, less the unsynced writes; logs hold commits that were made |
| `CallShape` | what is left to do is the rest of a call: `Path` is the steps that may follow each step |
| `LogShape`, `Standing` | the file a step is about to write, sync, rename or read is there |

`TypeOK` says of this what TLC can check (`StateOK`, `DiskOK`, the steps in `todo`,
`Standing`); `CallShape` is what makes it inductive, as `TypeOK` alone does not say
that a build is followed by the sync of its file. `OpenSound` and `LogNamed` are
about what is in view or about one name; `Naming` is about every namespace, and
the version in memory:

| Part | Says |
|---|---|
| `Wholes` | in each namespace the manifest, if it has a name, is whole, names files that are there and whole, and a first log that has a name |
| `Calm`, `Present` | recovery starts with nothing pending; an open store has its manifest in each namespace, and where there is none no file was built |
| `Below`, `Filed` | file numbers are used once; every file of the version in memory is whole, holds what memory says, and has its name in each namespace, but for a new one until the directory is flushed |
| `Built`, `Picked` | what was built but not installed, and what the compaction picked |
| `Placed` | the manifest under its temporary name, and then under its own, is that of the version in memory; at the rename, and after the flush that follows it, nothing is pending |
| `LogsNamed` | each log from `first` to the current one, and a spare that is ready, has its name in each namespace |
| `Creating` | before its first manifest, a store is new |

Two things make it work in the code: `manifest_write` flushes the directory
before the rename, so a namespace has the new manifest only with the files it
names, and the removals come after the second flush, so that a namespace with the
old manifest still has the old files. Steps that neither rename the manifest nor
remove what some manifest names are all instances of `Alike` (each namespace
afterwards differs from one before only outside the names that matter) and
`Stable` (what was whole remains as it was); `Ready` is what `Naming` says of an
open store between two calls.

Both theorems need `~Mix`. `Mix` lets power be lost over the page cache of a
process that was killed, or whose sync failed: there the next open reads what is
in view, no `fsync` of it is known to have been made, and a commit or a name it
builds on may vanish. That hypothesis is the `FALSE` of the run `store_power`; with
`TRUE` see section 3. TLC checked `Naming` under it on 785,000 states, kills and
failed syncs included, before the proof.

### 4.7 Lists

`Dropped` is a recursive function, and the induction theorems of the library
cannot be instantiated with the provers at hand. `ListsProofs` needs no such
theorem: where a fact about a list needs induction, it takes the shortest
list, or the first place, at which the fact fails (`LeastElement`, from the
well-foundedness of `<`) and refutes it. `Defined` shows in this way that the
recursion has a value, and `DroppedEmbeds` that `Dropped(s, X)` is the
subsequence of `s` outside `X`, in order and complete.

### 4.8 What stays with TLC

* Liveness under fairness (`Served`, `ReachEnds`, `OwnerLeaves`, `Woken`,
  `SpawnEnds`, `Answered`, `TermEnds`), and anything with `ENABLED`: out of the
  prover's reach.
* `NoFalseRefusal` is no theorem for all constants: with one stop, two or three
  attempts violate it, and what number of attempts is enough grows with the
  faults. It is checked with the number the code has.
* `OneWriter` without the margin, `WithheldUnseen`, `ReadsOpenTxn`,
  `CleanupReaches`, `DeadFilesSwept`, `AckedSurvive` and `ServiceSurvives` are
  false, as the runs and configurations of section 3 show.
* Not proved yet: of Store what its contents are (`PageCacheComplete`,
  `KeepsPromise`), and WebServer. No module declares a
  RECURSIVE operator, so both can be proved about; but `WebServer` computes with
  `FoldLeft`, and what a fold leaves needs the method of 4.7 first.

## 5. Not modelled

* What no single module shows: `f_sync` is not fenced (`lease.c:378`), so an
  owner that lost its lease may still answer DONE.
* A full disk, failures of `sync_dir`, backups, blobs, the undo of savepoints in
  the memtable.
* A commit that stands and answers GS_IO (`lsm.c:4087`): the owner then tells its
  client that nothing was written. The answer is in `Commits`; no property is
  about the text.
* `TakenAway` lets an owner that was replaced remove the other machine's socket
  when it ends (`owner.c:2030`); `Reachable` is about this machine's owners only.
* What the sections of part 2 leave out, module by module.
* Most of the repository by lines: the parser (generated by bison), expression
  evaluation, SQL parsing, planning and execution, keys, tables, the wire format,
  spreadsheets, XML, Qt and the other bindings. They are sequential functions
  over unbounded data, with few interleavings for a model checker to find; the
  share of the source the map covers is small for that reason.

## 6. Plan

1. Proofs: an invariant of the contents of logs and files on top of `Naming`, for
   `PageCacheComplete` and the steps of the refinement of `DurableStore`; `TypeOK`
   and `OwnAnswer` of WebServer.
2. `Database`, the composition of Lease, Store and Owner at the fence (unfenced
   syncs, the owner that is replaced).
3. Write errors in `Store`: a full disk, failed `sync_dir`; backups in slices
   against flush and compaction.
4. The evaluator's watchers and lock sets.
5. `version.c` and `table.c` as operators against reference definitions.
