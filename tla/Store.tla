------------------------------- MODULE Store --------------------------------
(***************************************************************************)
(* The LSM storage engine's durability (src/gsql/lsm.c): commits into a   *)
(* log, the memtable frozen and flushed to a sorted file, logs made ahead *)
(* and recycled, compaction, the manifest that names what counts, and     *)
(* recovery.                                                               *)
(*                                                                         *)
(* The engine has one thread, so nothing interleaves with it but its end: *)
(* the machine loses power, or the process is killed, between any two I/O *)
(* operations.  One action is about one I/O operation.  `todo` is the     *)
(* rest of the call under way, a sequence of <<step, job>> pairs; a call  *)
(* starts when it is empty.                                                *)
(*                                                                         *)
(* A commit is a transaction number.  Keys and values are left out: what  *)
(* a memtable, a file or a log holds is the set of commits whose effect   *)
(* is in it.                                                               *)
(***************************************************************************)
EXTENDS Disk, Lists

CONSTANTS
    Limit,      \* memtable_limit: commits that fill a memtable
    Trigger,    \* l0_trigger: files that make a compaction worth starting
    MaxTxn,     \* bound: commits
    MaxOpens,   \* bound: opens
    MaxFlushes, \* bound: calls of lsm_flush
    MaxLog,     \* bound: log numbers
    MaxFile,    \* bound: sorted-file numbers
    Kills,      \* whether the process may be killed and leave the page cache as it was
    SyncFails,  \* whether a sync may fail
    Mix         \* whether power may be lost after a store was opened over such a page cache

ASSUME StoreAssumption ==
    /\ {MaxSlot, MaxInode, Limit, Trigger, MaxTxn, MaxOpens, MaxLog, MaxFile} \subseteq Nat \ {0}
    /\ MaxFlushes \in Nat
    /\ {Kills, SyncFails, Mix} \subseteq BOOLEAN

\* What a slot of each kind of file may hold, besides Zero: no such record
\* reads as an invalid one.
LogRecord == [prev : Seq(Nat), salt : Nat, txn : Nat]
Version   == [first : Nat, next : Nat, files : SUBSET Nat]

ASSUME ZeroAssumption ==
    Zero \notin LogRecord \cup Version /\ \A S \in SUBSET (1 .. MaxTxn) : Zero # S

VARIABLES
    disk,    \* the storage (Disk)
    db,      \* the GsStore of the process
    todo,    \* the rest of the call under way
    state,   \* "off", "opening", "open", or "failed" after a failed sync
    opens,   \* opens so far; the number of this one stands for its log_salt
    txns,    \* commits attempted so far: the next is txns + 1
    flushes, \* calls of lsm_flush so far
    hist,    \* history: the commits made and not lost, oldest first
    acked,   \* history: the commits some sync reported durable
    stale    \* whether the page cache is older than the process, or than a failed sync

counts == <<opens, txns, flushes>>

vars == <<disk, db, todo, state, opens, txns, flushes, hist, acked, stale>>

Log(k)   == <<"log", k>>
Sst(n)   == <<"sst", n>>
Manifest == <<"manifest", 0>>
Tmp      == <<"tmp", 0>>
Lease    == <<"lease", 0>>

LogNums  == 1 .. MaxLog
FileNums == 1 .. MaxFile

\* The GsStore of a database with no commit, as create_db leaves it.
NewStore ==
    [mem |-> {}, imm |-> {}, files |-> {}, new |-> {}, comp |-> {},
     first |-> 1, log |-> 1, end |-> 0, chain |-> <<1>>, spare |-> "none",
     fl |-> 0, next |-> 1, durable |-> 0, short |-> FALSE]

\* A GsStore whose commits are those of T, of which n are not lost.
GsStore(T, n) ==
    [mem : SUBSET T, imm : SUBSET T,
     files : SUBSET [num : FileNums, txns : SUBSET T], new : SUBSET [num : FileNums, txns : SUBSET T],
     comp : SUBSET FileNums, first : LogNums, log : LogNums, end : 0 .. MaxSlot, chain : Seq(Nat),
     spare : {"none", "made", "ready"}, fl : 0 .. MaxLog, next : Nat,
     durable : 0 .. n, short : BOOLEAN]

\* The names files have.
Name == {Manifest, Tmp, Lease} \cup {Log(k) : k \in LogNums} \cup {Sst(n) : n \in FileNums}

\* The kind of file a name is for: a temporary manifest becomes the manifest.
Class(n) == IF n[1] = "tmp" THEN "manifest" ELSE n[1]

\* What a slot of a file of kind c may hold, after o opens and t commits.
Held(c, o, t) == {Zero} \cup
    CASE c = "log"      -> [prev : Seq(Nat), salt : 0 .. o, txn : 1 .. t]
      [] c = "manifest" -> {v \in Version : /\ v.first \in LogNums /\ v.files \subseteq FileNums
                                            /\ \A n \in v.files : n < v.next}
      [] c = "sst"      -> SUBSET (1 .. t)
      [] OTHER          -> {}

\* The steps of the calls, on the way of a file to its place, and whose file.
Calls == {"sync_log", "insert", "harden", "slice", "drain", "freeze", "spare", "make_spare",
          "sync_spare", "name_spare", "compact", "short", "swap", "close"}

Pipe == {"build", "sync_sst", "manifest", "sync_tmp", "sync_new", "rename", "sync_name", "installed"}

Builders == {"flush", "compact", "run"}

\* The steps, with what they are for.
StepOf == (Calls \X {"call"}) \cup (Pipe \X Builders)
            \cup ((Pipe \ {"build", "sync_sst"}) \X {"create", "move"}) \cup {<<"recover", "create">>}

\* The step under way is one of S, for a job of J.
Head1(S, J) == todo # <<>> /\ todo[1][1] \in S /\ todo[1][2] \in J

\* The process, and its history.
StateOK ==
    /\ state \in {"off", "opening", "open", "failed"}
    /\ opens \in 0 .. MaxOpens /\ txns \in 0 .. MaxTxn /\ flushes \in 0 .. MaxFlushes
    /\ stale \in BOOLEAN
    /\ hist \in Seq(1 .. txns) /\ acked \subseteq 1 .. txns
    /\ db \in GsStore(1 .. txns, Len(hist))

\* Whatever names a power loss leaves, each leads to a file of its kind: what a
\* slot of it has in the page cache, on the platter, or in a write on its way to
\* it, is what such a file holds.
DiskOK ==
    /\ disk.names \in disk.maybe
    /\ \A N \in disk.maybe : \A n \in DOMAIN N :
         /\ n \in Name /\ N[n] \in Inodes
         /\ \A s \in Slots : {disk.view[N[n]][s], disk.dur[N[n]][s]} \subseteq Held(Class(n), opens, txns)
         /\ \A w \in disk.dirty : w[1] = N[n] => w[3] \in Held(Class(n), opens, txns)

\* The store is open, or on the way to be.
Live == state = "open" \/ Head1(Pipe, {"create"})

\* What is written or synced next is there.
Standing ==
    /\ Live =>
         /\ Log(db.log) \in DOMAIN disk.names
         /\ Head1({"sync_spare", "name_spare"}, {"call"}) \/ db.spare # "none" =>
                Log(db.log + 1) \in DOMAIN disk.names
         /\ db.fl # 0 => Log(db.fl) \in DOMAIN disk.names
    /\ Head1({"sync_sst"}, Builders) =>
           \E n \in FileNums : db.next = n + 1 /\ Sst(n) \in DOMAIN disk.names
    /\ Head1({"sync_tmp"}, Builders \cup {"create", "move"}) => Tmp \in DOMAIN disk.names
    /\ \A f \in db.files \cup db.new : f.num < db.next

\* The type invariant: the process, the disk, and the step under way, which finds
\* the log, the new file or the temporary manifest that it writes or syncs.
TypeOK == StateOK /\ DiskOK /\ todo \in Seq(StepOf) /\ Standing

Init ==
    /\ disk = EmptyDisk
    /\ db = NewStore
    /\ todo = <<>>
    /\ state = "off"
    /\ opens = 0 /\ txns = 0 /\ flushes = 0
    /\ hist = <<>> /\ acked = {}
    /\ stale = FALSE

---------------------------------------------------------------------------
(* What a disk's content means to an open.                                 *)

\* Seeded fault: records carry no salt.
SumUnsalted(rec) == Append(rec.prev, 0)

\* The checksum of a record covers the checksum of the record before it (or
\* the seed of the log's number), and the open's salt.  Payloads may repeat,
\* so nothing else need differ between two records.
Sum(rec) == Append(rec.prev, rec.salt)

\* replay_log: the records of log k up to the first that does not chain.
Chained(d, k, n) ==
    \A s \in 1 .. n :
        LET rec == Read(d, Log(k), s)
        IN /\ rec # Zero
           /\ rec.prev = IF s = 1 THEN <<k>> ELSE Sum(Read(d, Log(k), s - 1))

End(d, k) == Max({n \in 0 .. MaxSlot : Chained(d, k, n)})

Replayed(d, k) == {Read(d, Log(k), s).txn : s \in 1 .. End(d, k)}

\* The logs an open replays: from the manifest's first to the last before a
\* number that is missing.
Logs(d, first) == {k \in LogNums : k >= first /\ \A j \in first .. k : Exists(d, Log(j))}

\* The manifest reads, and every file it names is there and whole.
Sound(d) ==
    LET m == Read(d, Manifest, 1)
    IN /\ m # Zero
       /\ \A n \in m.files : Exists(d, Sst(n)) /\ Read(d, Sst(n), 1) # Zero

Contents(d, nums) == {[num |-> n, txns |-> Read(d, Sst(n), 1)] : n \in nums}

\* The commits an open of the disk finds.
Recovered(d) ==
    IF ~Exists(d, Manifest) \/ ~Sound(d) THEN {}
    ELSE LET m == Read(d, Manifest, 1)
         IN (UNION {Read(d, Sst(n), 1) : n \in m.files})
              \cup UNION {Replayed(d, k) : k \in Logs(d, m.first)}

---------------------------------------------------------------------------
(* Steps of a call.                                                        *)

At(step) == todo # <<>> /\ todo[1][1] = step

Job == todo[1][2]

Rest(steps) == todo' = steps \o Tail(todo)

Steps(names, job) == [k \in DOMAIN names |-> <<names[k], job>>]

\* A call of the engine's interface.
Call(steps) ==
    /\ state = "open" /\ todo = <<>>
    /\ todo' = Steps(steps, "call")

\* Seeded fault: the directory is not flushed before the rename.
ManifestStepsOneFlush == <<"manifest", "sync_tmp", "rename", "sync_name", "installed">>

\* manifest_write, after the version in memory changed.
ManifestSteps == <<"manifest", "sync_tmp", "sync_new", "rename", "sync_name", "installed">>

\* A file built from start to end and named by a manifest: a flush, a
\* compaction, or the last run of a transaction that spilled.
BuildSteps == <<"build", "sync_sst">> \o ManifestSteps

\* What spare_step and spare_now have left to do.
SpareSteps == (IF db.spare = "none" THEN <<"make_spare", "sync_spare">> ELSE <<>>) \o <<"name_spare">>

\* flush_file, whatever it is called for: a failure makes the store unusable.
FlushFile(name, then) ==
    \/ /\ disk' = Sync(disk, name)
       /\ then
       /\ Rest(<<>>)
       /\ UNCHANGED state
    \/ /\ SyncFails
       /\ disk' \in FailedSync(disk, name)
       /\ state' = "failed"
       /\ todo' = <<>>
       /\ UNCHANGED <<db, acked>>

\* Seeded fault: commits lost in a crash are counted.
HardenLost == db' = [db EXCEPT !.durable = txns] /\ acked' = acked \cup Range(hist)

\* durable_seq = last_seq: every commit so far is reported durable.
Harden == db' = [db EXCEPT !.durable = Len(hist)] /\ acked' = acked \cup Range(hist)

---------------------------------------------------------------------------
(* Commits.                                                                *)

\* lsm_commit of a transaction that fits in memory: one record.  The rest is
\* memory, this commit's share of the flush, of the next log, and of the
\* merging.
Commit(sync) ==
    /\ Call((IF sync THEN <<"sync_log">> ELSE <<>>) \o <<"insert", "slice", "spare", "compact">>)
    /\ txns < MaxTxn /\ db.end < MaxSlot
    /\ txns' = txns + 1
    /\ disk' = Write(disk, Log(db.log), db.end + 1,
                     [prev |-> db.chain, salt |-> opens, txn |-> txns + 1])
    /\ hist' = Append(hist, txns + 1)
    /\ UNCHANGED <<db, state, opens, flushes, acked, stale>>

SyncLog ==
    /\ At("sync_log")
    /\ FlushFile(Log(db.log), Harden)
    /\ UNCHANGED <<counts, hist, stale>>

\* The commit enters the memtable; a full one waits for the last flush and is
\* frozen.
Insert ==
    /\ At("insert")
    /\ db' = [db EXCEPT !.mem = @ \cup {txns}, !.end = @ + 1, !.chain = Sum([prev |-> @, salt |-> opens])]
    /\ Rest(IF Cardinality(db'.mem) >= Limit THEN Steps(<<"drain", "freeze">>, "call") ELSE <<>>)
    /\ UNCHANGED <<disk, state, counts, hist, acked, stale>>

\* lsm_sync, alone or inside another call: nothing to do when all is durable.
SyncIfNeeded ==
    /\ At("harden")
    /\ \/ db.durable # Len(hist) /\ FlushFile(Log(db.log), Harden)
       \/ db.durable = Len(hist) /\ Rest(<<>>) /\ UNCHANGED <<disk, db, state, acked>>
    /\ UNCHANGED <<counts, hist, stale>>

\* commit_runs: a transaction that spilled is named by one manifest, over
\* memtables flushed first.
CommitRuns ==
    /\ txns < MaxTxn
    /\ state = "open" /\ todo = <<>>
    /\ todo' = Steps(<<"drain", "freeze", "drain", "compact">>, "call")
                 \o Steps(BuildSteps, "run") \o Steps(<<"compact">>, "call")
    /\ txns' = txns + 1
    /\ UNCHANGED <<disk, db, state, opens, flushes, hist, acked, stale>>

---------------------------------------------------------------------------
(* The frozen memtable and the logs.                                       *)

\* flush_step with a budget: a slice that does not finish writes part of a
\* file that nothing names, so only the last one is a step of the model.
Slice ==
    /\ At("slice")
    /\ \/ db.fl # 0 /\ Rest(Steps(BuildSteps, "flush"))
       \/ Rest(<<>>)
    /\ UNCHANGED <<disk, db, state, counts, hist, acked, stale>>

\* flush_step without one.
Drain ==
    /\ At("drain")
    /\ Rest(IF db.fl # 0 THEN Steps(BuildSteps, "flush") ELSE <<>>)
    /\ UNCHANGED <<disk, db, state, counts, hist, acked, stale>>

\* The state a log is switched to: the spare, empty.
OnSpare(d) == [d EXCEPT !.log = @ + 1, !.end = 0, !.chain = <<d.log + 1>>, !.spare = "none"]

\* Seeded fault: the old log is left unsynced.
FreezeUnsynced ==
    /\ At("freeze")
    /\ \/ /\ db.fl # 0 \/ db.mem = {}
          /\ Rest(<<>>) /\ UNCHANGED db
       \/ /\ db.fl = 0 /\ db.mem # {} /\ db.spare # "ready" /\ db.log < MaxLog
          /\ todo' = Steps(SpareSteps, "call") \o todo /\ UNCHANGED db
       \/ /\ db.fl = 0 /\ db.mem # {} /\ db.spare = "ready"
          /\ Rest(<<>>)
          /\ db' = [OnSpare(db) EXCEPT !.imm = db.mem, !.mem = {}, !.fl = db.log]
    /\ UNCHANGED <<disk, state, counts, hist, acked, stale>>

\* freeze: with the spare ready and the old log synced, the memtable becomes
\* imm and commits go to the spare.
Freeze ==
    /\ At("freeze")
    /\ LET idle == db.fl # 0 \/ db.mem = {}
       IN \/ /\ idle
             /\ Rest(<<>>) /\ UNCHANGED db
          \/ /\ ~idle /\ db.spare # "ready" /\ db.log < MaxLog
             /\ todo' = Steps(SpareSteps, "call") \o todo /\ UNCHANGED db
          \/ /\ ~idle /\ db.spare = "ready" /\ db.durable # Len(hist)
             /\ todo' = Steps(<<"harden">>, "call") \o todo /\ UNCHANGED db
          \/ /\ ~idle /\ db.spare = "ready" /\ db.durable = Len(hist)
             /\ Rest(<<>>)
             /\ db' = [OnSpare(db) EXCEPT !.imm = db.mem, !.mem = {}, !.fl = db.log]
    /\ UNCHANGED <<disk, state, counts, hist, acked, stale>>

\* A commit's share of the next log, none while a flush is pending.  A spare
\* is filled in one go, once the credit of the commits is enough; a recycled
\* one lacks only its durable name.
Spare ==
    /\ At("spare")
    /\ \/ /\ db.fl = 0 /\ db.spare # "ready" /\ db.log < MaxLog
          /\ Rest(Steps(SpareSteps, "call"))
       \/ /\ db.fl # 0 \/ db.spare # "made"
          /\ Rest(<<>>)
    /\ UNCHANGED <<disk, db, state, counts, hist, acked, stale>>

MakeSpare ==
    /\ At("make_spare") /\ Room(disk)
    /\ disk' = Create(disk, Log(db.log + 1))
    /\ db' = [db EXCEPT !.spare = "made"]
    /\ Rest(<<>>)
    /\ UNCHANGED <<state, counts, hist, acked, stale>>

SyncSpare ==
    /\ At("sync_spare")
    /\ FlushFile(Log(db.log + 1), UNCHANGED <<db, acked>>)
    /\ UNCHANGED <<counts, hist, stale>>

\* Seeded fault: the spare's name is not flushed.
NameSpareUnsynced ==
    /\ At("name_spare")
    /\ db' = [db EXCEPT !.spare = "ready"]
    /\ Rest(<<>>)
    /\ UNCHANGED <<disk, state, counts, hist, acked, stale>>

NameSpare ==
    /\ At("name_spare")
    /\ disk' = SyncDir(disk)
    /\ db' = [db EXCEPT !.spare = "ready"]
    /\ Rest(<<>>)
    /\ UNCHANGED <<state, counts, hist, acked, stale>>

---------------------------------------------------------------------------
(* Building and naming files.                                              *)

\* The commits that go into the file a job builds.
Input(job) ==
    CASE job = "flush"   -> db.imm
      [] job = "compact" -> UNION {f.txns : f \in {g \in db.files : g.num \in db.comp}}
      [] job = "run"     -> {txns}

Build ==
    /\ At("build") /\ db.next \in FileNums /\ Room(disk)
    /\ disk' = Write(Create(disk, Sst(db.next)), Sst(db.next), 1, Input(Job))
    /\ db' = [db EXCEPT !.next = @ + 1, !.new = {[num |-> db.next, txns |-> Input(Job)]}]
    /\ Rest(<<>>)
    /\ UNCHANGED <<state, counts, hist, acked, stale>>

SyncSst ==
    /\ At("sync_sst")
    /\ FlushFile(Sst(db.next - 1), UNCHANGED <<db, acked>>)
    /\ UNCHANGED <<counts, hist, stale>>

\* The version a job installs, and with a flush the first log to replay.
NextVersion(job) ==
    LET files == {f \in db.files : job = "compact" => f.num \notin db.comp} \cup db.new
    IN IF job = "flush"
       THEN [db EXCEPT !.files = files, !.new = {}, !.imm = {}, !.first = db.fl + 1]
       ELSE [db EXCEPT !.files = files, !.new = {}]

\* manifest_write's temporary file, whole.
WriteManifest ==
    /\ At("manifest") /\ Room(disk)
    /\ db' = NextVersion(Job)
    /\ disk' = Write(Create(Unlink(disk, Tmp), Tmp), Tmp, 1,
                     [first |-> db'.first, next |-> db'.next, files |-> {f.num : f \in db'.files}])
    /\ Rest(<<>>)
    /\ UNCHANGED <<state, counts, hist, acked, stale>>

SyncTmp ==
    /\ At("sync_tmp")
    /\ FlushFile(Tmp, UNCHANGED <<db, acked>>)
    /\ UNCHANGED <<counts, hist, stale>>

\* The directory is flushed twice: for the new files, and for the manifest's name.
FlushDir ==
    /\ At("sync_new") \/ At("sync_name")
    /\ disk' = SyncDir(disk)
    /\ Rest(<<>>)
    /\ UNCHANGED <<db, state, counts, hist, acked, stale>>

\* For a spilled transaction this rename is the commit.
RenameManifest ==
    /\ At("rename")
    /\ disk' = Rename(disk, Tmp, Manifest)
    /\ hist' = IF Job = "run" THEN Append(hist, txns) ELSE hist
    /\ Rest(<<>>)
    /\ UNCHANGED <<db, state, counts, acked, stale>>

\* The end of flush_install: the newest frozen log becomes the spare, if
\* there is none, and is dropped instead if it never grew to its full size
\* (sizes are left out: either may happen); the other frozen logs go.
Recycle ==
    \E keep \in BOOLEAN :
        LET last == Log(db.fl)
            to   == Log(db.log + 1)
            gone == {Log(k) : k \in {j \in LogNums : j <= db.fl}}
            took == IF db.spare # "none" THEN disk
                    ELSE IF keep THEN Rename(disk, last, to)
                    ELSE Unlink(Rename(disk, last, to), to)
        IN /\ db.log < MaxLog
           /\ disk' = UnlinkAll(took, gone)
           /\ db' = [db EXCEPT !.fl = 0, !.spare = IF @ = "none" /\ keep THEN "made" ELSE @]

\* What follows a durable manifest.
Installed ==
    /\ At("installed")
    /\ \/ Job = "flush" /\ Recycle /\ UNCHANGED acked
       \/ /\ Job = "compact"
          /\ disk' = UnlinkAll(disk, {Sst(n) : n \in db.comp})
          /\ db' = [db EXCEPT !.comp = {}]
          /\ UNCHANGED acked
       \/ /\ Job = "run"
          /\ Harden
          /\ UNCHANGED disk
       \/ /\ Job \in {"create", "move"}
          /\ UNCHANGED <<disk, db, acked>>
    /\ state' = "open"
    /\ Rest(<<>>)
    /\ UNCHANGED <<counts, hist, stale>>

\* maybe_compact: a compaction is begun, goes on over later calls while
\* flushes add files, and ends when its merge does; a trivial move only
\* writes the manifest.
Compact ==
    /\ At("compact")
    /\ \/ Rest(<<>>) /\ UNCHANGED db
       \/ /\ db.comp = {}
          /\ \E S \in SUBSET db.files :
                /\ Cardinality(S) >= Trigger
                /\ db' = [db EXCEPT !.comp = {f.num : f \in S}]
          /\ UNCHANGED todo
       \/ /\ db.comp # {}
          /\ Rest(Steps(BuildSteps, "compact")) /\ UNCHANGED db
       \/ /\ db.comp = {} /\ Cardinality(db.files) >= Trigger
          /\ Rest(Steps(ManifestSteps, "move")) /\ UNCHANGED db
    /\ UNCHANGED <<disk, state, counts, hist, acked, stale>>

---------------------------------------------------------------------------
(* The other calls.                                                        *)

SyncCall ==
    /\ Call(<<"harden">>)
    /\ UNCHANGED <<disk, db, state, counts, hist, acked, stale>>

\* lsm_begin_read: once writing has stopped, reads move a pending flush on.
BeginRead ==
    /\ db.fl # 0
    /\ Call(<<"slice">>)
    /\ UNCHANGED <<disk, db, state, counts, hist, acked, stale>>

\* lsm_flush: everything committed into sorted files.
FlushCall ==
    /\ flushes < MaxFlushes /\ flushes' = flushes + 1
    /\ Call(<<"harden", "drain">> \o (IF db.mem # {} THEN <<"short", "freeze">> ELSE <<>>)
              \o <<"drain", "swap", "compact">>)
    /\ UNCHANGED <<disk, db, state, opens, txns, hist, acked, stale>>

\* Whether spare_now has to make the spare, short and not zero-filled.
Short ==
    /\ At("short")
    /\ db' = [db EXCEPT !.short = (db.spare # "ready")]
    /\ Rest(<<>>)
    /\ UNCHANGED <<disk, state, counts, hist, acked, stale>>

\* The recycled log, of full size, takes the place of a short empty one.
Swap ==
    /\ At("swap")
    /\ LET wanted == db.short /\ db.fl = 0 /\ db.spare # "none" /\ db.end = 0
       IN \/ ~wanted /\ Rest(<<>>) /\ db' = [db EXCEPT !.short = FALSE]
          \/ /\ wanted /\ db.spare = "made"
             /\ todo' = Steps(SpareSteps, "call") \o todo /\ UNCHANGED db
          \/ /\ wanted /\ db.spare = "ready"
             /\ Rest(<<>>) /\ db' = [OnSpare(db) EXCEPT !.short = FALSE]
    /\ UNCHANGED <<disk, state, counts, hist, acked, stale>>

\* lsm_close.  store_free closes the lease, whose removal flushes the directory.
CloseCall ==
    /\ Call(<<"harden", "close">>)
    /\ UNCHANGED <<disk, db, state, counts, hist, acked, stale>>

Closed ==
    /\ disk' = SyncDir(Unlink(disk, Lease))
    /\ db' = NewStore /\ state' = "off" /\ todo' = <<>>
    /\ UNCHANGED <<counts, hist, acked>>

Close == At("close") /\ Closed /\ UNCHANGED stale

CloseFailed == state = "failed" /\ Closed /\ stale' = TRUE

---------------------------------------------------------------------------
(* Opening and recovery.                                                   *)

\* The lease is made if there is none, and its name flushed; one of this
\* machine is overwritten.
Open ==
    /\ state = "off" /\ opens < MaxOpens /\ Room(disk)
    /\ opens' = opens + 1
    /\ disk' = IF Exists(disk, Lease) THEN disk ELSE SyncDir(Create(disk, Lease))
    /\ state' = "opening"
    /\ todo' = <<<<"recover", "create">>>>
    /\ UNCHANGED <<db, txns, flushes, hist, acked, stale>>

\* create_db: the log first, then the manifest that names it.
CreateDb ==
    /\ At("recover") /\ ~Exists(disk, Manifest) /\ Room(disk)
    /\ disk' = Create(Unlink(disk, Log(1)), Log(1))
    /\ db' = NewStore
    /\ Rest(Steps(ManifestSteps, "create"))
    /\ UNCHANGED <<state, counts, hist, acked, stale>>

\* named(): the files of the version, and the logs from the first to the last.
Named(d) == {Manifest, Lease} \cup {Sst(f.num) : f \in d.files} \cup {Log(k) : k \in d.first .. d.log}

\* The manifest read, every log from its first replayed, and what nothing
\* names removed.  Everything recovered counts as durable.
Recover ==
    /\ At("recover") /\ Exists(disk, Manifest) /\ Sound(disk) /\ Room(disk)
    /\ LET m    == Read(disk, Manifest, 1)
           logs == Logs(disk, m.first)
           last == IF logs = {} THEN m.first ELSE Max(logs)
           d    == IF logs = {} THEN Create(disk, Log(last)) ELSE disk
           end  == End(d, last)
       IN /\ db' = [NewStore EXCEPT
                      !.mem = UNION {Replayed(disk, k) : k \in logs},
                      !.files = Contents(disk, m.files),
                      !.first = m.first, !.log = last, !.end = end,
                      !.chain = IF end = 0 THEN <<last>> ELSE Sum(Read(d, Log(last), end)),
                      !.next = m.next, !.durable = Len(hist)]
          /\ disk' = UnlinkAll(d, DOMAIN d.names \ Named(db'))
    /\ state' = "open"
    /\ Rest(<<>>)
    /\ UNCHANGED <<counts, hist, acked, stale>>

---------------------------------------------------------------------------
(* Crashes.  The history keeps what an open would now find.                *)

Gone ==
    /\ \E found \in {Recovered(disk')} : hist' = Dropped(hist, Range(hist) \ found)
    /\ db' = NewStore /\ todo' = <<>> /\ state' = "off"
    /\ UNCHANGED <<counts, acked>>

LosePower ==
    /\ stale => Mix
    /\ disk' \in PowerLoss(disk)
    /\ Gone
    /\ stale' = FALSE

Kill ==
    /\ Kills /\ state # "off"
    /\ UNCHANGED disk
    /\ Gone
    /\ stale' = TRUE

CallStep == \/ \E sync \in BOOLEAN : Commit(sync)
            \/ CommitRuns \/ SyncCall \/ BeginRead \/ FlushCall \/ CloseCall

LogStep == \/ SyncLog \/ Insert \/ SyncIfNeeded \/ Slice \/ Drain \/ Freeze
           \/ Spare \/ MakeSpare \/ SyncSpare \/ NameSpare \/ Short \/ Swap

FileStep == \/ Build \/ SyncSst \/ WriteManifest \/ SyncTmp \/ FlushDir
            \/ RenameManifest \/ Installed \/ Compact

Next == \/ Open \/ CreateDb \/ Recover \/ CallStep \/ LogStep \/ FileStep
        \/ Close \/ CloseFailed \/ LosePower \/ Kill

Spec == Init /\ [][Next]_vars

---------------------------------------------------------------------------
(* Properties.                                                             *)

\* The commits a new snapshot sees: durable_seq while the store is open.
Durable == IF state \in {"open", "failed"} THEN db.durable ELSE Len(hist)

Promise == INSTANCE DurableStore WITH Txns <- 1 .. MaxTxn, durable <- Durable

\* The engine implements DurableStore: whatever the call under way and
\* wherever power is lost, an open finds a prefix of the commits, with every
\* commit that was durable, and with no commit that was never made.
KeepsPromise == Promise!Spec

\* At every point of every call, an open of the files as the running system
\* sees them finds every commit made: a process that dies there loses none
\* (lsm_open_base's replay against flush_install, comp_install and freeze).
PageCacheComplete == Recovered(disk) = Range(hist)

\* Every file the manifest names is there and whole, whatever survived a
\* crash: no open answers CORRUPT (manifest_write's flush of the directory
\* before the rename, and the order of removals after it).
OpenSound == Exists(disk, Manifest) => Sound(disk)

\* A commit reported durable is not lost.
AckedSurvive == acked \subseteq Range(hist)

\* The log commits go to cannot lose its name to a power loss (spare_step).
LogNamed ==
    state = "open" /\ ~stale =>
        \A names \in disk.maybe :
            Log(db.log) \in DOMAIN names /\ names[Log(db.log)] = disk.names[Log(db.log)]
=============================================================================
