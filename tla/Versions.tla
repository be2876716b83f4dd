------------------------------ MODULE Versions ------------------------------
(***************************************************************************)
(* What a transaction of the storage engine reads (src/gsql/lsm.c): the   *)
(* versions of a key in the memtables and in the sorted files of the      *)
(* levels, which of them a flush, a compaction and the sweep of retired   *)
(* trees leave out, and the version of the tree a transaction pins.       *)
(*                                                                         *)
(* The engine has one thread.  A call runs to its end, `todo` holding the *)
(* steps left of it, but a flush and a compaction are cut into slices, one *)
(* in each commit, so transactions begin and end while they are paused.   *)
(*                                                                         *)
(* An entry is a key, the sequence number of the write and whether it is  *)
(* a deletion; the number stands for the value.  Bytes are left out:      *)
(* whether a memtable is full, a level is over its limit, an output is    *)
(* cut or a slice's budget is spent is any outcome.  What is on disk is   *)
(* what module Store says: an installed version and the log up to some    *)
(* commit at or after the last durable one.                                *)
(***************************************************************************)
EXTENDS FiniteSetsExt, SequencesExt, Lists

CONSTANTS
    MaxKey,     \* keys are 0 .. MaxKey; 0 is the catalog's entry of a tree
    TreeOf,     \* the tree of a key; in key order, as the id comes first in it
    Levels,     \* LEVELS
    Trigger,    \* l0_trigger: files in level 0 that want a compaction
    Written,    \* the keys transactions that do not spill write
    Spills,     \* the runs a spilled transaction may commit: sequences of [keys -> BOOLEAN]
    None,       \* no flush, no compaction
    MaxSeq,     \* bound: sequence numbers
    MaxReaders, \* bound: open read transactions
    MaxFaults   \* bound: crashes, and I/O errors met by a flush or a compaction

ASSUME VersionsAssumption ==
    /\ MaxKey \in Nat
    /\ TreeOf \in [0 .. MaxKey -> Nat]
    /\ \A j, k \in 0 .. MaxKey : j <= k => TreeOf[j] <= TreeOf[k]
    /\ Written \subseteq 1 .. MaxKey
    /\ Levels \in Nat \ {0, 1} /\ Trigger \in Nat \ {0}
    /\ {MaxSeq, MaxReaders, MaxFaults} \subseteq Nat
    /\ Spills \subseteq Seq(UNION {[K -> BOOLEAN] : K \in (SUBSET (0 .. MaxKey)) \ {{}}})

VARIABLES
    cur,      \* db->cur, the current Version
    mems,     \* the memtables, each a set of entries; {} where none is allocated
    last,     \* last_seq
    durable,  \* durable_seq
    dead,     \* the commit that retired a tree, or 0
    sweep,    \* whether retired trees may have left whole files
    fl,       \* the flush under way, or None
    comp,     \* the compaction under way, or None
    readers,  \* the open read transactions
    todo,     \* the steps left of the call under way
    hist,     \* history: every entry committed and not lost in a crash
    faults    \* crashes and errors so far

vars == <<cur, mems, last, durable, dead, sweep, fl, comp, readers, todo, hist, faults>>

Key   == 0 .. MaxKey
Tree  == {TreeOf[k] : k \in Key}
Deep  == 1 .. Levels - 1
Entry == [key : Key, seq : 1 .. MaxSeq, del : BOOLEAN]
File  == (SUBSET Entry) \ {{}}

\* A flush (FlushState) and a compaction (Comp) under way.
Flushing == [at : Nat, upto : Nat, out : SUBSET Entry]
Merging  == [level : Nat, next : Deep, in : SUBSET File, bottom : BOOLEAN, keep : Nat,
             rest : SUBSET Entry, out : SUBSET Entry]

ASSUME NoneAssumption == None \notin Flushing \cup Merging

---------------------------------------------------------------------------
(* Files and versions.  A file is the set of its entries.                  *)

Smallest(file) == Min({e.key : e \in file})
Largest(file)  == Max({e.key : e \in file})

\* files_overlap, and overlaps with the range of a set of files.
Overlap(f, g) == Largest(f) >= Smallest(g) /\ Largest(g) >= Smallest(f)

\* version_add.
Added(v, l, files) == [v EXCEPT !.deep[l] = @ \cup files]

\* version_remove, at every level.
Without(v, files) ==
    [v EXCEPT !.l0 = Dropped(@, files),
              !.deep = [l \in Deep |-> v.deep[l] \ files]]

Files(v) == ToSet(v.l0) \cup UNION {v.deep[l] : l \in Deep}

Mem(i) == IF i = 0 THEN {} ELSE mems[i]

\* The memtables the versions of v and of the readers rs hold.
Held(v, rs) == UNION {{u.mem, u.imm} : u \in {v} \cup {r.v : r \in rs}}

\* mem_unref: a memtable no version holds is freed.
Freed(v, rs) == [i \in DOMAIN mems |-> IF i \in Held(v, rs) THEN mems[i] ELSE {}]

\* The newest entry of key k in a source that snapshot snap may see, if any.
Newest(ents, k, snap) ==
    LET seen == {e \in ents : e.key = k /\ e.seq <= snap}
    IN {e \in seen : \A d \in seen : d.seq <= e.seq}

Live(found) == {e \in found : ~e.del}

\* lookup, below level 0: the one file a binary search finds, the first whose
\* largest key is not below k.
Searched(files, k) ==
    LET at == {f \in files : Largest(f) >= k}
    IN UNION {f \in at : \A g \in at : Largest(f) <= Largest(g)}

\* The places lookup tries, in order.
Sources(v, k) ==
    <<Mem(v.mem), Mem(v.imm)>> \o Reverse(v.l0) \o [l \in Deep |-> Searched(v.deep[l], k)]

\* lookup: the first source that has the key at the snapshot answers.
Lookup(v, k, snap) ==
    LET s  == Sources(v, k)
        at == {i \in DOMAIN s : \E e \in s[i] : e.key = k /\ e.seq <= snap}
    IN IF at = {} THEN {} ELSE Live(Newest(s[Min(at)], k, snap))

\* A cursor: every source merged, the highest sequence it may see of a key.
Scan(v, k, snap) ==
    Live(Newest(Mem(v.mem) \cup Mem(v.imm) \cup UNION Files(v), k, snap))

---------------------------------------------------------------------------
EmptyVersion == [mem |-> 1, imm |-> 0, l0 |-> <<>>, deep |-> [l \in Deep |-> {}]]

Init ==
    /\ cur = EmptyVersion
    /\ mems = [i \in 1 .. 2 + 2 * MaxReaders |-> {}]
    /\ last = 0 /\ durable = 0
    /\ dead = [t \in Tree |-> 0]
    /\ sweep = FALSE
    /\ fl = None /\ comp = None
    /\ readers = {}
    /\ todo = <<>>
    /\ hist = {}
    /\ faults = 0

At(step) == todo # <<>> /\ Head(todo) = step

\* horizon: what a transaction that has not begun yet may read from.
Horizon == durable

\* A tree retired where nobody who begins now can see it.
Gone(t, upto) == dead[t] # 0 /\ dead[t] <= upto

---------------------------------------------------------------------------
(* Transactions.                                                           *)

\* The rest of a commit once its entries are in the memtable: when that is
\* full, the flush under way is finished and the memtable frozen; then a
\* share of the flush and of the merging.
Shares(full) ==
    (IF full THEN <<"flush", "freeze">> ELSE <<>>) \o <<"share", "sweep", "merge">>

\* The common part of a commit that goes through the log.
Logged(e, sync) ==
    /\ todo = <<>> /\ last < MaxSeq
    /\ mems' = [mems EXCEPT ![cur.mem] = @ \cup {e}]
    /\ hist' = hist \cup {e}
    /\ last' = last + 1
    /\ durable' = IF sync THEN last + 1 ELSE durable
    /\ \E full \in BOOLEAN : todo' = Shares(full)
    /\ UNCHANGED <<cur, fl, comp, readers, faults>>

\* lsm_commit of a put or a deletion in a tree that exists.
Commit(k, del, sync) ==
    /\ dead[TreeOf[k]] = 0
    /\ Logged([key |-> k, seq |-> last + 1, del |-> del], sync)
    /\ UNCHANGED <<dead, sweep>>

\* lsm_commit of a transaction that drops a tree: the catalog's entry goes
\* and the tree is retired.
Retire(t, sync) ==
    /\ t # TreeOf[0] /\ dead[t] = 0
    /\ Logged([key |-> 0, seq |-> last + 1, del |-> TRUE], sync)
    /\ dead' = [dead EXCEPT ![t] = last + 1]
    /\ sweep' = TRUE

\* commit_runs, before the runs: every memtable is flushed.
SpilledCommit ==
    /\ todo = <<>> /\ last < MaxSeq
    /\ todo' = <<"flush", "freeze", "flush", "sweep", "merge0", "runs">>
    /\ UNCHANGED <<cur, mems, last, durable, dead, sweep, fl, comp, readers, hist, faults>>

\* Some run deletes the catalog's entry of a tree.
DropsTree(runs) == \E i \in DOMAIN runs : 0 \in DOMAIN runs[i] /\ runs[i][0]

\* commit_runs: the manifest that names the runs, and the trees the transaction
\* dropped, is the commit.  Each run has one sequence number.
Runs(runs, trees) ==
    LET n    == Len(runs)
        file == [i \in 1 .. n |->
                   {[key |-> k, seq |-> last + i, del |-> runs[i][k]] : k \in DOMAIN runs[i]}]
    IN /\ At("runs")
       /\ last + n <= MaxSeq
       /\ \A i \in 1 .. n : \A k \in DOMAIN runs[i] : dead[TreeOf[k]] = 0
       /\ \A t \in trees : t # TreeOf[0] /\ dead[t] = 0
       /\ DropsTree(runs) <=> trees # {}
       /\ cur' = [cur EXCEPT !.l0 = @ \o file]
       /\ hist' = hist \cup UNION {file[i] : i \in 1 .. n}
       /\ last' = last + n
       /\ durable' = last + n
       /\ dead' = [t \in Tree |-> IF t \in trees THEN last + n ELSE dead[t]]
       /\ sweep' = (sweep \/ trees # {})
       /\ todo' = <<"sweep", "merge">>
       /\ UNCHANGED <<mems, fl, comp, readers, faults>>

\* A spilled transaction that is rolled back instead, by the program or since its
\* manifest could not be written, which leaves the order to sweep behind.
RunsAborted ==
    /\ At("runs")
    /\ sweep' \in {sweep, TRUE}
    /\ todo' = <<>>
    /\ UNCHANGED <<cur, mems, last, durable, dead, fl, comp, readers, hist, faults>>

\* lsm_sync.
Sync ==
    /\ todo = <<>> /\ durable # last
    /\ durable' = last
    /\ UNCHANGED <<cur, mems, last, dead, sweep, fl, comp, readers, todo, hist, faults>>

\* lsm_flush.
Flush ==
    /\ todo = <<>>
    /\ durable' = last
    /\ todo' = <<"flush", "freeze", "flush", "sweep", "merge0">>
    /\ UNCHANGED <<cur, mems, last, dead, sweep, fl, comp, readers, hist, faults>>

\* lsm_begin_read: a store with no commit lately moves its flush on first.
BeginRead ==
    /\ todo = <<>> /\ Cardinality(readers) < MaxReaders
    /\ \/ todo' = <<"begin">>
       \/ fl # None /\ todo' = <<"share", "begin">>
    /\ UNCHANGED <<cur, mems, last, durable, dead, sweep, fl, comp, readers, hist, faults>>

\* The version and the snapshot a read transaction begins with.
Pinned == [v |-> cur, snap |-> durable]

Begin ==
    /\ At("begin")
    /\ readers' = readers \cup {Pinned}
    /\ todo' = Tail(todo)
    /\ UNCHANGED <<cur, mems, last, durable, dead, sweep, fl, comp, hist, faults>>

\* txn_free: the version it pinned may go.
EndRead(r) ==
    /\ todo = <<>>
    /\ readers' = readers \ {r}
    /\ mems' = Freed(cur, readers')
    /\ UNCHANGED <<cur, last, durable, dead, sweep, fl, comp, todo, hist, faults>>

---------------------------------------------------------------------------
(* The flush.                                                              *)

\* Seeded fault: the frozen commits are not made durable.
FrozenDurableNot == durable

\* freeze: the old log is synced first.
FrozenDurable == last

\* freeze does nothing while a memtable is frozen, or when there is nothing.
Freeze ==
    /\ At("freeze")
    /\ todo' = Tail(todo)
    /\ IF fl # None \/ Mem(cur.mem) = {}
       THEN UNCHANGED <<cur, durable, fl>>
       ELSE /\ durable' = FrozenDurable
            /\ cur' = [cur EXCEPT !.imm = cur.mem, !.mem = Min(DOMAIN mems \ Held(cur, readers))]
            /\ fl' = [at |-> 0, upto |-> last, out |-> {}]
    /\ UNCHANGED <<mems, last, dead, sweep, comp, readers, hist, faults>>

Frozen == {e.key : e \in Mem(cur.imm)}

\* What a flush writes of a key: the newest version, and nothing of a tree
\* retired by the freeze.
Flushed(k) == IF Gone(TreeOf[k], fl.upto) THEN {} ELSE Newest(Mem(cur.imm), k, last)

\* flush_step_run up to and including key n, and flush_install at the end.
FlushTo(n) ==
    LET out == fl.out \cup UNION {Flushed(k) : k \in Frozen \cap fl.at .. n}
    IN IF \E k \in Frozen : k > n
       THEN fl' = [fl EXCEPT !.at = n + 1, !.out = out] /\ UNCHANGED cur
       ELSE /\ fl' = None
            /\ cur' = [cur EXCEPT !.imm = 0, !.l0 = IF out = {} THEN @ ELSE Append(@, out)]

\* flush_step with a budget (a share) or without one.
FlushStep ==
    /\ At("share") \/ At("flush")
    /\ todo' = Tail(todo)
    /\ IF fl = None
       THEN UNCHANGED <<cur, fl>>
       ELSE \E n \in Frozen :
              /\ n >= fl.at
              /\ At("flush") => n = Max(Frozen)
              /\ FlushTo(n)
    /\ mems' = Freed(cur', readers)
    /\ UNCHANGED <<last, durable, dead, sweep, comp, readers, hist, faults>>

\* A flush meets an I/O error: flush_abandon, to start over.  The call ends,
\* or goes on if the disk was full or a reader was beginning.
FlushFails ==
    /\ At("share") \/ At("flush")
    /\ fl # None /\ faults < MaxFaults
    /\ faults' = faults + 1
    /\ fl' = [fl EXCEPT !.at = 0, !.out = {}]
    /\ \/ At("share") /\ todo' = Tail(todo)
       \/ todo[Len(todo)] # "begin" /\ todo' = <<>>
    /\ UNCHANGED <<cur, mems, last, durable, dead, sweep, comp, readers, hist>>

---------------------------------------------------------------------------
(* Compaction.                                                             *)

\* file_all_dead: every tree from the file's first key to its last is retired.
AllDead(file, upto) ==
    \A t \in TreeOf[Smallest(file)] .. TreeOf[Largest(file)] : t \in Tree /\ Gone(t, upto)

Swept == {f \in Files(cur) : AllDead(f, Horizon)}

\* Seeded fault: the sweep does not wait for a compaction.
SweepAnyway ==
    /\ At("sweep")
    /\ todo' = Tail(todo)
    /\ IF ~sweep
       THEN UNCHANGED <<cur, sweep>>
       ELSE /\ cur' = Without(cur, Swept)
            /\ sweep' = \E t \in Tree : dead[t] > Horizon
    /\ UNCHANGED <<mems, last, durable, dead, fl, comp, readers, hist, faults>>

\* sweep_dead, which waits while a compaction is paused.
SweepDead ==
    /\ At("sweep")
    /\ todo' = Tail(todo)
    /\ IF ~sweep \/ comp # None
       THEN UNCHANGED <<cur, sweep>>
       ELSE /\ cur' = Without(cur, Swept)
            /\ sweep' = \E t \in Tree : dead[t] > Horizon
    /\ UNCHANGED <<mems, last, durable, dead, fl, comp, readers, hist, faults>>

Wanted0 == Len(cur.l0) >= Trigger
Stalled == Len(cur.l0) >= 3 * Trigger

\* comp_make: no level below the outputs holds a file.
Bottom(next) == \A l \in Deep : l > next => cur.deep[l] = {}

\* Seeded fault: the boundary is the last commit, durable or not.
KeepAfterLast == last

KeepAfter == Horizon

\* comp_make.
Compaction(level, next, up, down) ==
    [level |-> level, next |-> next, in |-> up \cup down, bottom |-> Bottom(next),
     keep |-> KeepAfter, rest |-> UNION (up \cup down), out |-> {}]

\* Seeded fault: only level 1 is compared with.
L0AloneBelow(i) == \A f \in cur.deep[1] : ~Overlap(cur.l0[i], f)

\* l0_move_alone: the files of level 0 that overlap nothing there or in level 1.
L0Alone(i) ==
    /\ \A j \in DOMAIN cur.l0 \ {i} : ~Overlap(cur.l0[i], cur.l0[j])
    /\ \A f \in cur.deep[1] : ~Overlap(cur.l0[i], f)

\* comp_start(0).  The range is that of the whole level.  The trivial move
\* never applies: if it could, every file would be alone.
Start0 ==
    LET l0    == ToSet(cur.l0)
        alone == {cur.l0[i] : i \in {i \in DOMAIN cur.l0 : L0Alone(i)}}
        below == {f \in cur.deep[1] : Overlap(f, UNION l0)}
    IN IF alone # {}
       THEN cur' = Added(Without(cur, alone), 1, alone) /\ UNCHANGED comp
       ELSE comp' = Compaction(0, 1, l0, below) /\ UNCHANGED cur

\* comp_start(l), of one file and what it overlaps below; moved down as it is
\* when that is nothing.
StartOf(l, f) ==
    LET below == {g \in cur.deep[l + 1] : Overlap(f, g)}
    IN IF below = {}
       THEN cur' = Added(Without(cur, {f}), l + 1, {f}) /\ UNCHANGED comp
       ELSE comp' = Compaction(l, l + 1, {f}, below) /\ UNCHANGED cur

\* gc_start, for blob space: a file rewritten where it is, or level 0.
GcStart ==
    \/ \E l \in Deep : \E f \in cur.deep[l] :
           comp' = Compaction(l, l, {f}, {}) /\ UNCHANGED cur
    \/ cur.l0 # <<>> /\ Start0

\* maybe_compact begins a compaction: level 0 first; else one file of a level
\* over its limit; else, with budget left, one for blob space.
CompStart ==
    /\ At("merge") \/ At("merge0")
    /\ comp = None
    /\ \/ Wanted0 /\ Start0
       \/ /\ ~Wanted0
          /\ \E l \in Deep \ {Levels - 1} : \E f \in cur.deep[l] : StartOf(l, f)
       \/ ~Wanted0 /\ At("merge") /\ GcStart
    /\ UNCHANGED <<mems, last, durable, dead, sweep, fl, readers, todo, hist, faults>>

\* ent_cmp: by key, and the newest first.
Before(d, e) == d.key < e.key \/ (d.key = e.key /\ d.seq > e.seq)

\* The versions a merge keeps: all newer than the boundary, and the newest at
\* or below it, but for a deletion with nothing under it; nothing of a tree
\* retired by then.
Keep(c, e) ==
    /\ ~Gone(TreeOf[e.key], c.keep)
    /\ \/ e.seq > c.keep
       \/ /\ \A d \in UNION c.in : d.key = e.key /\ d.seq <= c.keep => d.seq <= e.seq
          /\ ~(c.bottom /\ e.del)

\* comp_step_run through entry e.
Merged(e) ==
    LET done == {d \in comp.rest : d = e \/ Before(d, e)}
    IN [comp EXCEPT !.rest = @ \ done, !.out = @ \cup {d \in done : Keep(comp, d)}]

\* The files of the outputs, cut where a key in `cuts` begins.
Cut(out, cuts) ==
    {f \in {{e \in out : Max({c \in cuts \cup {0} : c <= e.key}) = b} : b \in cuts \cup {0}} :
        f # {}}

\* comp_install, over whatever version is current now.
Install(c, files) == Added(Without(cur, c.in), c.next, files)

\* comp_step pauses when the budget is spent; not when level 0 backs up.
CompPause ==
    /\ At("merge") /\ comp # None /\ ~Stalled
    /\ \E e \in comp.rest : \E d \in comp.rest : Before(e, d) /\ comp' = Merged(e)
    /\ todo' = Tail(todo)
    /\ UNCHANGED <<cur, mems, last, durable, dead, sweep, fl, readers, hist, faults>>

\* The merge ends and installs; the loop goes on with what budget is left.
CompFinish ==
    /\ At("merge") \/ (At("merge0") /\ Stalled)
    /\ comp # None
    /\ LET c == Merged(CHOOSE e \in comp.rest : \A d \in comp.rest : d = e \/ Before(d, e))
       IN \E cuts \in SUBSET {e.key : e \in c.out} : cur' = Install(c, Cut(c.out, cuts))
    /\ comp' = None
    /\ \/ UNCHANGED todo
       \/ todo' = <<"merge0">> \o Tail(todo)
    /\ UNCHANGED <<mems, last, durable, dead, sweep, fl, readers, hist, faults>>

\* maybe_compact returns: nothing is wanted, or the budget is spent.
CompDone ==
    /\ At("merge") \/ At("merge0")
    /\ IF comp = None THEN ~Wanted0 ELSE At("merge0") /\ ~Stalled
    /\ todo' = Tail(todo)
    /\ UNCHANGED <<cur, mems, last, durable, dead, sweep, fl, comp, readers, hist, faults>>

\* A merge meets an I/O error: comp_free drops its outputs and the call ends.
CompFails ==
    /\ At("merge") \/ (At("merge0") /\ Stalled)
    /\ comp # None /\ faults < MaxFaults
    /\ faults' = faults + 1
    /\ comp' = None
    /\ todo' = <<>>
    /\ UNCHANGED <<cur, mems, last, durable, dead, sweep, fl, readers, hist>>

---------------------------------------------------------------------------
\* The process ends and the store is opened again: the installed version, and
\* the log replayed up to a commit n at or after the last durable one.
Crash(n) ==
    /\ faults < MaxFaults
    /\ n \in durable .. last
    /\ faults' = faults + 1
    /\ mems' = [i \in DOMAIN mems |->
                  IF i = 1 THEN {e \in Mem(cur.mem) \cup Mem(cur.imm) : e.seq <= n} ELSE {}]
    /\ cur' = [cur EXCEPT !.mem = 1, !.imm = 0]
    /\ last' = n /\ durable' = n
    /\ hist' = {e \in hist : e.seq <= n}
    /\ dead' = [t \in Tree |-> IF dead[t] <= n THEN dead[t] ELSE 0]
    /\ sweep' = FALSE
    /\ fl' = None /\ comp' = None
    /\ readers' = {}
    /\ todo' = <<>>

Next ==
    \/ \E k \in Written, del \in BOOLEAN, sync \in BOOLEAN : Commit(k, del, sync)
    \/ \E t \in Tree, sync \in BOOLEAN : Retire(t, sync)
    \/ SpilledCommit
    \/ \E runs \in Spills, trees \in SUBSET Tree : Runs(runs, trees)
    \/ RunsAborted
    \/ Sync
    \/ Flush
    \/ BeginRead \/ Begin
    \/ \E r \in readers : EndRead(r)
    \/ Freeze \/ FlushStep \/ FlushFails
    \/ SweepDead
    \/ CompStart \/ CompPause \/ CompFinish \/ CompDone \/ CompFails
    \/ \E n \in 0 .. MaxSeq : Crash(n)

Spec == Init /\ [][Next]_vars

---------------------------------------------------------------------------
\* The type invariant: versions of non-empty files and known memtables, a
\* flush exactly while a memtable is frozen, and a compaction whose inputs are
\* still in the current version, at the levels it took them from.
TypeOK ==
    /\ \A v \in {cur} \cup {r.v : r \in readers} :
         /\ v.mem \in DOMAIN mems /\ v.imm \in {0} \cup DOMAIN mems
         /\ Files(v) \subseteq File
    /\ mems \in Seq(SUBSET Entry)
    /\ hist \subseteq Entry
    /\ last \in 0 .. MaxSeq /\ durable \in 0 .. last
    /\ dead \in [Tree -> 0 .. last] /\ sweep \in BOOLEAN
    /\ (fl = None) = (cur.imm = 0)
    /\ comp # None => comp.in \subseteq Files(cur) /\ comp.rest # {}
    /\ \A r \in readers : r.snap \in 0 .. durable

\* The transactions to serve: the open ones, and between calls one that
\* begins now, to read (at the last durable commit) or to write (at the last).
Serve ==
    readers \cup IF todo = <<>>
                 THEN {[v |-> cur, snap |-> durable], [v |-> cur, snap |-> last]}
                 ELSE {}

\* Every transaction reads, of every key of a tree that exists at its
\* snapshot, exactly what the commits up to its snapshot left there, by a point
\* lookup and by a cursor alike; whatever was flushed, merged, swept or dropped
\* since, and whatever a crash took (lookup, find_forward, comp_step_run,
\* flush_step_run, sweep_dead).
SnapshotReads ==
    \A t \in Serve : \A k \in Key :
        ~Gone(TreeOf[k], t.snap) =>
            LET truth == Live(Newest(hist, k, t.snap))
            IN Lookup(t.v, k, t.snap) = truth /\ Scan(t.v, k, t.snap) = truth

\* Nothing in a file is newer than the last durable commit, which is why a
\* compaction may leave every shadowed version out, a flush write only the
\* newest, and a crash lose no part of a file's tree but its retirement
\* (freeze, commit_runs).
FilesDurable == \A f \in Files(cur) : \A e \in f : e.seq <= durable

\* What lookup takes for granted when it stops at the first source that has
\* the key: below level 0 the files of a level do not overlap, and of one key
\* everything in a source is newer than everything in the sources after it.
Layered ==
    /\ \A l \in Deep : \A f, g \in cur.deep[l] : f # g => ~Overlap(f, g)
    /\ \A k \in Key : LET s == Sources(cur, k)
       IN \A i \in DOMAIN s : \A d \in s[i] : d.key = k =>
            \A j \in i + 1 .. Len(s) : \A e \in s[j] : e.key = k => d.seq > e.seq

\* "A file whose every record belongs to a tree retired at or before the last
\* durable commit ... is dropped whole ... rather than left until a compaction
\* happens to rewrite it" (the comment on file_all_dead): between calls, while
\* such a file is still there, the engine means to sweep at a later call.
DeadFilesSwept ==
    todo = <<>> /\ (\E f \in Files(cur) : AllDead(f, durable)) => sweep
=============================================================================
