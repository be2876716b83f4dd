---------------------------- MODULE StoreProofs ----------------------------
(***************************************************************************)
(* What is proved of the storage engine (Store) for every instance of its  *)
(* constants: the inductive invariant and its proofs.                      *)
(***************************************************************************)
EXTENDS Store, ListsProofs, FiniteSetTheorems, TLAPS

-----------------------------------------------------------------------------
(* Disks.                                                                  *)

Value == {Zero} \cup LogRecord \cup Version \cup SUBSET Nat

\* Slot s of inode i holds v in the page cache, or may after a power loss.
Holds(d, i, s, v) ==
    \/ d.view[i][s] = v \/ d.dur[i][s] = v \/ <<i, s, v>> \in d.dirty
    \/ v = Zero /\ \E u \in Value : <<i, s, u>> \in d.dirty

Namespace(N) == DOMAIN N \subseteq Name /\ N \in [DOMAIN N -> Inodes]

DiskShape(d) ==
    /\ d = [names |-> d.names, maybe |-> d.maybe, view |-> d.view, dur |-> d.dur, dirty |-> d.dirty]
    /\ d.view \in [Inodes -> [Slots -> Value]] /\ d.dur \in [Inodes -> [Slots -> Value]]
    /\ d.dirty \subseteq Inodes \X Slots \X Value
    /\ d.names \in d.maybe /\ \A N \in d.maybe : Namespace(N)

\* Names of two kinds never lead to one inode, whatever names the platter
\* has; what an inode holds is of its names' kind; and an inode nothing leads
\* to is blank.
DiskKinds(d, o, t) ==
    /\ \A N, M \in d.maybe : \A a \in DOMAIN N, b \in DOMAIN M :
           N[a] = M[b] => Class(a) = Class(b)
    /\ \A N \in d.maybe : \A a \in DOMAIN N, s \in Slots, v \in Value :
           Holds(d, N[a], s, v) => v \in Held(Class(a), o, t)
    /\ \A i \in Inodes \ Reachable(d), s \in Slots, v \in Value : Holds(d, i, s, v) => v = Zero

-----------------------------------------------------------------------------
(* Calls.                                                                  *)

After(s) ==
    CASE s = "build" -> "sync_sst"      [] s = "sync_sst" -> "manifest"
      [] s = "manifest" -> "sync_tmp"   [] s = "sync_tmp" -> "sync_new"
      [] s = "sync_new" -> "rename"     [] s = "rename" -> "sync_name"
      [] s = "sync_name" -> "installed"

\* A step that a call can hold behind an unrelated one.
Entry(p) ==
    \/ p[1] \in Calls \ {"insert", "make_spare", "sync_spare", "name_spare", "sync_log"}
    \/ p = <<"build", "run">>

Linked == Pipe \ {"installed"}

\* What may come after a step.
Follows(p, q) ==
    IF p[1] \in Linked THEN q = <<After(p[1]), p[2]>>
    ELSE \/ Entry(q)
         \/ p[1] = "sync_log" /\ q[1] = "insert"
         \/ p[1] = "make_spare" /\ q[1] = "sync_spare"
         \/ p[1] = "sync_spare" /\ q[1] = "name_spare"

\* A call never ends on the way of a file to its place, nor at these.
Ends(p) == p[1] \notin Linked \cup {"sync_log", "make_spare", "sync_spare"}

Path(s) ==
    /\ s \in Seq(StepOf)
    /\ \A k \in 1 .. Len(s) - 1 : Follows(s[k], s[k + 1])
    /\ s # <<>> => Ends(s[Len(s)])

\* The call under way.
CallShape ==
    /\ Path(todo)
    /\ state \in {"off", "failed"} => todo = <<>>
    /\ state = "opening" => todo # <<>>
    /\ \A p \in Range(todo) :
           /\ p[2] = "create" <=> state = "opening"
           /\ p[1] = "insert" => db.end < MaxSlot /\ 1 <= txns
           /\ p[2] = "run" => 1 <= txns
    /\ Head1(Pipe, {"flush"}) => db.fl # 0

\* The spare and the frozen log are beside the log.
LogShape ==
    /\ db.spare # "none" => db.log < MaxLog
    /\ Head1({"make_spare", "sync_spare", "name_spare"}, {"call"}) => db.log < MaxLog
    /\ db.fl # 0 => db.fl + 1 = db.log

Types ==
    /\ StateOK
    /\ DiskShape(disk) /\ DiskKinds(disk, opens, txns)
    /\ CallShape /\ LogShape /\ Standing

-----------------------------------------------------------------------------
(* Names.                                                                  *)

\* The namespaces an open may meet: the one the system sees, and without a
\* stale page cache those a power loss may leave.
Worlds(d, st) == IF st THEN {d.names} ELSE d.maybe

\* The first slot of the inode is whole, and the same in each of them.
Settled(d, st, i) ==
    /\ d.view[i][1] # Zero
    /\ ~st => \A v \in Value : Holds(d, i, 1, v) => v = d.view[i][1]

\* The name is there, and leads to the same inode in each of them.
Fixed(d, st, n) ==
    n \in DOMAIN d.names /\ \A N \in Worlds(d, st) : n \in DOMAIN N /\ N[n] = d.names[n]

\* With the names N the manifest, if there is one, is whole, and so is what it names.
Whole(d, st, N) ==
    Manifest \in DOMAIN N =>
        /\ Settled(d, st, N[Manifest])
        /\ \A n \in d.view[N[Manifest]][1].files :
               Sst(n) \in DOMAIN N /\ Settled(d, st, N[Sst(n)])
        /\ Log(d.view[N[Manifest]][1].first) \in DOMAIN N

Nums == {f.num : f \in db.files}

\* The version in memory, as its manifest has it.
Memory == [first |-> db.first, next |-> db.next, files |-> Nums]

Wholes == \A N \in Worlds(disk, stale) : Whole(disk, stale, N)

\* Nothing is pending before recovery.
Calm == state = "off" \/ Head1({"recover"}, {"create"}) => Worlds(disk, stale) = {disk.names}

\* A store that is open has its manifest, and before there is one no file was built.
Present ==
    /\ state = "open" => \A N \in Worlds(disk, stale) : Manifest \in DOMAIN N
    /\ \A N \in Worlds(disk, stale) :
           Manifest \in DOMAIN N \/ \A n \in FileNums : Sst(n) \notin DOMAIN N

\* File numbers are used once.
Below == Live => \A n \in FileNums : Sst(n) \in DOMAIN disk.names => n < db.next

Creating == Head1(Pipe, {"create"}) => db = NewStore

\* Every file of the version is there, whatever names survive, but for the new
\* one until the directory is flushed.
Filed ==
    Live => \A f \in db.files :
        /\ f.num < db.next /\ Sst(f.num) \in DOMAIN disk.names
        /\ Settled(disk, stale, disk.names[Sst(f.num)])
        /\ disk.view[disk.names[Sst(f.num)]][1] = f.txns
        /\ \/ Fixed(disk, stale, Sst(f.num))
           \/ f.num + 1 = db.next /\ Head1({"sync_tmp", "sync_new"}, Builders)

Built ==
    Live => IF Head1({"sync_sst", "manifest"}, Builders)
            THEN \E n \in FileNums :
                     /\ db.next = n + 1 /\ Sst(n) \in DOMAIN disk.names
                     /\ db.new = {[num |-> n, txns |-> disk.view[disk.names[Sst(n)]][1]]}
                     /\ todo[1][1] = "manifest" => Settled(disk, stale, disk.names[Sst(n)])
                     /\ \A f \in db.files : f.num < n
            ELSE db.new = {}

Picked ==
    Live => IF Head1(Pipe \ {"build", "sync_sst", "manifest"}, {"compact"})
            THEN db.comp \cap Nums = {} ELSE db.comp \subseteq Nums

\* The manifest on its way.
Placed ==
    /\ Head1({"sync_tmp", "sync_new", "rename"}, Builders \cup {"create", "move"}) =>
           Tmp \in DOMAIN disk.names /\ disk.view[disk.names[Tmp]][1] = Memory
    /\ Head1({"sync_new", "rename"}, Builders \cup {"create", "move"}) =>
           Settled(disk, stale, disk.names[Tmp])
    /\ Head1({"sync_name", "installed"}, Builders \cup {"create", "move"}) =>
           Manifest \in DOMAIN disk.names /\ disk.view[disk.names[Manifest]][1] = Memory
    /\ Head1({"rename", "installed"}, Builders \cup {"create", "move"}) =>
           Worlds(disk, stale) = {disk.names}

LogsNamed ==
    Live =>
        /\ db.first <= db.log
        /\ \A k \in db.first .. db.log :
               /\ Log(k) \in DOMAIN disk.names
               /\ \/ Fixed(disk, stale, Log(k))
                  \/ Head1({"manifest", "sync_tmp", "sync_new"}, {"create"})
        /\ db.spare = "ready" => Fixed(disk, stale, Log(db.log + 1))
        /\ Head1(Pipe \ {"build", "sync_sst", "manifest"}, {"flush"}) => db.first = db.log

Naming == Wholes /\ Calm /\ Present /\ Below /\ Creating /\ Filed /\ Built /\ Picked /\ Placed /\ LogsNamed

\* Between two steps of no manifest: what Naming says of an open store.
Ready(d, b, st) ==
    /\ \A N \in Worlds(d, st) : Whole(d, st, N) /\ Manifest \in DOMAIN N
    /\ \A f \in b.files :
           /\ f.num < b.next /\ Fixed(d, st, Sst(f.num))
           /\ Settled(d, st, d.names[Sst(f.num)]) /\ d.view[d.names[Sst(f.num)]][1] = f.txns
    /\ b.new = {} /\ b.comp \subseteq {f.num : f \in b.files}
    /\ b.first <= b.log /\ \A k \in b.first .. b.log : Fixed(d, st, Log(k))
    /\ b.spare = "ready" => Fixed(d, st, Log(b.log + 1))

Idle == todo = <<>> \/ todo[1][1] \in Calls \cup {"build"} \/ todo[1] = <<"manifest", "move">>

\* == proofs ==

-----------------------------------------------------------------------------
(* The operations of the disk.                                             *)

\* What is left of a namespace.
LEMMA WithoutNames ==
  ASSUME NEW N, Namespace(N), NEW S
  PROVE  /\ Namespace(Without(N, S)) /\ DOMAIN Without(N, S) = DOMAIN N \ S
         /\ \A a \in DOMAIN N \ S : Without(N, S)[a] = N[a]
BY DEF Namespace, Without

\* What a namespace has after a creation.
LEMMA CreatedNames ==
  ASSUME NEW N, Namespace(N), NEW n \in Name, NEW i \in Inodes
  PROVE  /\ Namespace(Created(N, n, i)) /\ DOMAIN Created(N, n, i) = DOMAIN N \cup {n}
         /\ \A a \in DOMAIN N : Created(N, n, i)[a] = N[a]
         /\ n \notin DOMAIN N => Created(N, n, i)[n] = i
BY DEF Namespace, Created, Bind

\* What a namespace has after a rename.
LEMMA RenamedNames ==
  ASSUME NEW N, Namespace(N), NEW n \in Name, NEW m \in Name
  PROVE  /\ Namespace(Renamed(N, n, m))
         /\ n \notin DOMAIN N => Renamed(N, n, m) = N
         /\ n \in DOMAIN N =>
              /\ DOMAIN Renamed(N, n, m) = (DOMAIN N \ {n}) \cup {m}
              /\ Renamed(N, n, m)[m] = N[n] /\ N[n] \in Inodes
              /\ \A a \in DOMAIN N \ {n, m} : Renamed(N, n, m)[a] = N[a]
<1>3. CASE n \notin DOMAIN N
  BY <1>3 DEF Renamed
<1>4. CASE n \in DOMAIN N
  <2> DEFINE M == Without(N, {n})
  <2>1. M \in [DOMAIN N \ {n} -> Inodes] /\ DOMAIN M = DOMAIN N \ {n} /\ N[n] \in Inodes
        /\ \A a \in DOMAIN N \ {n} : M[a] = N[a]
    BY <1>4 DEF Namespace, Without
  <2>2. Renamed(N, n, m) = Bind(M, m, N[n])
    BY <1>4 DEF Renamed
  <2> HIDE DEF M
  <2>3. QED
    BY <1>4, <2>1, <2>2 DEF Bind, Namespace
<1>5. QED
  BY <1>3, <1>4

\* The inode a new file gets leads from no name.
LEMMA FreshInode ==
  ASSUME NEW d, Room(d)
  PROVE  Min(Inodes \ Reachable(d)) \in Inodes \ Reachable(d)
<1> DEFINE T == Inodes \ Reachable(d)
<1>1. T \in SUBSET Nat /\ T # {}
  BY DEF Room, Inodes
<1>2. PICK x \in T : \A y \in T : x <= y
  BY <1>1, LeastElement
<1>3. QED
  BY <1>2 DEF Min

\* The inodes that names lead to.
LEMMA Reaching ==
  ASSUME NEW d, NEW i
  PROVE  i \in Reachable(d) <=> \E N \in d.maybe : \E a \in DOMAIN N : N[a] = i
BY DEF Reachable, Range

\* open with CREATE: what changes.
LEMMA CreateEffect ==
  ASSUME NEW d, DiskShape(d), NEW n \in Name, Room(d), ~Exists(d, n)
  PROVE  \E i \in Inodes \ Reachable(d) :
           LET e == Create(d, n) IN
           /\ DiskShape(e)
           /\ e.names = Created(d.names, n, i) /\ e.view = d.view /\ e.dur = d.dur /\ e.dirty = d.dirty
           /\ e.maybe = d.maybe \cup {Created(N, n, i) : N \in d.maybe}
<1> DEFINE i == Min(Inodes \ Reachable(d))
           e == Create(d, n)
<1>1. i \in Inodes \ Reachable(d)
  BY FreshInode
<1> HIDE DEF i
<1>2. e = [d EXCEPT !.names = Created(@, n, i),
                    !.maybe = @ \cup {Created(names, n, i) : names \in @}]
  BY DEF Create, i
<1>3. /\ e = [names |-> e.names, maybe |-> e.maybe, view |-> e.view, dur |-> e.dur, dirty |-> e.dirty]
      /\ e.names = Created(d.names, n, i) /\ e.view = d.view /\ e.dur = d.dur /\ e.dirty = d.dirty
      /\ e.maybe = d.maybe \cup {Created(N, n, i) : N \in d.maybe}
  BY <1>2 DEF DiskShape
<1> HIDE DEF e
<1>4. \A N \in d.maybe : Namespace(Created(N, n, i))
  BY <1>1, CreatedNames DEF DiskShape
<1>5. DiskShape(e)
  BY <1>3, <1>4 DEF DiskShape
<1>6. QED
  BY <1>1, <1>3, <1>5 DEF e

\* A rename: what changes.
LEMMA RenameEffect ==
  ASSUME NEW d, DiskShape(d), NEW n \in Name, NEW m \in Name, Exists(d, n)
  PROVE  LET e == Rename(d, n, m) IN
           /\ DiskShape(e)
           /\ e.names = Renamed(d.names, n, m) /\ e.view = d.view /\ e.dur = d.dur /\ e.dirty = d.dirty
           /\ e.maybe = d.maybe \cup {Renamed(N, n, m) : N \in d.maybe}
<1> DEFINE e == Rename(d, n, m)
<1>2. e = [d EXCEPT !.names = Renamed(@, n, m),
                    !.maybe = @ \cup {Renamed(names, n, m) : names \in @}]
  BY DEF Rename
<1>3. /\ e = [names |-> e.names, maybe |-> e.maybe, view |-> e.view, dur |-> e.dur, dirty |-> e.dirty]
      /\ e.names = Renamed(d.names, n, m) /\ e.view = d.view /\ e.dur = d.dur /\ e.dirty = d.dirty
      /\ e.maybe = d.maybe \cup {Renamed(N, n, m) : N \in d.maybe}
  BY <1>2 DEF DiskShape
<1> HIDE DEF e
<1>4. \A N \in d.maybe : Namespace(Renamed(N, n, m))
  BY RenamedNames DEF DiskShape
<1>5. DiskShape(e)
  BY <1>3, <1>4 DEF DiskShape
<1>6. QED
  BY <1>3, <1>5 DEF e

\* Removals: what changes.
LEMMA UnlinkEffect ==
  ASSUME NEW d, DiskShape(d), NEW S
  PROVE  LET e == UnlinkAll(d, S) IN
           /\ DiskShape(e)
           /\ e.names = Without(d.names, S) /\ e.view = d.view /\ e.dur = d.dur /\ e.dirty = d.dirty
           /\ d.maybe \subseteq e.maybe
           /\ \A M \in e.maybe : \E N \in d.maybe, gone \in SUBSET (S \cap DOMAIN d.names) :
                  M = Without(N, gone)
           /\ S = {} => e = d
<1> DEFINE e == UnlinkAll(d, S)
           G == SUBSET (S \cap DOMAIN d.names)
           Z == {Without(names, gone) : names \in d.maybe, gone \in G}
<1>2. e = [d EXCEPT !.names = Without(@, S), !.maybe = Z]
  BY DEF UnlinkAll
<1>11. \A N \in d.maybe, gone \in G : Without(N, gone) \in Z
  OBVIOUS
<1>12. \A M \in Z : \E N \in d.maybe, gone \in G : M = Without(N, gone)
  OBVIOUS
<1> HIDE DEF Z
<1>3. /\ e = [names |-> e.names, maybe |-> e.maybe, view |-> e.view, dur |-> e.dur, dirty |-> e.dirty]
      /\ e.names = Without(d.names, S) /\ e.view = d.view /\ e.dur = d.dur /\ e.dirty = d.dirty
      /\ e.maybe = Z
  BY <1>2 DEF DiskShape
<1> HIDE DEF e
<1>0. \A N, X : Namespace(N) => /\ Namespace(Without(N, X)) /\ Without(N, X) \in [DOMAIN N \ X -> Inodes]
                                /\ \A a \in DOMAIN N \ X : Without(N, X)[a] = N[a]
  BY DEF Namespace, Without
<1>4. \A M \in e.maybe : Namespace(M)
  <2> SUFFICES ASSUME NEW M \in e.maybe PROVE Namespace(M)
    OBVIOUS
  <2>1. PICK N \in d.maybe, gone \in G : M = Without(N, gone)
    BY <1>3, <1>12
  <2>2. Namespace(N)
    BY DEF DiskShape
  <2>3. QED
    BY <1>0, <2>1, <2>2
<1>5. \A N \in d.maybe : Without(N, {}) = N
  BY <1>0 DEF DiskShape, Namespace, Without
<1>6. d.maybe \subseteq e.maybe
  <2> SUFFICES ASSUME NEW N \in d.maybe PROVE N \in e.maybe
    OBVIOUS
  <2>1. {} \in SUBSET (S \cap DOMAIN d.names)
    OBVIOUS
  <2>2. Without(N, {}) \in e.maybe
    BY <1>3, <1>11, <2>1
  <2>3. QED
    BY <1>5, <2>2
<1>7. e.names \in e.maybe
  <2>1. S \cap DOMAIN d.names \in SUBSET (S \cap DOMAIN d.names) /\ d.names \in d.maybe
    BY DEF DiskShape
  <2>2. Without(d.names, S \cap DOMAIN d.names) \in e.maybe
    BY <1>3, <1>11, <2>1
  <2>3. DOMAIN d.names \ (S \cap DOMAIN d.names) = DOMAIN d.names \ S
    OBVIOUS
  <2>4. QED
    BY <1>3, <2>2, <2>3 DEF Without
<1>8. DiskShape(e)
  BY <1>3, <1>4, <1>7 DEF DiskShape
<1>9. S = {} => e = d
  <2> SUFFICES ASSUME S = {} PROVE e = d
    OBVIOUS
  <2>1. e.names = d.names
    BY <1>3, <1>5 DEF DiskShape
  <2>2. e.maybe \subseteq d.maybe
    BY <1>3, <1>5, <1>12
  <2>3. e.maybe = d.maybe
    BY <2>2, <1>6
  <2>4. QED
    BY <1>3, <2>1, <2>3 DEF DiskShape
<1>10. QED
  BY <1>3, <1>6, <1>8, <1>9, <1>12 DEF e

\* A flush of the directory: what changes.
LEMMA SyncDirEffect ==
  ASSUME NEW d, DiskShape(d)
  PROVE  LET e == SyncDir(d)
             live == Range(d.names) IN
           /\ DiskShape(e)
           /\ e.names = d.names /\ e.maybe = {d.names} /\ Reachable(e) = live
           /\ e.view = [i \in Inodes |-> IF i \in live THEN d.view[i] ELSE Blank]
           /\ e.dur = [i \in Inodes |-> IF i \in live THEN d.dur[i] ELSE Blank]
           /\ e.dirty = {x \in d.dirty : x[1] \in live}
<1> DEFINE live == Range(d.names)
           V == [i \in Inodes |-> IF i \in live THEN d.view[i] ELSE Blank]
           D == [i \in Inodes |-> IF i \in live THEN d.dur[i] ELSE Blank]
           X == {w \in d.dirty : w[1] \in live}
<1>0. PICK c : c = [d EXCEPT !.maybe = {d.names}]
  OBVIOUS
<1>1. /\ c = [names |-> c.names, maybe |-> c.maybe, view |-> c.view, dur |-> c.dur, dirty |-> c.dirty]
      /\ c.names = d.names /\ c.maybe = {d.names} /\ c.view = d.view /\ c.dur = d.dur /\ c.dirty = d.dirty
  BY <1>0 DEF DiskShape
<1>2. Reachable(c) = live
  BY <1>1 DEF Reachable
<1>3. PICK e : e = SyncDir(d)
  OBVIOUS
<1>9. e = [c EXCEPT !.view = V, !.dur = D, !.dirty = X]
  <2>1. e = Reclaim(c)
    BY <1>0, <1>3 DEF SyncDir
  <2> DEFINE V1 == [i \in Inodes |-> IF i \in Reachable(c) THEN c.view[i] ELSE Blank]
             D1 == [i \in Inodes |-> IF i \in Reachable(c) THEN c.dur[i] ELSE Blank]
             X1 == {w \in c.dirty : w[1] \in Reachable(c)}
  <2>2. Reclaim(c) = [c EXCEPT !.view = V1, !.dur = D1, !.dirty = X1]
    BY Zenon DEF Reclaim
  <2>3. V1 = V /\ D1 = D /\ X1 = X
    BY <1>1, <1>2
  <2> HIDE DEF V, D, X, V1, D1, X1
  <2>4. QED
    BY <2>1, <2>2, <2>3, Zenon
<1>5. Blank \in [Slots -> Value]
  BY DEF Blank, Value
<1>10. V \in [Inodes -> [Slots -> Value]] /\ D \in [Inodes -> [Slots -> Value]] /\ X \subseteq d.dirty
  BY <1>5 DEF DiskShape
<1> HIDE DEF live, V, D, X
<1>4. /\ e = [names |-> e.names, maybe |-> e.maybe, view |-> e.view, dur |-> e.dur, dirty |-> e.dirty]
      /\ e.names = d.names /\ e.maybe = {d.names} /\ e.view = V /\ e.dur = D /\ e.dirty = X
  BY <1>1, <1>9
<1>6. DiskShape(e)
  BY <1>4, <1>10 DEF DiskShape
<1>7. Reachable(e) = live
  BY <1>4 DEF Reachable, live
<1>8. QED
  BY <1>3, <1>4, <1>6, <1>7 DEF live, V, D, X

\* A write: what changes.
LEMMA WriteEffect ==
  ASSUME NEW d, DiskShape(d), NEW n, Exists(d, n), NEW s \in Slots, NEW v \in Value
  PROVE  LET e == Write(d, n, s, v)
             i == d.names[n] IN
           /\ DiskShape(e) /\ i \in Inodes
           /\ e.names = d.names /\ e.maybe = d.maybe /\ e.dur = d.dur
           /\ e.dirty = d.dirty \cup {<<i, s, v>>}
           /\ e.view[i][s] = v
           /\ \A j \in Inodes, r \in Slots : j # i \/ r # s => e.view[j][r] = d.view[j][r]
           /\ \A j \in Inodes : j # i => e.view[j] = d.view[j]
<1> DEFINE i == d.names[n]
           e == Write(d, n, s, v)
<1>1. i \in Inodes /\ d.view \in [Inodes -> [Slots -> Value]]
  BY DEF DiskShape, Namespace, Exists
<1> HIDE DEF i
<1>2. e = [d EXCEPT !.view[i][s] = v, !.dirty = @ \cup {<<i, s, v>>}]
  BY DEF Write, i
<1>3. /\ e = [names |-> e.names, maybe |-> e.maybe, view |-> e.view, dur |-> e.dur, dirty |-> e.dirty]
      /\ e.names = d.names /\ e.maybe = d.maybe /\ e.dur = d.dur
      /\ e.dirty = d.dirty \cup {<<i, s, v>>}
      /\ e.view = [d.view EXCEPT ![i][s] = v]
  BY <1>2 DEF DiskShape
<1> HIDE DEF e
<1>4. /\ e.view[i][s] = v /\ e.view \in [Inodes -> [Slots -> Value]]
      /\ \A j \in Inodes, r \in Slots : j # i \/ r # s => e.view[j][r] = d.view[j][r]
      /\ \A j \in Inodes : j # i => e.view[j] = d.view[j]
  BY <1>1, <1>3
<1>5. DiskShape(e)
  <2>1. <<i, s, v>> \in Inodes \X Slots \X Value
    BY <1>1
  <2>2. QED
    BY <1>3, <1>4, <2>1 DEF DiskShape
<1>6. QED
  BY <1>1, <1>3, <1>4, <1>5 DEF e, i

\* The writes of a file that are not synced.
LEMMA Dirty ==
  ASSUME NEW d, DiskShape(d), NEW n, NEW x
  PROVE  x \in Of(d, n) <=> x \in d.dirty /\ x[1] = d.names[n]
BY DEF Of

\* A sync: what changes.
LEMMA SyncEffect ==
  ASSUME NEW d, DiskShape(d), NEW n, Exists(d, n)
  PROVE  LET e == Sync(d, n)
             i == d.names[n] IN
           /\ DiskShape(e) /\ i \in Inodes
           /\ e.names = d.names /\ e.maybe = d.maybe /\ e.view = d.view
           /\ e.dur[i] = d.view[i] /\ \A j \in Inodes : j # i => e.dur[j] = d.dur[j]
           /\ e.dirty \subseteq d.dirty
           /\ \A x \in d.dirty : x \in e.dirty <=> x[1] # i
<1> DEFINE i == d.names[n]
           e == Sync(d, n)
<1>1. i \in Inodes /\ d.view \in [Inodes -> [Slots -> Value]] /\ d.dur \in [Inodes -> [Slots -> Value]]
  BY DEF DiskShape, Namespace, Exists
<1>6. \A x \in d.dirty : x \in Of(d, n) <=> x[1] = i
  BY DEF Of
<1> HIDE DEF i
<1>2. e = [d EXCEPT !.dirty = @ \ Of(d, n), !.dur[i] = d.view[i]]
  BY DEF Sync, i
<1>3. /\ e = [names |-> e.names, maybe |-> e.maybe, view |-> e.view, dur |-> e.dur, dirty |-> e.dirty]
      /\ e.names = d.names /\ e.maybe = d.maybe /\ e.view = d.view
      /\ e.dirty = d.dirty \ Of(d, n)
      /\ e.dur = [d.dur EXCEPT ![i] = d.view[i]]
  BY <1>2 DEF DiskShape
<1> HIDE DEF e
<1>4. /\ e.dur[i] = d.view[i] /\ e.dur \in [Inodes -> [Slots -> Value]]
      /\ \A j \in Inodes : j # i => e.dur[j] = d.dur[j]
  BY <1>1, <1>3
<1>5. DiskShape(e)
  BY <1>3, <1>4 DEF DiskShape
<1>7. QED
  BY <1>1, <1>3, <1>4, <1>5, <1>6 DEF e, i

\* What a slot of the platter has after some writes reached it.
LEMMA LandedSlot ==
  ASSUME NEW d, DiskShape(d), NEW W \in SUBSET d.dirty, NEW T
  PROVE  /\ Landed(d, W, T) \in [Inodes -> [Slots -> Value]]
         /\ \A i \in Inodes, s \in Slots :
                \/ /\ \A x \in W : ~(x[1] = i /\ x[2] = s)
                   /\ Landed(d, W, T)[i][s] = d.dur[i][s]
                \/ \E x \in W : /\ x[1] = i /\ x[2] = s
                                /\ Landed(d, W, T)[i][s] = IF x \in T THEN Zero ELSE x[3]
         /\ \A i \in Inodes : (\A x \in W : x[1] # i) => Landed(d, W, T)[i] = d.dur[i]
<1> DEFINE at(i, s) == IF \E x \in W : x[1] = i /\ x[2] = s
                       THEN LET x == CHOOSE x \in W : x[1] = i /\ x[2] = s IN IF x \in T THEN Zero ELSE x[3]
                       ELSE d.dur[i][s]
<1>1. Landed(d, W, T) = [i \in Inodes |-> [s \in Slots |-> at(i, s)]]
  BY Zenon DEF Landed
<1>2. ASSUME NEW i \in Inodes, NEW s \in Slots
      PROVE  /\ \/ /\ \A x \in W : ~(x[1] = i /\ x[2] = s)
                   /\ at(i, s) = d.dur[i][s]
                \/ \E x \in W : /\ x[1] = i /\ x[2] = s
                                /\ at(i, s) = IF x \in T THEN Zero ELSE x[3]
             /\ at(i, s) \in Value
  <2>1. CASE \E x \in W : x[1] = i /\ x[2] = s
    <3> DEFINE x == CHOOSE x \in W : x[1] = i /\ x[2] = s
    <3>1. x \in W /\ x[1] = i /\ x[2] = s
      BY <2>1
    <3>2. at(i, s) = IF x \in T THEN Zero ELSE x[3]
      BY <2>1
    <3> HIDE DEF x, at
    <3>3. x[3] \in Value /\ Zero \in Value
      BY <3>1 DEF DiskShape, Value
    <3>4. QED
      BY <3>1, <3>2, <3>3
  <2>2. CASE ~ \E x \in W : x[1] = i /\ x[2] = s
    BY <2>2 DEF DiskShape
  <2>3. QED
    BY <2>1, <2>2
<1> HIDE DEF at
<1>3. \A i \in Inodes, s \in Slots : Landed(d, W, T)[i][s] = at(i, s)
  BY <1>1
<1>4. Landed(d, W, T) \in [Inodes -> [Slots -> Value]]
  BY <1>1, <1>2
<1>5. ASSUME NEW i \in Inodes, \A x \in W : x[1] # i
      PROVE  Landed(d, W, T)[i] = d.dur[i]
  <2>1. \A s \in Slots : Landed(d, W, T)[i][s] = d.dur[i][s]
    BY <1>2, <1>3, <1>5
  <2>2. Landed(d, W, T)[i] \in [Slots -> Value] /\ d.dur[i] \in [Slots -> Value]
    BY <1>4 DEF DiskShape
  <2>3. QED
    BY <2>1, <2>2
<1>6. QED
  BY <1>2, <1>3, <1>4, <1>5

\* A failed sync: what changes.
LEMMA FailedSyncEffect ==
  ASSUME NEW d, DiskShape(d), NEW n, Exists(d, n), NEW e \in FailedSync(d, n)
  PROVE  /\ DiskShape(e)
         /\ e.names = d.names /\ e.maybe = d.maybe /\ e.view = d.view
         /\ e.dirty \subseteq d.dirty
         /\ \A i \in Inodes, s \in Slots, v \in Value : Holds(e, i, s, v) => Holds(d, i, s, v)
<1>1. PICK W \in SUBSET Of(d, n) :
        e = [d EXCEPT !.dur = Landed(d, W, {}), !.dirty = @ \ Of(d, n)]
  BY DEF FailedSync
<1>2. W \in SUBSET d.dirty
  BY DEF Of
<1>3. /\ e = [names |-> e.names, maybe |-> e.maybe, view |-> e.view, dur |-> e.dur, dirty |-> e.dirty]
      /\ e.names = d.names /\ e.maybe = d.maybe /\ e.view = d.view
      /\ e.dur = Landed(d, W, {}) /\ e.dirty = d.dirty \ Of(d, n)
  BY <1>1 DEF DiskShape
<1>8. /\ Landed(d, W, {}) \in [Inodes -> [Slots -> Value]]
      /\ \A i \in Inodes, s \in Slots :
             \/ e.dur[i][s] = d.dur[i][s]
             \/ \E x \in W : x[1] = i /\ x[2] = s /\ e.dur[i][s] = x[3]
  <2>1. PICK T : T = {}
    OBVIOUS
  <2>2. e.dur = Landed(d, W, T) /\ \A x \in W : x \notin T
    BY <1>3, <2>1
  <2>3. QED
    BY <1>2, <2>1, <2>2, LandedSlot
<1>4. DiskShape(e)
  BY <1>3, <1>8 DEF DiskShape
<1>5. ASSUME NEW i \in Inodes, NEW s \in Slots, NEW v \in Value, e.dur[i][s] = v
      PROVE  Holds(d, i, s, v)
  <2>1. CASE v = d.dur[i][s]
    BY <2>1 DEF Holds
  <2>2. CASE \E x \in W : x[1] = i /\ x[2] = s /\ v = x[3]
    <3>1. PICK x \in W : x[1] = i /\ x[2] = s /\ v = x[3]
      BY <2>2
    <3>2. x \in d.dirty /\ x = <<i, s, v>>
      BY <1>2, <3>1 DEF DiskShape
    <3>3. QED
      BY <3>2 DEF Holds
  <2>3. QED
    BY <1>5, <1>8, <2>1, <2>2
<1>6. ASSUME NEW i \in Inodes, NEW s \in Slots, NEW v \in Value, Holds(e, i, s, v)
      PROVE  Holds(d, i, s, v)
  BY <1>3, <1>5, <1>6 DEF Holds
<1>7. QED
  BY <1>3, <1>4, <1>6

\* A power loss: what is left.
LEMMA PowerLossEffect ==
  ASSUME NEW d, DiskShape(d), NEW e \in PowerLoss(d)
  PROVE  /\ DiskShape(e)
         /\ e.names \in d.maybe /\ e.maybe = {e.names} /\ Reachable(e) = Range(e.names)
         /\ e.dur = e.view /\ e.dirty = {}
         /\ \A i \in Inodes \ Range(e.names) : e.view[i] = Blank
         /\ \A i \in Range(e.names) \cap Inodes, s \in Slots : Holds(d, i, s, e.view[i][s])
<1>1. PICK N \in d.maybe, W \in SUBSET d.dirty, T \in SUBSET d.dirty :
        e = Reclaim([names |-> N, maybe |-> {N}, view |-> Landed(d, W, T), dur |-> Landed(d, W, T),
                     dirty |-> {}])
  <2>1. PICK c \in Landings(d), N \in d.maybe :
          e = Reclaim([names |-> N, maybe |-> {N}, view |-> c, dur |-> c, dirty |-> {}])
    BY DEF PowerLoss
  <2>2. PICK W \in SUBSET d.dirty, T \in SUBSET d.dirty : c = Landed(d, W, T)
    BY DEF Landings
  <2>3. QED
    BY <2>1, <2>2
<1>0. PICK c : c = Landed(d, W, T)
  OBVIOUS
<1> DEFINE live == Range(N)
           V == [i \in Inodes |-> IF i \in live THEN c[i] ELSE Blank]
<1>2. PICK b : b = [names |-> N, maybe |-> {N}, view |-> c, dur |-> c, dirty |-> {}]
  OBVIOUS
<1>3. /\ b = [names |-> b.names, maybe |-> b.maybe, view |-> b.view, dur |-> b.dur, dirty |-> b.dirty]
      /\ b.names = N /\ b.maybe = {N} /\ b.view = c /\ b.dur = c /\ b.dirty = {}
  BY <1>2
<1>4. Reachable(b) = live
  BY <1>3 DEF Reachable
<1>5. e = [b EXCEPT !.view = V, !.dur = V, !.dirty = {}]
  <2>1. e = Reclaim(b)
    BY <1>0, <1>1, <1>2
  <2> DEFINE V1 == [i \in Inodes |-> IF i \in Reachable(b) THEN b.view[i] ELSE Blank]
             D1 == [i \in Inodes |-> IF i \in Reachable(b) THEN b.dur[i] ELSE Blank]
             X1 == {w \in b.dirty : w[1] \in Reachable(b)}
  <2>2. Reclaim(b) = [b EXCEPT !.view = V1, !.dur = D1, !.dirty = X1]
    BY Zenon DEF Reclaim
  <2>3. V1 = V /\ D1 = V /\ X1 = {}
    BY <1>3, <1>4
  <2> HIDE DEF V, V1, D1, X1
  <2>4. QED
    BY <2>1, <2>2, <2>3, Zenon
<1>6. c \in [Inodes -> [Slots -> Value]]
  BY <1>0, LandedSlot
<1>7. V \in [Inodes -> [Slots -> Value]]
  BY <1>6 DEF Blank, Value
<1>8. \A i \in Inodes : V[i] = IF i \in live THEN c[i] ELSE Blank
  OBVIOUS
<1> HIDE DEF V
<1>9. /\ e = [names |-> e.names, maybe |-> e.maybe, view |-> e.view, dur |-> e.dur, dirty |-> e.dirty]
      /\ e.names = N /\ e.maybe = {N} /\ e.view = V /\ e.dur = V /\ e.dirty = {}
  BY <1>3, <1>5
<1>10. DiskShape(e)
  BY <1>7, <1>9 DEF DiskShape
<1>11. Reachable(e) = Range(e.names)
  BY <1>9 DEF Reachable
<1>12. ASSUME NEW i \in Range(e.names) \cap Inodes, NEW s \in Slots
       PROVE  Holds(d, i, s, e.view[i][s])
  <2>1. e.view[i][s] = Landed(d, W, T)[i][s]
    BY <1>0, <1>8, <1>9
  <2>2. CASE e.view[i][s] = d.dur[i][s]
    BY <2>2 DEF Holds
  <2>3. CASE \E x \in W : x[1] = i /\ x[2] = s /\ e.view[i][s] = IF x \in T THEN Zero ELSE x[3]
    <3>1. PICK x \in W : x[1] = i /\ x[2] = s /\ e.view[i][s] = IF x \in T THEN Zero ELSE x[3]
      BY <2>3
    <3>2. x \in d.dirty /\ x = <<i, s, x[3]>> /\ x[3] \in Value
      BY <3>1 DEF DiskShape
    <3>3. QED
      BY <3>1, <3>2 DEF Holds
  <2>4. QED
    BY <2>1, <2>2, <2>3, LandedSlot
<1>13. QED
  BY <1>8, <1>9, <1>10, <1>11, <1>12

-----------------------------------------------------------------------------
(* The kinds of what the disk holds.                                       *)

\* What files hold is a value, and stays one as opens and commits go on.
LEMMA HeldGrows ==
  ASSUME NEW o \in Nat, NEW t \in Nat, NEW p \in Nat, NEW u \in Nat, o <= p, t <= u, NEW c
  PROVE  Held(c, o, t) \subseteq Held(c, p, u) /\ Held(c, o, t) \subseteq Value
<1>1. 0 .. o \subseteq 0 .. p /\ 1 .. t \subseteq 1 .. u /\ 0 .. o \subseteq Nat /\ 1 .. t \subseteq Nat
  OBVIOUS
<1>2. CASE c = "log"
  <2>1. ASSUME NEW r \in [prev : Seq(Nat), salt : 0 .. o, txn : 1 .. t]
        PROVE  r \in [prev : Seq(Nat), salt : 0 .. p, txn : 1 .. u] /\ r \in LogRecord
    BY <1>1 DEF LogRecord
  <2>2. QED
    BY <1>2, <2>1 DEF Held, Value
<1>3. CASE c = "manifest"
  BY <1>3 DEF Held, Value
<1>4. CASE c = "sst"
  <2>1. SUBSET (1 .. t) \subseteq SUBSET (1 .. u) /\ SUBSET (1 .. t) \subseteq SUBSET Nat
    BY <1>1
  <2>2. QED
    BY <1>4, <2>1 DEF Held, Value
<1>5. CASE c \notin {"log", "manifest", "sst"}
  BY <1>5 DEF Held, Value
<1>6. QED
  BY <1>2, <1>3, <1>4, <1>5

\* The same of a disk.
LEMMA KindsGrow ==
  ASSUME NEW d, NEW o \in Nat, NEW t \in Nat, NEW p \in Nat, NEW u \in Nat, o <= p, t <= u,
         DiskKinds(d, o, t)
  PROVE  DiskKinds(d, p, u)
BY HeldGrows DEF DiskKinds

\* An operation that leads no name to an inode of another kind, and brings no
\* content, keeps the kinds.
LEMMA KindsKept ==
  ASSUME NEW d, NEW e, NEW o, NEW t, DiskShape(d), DiskShape(e), DiskKinds(d, o, t),
         \A M \in e.maybe : \A a \in DOMAIN M :
             \E N \in d.maybe : \E b \in DOMAIN N : N[b] = M[a] /\ Class(b) = Class(a),
         \A i \in Reachable(e), s \in Slots, v \in Value : Holds(e, i, s, v) => Holds(d, i, s, v),
         \A i \in Inodes \ Reachable(e), s \in Slots, v \in Value : Holds(e, i, s, v) => v = Zero
  PROVE  DiskKinds(e, o, t)
<1>1. ASSUME NEW N \in e.maybe, NEW M \in e.maybe, NEW a \in DOMAIN N, NEW b \in DOMAIN M, N[a] = M[b]
      PROVE  Class(a) = Class(b)
  <2>1. PICK N1 \in d.maybe : \E x \in DOMAIN N1 : N1[x] = N[a] /\ Class(x) = Class(a)
    OBVIOUS
  <2>2. PICK M1 \in d.maybe : \E x \in DOMAIN M1 : M1[x] = M[b] /\ Class(x) = Class(b)
    OBVIOUS
  <2>3. QED
    BY <1>1, <2>1, <2>2 DEF DiskKinds
<1>2. ASSUME NEW N \in e.maybe, NEW a \in DOMAIN N, NEW s \in Slots, NEW v \in Value, Holds(e, N[a], s, v)
      PROVE  v \in Held(Class(a), o, t)
  <2>1. PICK N1 \in d.maybe : \E x \in DOMAIN N1 : N1[x] = N[a] /\ Class(x) = Class(a)
    OBVIOUS
  <2>2. PICK x \in DOMAIN N1 : N1[x] = N[a] /\ Class(x) = Class(a)
    BY <2>1
  <2>3. N[a] \in Reachable(e)
    BY Reaching
  <2>4. Holds(d, N1[x], s, v)
    BY <1>2, <2>2, <2>3
  <2>5. QED
    BY <2>2, <2>4 DEF DiskKinds
<1>3. QED
  BY <1>1, <1>2 DEF DiskKinds

\* Creation keeps the kinds.
LEMMA CreateKinds ==
  ASSUME NEW d, NEW o, NEW t, DiskShape(d), DiskKinds(d, o, t), NEW n \in Name, Room(d), ~Exists(d, n)
  PROVE  DiskKinds(Create(d, n), o, t)
<1>1. PICK i \in Inodes \ Reachable(d) : \E e : /\ e = Create(d, n) /\ DiskShape(e)
           /\ e.names = Created(d.names, n, i) /\ e.view = d.view /\ e.dur = d.dur /\ e.dirty = d.dirty
           /\ e.maybe = d.maybe \cup {Created(N, n, i) : N \in d.maybe}
  BY CreateEffect
<1>2. PICK e : /\ e = Create(d, n) /\ DiskShape(e)
           /\ e.names = Created(d.names, n, i) /\ e.view = d.view /\ e.dur = d.dur /\ e.dirty = d.dirty
           /\ e.maybe = d.maybe \cup {Created(N, n, i) : N \in d.maybe}
  BY <1>1
<1>3. ASSUME NEW M \in e.maybe, NEW a \in DOMAIN M
      PROVE  (a = n /\ M[a] = i) \/ \E N \in d.maybe : a \in DOMAIN N /\ N[a] = M[a]
  <2>1. CASE M \in d.maybe
    BY <2>1
  <2>2. CASE M \notin d.maybe
    <3>1. PICK N \in d.maybe : M = Created(N, n, i)
      BY <1>2, <2>2
    <3>2. Namespace(N)
      BY DEF DiskShape
    <3>3. /\ DOMAIN M = DOMAIN N \cup {n} /\ \A x \in DOMAIN N : M[x] = N[x]
          /\ n \notin DOMAIN N => M[n] = i
      BY <3>1, <3>2, CreatedNames, Zenon
    <3>4. CASE a \in DOMAIN N
      BY <3>3, <3>4
    <3>5. CASE a \notin DOMAIN N
      BY <3>3, <3>5
    <3>6. QED
      BY <3>4, <3>5
  <2>3. QED
    BY <2>1, <2>2
<1>4. \A j, s, v : Holds(e, j, s, v) <=> Holds(d, j, s, v)
  BY <1>2 DEF Holds
<1>5. \A N \in d.maybe : \A a \in DOMAIN N : N[a] # i
  BY Reaching
<1>6. ASSUME NEW N \in e.maybe, NEW M \in e.maybe, NEW a \in DOMAIN N, NEW b \in DOMAIN M, N[a] = M[b]
      PROVE  Class(a) = Class(b)
  BY <1>3, <1>5, <1>6 DEF DiskKinds
<1>7. ASSUME NEW N \in e.maybe, NEW a \in DOMAIN N, NEW s \in Slots, NEW v \in Value, Holds(e, N[a], s, v)
      PROVE  v \in Held(Class(a), o, t)
  <2>1. CASE N[a] = i
    BY <1>4, <1>7, <2>1 DEF DiskKinds, Held
  <2>2. CASE N[a] # i
    BY <1>3, <1>4, <1>7, <2>2 DEF DiskKinds
  <2>3. QED
    BY <2>1, <2>2
<1>8. ASSUME NEW j \in Inodes \ Reachable(e), NEW s \in Slots, NEW v \in Value, Holds(e, j, s, v)
      PROVE  v = Zero
  <2>1. j \notin Reachable(d)
    BY <1>2, Reaching
  <2>2. QED
    BY <1>4, <1>8, <2>1 DEF DiskKinds
<1>9. QED
  BY <1>2, <1>6, <1>7, <1>8 DEF DiskKinds

\* A rename within a kind keeps the kinds.
LEMMA RenameKinds ==
  ASSUME NEW d, NEW o, NEW t, DiskShape(d), DiskKinds(d, o, t), NEW n \in Name, NEW m \in Name,
         Class(n) = Class(m), Exists(d, n)
  PROVE  DiskKinds(Rename(d, n, m), o, t)
<1>1. PICK e : /\ e = Rename(d, n, m) /\ DiskShape(e)
           /\ e.names = Renamed(d.names, n, m) /\ e.view = d.view /\ e.dur = d.dur /\ e.dirty = d.dirty
           /\ e.maybe = d.maybe \cup {Renamed(N, n, m) : N \in d.maybe}
  BY RenameEffect
<1>2. ASSUME NEW M \in e.maybe, NEW a \in DOMAIN M
      PROVE  \E N \in d.maybe : \E b \in DOMAIN N : N[b] = M[a] /\ Class(b) = Class(a)
  <2>1. CASE M \in d.maybe
    BY <2>1
  <2>2. CASE M \notin d.maybe
    <3>1. PICK N \in d.maybe : M = Renamed(N, n, m)
      BY <1>1, <2>2
    <3>2. Namespace(N)
      BY DEF DiskShape
    <3>3. n \in DOMAIN N
      BY <2>2, <3>1 DEF Renamed
    <3>4. /\ DOMAIN M = (DOMAIN N \ {n}) \cup {m} /\ M[m] = N[n]
          /\ \A x \in DOMAIN N \ {n, m} : M[x] = N[x]
      BY <3>1, <3>2, <3>3, RenamedNames
    <3>5. (a = m /\ M[a] = N[n]) \/ (a \in DOMAIN N /\ M[a] = N[a])
      BY <3>4
    <3>6. QED
      BY <3>3, <3>5
  <2>3. QED
    BY <2>1, <2>2
<1>3. \A j, s, v : Holds(e, j, s, v) <=> Holds(d, j, s, v)
  BY <1>1 DEF Holds
<1>4. Reachable(d) \subseteq Reachable(e)
  BY <1>1, Reaching
<1>5. \A i \in Inodes \ Reachable(e), s \in Slots, v \in Value : Holds(e, i, s, v) => v = Zero
  BY <1>3, <1>4 DEF DiskKinds
<1>6. QED
  BY <1>1, <1>2, <1>3, <1>5, KindsKept

\* Removals keep the kinds.
LEMMA UnlinkKinds ==
  ASSUME NEW d, NEW o, NEW t, DiskShape(d), DiskKinds(d, o, t), NEW S
  PROVE  DiskKinds(UnlinkAll(d, S), o, t)
<1>1. PICK e : /\ e = UnlinkAll(d, S) /\ DiskShape(e)
           /\ e.view = d.view /\ e.dur = d.dur /\ e.dirty = d.dirty
           /\ d.maybe \subseteq e.maybe
           /\ \A M \in e.maybe : \E N \in d.maybe, gone \in SUBSET (S \cap DOMAIN d.names) :
                  M = Without(N, gone)
  BY UnlinkEffect
<1>2. ASSUME NEW M \in e.maybe, NEW a \in DOMAIN M
      PROVE  \E N \in d.maybe : \E b \in DOMAIN N : N[b] = M[a] /\ Class(b) = Class(a)
  <2>1. PICK N \in d.maybe, gone \in SUBSET (S \cap DOMAIN d.names) : M = Without(N, gone)
    BY <1>1
  <2>2. a \in DOMAIN N /\ M[a] = N[a]
    BY <2>1 DEF Without
  <2>3. QED
    BY <2>2
<1>3. \A j, s, v : Holds(e, j, s, v) <=> Holds(d, j, s, v)
  BY <1>1 DEF Holds
<1>4. Reachable(d) \subseteq Reachable(e)
  BY <1>1, Reaching
<1>5. \A i \in Inodes \ Reachable(e), s \in Slots, v \in Value : Holds(e, i, s, v) => v = Zero
  BY <1>3, <1>4 DEF DiskKinds
<1>6. QED
  BY <1>1, <1>2, <1>3, <1>5, KindsKept

\* A flush of the directory keeps the kinds.
LEMMA SyncDirKinds ==
  ASSUME NEW d, NEW o, NEW t, DiskShape(d), DiskKinds(d, o, t)
  PROVE  DiskKinds(SyncDir(d), o, t)
<1> DEFINE live == Range(d.names)
<1>0. PICK e : e = SyncDir(d)
  OBVIOUS
<1>1. /\ DiskShape(e)
      /\ e.names = d.names /\ e.maybe = {d.names} /\ Reachable(e) = live
      /\ e.view = [i \in Inodes |-> IF i \in live THEN d.view[i] ELSE Blank]
      /\ e.dur = [i \in Inodes |-> IF i \in live THEN d.dur[i] ELSE Blank]
      /\ e.dirty = {x \in d.dirty : x[1] \in live}
  BY <1>0, SyncDirEffect, Zenon
<1>2. live \subseteq Inodes
  BY DEF DiskShape, Namespace, Range
<1> HIDE DEF live
<1>3. \A i \in live, s \in Slots, v \in Value : Holds(e, i, s, v) => Holds(d, i, s, v)
  BY <1>1, <1>2 DEF Holds
<1>4. ASSUME NEW i \in Inodes \ live, NEW s \in Slots, NEW v \in Value, Holds(e, i, s, v)
      PROVE  v = Zero
  <2>1. e.view[i] = Blank /\ e.dur[i] = Blank /\ \A x \in e.dirty : x[1] # i
    BY <1>1
  <2>2. Blank[s] = Zero
    BY DEF Blank
  <2>3. QED
    BY <1>4, <2>1, <2>2 DEF Holds
<1>5. d.names \in d.maybe
  BY DEF DiskShape
<1>6. QED
  BY <1>0, <1>1, <1>3, <1>4, <1>5, KindsKept

\* A power loss keeps the kinds.
LEMMA PowerLossKinds ==
  ASSUME NEW d, NEW o, NEW t, DiskShape(d), DiskKinds(d, o, t), NEW e \in PowerLoss(d)
  PROVE  DiskKinds(e, o, t)
<1>1. /\ DiskShape(e)
      /\ e.names \in d.maybe /\ e.maybe = {e.names} /\ Reachable(e) = Range(e.names)
      /\ e.dur = e.view /\ e.dirty = {}
      /\ \A i \in Inodes \ Range(e.names) : e.view[i] = Blank
      /\ \A i \in Range(e.names) \cap Inodes, s \in Slots : Holds(d, i, s, e.view[i][s])
  BY PowerLossEffect
<1>2. Range(e.names) \subseteq Inodes
  BY <1>1 DEF DiskShape, Namespace, Range
<1>3. \A i \in Reachable(e), s \in Slots, v \in Value : Holds(e, i, s, v) => Holds(d, i, s, v)
  <2> SUFFICES ASSUME NEW i \in Reachable(e), NEW s \in Slots, NEW v \in Value, Holds(e, i, s, v)
               PROVE  Holds(d, i, s, v)
    OBVIOUS
  <2>1. v = e.view[i][s]
    BY <1>1 DEF Holds
  <2>2. QED
    BY <1>1, <1>2, <2>1
<1>4. ASSUME NEW i \in Inodes \ Reachable(e), NEW s \in Slots, NEW v \in Value, Holds(e, i, s, v)
      PROVE  v = Zero
  BY <1>1, <1>4 DEF Holds, Blank
<1>5. QED
  BY <1>1, <1>3, <1>4, KindsKept

\* Syncs keep the kinds.
LEMMA SyncKinds ==
  ASSUME NEW d, NEW o, NEW t, DiskShape(d), DiskKinds(d, o, t), NEW n, Exists(d, n),
         NEW e \in {Sync(d, n)} \cup FailedSync(d, n)
  PROVE  /\ DiskShape(e) /\ DiskKinds(e, o, t)
         /\ e.names = d.names /\ e.maybe = d.maybe /\ e.view = d.view
         /\ \A i \in Inodes, s \in Slots, v \in Value : Holds(e, i, s, v) => Holds(d, i, s, v)
<1>1. CASE e = Sync(d, n)
  <2>1. /\ DiskShape(e) /\ d.names[n] \in Inodes
        /\ e.names = d.names /\ e.maybe = d.maybe /\ e.view = d.view
        /\ e.dur[d.names[n]] = d.view[d.names[n]]
        /\ \A j \in Inodes : j # d.names[n] => e.dur[j] = d.dur[j]
        /\ e.dirty \subseteq d.dirty
    BY <1>1, SyncEffect
  <2>2. \A i \in Inodes, s \in Slots, v \in Value : Holds(e, i, s, v) => Holds(d, i, s, v)
    BY <2>1 DEF Holds
  <2>3. \A i \in Inodes \ Reachable(e), s \in Slots, v \in Value : Holds(e, i, s, v) => v = Zero
    BY <2>1, <2>2 DEF DiskKinds, Reachable
  <2>4. Reachable(e) \subseteq Inodes
    BY <2>1, Reaching DEF DiskShape, Namespace
  <2>5. QED
    BY <2>1, <2>2, <2>3, <2>4, KindsKept
<1>2. CASE e \in FailedSync(d, n)
  <2>1. /\ DiskShape(e)
        /\ e.names = d.names /\ e.maybe = d.maybe /\ e.view = d.view
        /\ \A i \in Inodes, s \in Slots, v \in Value : Holds(e, i, s, v) => Holds(d, i, s, v)
    BY <1>2, FailedSyncEffect
  <2>2. \A i \in Inodes \ Reachable(e), s \in Slots, v \in Value : Holds(e, i, s, v) => v = Zero
    BY <2>1 DEF DiskKinds, Reachable
  <2>3. Reachable(e) \subseteq Inodes
    BY <2>1, Reaching DEF DiskShape, Namespace
  <2>4. QED
    BY <2>1, <2>2, <2>3, KindsKept
<1>3. QED
  BY <1>1, <1>2

\* A write of what its file may hold keeps the kinds.
LEMMA WriteKinds ==
  ASSUME NEW d, NEW o, NEW t, DiskShape(d), DiskKinds(d, o, t), NEW n, Exists(d, n),
         NEW s \in Slots, NEW v \in Value, v \in Held(Class(n), o, t)
  PROVE  DiskKinds(Write(d, n, s, v), o, t)
<1> DEFINE i == d.names[n]
<1>1. PICK e : /\ e = Write(d, n, s, v) /\ DiskShape(e) /\ i \in Inodes
           /\ e.names = d.names /\ e.maybe = d.maybe /\ e.dur = d.dur
           /\ e.dirty = d.dirty \cup {<<i, s, v>>}
           /\ e.view[i][s] = v
           /\ \A j \in Inodes, r \in Slots : j # i \/ r # s => e.view[j][r] = d.view[j][r]
  BY WriteEffect
<1>2. n \in DOMAIN d.names /\ d.names \in d.maybe
  BY DEF Exists, DiskShape
<1>3. ASSUME NEW j \in Inodes, NEW r \in Slots, NEW u \in Value, Holds(e, j, r, u)
      PROVE  Holds(d, j, r, u) \/ (j = i /\ u \in {v, Zero})
  BY <1>1, <1>3 DEF Holds
<1> HIDE DEF i
<1>4. ASSUME NEW N \in e.maybe, NEW a \in DOMAIN N, NEW r \in Slots, NEW u \in Value, Holds(e, N[a], r, u)
      PROVE  u \in Held(Class(a), o, t)
  <2>1. N[a] \in Inodes /\ N \in d.maybe
    BY <1>1 DEF DiskShape, Namespace
  <2>2. CASE Holds(d, N[a], r, u)
    BY <2>1, <2>2 DEF DiskKinds
  <2>3. CASE N[a] = i /\ u \in {v, Zero}
    <3>1. Class(a) = Class(n)
      BY <1>2, <2>1, <2>3 DEF DiskKinds, i
    <3>2. QED
      BY <2>3, <3>1 DEF Held
  <2>4. QED
    BY <1>3, <1>4, <2>1, <2>2, <2>3
<1>5. Reachable(e) = Reachable(d) /\ i \in Reachable(d)
  BY <1>1, <1>2, Reaching DEF Reachable, i
<1>6. ASSUME NEW j \in Inodes \ Reachable(e), NEW r \in Slots, NEW u \in Value, Holds(e, j, r, u)
      PROVE  u = Zero
  BY <1>3, <1>5, <1>6 DEF DiskKinds
<1>7. QED
  BY <1>1, <1>4, <1>6 DEF DiskKinds

-----------------------------------------------------------------------------
(* The steps of a call.                                                    *)

\* The steps that remain when the first is done.
LEMMA PathTail ==
  ASSUME NEW s, Path(s), s # <<>>
  PROVE  /\ Path(Tail(s)) /\ Range(Tail(s)) \subseteq Range(s) /\ s[1] \in StepOf
         /\ Len(Tail(s)) = Len(s) - 1 /\ \A k \in 1 .. Len(Tail(s)) : Tail(s)[k] = s[k + 1]
         /\ s[1] \in Range(s)
<1> DEFINE t == Tail(s)
<1>1. t \in Seq(StepOf) /\ Len(t) = Len(s) - 1 /\ \A k \in 1 .. Len(t) : t[k] = s[k + 1]
  BY DEF Path
<1>2. s \in Seq(StepOf) /\ Len(s) \in Nat /\ Len(s) >= 1 /\ DOMAIN s = 1 .. Len(s) /\ DOMAIN t = 1 .. Len(t)
  BY <1>1 DEF Path
<1> HIDE DEF t
<1>3. \A k \in 1 .. Len(t) - 1 : Follows(t[k], t[k + 1])
  <2> SUFFICES ASSUME NEW k \in 1 .. Len(t) - 1 PROVE Follows(t[k], t[k + 1])
    OBVIOUS
  <2>1. k + 1 \in 1 .. Len(s) - 1 /\ k \in 1 .. Len(t) /\ k + 1 \in 1 .. Len(t)
    BY <1>1, <1>2
  <2>2. QED
    BY <1>1, <2>1 DEF Path
<1>4. t # <<>> => Ends(t[Len(t)])
  <2> SUFFICES ASSUME t # <<>> PROVE Ends(t[Len(t)])
    OBVIOUS
  <2>1. Len(t) \in 1 .. Len(t) /\ Len(t) + 1 = Len(s)
    BY <1>1, <1>2
  <2>2. QED
    BY <1>1, <2>1 DEF Path
<1>5. Range(t) \subseteq Range(s)
  BY <1>1, <1>2 DEF Range
<1>6. s[1] \in StepOf /\ s[1] \in Range(s)
  BY <1>2 DEF Range
<1>7. QED
  BY <1>1, <1>2, <1>3, <1>4, <1>5, <1>6 DEF Path, t

\* One list of steps before another.
LEMMA PathJoin ==
  ASSUME NEW s, NEW t, Path(s), Path(t), s = <<>> \/ t = <<>> \/ Entry(t[1])
  PROVE  /\ Path(s \o t) /\ Range(s \o t) = Range(s) \cup Range(t)
         /\ s # <<>> => (s \o t)[1] = s[1] /\ s \o t # <<>>
         /\ s = <<>> => s \o t = t
         /\ t = <<>> => s \o t = s
<1> DEFINE r == s \o t
<1>1. /\ s \in Seq(StepOf) /\ t \in Seq(StepOf) /\ r \in Seq(StepOf) /\ Len(r) = Len(s) + Len(t)
      /\ \A k \in 1 .. Len(s) : r[k] = s[k]
      /\ \A k \in 1 .. Len(t) : r[Len(s) + k] = t[k]
      /\ Len(s) \in Nat /\ Len(t) \in Nat
      /\ DOMAIN s = 1 .. Len(s) /\ DOMAIN t = 1 .. Len(t) /\ DOMAIN r = 1 .. Len(r)
      /\ s = <<>> => r = t
      /\ t = <<>> => r = s
  BY DEF Path
<1> HIDE DEF r
<1>2. \A k \in 1 .. Len(r) - 1 : Follows(r[k], r[k + 1])
  <2> SUFFICES ASSUME NEW k \in 1 .. Len(r) - 1 PROVE Follows(r[k], r[k + 1])
    OBVIOUS
  <2>1. CASE k < Len(s)
    <3>1. k \in 1 .. Len(s) - 1 /\ k + 1 \in 1 .. Len(s) /\ k \in 1 .. Len(s)
      BY <1>1, <2>1
    <3>2. QED
      BY <1>1, <3>1 DEF Path
  <2>2. CASE k = Len(s)
    <3>1. s # <<>> /\ t # <<>> /\ k \in 1 .. Len(s) /\ 1 \in 1 .. Len(t)
      BY <1>1, <2>2
    <3>2. r[k] = s[Len(s)] /\ r[k + 1] = t[1] /\ Ends(s[Len(s)]) /\ Entry(t[1])
      BY <1>1, <2>2, <3>1 DEF Path
    <3>3. QED
      BY <3>2 DEF Follows, Ends
  <2>3. CASE k > Len(s)
    <3>1. k - Len(s) \in 1 .. Len(t) - 1
      BY <1>1, <2>3
    <3>2. PICK j \in 1 .. Len(t) - 1 : j = k - Len(s)
      BY <3>1
    <3>3. k = Len(s) + j /\ k + 1 = Len(s) + (j + 1) /\ j \in 1 .. Len(t) /\ j + 1 \in 1 .. Len(t)
      BY <1>1, <3>2
    <3>4. r[k] = t[j] /\ r[k + 1] = t[j + 1]
      BY <1>1, <3>3
    <3>5. Follows(t[j], t[j + 1])
      BY <3>2 DEF Path
    <3>6. QED
      BY <3>4, <3>5
  <2>4. k \in Int /\ Len(s) \in Int
    BY <1>1
  <2>5. k < Len(s) \/ k = Len(s) \/ k > Len(s)
    BY <2>4
  <2>6. QED
    BY <2>1, <2>2, <2>3, <2>5
<1>3. r # <<>> => Ends(r[Len(r)])
  <2>1. CASE t = <<>>
    BY <1>1, <2>1 DEF Path
  <2>2. CASE t # <<>>
    <3>1. Len(t) \in 1 .. Len(t) /\ Len(r) = Len(s) + Len(t)
      BY <1>1, <2>2
    <3>2. QED
      BY <1>1, <2>2, <3>1 DEF Path
  <2>3. QED
    BY <2>1, <2>2
<1>4. Range(r) = Range(s) \cup Range(t)
  <2>1. ASSUME NEW k \in 1 .. Len(r) PROVE r[k] \in Range(s) \cup Range(t)
    <3>1. CASE k <= Len(s)
      BY <1>1, <3>1 DEF Range
    <3>2. CASE k > Len(s)
      <4>1. PICK j \in 1 .. Len(t) : k = Len(s) + j
        <5>1. k - Len(s) \in 1 .. Len(t) /\ k = Len(s) + (k - Len(s))
          BY <1>1, <3>2
        <5>2. QED
          BY <5>1
      <4>2. QED
        BY <1>1, <4>1 DEF Range
    <3>3. QED
      BY <1>1, <3>1, <3>2
  <2>2. ASSUME NEW k \in 1 .. Len(s) PROVE s[k] \in Range(r)
    BY <1>1 DEF Range
  <2>3. ASSUME NEW k \in 1 .. Len(t) PROVE t[k] \in Range(r)
    <3>1. Len(s) + k \in 1 .. Len(r)
      BY <1>1
    <3>2. QED
      BY <1>1, <3>1 DEF Range
  <2>4. QED
    BY <1>1, <2>1, <2>2, <2>3 DEF Range
<1>5. s # <<>> => r[1] = s[1] /\ r # <<>>
  BY <1>1
<1>6. QED
  BY <1>1, <1>2, <1>3, <1>4, <1>5 DEF Path, r

\* What stands behind a step that leads to no other.
LEMMA Behind ==
  ASSUME NEW s, Path(s), s # <<>>, s[1][1] \notin Linked \cup {"sync_log", "make_spare", "sync_spare"},
         Tail(s) # <<>>
  PROVE  Entry(Tail(s)[1]) /\ Entry(s[2])
<1>1. Len(Tail(s)) = Len(s) - 1 /\ Tail(s)[1] = s[2] /\ Len(s) >= 2 /\ Follows(s[1], s[2])
  BY PathTail DEF Path
<1>2. QED
  BY <1>1 DEF Follows

\* What stands behind a step on the way of a file to its place.
LEMMA OnTheWay ==
  ASSUME NEW s, Path(s), s # <<>>, s[1][1] \in Linked
  PROVE  Tail(s) # <<>> /\ Tail(s)[1] = <<After(s[1][1]), s[1][2]>> /\ s[2] = Tail(s)[1]
<1>1. s \in Seq(StepOf) /\ Len(s) \in Nat /\ Len(s) # 0
  BY DEF Path
<1>2. Len(s) # 1
  BY DEF Path, Ends
<1>3. Len(Tail(s)) = Len(s) - 1 /\ \A k \in 1 .. Len(Tail(s)) : Tail(s)[k] = s[k + 1]
  BY PathTail
<1>6. 1 \in 1 .. Len(s) - 1 /\ 1 \in 1 .. Len(Tail(s)) /\ 1 + 1 = 2
  BY <1>1, <1>2, <1>3
<1>7. Tail(s) # <<>>
  <2>1. PICK t : t = Tail(s)
    OBVIOUS
  <2>2. Len(t) # 0 /\ t \in Seq(StepOf)
    BY <1>6, <2>1, PathTail DEF Path
  <2>3. t # <<>>
    BY <2>2
  <2>4. QED
    BY <2>1, <2>3
<1>4. Tail(s)[1] = s[2] /\ Follows(s[1], s[2]) /\ Tail(s) # <<>>
  BY <1>3, <1>6, <1>7 DEF Path
<1>5. QED
  BY <1>4 DEF Follows

\* The steps for one thing.
LEMMA StepsPath ==
  ASSUME NEW S, NEW x \in Seq(S), NEW j, x # <<>>,
         \A k \in 1 .. Len(x) : <<x[k], j>> \in StepOf,
         \A k \in 1 .. Len(x) - 1 : Follows(<<x[k], j>>, <<x[k + 1], j>>),
         Ends(<<x[Len(x)], j>>)
  PROVE  /\ Path(Steps(x, j)) /\ Steps(x, j) # <<>> /\ Steps(x, j)[1] = <<x[1], j>>
         /\ \A p \in Range(Steps(x, j)) : \E k \in 1 .. Len(x) : p = <<x[k], j>>
<1>1. Len(x) \in Nat /\ DOMAIN x = 1 .. Len(x) /\ Len(x) >= 1
  OBVIOUS
<1>0. PICK s : s = Steps(x, j)
  OBVIOUS
<1>2. s = [k \in 1 .. Len(x) |-> <<x[k], j>>]
  BY <1>0, <1>1 DEF Steps
<1>3. s \in Seq(StepOf) /\ Len(s) = Len(x) /\ \A k \in 1 .. Len(x) : s[k] = <<x[k], j>>
  BY <1>1, <1>2
<1>4. Path(s)
  <2>1. ASSUME NEW k \in 1 .. Len(s) - 1 PROVE Follows(s[k], s[k + 1])
    <3>1. k \in 1 .. Len(x) /\ k + 1 \in 1 .. Len(x) /\ k \in 1 .. Len(x) - 1
      BY <1>1, <1>3
    <3>2. s[k] = <<x[k], j>> /\ s[k + 1] = <<x[k + 1], j>>
      BY <1>3, <3>1
    <3>3. QED
      BY <3>1, <3>2, Zenon
  <2>2. Ends(s[Len(s)])
    <3>1. s[Len(s)] = <<x[Len(x)], j>>
      BY <1>1, <1>3
    <3>2. QED
      BY <3>1, Zenon
  <2>3. QED
    BY <1>3, <2>1, <2>2 DEF Path
<1>5. s # <<>> /\ s[1] = <<x[1], j>>
  BY <1>1, <1>3
<1>6. \A p \in Range(s) : \E k \in 1 .. Len(x) : p = <<x[k], j>>
  BY <1>1, <1>3 DEF Range
<1>7. QED
  BY <1>0, <1>4, <1>5, <1>6

\* One list before another.
LEMMA Joined ==
  ASSUME NEW S, NEW s \in Seq(S), NEW t \in Seq(S)
  PROVE  /\ s \o t \in Seq(S) /\ Len(s \o t) = Len(s) + Len(t)
         /\ \A k \in 1 .. Len(s) : (s \o t)[k] = s[k]
         /\ \A k \in 1 .. Len(t) : (s \o t)[Len(s) + k] = t[k]
OBVIOUS

\* The way of a manifest, and of a file, to its place.
LEMMA PipeLists ==
  /\ ManifestSteps \in Seq(Pipe) /\ Len(ManifestSteps) = 6
  /\ ManifestSteps[1] = "manifest" /\ ManifestSteps[2] = "sync_tmp" /\ ManifestSteps[3] = "sync_new"
  /\ ManifestSteps[4] = "rename" /\ ManifestSteps[5] = "sync_name" /\ ManifestSteps[6] = "installed"
  /\ BuildSteps \in Seq(Pipe) /\ Len(BuildSteps) = 8
  /\ BuildSteps[1] = "build" /\ BuildSteps[2] = "sync_sst"
  /\ \A k \in 1 .. 6 : BuildSteps[k + 2] = ManifestSteps[k]
<1>1. /\ ManifestSteps \in Seq(Pipe) /\ Len(ManifestSteps) = 6
      /\ ManifestSteps[1] = "manifest" /\ ManifestSteps[2] = "sync_tmp" /\ ManifestSteps[3] = "sync_new"
      /\ ManifestSteps[4] = "rename" /\ ManifestSteps[5] = "sync_name" /\ ManifestSteps[6] = "installed"
  BY DEF ManifestSteps, Pipe
<1> DEFINE h == <<"build", "sync_sst">>
<1>2. h \in Seq(Pipe) /\ Len(h) = 2 /\ h[1] = "build" /\ h[2] = "sync_sst"
  BY DEF Pipe
<1>3. BuildSteps = h \o ManifestSteps
  BY DEF BuildSteps
<1> HIDE DEF h
<1>8. PICK m : m = ManifestSteps
  OBVIOUS
<1>9. m \in Seq(Pipe) /\ Len(m) = 6
  BY <1>1, <1>8
<1>10. PICK b : b = h \o m
  OBVIOUS
<1>11. /\ b \in Seq(Pipe) /\ Len(b) = Len(h) + Len(m)
       /\ \A k \in 1 .. Len(h) : b[k] = h[k]
       /\ \A k \in 1 .. Len(m) : b[Len(h) + k] = m[k]
  <2>1. h \in Seq(Pipe)
    BY <1>2
  <2>2. m \in Seq(Pipe)
    BY <1>9
  <2>3. QED
    BY <2>1, <2>2, <1>10, Joined
<1>12. Len(b) = 8 /\ b[1] = h[1] /\ b[2] = h[2] /\ \A k \in 1 .. 6 : b[2 + k] = m[k]
  BY <1>2, <1>9, <1>11
<1>13. b = BuildSteps
  BY <1>3, <1>8, <1>10
<1>4. /\ BuildSteps \in Seq(Pipe) /\ Len(BuildSteps) = 8
      /\ BuildSteps[1] = "build" /\ BuildSteps[2] = "sync_sst"
  BY <1>2, <1>11, <1>12, <1>13
<1>5. \A k \in 1 .. 6 : BuildSteps[2 + k] = ManifestSteps[k]
  BY <1>8, <1>12, <1>13
<1>6. \A k \in 1 .. 6 : 2 + k = k + 2
  OBVIOUS
<1>7. QED
  BY <1>1, <1>4, <1>5, <1>6

\* The lists of steps that calls begin with or come upon.
LEMMA FilePaths ==
  /\ \A j \in {"flush", "compact", "run"} :
       /\ Path(Steps(BuildSteps, j)) /\ Steps(BuildSteps, j)[1] = <<"build", j>>
       /\ Steps(BuildSteps, j) # <<>>
       /\ \A p \in Range(Steps(BuildSteps, j)) : p[1] \in Pipe /\ p[2] = j
  /\ \A j \in {"create", "move"} :
       /\ Path(Steps(ManifestSteps, j)) /\ Steps(ManifestSteps, j)[1] = <<"manifest", j>>
       /\ Steps(ManifestSteps, j) # <<>>
       /\ \A p \in Range(Steps(ManifestSteps, j)) : p[1] \in Pipe /\ p[2] = j
<1>1. ASSUME NEW j \in {"flush", "compact", "run"}
      PROVE  /\ Path(Steps(BuildSteps, j)) /\ Steps(BuildSteps, j)[1] = <<"build", j>>
             /\ Steps(BuildSteps, j) # <<>>
             /\ \A p \in Range(Steps(BuildSteps, j)) : p[1] \in Pipe /\ p[2] = j
  <2>1. PICK x : x = BuildSteps
    OBVIOUS
  <2>3. /\ x \in Seq(Pipe) /\ x # <<>> /\ Len(x) = 8
        /\ x[1] = "build" /\ x[2] = "sync_sst" /\ x[3] = "manifest" /\ x[4] = "sync_tmp"
        /\ x[5] = "sync_new" /\ x[6] = "rename" /\ x[7] = "sync_name" /\ x[8] = "installed"
    <3>1. /\ BuildSteps[1 + 2] = "manifest" /\ BuildSteps[2 + 2] = "sync_tmp"
          /\ BuildSteps[3 + 2] = "sync_new" /\ BuildSteps[4 + 2] = "rename"
          /\ BuildSteps[5 + 2] = "sync_name" /\ BuildSteps[6 + 2] = "installed"
      BY PipeLists
    <3>2. QED
      BY <2>1, <3>1, PipeLists
  <2>4. \A k \in 1 .. 8 : x[k] \in Pipe /\ <<x[k], j>> \in StepOf
    <3>1. ASSUME NEW k \in 1 .. 8 PROVE x[k] \in Pipe
      <4>1. x \in Seq(Pipe)
        BY <2>3
      <4>2. k \in 1 .. Len(x)
        BY <2>3
      <4>3. QED
        BY <4>1, <4>2
    <3>2. QED
      BY <3>1 DEF StepOf, Builders
  <2>5. \A k \in 1 .. 7 : Follows(<<x[k], j>>, <<x[k + 1], j>>)
    <3>1. ASSUME NEW k \in 1 .. 7 PROVE x[k] \in Linked /\ x[k + 1] = After(x[k])
      <4>1. k \in {1, 2, 3, 4, 5, 6, 7}
        OBVIOUS
      <4>2. QED
        BY <2>3, <4>1 DEF After, Linked, Pipe
    <3>2. QED
      BY <3>1 DEF Follows
  <2>6. Ends(<<x[8], j>>)
    BY <2>3 DEF Ends, Linked
  <2>7. /\ Path(Steps(x, j)) /\ Steps(x, j) # <<>> /\ Steps(x, j)[1] = <<x[1], j>>
        /\ \A p \in Range(Steps(x, j)) : \E k \in 1 .. 8 : p = <<x[k], j>>
    <3>1. Len(x) = 8 /\ Len(x) - 1 = 7 /\ x[Len(x)] = x[8]
      BY <2>3
    <3>2. /\ \A k \in 1 .. Len(x) : <<x[k], j>> \in StepOf
          /\ \A k \in 1 .. Len(x) - 1 : Follows(<<x[k], j>>, <<x[k + 1], j>>)
          /\ Ends(<<x[Len(x)], j>>)
      BY <2>4, <2>5, <2>6, <3>1
    <3>3. x \in Seq(Pipe) /\ x # <<>>
      BY <2>3
    <3>4. /\ Path(Steps(x, j)) /\ Steps(x, j) # <<>> /\ Steps(x, j)[1] = <<x[1], j>>
          /\ \A p \in Range(Steps(x, j)) : \E k \in 1 .. Len(x) : p = <<x[k], j>>
      BY <3>2, <3>3, StepsPath
    <3>5. QED
      BY <3>1, <3>4
  <2>8. QED
    BY <2>1, <2>3, <2>4, <2>7
<1>2. ASSUME NEW j \in {"create", "move"}
      PROVE  /\ Path(Steps(ManifestSteps, j)) /\ Steps(ManifestSteps, j)[1] = <<"manifest", j>>
             /\ Steps(ManifestSteps, j) # <<>>
             /\ \A p \in Range(Steps(ManifestSteps, j)) : p[1] \in Pipe /\ p[2] = j
  <2>1. PICK x : x = ManifestSteps
    OBVIOUS
  <2>3. /\ x \in Seq(Pipe) /\ x # <<>> /\ Len(x) = 6
        /\ x[1] = "manifest" /\ x[2] = "sync_tmp"
        /\ x[3] = "sync_new" /\ x[4] = "rename" /\ x[5] = "sync_name" /\ x[6] = "installed"
    <3>1. /\ x \in Seq(Pipe) /\ Len(x) = 6
          /\ x[1] = "manifest" /\ x[2] = "sync_tmp"
          /\ x[3] = "sync_new" /\ x[4] = "rename" /\ x[5] = "sync_name" /\ x[6] = "installed"
      BY <2>1, PipeLists
    <3>2. Len(x) # Len(<<>>)
      BY <3>1
    <3>3. x # <<>>
      BY <3>2
    <3>4. QED
      BY <3>1, <3>3
  <2>4. \A k \in 1 .. 6 : x[k] \in Pipe /\ <<x[k], j>> \in StepOf
    <3>1. \A k \in 1 .. 6 : k \in {1, 2, 3, 4, 5, 6}
      OBVIOUS
    <3>2. \A k \in 1 .. 6 : x[k] \in Pipe \ {"build", "sync_sst"}
      BY <2>3, <3>1 DEF Pipe
    <3>3. QED
      BY <3>2 DEF StepOf
  <2>5. \A k \in 1 .. 5 : Follows(<<x[k], j>>, <<x[k + 1], j>>)
    <3>1. ASSUME NEW k \in 1 .. 5 PROVE x[k] \in Linked /\ x[k + 1] = After(x[k])
      <4>1. k \in {1, 2, 3, 4, 5}
        OBVIOUS
      <4>2. QED
        BY <2>3, <4>1 DEF After, Linked, Pipe
    <3>2. QED
      BY <3>1 DEF Follows
  <2>6. Ends(<<x[6], j>>)
    BY <2>3 DEF Ends, Linked
  <2>7. /\ Path(Steps(x, j)) /\ Steps(x, j) # <<>> /\ Steps(x, j)[1] = <<x[1], j>>
        /\ \A p \in Range(Steps(x, j)) : \E k \in 1 .. 6 : p = <<x[k], j>>
    <3>1. Len(x) = 6 /\ Len(x) - 1 = 5 /\ x[Len(x)] = x[6]
      BY <2>3
    <3>2. /\ \A k \in 1 .. Len(x) : <<x[k], j>> \in StepOf
          /\ \A k \in 1 .. Len(x) - 1 : Follows(<<x[k], j>>, <<x[k + 1], j>>)
          /\ Ends(<<x[Len(x)], j>>)
      BY <2>4, <2>5, <2>6, <3>1
    <3>3. x \in Seq(Pipe) /\ x # <<>>
      BY <2>3
    <3>4. /\ Path(Steps(x, j)) /\ Steps(x, j) # <<>> /\ Steps(x, j)[1] = <<x[1], j>>
          /\ \A p \in Range(Steps(x, j)) : \E k \in 1 .. Len(x) : p = <<x[k], j>>
      BY <3>2, <3>3, StepsPath
    <3>5. QED
      BY <3>1, <3>4
  <2>8. QED
    BY <2>1, <2>3, <2>4, <2>7
<1>3. QED
  BY <1>1, <1>2

\* The lists whose steps are all of a call's own: a sequence of entries, after
\* what leads to an entry.
LEMMA CallPaths ==
  ASSUME NEW x, x \in Seq(Calls), x # <<>>,
         \A k \in 1 .. Len(x) - 1 :
             \/ x[k + 1] \in Calls \ {"insert", "make_spare", "sync_spare", "name_spare", "sync_log"}
             \/ x[k] = "sync_log" /\ x[k + 1] = "insert"
             \/ x[k] = "make_spare" /\ x[k + 1] = "sync_spare"
             \/ x[k] = "sync_spare" /\ x[k + 1] = "name_spare",
         x[Len(x)] \notin {"sync_log", "make_spare", "sync_spare"}
  PROVE  /\ Path(Steps(x, "call")) /\ Steps(x, "call") # <<>> /\ Steps(x, "call")[1] = <<x[1], "call">>
         /\ \A p \in Range(Steps(x, "call")) : \E k \in 1 .. Len(x) : p = <<x[k], "call">>
<1>1. \A s \in Calls : s \notin Linked
  BY DEF Calls, Linked, Pipe
<1>2. Len(x) \in Nat /\ Len(x) >= 1 /\ \A k \in 1 .. Len(x) : x[k] \in Calls
  OBVIOUS
<1>3. \A k \in 1 .. Len(x) : <<x[k], "call">> \in StepOf
  BY <1>2 DEF StepOf
<1>4. \A k \in 1 .. Len(x) - 1 : Follows(<<x[k], "call">>, <<x[k + 1], "call">>)
  BY <1>1, <1>2 DEF Follows, Entry
<1>5. Ends(<<x[Len(x)], "call">>)
  BY <1>1, <1>2 DEF Ends
<1>6. QED
  BY <1>2, <1>3, <1>4, <1>5, StepsPath

Plain == Calls \ {"insert", "make_spare", "sync_spare", "name_spare", "sync_log"}

\* What is known of a list of a call's own steps.
Listing(s, first) ==
  /\ Path(s) /\ s # <<>> /\ s[1] = <<first, "call">>
  /\ \A p \in Range(s) : p[2] = "call"

\* A list of entries.
LEMMA PlainPath ==
  ASSUME NEW x \in Seq(Plain), x # <<>>
  PROVE  Listing(Steps(x, "call"), x[1]) /\ \A p \in Range(Steps(x, "call")) : p[1] \in Plain
<1>1. x \in Seq(Calls)
  BY DEF Plain
<1>2. \A k \in 1 .. Len(x) : x[k] \in Plain
  OBVIOUS
<1>3. Len(x) \in Nat /\ Len(x) >= 1
  OBVIOUS
<1>4. \A k \in 1 .. Len(x) - 1 : x[k + 1] \in Calls \ {"insert", "make_spare", "sync_spare", "name_spare", "sync_log"}
  BY <1>2, <1>3 DEF Plain
<1>5. x[Len(x)] \notin {"sync_log", "make_spare", "sync_spare"}
  BY <1>2, <1>3 DEF Plain
<1>6. /\ Path(Steps(x, "call")) /\ Steps(x, "call") # <<>> /\ Steps(x, "call")[1] = <<x[1], "call">>
      /\ \A p \in Range(Steps(x, "call")) : \E k \in 1 .. Len(x) : p = <<x[k], "call">>
  BY <1>1, <1>4, <1>5, CallPaths
<1>7. QED
  BY <1>2, <1>6 DEF Listing

\* The lists themselves.
LEMMA CallLists ==
  /\ Listing(Steps(<<"sync_log", "insert", "slice", "spare", "compact">>, "call"), "sync_log")
  /\ Listing(Steps(<<"insert", "slice", "spare", "compact">>, "call"), "insert")
  /\ Listing(Steps(<<"make_spare", "sync_spare", "name_spare">>, "call"), "make_spare")
  /\ \A p \in Range(Steps(<<"make_spare", "sync_spare", "name_spare">>, "call")) : p[1] # "insert"
  /\ Listing(Steps(<<"name_spare">>, "call"), "name_spare")
  /\ \A p \in Range(Steps(<<"name_spare">>, "call")) : p[1] # "insert"
<1>1. ASSUME NEW x, x = <<"sync_log", "insert", "slice", "spare", "compact">>
      PROVE  Listing(Steps(x, "call"), "sync_log")
  <2>1. x \in Seq(Calls) /\ Len(x) = 5
    BY <1>1 DEF Calls
  <2>2. /\ x # <<>> /\ x[1] = "sync_log" /\ x[2] = "insert" /\ x[3] = "slice" /\ x[4] = "spare" /\ x[5] = "compact"
    BY <1>1
  <2>3. \A k \in 1 .. 4 :
             \/ x[k + 1] \in Calls \ {"insert", "make_spare", "sync_spare", "name_spare", "sync_log"}
             \/ x[k] = "sync_log" /\ x[k + 1] = "insert"
    <3>1. ASSUME NEW k \in 1 .. 4 PROVE k \in {1, 2, 3, 4}
      OBVIOUS
    <3>2. QED
      BY <2>2, <3>1 DEF Calls
  <2>4. Len(x) - 1 = 4 /\ x[Len(x)] = "compact"
    BY <2>1, <2>2
  <2>5. /\ Path(Steps(x, "call")) /\ Steps(x, "call") # <<>> /\ Steps(x, "call")[1] = <<x[1], "call">>
        /\ \A p \in Range(Steps(x, "call")) : \E k \in 1 .. Len(x) : p = <<x[k], "call">>
    BY <2>1, <2>2, <2>3, <2>4, CallPaths
  <2>6. QED
    BY <2>2, <2>5 DEF Listing
<1>2. ASSUME NEW x, x = <<"insert", "slice", "spare", "compact">>
      PROVE  Listing(Steps(x, "call"), "insert")
  <2>1. x \in Seq(Calls) /\ Len(x) = 4
    BY <1>2 DEF Calls
  <2>2. /\ x # <<>> /\ x[1] = "insert" /\ x[2] = "slice" /\ x[3] = "spare" /\ x[4] = "compact"
    BY <1>2
  <2>3. \A k \in 1 .. 3 :
             x[k + 1] \in Calls \ {"insert", "make_spare", "sync_spare", "name_spare", "sync_log"}
    <3>1. ASSUME NEW k \in 1 .. 3 PROVE k \in {1, 2, 3}
      OBVIOUS
    <3>2. QED
      BY <2>2, <3>1 DEF Calls
  <2>4. Len(x) - 1 = 3 /\ x[Len(x)] = "compact"
    BY <2>1, <2>2
  <2>5. /\ Path(Steps(x, "call")) /\ Steps(x, "call") # <<>> /\ Steps(x, "call")[1] = <<x[1], "call">>
        /\ \A p \in Range(Steps(x, "call")) : \E k \in 1 .. Len(x) : p = <<x[k], "call">>
    BY <2>1, <2>2, <2>3, <2>4, CallPaths
  <2>6. QED
    BY <2>2, <2>5 DEF Listing
<1>3. ASSUME NEW x, x = <<"make_spare", "sync_spare", "name_spare">>
      PROVE  Listing(Steps(x, "call"), "make_spare") /\ \A p \in Range(Steps(x, "call")) : p[1] # "insert"
  <2>1. x \in Seq(Calls) /\ Len(x) = 3
    BY <1>3 DEF Calls
  <2>2. /\ x # <<>> /\ x[1] = "make_spare" /\ x[2] = "sync_spare" /\ x[3] = "name_spare"
    BY <1>3
  <2>3. \A k \in 1 .. 2 :
             \/ x[k] = "make_spare" /\ x[k + 1] = "sync_spare"
             \/ x[k] = "sync_spare" /\ x[k + 1] = "name_spare"
    <3>1. ASSUME NEW k \in 1 .. 2 PROVE k \in {1, 2}
      OBVIOUS
    <3>2. QED
      BY <2>2, <3>1
  <2>4. Len(x) - 1 = 2 /\ x[Len(x)] = "name_spare"
    BY <2>1, <2>2
  <2>5. /\ Path(Steps(x, "call")) /\ Steps(x, "call") # <<>> /\ Steps(x, "call")[1] = <<x[1], "call">>
        /\ \A p \in Range(Steps(x, "call")) : \E k \in 1 .. Len(x) : p = <<x[k], "call">>
    BY <2>1, <2>2, <2>3, <2>4, CallPaths
  <2>6. \A k \in 1 .. Len(x) : x[k] # "insert"
    BY <2>1, <2>2
  <2>7. QED
    BY <2>2, <2>5, <2>6 DEF Listing
<1>4. ASSUME NEW x, x = <<"name_spare">>
      PROVE  Listing(Steps(x, "call"), "name_spare") /\ \A p \in Range(Steps(x, "call")) : p[1] # "insert"
  <2>1. x \in Seq(Calls) /\ Len(x) = 1
    BY <1>4 DEF Calls
  <2>2. x # <<>> /\ x[1] = "name_spare"
    BY <1>4
  <2>3. \A k \in 1 .. Len(x) - 1 : FALSE
    BY <2>1
  <2>4. x[Len(x)] = "name_spare"
    BY <2>1, <2>2
  <2>5. /\ Path(Steps(x, "call")) /\ Steps(x, "call") # <<>> /\ Steps(x, "call")[1] = <<x[1], "call">>
        /\ \A p \in Range(Steps(x, "call")) : \E k \in 1 .. Len(x) : p = <<x[k], "call">>
    BY <2>1, <2>2, <2>3, <2>4, CallPaths
  <2>6. \A k \in 1 .. Len(x) : x[k] # "insert"
    BY <2>1, <2>2
  <2>7. QED
    BY <2>2, <2>5, <2>6 DEF Listing
<1>5. QED
  BY <1>1, <1>2, <1>3, <1>4

\* The lists of entries.
LEMMA PlainLists ==
  /\ \A x \in {<<"drain", "freeze", "drain", "compact">>, <<"compact">>, <<"drain", "freeze">>,
               <<"harden">>, <<"slice">>, <<"harden", "close">>, <<"drain", "swap", "compact">>,
               <<"harden", "drain">>, <<"short", "freeze">>} :
         x \in Seq(Plain) /\ x # <<>>
  /\ <<"drain", "freeze", "drain", "compact">>[1] = "drain" /\ <<"compact">>[1] = "compact"
  /\ <<"drain", "freeze">>[1] = "drain" /\ <<"harden">>[1] = "harden" /\ <<"slice">>[1] = "slice"
  /\ <<"harden", "close">>[1] = "harden"
BY DEF Plain, Calls

\* Nothing to do is a list of steps.
LEMMA EmptyPath == Path(<<>>) /\ Range(<<>>) = {}
BY DEF Path, Range

\* A step is done and leaves nothing to do of its own.
LEMMA RestNone ==
  ASSUME Path(todo), todo # <<>>, Rest(<<>>)
  PROVE  /\ todo' = Tail(todo) /\ Path(todo') /\ Range(todo') \subseteq Range(todo)
         /\ todo' # <<>> => Follows(todo[1], todo'[1]) /\ todo'[1] \in StepOf
         /\ todo[1][1] \in Linked => todo' # <<>> /\ todo'[1] = <<After(todo[1][1]), todo[1][2]>>
         /\ todo[1] \in StepOf /\ todo[1] \in Range(todo)
<1>1. PICK t : t = Tail(todo)
  OBVIOUS
<1>2. /\ Path(t) /\ Range(t) \subseteq Range(todo) /\ todo[1] \in StepOf /\ todo[1] \in Range(todo)
      /\ Len(t) = Len(todo) - 1 /\ \A k \in 1 .. Len(t) : t[k] = todo[k + 1]
  BY <1>1, PathTail
<1>3. t \in Seq(StepOf) /\ todo \in Seq(StepOf)
  BY <1>2 DEF Path
<1>4. todo' = t
  BY <1>1, <1>3 DEF Rest
<1>5. t # <<>> => t[1] = todo[2] /\ Follows(todo[1], t[1]) /\ t[1] \in StepOf
  <2> SUFFICES ASSUME t # <<>> PROVE t[1] = todo[2] /\ Follows(todo[1], t[1]) /\ t[1] \in StepOf
    OBVIOUS
  <2>1. 1 \in 1 .. Len(t) /\ 1 \in 1 .. Len(todo) - 1
    BY <1>2, <1>3
  <2>2. t[1] = todo[1 + 1] /\ Follows(todo[1], todo[1 + 1])
    BY <1>2, <2>1 DEF Path
  <2>3. QED
    BY <1>3, <2>1, <2>2
<1>6. todo[1][1] \in Linked => t # <<>> /\ t[1] = <<After(todo[1][1]), todo[1][2]>>
  BY <1>1, OnTheWay
<1>7. QED
  BY <1>1, <1>2, <1>4, <1>5, <1>6

\* A step is done and has left more to do.
LEMMA RestSome ==
  ASSUME Path(todo), todo # <<>>, todo[1][1] \notin Linked \cup {"sync_log", "make_spare", "sync_spare"},
         NEW s, Path(s), s # <<>>, Rest(s)
  PROVE  /\ Path(todo') /\ todo' # <<>> /\ todo'[1] = s[1]
         /\ Range(todo') \subseteq Range(s) \cup Range(todo)
<1>1. PICK t : t = Tail(todo)
  OBVIOUS
<1>2. Path(t) /\ Range(t) \subseteq Range(todo)
  BY <1>1, PathTail
<1>3. t = <<>> \/ Entry(t[1])
  BY <1>1, Behind
<1>4. todo' = s \o t
  BY <1>1 DEF Rest
<1>5. QED
  BY <1>2, <1>3, <1>4, PathJoin

\* A step finds that others have to come first.
LEMMA Before ==
  ASSUME Path(todo), todo # <<>>, Entry(todo[1]), NEW s, Path(s), s # <<>>, todo' = s \o todo
  PROVE  /\ Path(todo') /\ todo' # <<>> /\ todo'[1] = s[1]
         /\ Range(todo') \subseteq Range(s) \cup Range(todo)
BY PathJoin

\* A step that is done leaves the call in shape.
LEMMA CallKept ==
  ASSUME CallShape, todo # <<>>, Rest(<<>>), UNCHANGED txns,
         db'.fl = db.fl \/ todo[1][1] \notin Linked,
         db'.end = db.end \/ todo[1][1] \notin {"sync_log"},
         \/ state' = state /\ (todo[1][2] # "create" \/ todo[1][1] \in Linked)
         \/ state' = "open" /\ todo[1][1] = "installed"
  PROVE  CallShape'
<1>1. /\ todo' = Tail(todo) /\ Path(todo') /\ Range(todo') \subseteq Range(todo)
      /\ todo' # <<>> => Follows(todo[1], todo'[1]) /\ todo'[1] \in StepOf
      /\ todo[1][1] \in Linked => todo' # <<>> /\ todo'[1] = <<After(todo[1][1]), todo[1][2]>>
      /\ todo[1] \in StepOf /\ todo[1] \in Range(todo)
  BY RestNone DEF CallShape
<1>2. todo[1][2] = "create" <=> state = "opening"
  BY <1>1 DEF CallShape
<1>3. state' \in {"off", "failed"} => todo' = <<>>
  BY <1>1 DEF CallShape
<1>4. state' = "opening" => todo' # <<>>
  BY <1>1, <1>2
<1>5. ASSUME NEW p \in Range(todo') PROVE p[2] = "create" <=> state' = "opening"
  <2>1. CASE state' = state
    BY <1>1, <2>1 DEF CallShape
  <2>2. CASE state' # state
    <3>1. state' = "open" /\ todo[1][1] = "installed"
      BY <2>2
    <3>2. CASE state # "opening"
      BY <1>1, <3>1, <3>2 DEF CallShape
    <3>3. CASE state = "opening"
      <4>1. todo' = <<>>
        <5> SUFFICES ASSUME todo' # <<>> PROVE FALSE
          OBVIOUS
        <5>1. Entry(todo'[1]) /\ todo'[1] \in StepOf
          BY <1>1, <3>1 DEF Follows, Linked, Pipe
        <5>2. todo'[1] \in Range(todo')
          <6>1. todo' \in Seq(StepOf)
            BY <1>1 DEF Path
          <6>2. 1 \in DOMAIN todo'
            BY <6>1
          <6>3. QED
            BY <6>2 DEF Range
        <5>3. todo'[1][2] = "create"
          BY <1>1, <3>3, <5>2 DEF CallShape
        <5>4. QED
          BY <5>1, <5>3 DEF Entry, StepOf, Calls, Pipe, Builders
      <4>2. QED
        BY <4>1, EmptyPath
    <3>4. QED
      BY <3>2, <3>3
  <2>3. QED
    BY <2>1, <2>2
<1>6. ASSUME NEW p \in Range(todo'), p[1] = "insert" PROVE db'.end < MaxSlot /\ 1 <= txns'
  <2>1. db.end < MaxSlot /\ 1 <= txns /\ p \in Range(todo)
    BY <1>1, <1>6 DEF CallShape
  <2>2. PICK k \in 1 .. Len(todo') : todo'[k] = p
    BY <1>1 DEF Range, Path
  <2>3. todo' \in Seq(StepOf) /\ Len(todo') \in Nat
    BY <1>1 DEF Path
  <2>4. CASE k = 1
    <3>1. todo' # <<>> /\ todo'[1][1] = "insert"
      BY <1>6, <2>2, <2>3, <2>4
    <3>2. Follows(todo[1], todo'[1])
      BY <1>1, <3>1
    <3>3. todo[1][1] = "sync_log"
      BY <3>1, <3>2 DEF Follows, After, Linked, Pipe, Entry
    <3>4. QED
      BY <2>1, <3>3
  <2>5. CASE k # 1
    <3>1. k - 1 \in 1 .. Len(todo') - 1 /\ (k - 1) + 1 = k
      BY <2>2, <2>3, <2>5
    <3>2. PICK j \in 1 .. Len(todo') - 1 : j + 1 = k
      BY <3>1
    <3>3. Follows(todo'[j], p)
      BY <1>1, <2>2, <3>2 DEF Path
    <3>4. todo'[j][1] = "sync_log"
      BY <1>6, <3>3 DEF Follows, After, Linked, Pipe, Entry
    <3>5. todo'[j] = todo[j + 1] /\ j \in 1 .. Len(todo) - 1
      BY <1>1, <2>3, <3>2, PathTail DEF CallShape
    <3>6. Follows(todo[j], todo[j + 1])
      BY <3>5 DEF CallShape, Path
    <3>7. FALSE
      BY <3>4, <3>5, <3>6 DEF Follows, After, Linked, Pipe, Entry
    <3>8. QED
      BY <3>7
  <2>6. QED
    BY <2>4, <2>5
<1>7. ASSUME NEW p \in Range(todo'), p[2] = "run" PROVE 1 <= txns'
  BY <1>1, <1>7 DEF CallShape
<1>8. Head1(Pipe, {"flush"})' => db'.fl # 0
  <2> SUFFICES ASSUME todo' # <<>>, todo'[1][1] \in Pipe, todo'[1][2] = "flush" PROVE db'.fl # 0
    BY DEF Head1
  <2>1. todo[1][1] \in Linked
    <3> SUFFICES ASSUME todo[1][1] \notin Linked PROVE FALSE
      OBVIOUS
    <3>1. Entry(todo'[1]) \/ todo'[1][1] \in Calls
      BY <1>1 DEF Follows, Calls
    <3>2. QED
      BY <3>1 DEF Entry, Calls, Pipe
  <2>2. Head1(Pipe, {"flush"})
    BY <1>1, <2>1 DEF Head1, Linked
  <2>3. QED
    BY <2>1, <2>2 DEF CallShape
<1>9. QED
  BY <1>1, <1>3, <1>4, <1>5, <1>6, <1>7, <1>8 DEF CallShape

\* A step that is done leaves the call and the logs in shape.
LEMMA QuietStep ==
  ASSUME CallShape, LogShape, todo # <<>>, Rest(<<>>), UNCHANGED txns, db'.log = db.log,
         db'.fl = db.fl \/ (db'.fl = 0 /\ todo[1][1] \notin Linked),
         db'.spare = db.spare \/ db.log < MaxLog,
         db'.end = db.end \/ todo[1][1] \notin {"sync_log"},
         \/ state' = state /\ (todo[1][2] # "create" \/ todo[1][1] \in Linked)
         \/ state' = "open" /\ todo[1][1] = "installed"
  PROVE  CallShape' /\ LogShape'
<1>1. CallShape'
  BY CallKept
<1>2. /\ todo' # <<>> => Follows(todo[1], todo'[1]) /\ todo'[1] \in StepOf
      /\ todo[1] \in StepOf
  BY RestNone DEF CallShape
<1>3. Head1({"make_spare", "sync_spare", "name_spare"}, {"call"})' => db'.log < MaxLog
  <2> SUFFICES ASSUME todo' # <<>>, todo'[1][1] \in {"make_spare", "sync_spare", "name_spare"}
               PROVE  db'.log < MaxLog
    BY DEF Head1
  <2>1. Follows(todo[1], todo'[1])
    BY <1>2
  <2>2. todo[1][1] \in {"make_spare", "sync_spare"}
    BY <2>1 DEF Follows, After, Linked, Pipe, Entry
  <2>3. todo[1][2] = "call"
    BY <1>2, <2>2 DEF StepOf, Calls, Pipe
  <2>4. QED
    BY <2>2, <2>3 DEF LogShape, Head1
<1>4. LogShape'
  BY <1>3 DEF LogShape
<1>5. QED
  BY <1>1, <1>4

\* A call commits one record: only the sync of the log comes before it.
LEMMA OneInsert ==
  ASSUME NEW s, Path(s), s # <<>>, s[1][1] = "insert"
  PROVE  \A p \in Range(Tail(s)) : p[1] # "insert"
<1> SUFFICES ASSUME NEW p \in Range(Tail(s)), p[1] = "insert" PROVE FALSE
  OBVIOUS
<1>1. PICK t : t = Tail(s)
  OBVIOUS
<1>2. Path(t) /\ Len(t) = Len(s) - 1 /\ \A k \in 1 .. Len(t) : t[k] = s[k + 1]
  BY <1>1, PathTail
<1>3. t \in Seq(StepOf) /\ s \in Seq(StepOf)
  BY <1>2 DEF Path
<1>4. PICK k \in 1 .. Len(t) : t[k] = p
  BY <1>1, <1>3 DEF Range
<1>5. k \in 1 .. Len(s) - 1 /\ s[k + 1] = p
  BY <1>2, <1>3, <1>4
<1>6. s[k][1] = "sync_log"
  <2>1. Follows(s[k], p)
    BY <1>5 DEF Path
  <2>2. QED
    BY <2>1 DEF Follows, After, Linked, Pipe, Entry
<1>7. k # 1
  BY <1>6
<1>8. PICK j \in 1 .. Len(s) - 1 : j + 1 = k
  <2>1. k - 1 \in 1 .. Len(s) - 1 /\ (k - 1) + 1 = k
    BY <1>3, <1>5, <1>7
  <2>2. QED
    BY <2>1
<1>9. Follows(s[j], s[k])
  BY <1>8 DEF Path
<1>10. QED
  BY <1>6, <1>9 DEF Follows, After, Linked, Pipe, Entry

\* A step that adds steps, or a call that starts, leaves the call in shape.
LEMMA GrowStep ==
  ASSUME CallShape, LogShape, state = "open", UNCHANGED state, txns \in Nat, txns' \in Nat, txns <= txns',
         db'.log = db.log, db'.spare = db.spare, db'.fl = db.fl,
         Path(todo'), todo' # <<>>, NEW s, todo'[1] = s[1],
         NEW R \in SUBSET Range(todo), Range(todo') \subseteq Range(s) \cup R,
         db'.end = db.end \/ \A p \in R : p[1] # "insert",
         \A p \in Range(s) : /\ p[2] # "create"
                             /\ p[1] = "insert" => db'.end < MaxSlot /\ 1 <= txns'
                             /\ p[2] = "run" => 1 <= txns',
         s[1][1] \in Pipe /\ s[1][2] = "flush" => db.fl # 0,
         s[1][1] \in {"make_spare", "sync_spare", "name_spare"} => db.log < MaxLog
  PROVE  CallShape' /\ LogShape'
<1>1. ASSUME NEW p \in Range(todo')
      PROVE  /\ p[2] = "create" <=> state' = "opening"
             /\ p[1] = "insert" => db'.end < MaxSlot /\ 1 <= txns'
             /\ p[2] = "run" => 1 <= txns'
  <2>1. CASE p \in Range(s)
    BY <2>1
  <2>2. CASE p \in R
    <3>1. /\ p[2] # "create"
          /\ p[1] = "insert" => db.end < MaxSlot /\ 1 <= txns
          /\ p[2] = "run" => 1 <= txns
      BY <2>2 DEF CallShape
    <3>2. 1 <= txns => 1 <= txns'
      OBVIOUS
    <3>3. QED
      BY <2>2, <3>1, <3>2
  <2>3. QED
    BY <2>1, <2>2
<1>2. CallShape'
  BY <1>1 DEF CallShape, Head1
<1>3. LogShape'
  BY DEF LogShape, Head1
<1>4. QED
  BY <1>2, <1>3

\* A call that starts.
LEMMA CallStarts ==
  ASSUME CallShape, LogShape, state = "open", UNCHANGED state, txns \in Nat, txns' \in Nat, txns <= txns',
         UNCHANGED db, Path(todo'), todo' # <<>>,
         \A p \in Range(todo') : /\ p[2] # "create"
                                 /\ p[1] = "insert" => db.end < MaxSlot /\ 1 <= txns'
                                 /\ p[2] = "run" => 1 <= txns',
         todo'[1][1] \in Calls \ {"make_spare", "sync_spare", "name_spare"}
  PROVE  CallShape' /\ LogShape'
<1>1. PICK t : t = todo'
  OBVIOUS
<1>2. t[1][1] \notin Pipe
  BY <1>1 DEF Calls, Pipe
<1>3. \A p \in Range(t) : /\ p[2] # "create"
                          /\ p[1] = "insert" => db'.end < MaxSlot /\ 1 <= txns'
                          /\ p[2] = "run" => 1 <= txns'
  BY <1>1
<1>4. Range(todo') \subseteq Range(t) \cup {} /\ {} \in SUBSET Range(todo)
  BY <1>1
<1>5. QED
  BY <1>1, <1>2, <1>3, <1>4, GrowStep

\* A call that ends with the store.
LEMMA OverStep ==
  ASSUME LogShape, todo' = <<>>, state' \in {"off", "failed"}, db' = NewStore \/ UNCHANGED db
  PROVE  CallShape' /\ LogShape'
<1>1. CallShape'
  BY EmptyPath DEF CallShape, Head1
<1>2. LogShape'
  BY DEF LogShape, Head1, NewStore
<1>3. QED
  BY <1>1, <1>2

-----------------------------------------------------------------------------
(* Type correctness, action by action.                                     *)

\* The names and their kinds.
LEMMA NameFacts ==
  /\ \A k \in LogNums : Log(k) \in Name /\ Class(Log(k)) = "log"
  /\ \A n \in FileNums : Sst(n) \in Name /\ Class(Sst(n)) = "sst"
  /\ Manifest \in Name /\ Class(Manifest) = "manifest"
  /\ Tmp \in Name /\ Class(Tmp) = "manifest"
  /\ Lease \in Name /\ Class(Lease) = "lease"
  /\ \A k, j : Log(k) = Log(j) => k = j
  /\ \A k, j : Sst(k) = Sst(j) => k = j
  /\ \A k, j : Log(k) # Sst(j)
  /\ \A k : Log(k) # Manifest /\ Log(k) # Tmp /\ Log(k) # Lease
  /\ \A k : Sst(k) # Manifest /\ Sst(k) # Tmp /\ Sst(k) # Lease
  /\ Manifest # Tmp /\ Manifest # Lease /\ Tmp # Lease
BY DEF Name, Class, Log, Sst, Manifest, Tmp, Lease

\* What the constants allow.
LEMMA Numbers ==
  /\ MaxSlot \in Nat /\ MaxInode \in Nat /\ MaxTxn \in Nat /\ MaxOpens \in Nat /\ MaxLog \in Nat
  /\ MaxFile \in Nat /\ MaxFlushes \in Nat
  /\ 1 <= MaxSlot /\ 1 <= MaxLog /\ 1 <= MaxFile
  /\ 1 \in LogNums /\ 1 \in Slots
  /\ LogNums \subseteq Nat /\ FileNums \subseteq Nat /\ Slots \subseteq Nat
BY StoreAssumption DEF LogNums, FileNums, Slots

\* The numbers of logs and files.
LEMMA NumberedNat ==
  /\ \A k \in LogNums : k \in Nat /\ 1 <= k /\ k <= MaxLog
  /\ \A n \in FileNums : n \in Nat /\ 1 <= n /\ n <= MaxFile
BY Numbers DEF LogNums, FileNums

\* A GsStore remains one as commits are made.
LEMMA DbGrows ==
  ASSUME NEW T, NEW U, T \subseteq U, NEW n \in Nat, NEW m \in Nat, n <= m, NEW x \in GsStore(T, n)
  PROVE  x \in GsStore(U, m)
<1>1. \A A, B : A \subseteq B => SUBSET A \subseteq SUBSET B
  OBVIOUS
<1>2. [num : FileNums, txns : SUBSET T] \subseteq [num : FileNums, txns : SUBSET U]
  OBVIOUS
<1>3. 0 .. n \subseteq 0 .. m
  OBVIOUS
<1>4. QED
  BY <1>2, <1>3 DEF GsStore

\* The GsStore of a new database is one.
LEMMA NewStoreTypes == \A T : \A n \in Nat : NewStore \in GsStore(T, n)
<1>1. SUFFICES ASSUME NEW T, NEW n \in Nat PROVE NewStore \in GsStore(T, n)
  OBVIOUS
<1>2. <<1>> \in Seq(Nat) /\ 0 \in 0 .. n /\ 0 \in 0 .. MaxLog /\ 0 \in 0 .. MaxSlot /\ 1 \in Nat
  BY Numbers
<1>3. QED
  BY <1>2, Numbers DEF NewStore, GsStore

\* What a step that is done leaves to do.
LEMMA HeadRest ==
  ASSUME Path(todo), todo # <<>>, Rest(<<>>), todo' # <<>>
  PROVE  /\ todo'[1] \in StepOf /\ todo[1] \in StepOf
         /\ \/ todo[1][1] \in Linked /\ todo'[1] = <<After(todo[1][1]), todo[1][2]>>
            \/ todo[1][1] \notin Linked /\ Entry(todo'[1])
            \/ todo[1][1] = "sync_log" /\ todo'[1][1] = "insert"
            \/ todo[1][1] = "make_spare" /\ todo'[1][1] = "sync_spare"
            \/ todo[1][1] = "sync_spare" /\ todo'[1][1] = "name_spare"
BY RestNone DEF Follows

\* A step of a call's own, once done, leaves no manifest on its way.
LEMMA IdleRest ==
  ASSUME CallShape, todo # <<>>, todo[1][1] \in Calls \cup {"installed"}, Rest(<<>>)
  PROVE  Idle'
<1>1. CASE todo' = <<>>
  BY <1>1 DEF Idle
<1>2. CASE todo' # <<>>
  BY <1>2, HeadRest DEF CallShape, Idle, Entry, Calls, Linked, Pipe
<1>3. QED
  BY <1>1, <1>2

\* The same of what stands, after a step that is done and only adds names.
LEMMA StandingKept ==
  ASSUME Standing, CallShape, todo # <<>>, Rest(<<>>), UNCHANGED state,
         db'.log = db.log, db'.spare = db.spare, db'.fl = db.fl,
         db'.files = db.files, db'.new = db.new, db'.next = db.next,
         DOMAIN disk.names \subseteq DOMAIN disk'.names,
         todo[1][1] \notin {"build", "manifest", "make_spare", "recover"}
  PROVE  Standing'
<1>1. \A S, J : Head1(S, J)' => todo' # <<>>
  BY DEF Head1
<1>2. Live' => Live
  <2> SUFFICES ASSUME Head1(Pipe, {"create"})' PROVE Head1(Pipe, {"create"})
    BY DEF Live
  <2>1. todo' # <<>> /\ todo'[1][1] \in Pipe /\ todo'[1][2] = "create"
    BY DEF Head1
  <2>2. QED
    BY <2>1, HeadRest DEF Head1, CallShape, Linked, Entry, Calls, Pipe
<1>3. Head1({"sync_spare", "name_spare"}, {"call"})' => Head1({"sync_spare", "name_spare"}, {"call"})
  BY HeadRest DEF Head1, CallShape, After, Linked, Pipe, Entry, StepOf, Calls
<1>4. ~Head1({"sync_sst"}, Builders)'
  BY HeadRest DEF Head1, CallShape, After, Linked, Pipe, Entry, Calls
<1>5. ~Head1({"sync_tmp"}, Builders \cup {"create", "move"})'
  BY HeadRest DEF Head1, CallShape, After, Linked, Pipe, Entry, Calls
<1>6. QED
  BY <1>2, <1>3, <1>4, <1>5 DEF Standing

\* The same, after a step that puts others before it.
LEMMA StandingGrown ==
  ASSUME Standing, state = "open", UNCHANGED state, UNCHANGED disk,
         db'.log = db.log, db'.spare = db.spare, db'.fl = db.fl,
         db'.files = db.files, db'.new = db.new, db'.next = db.next,
         todo' # <<>>, todo'[1][1] \notin {"sync_spare", "sync_sst", "sync_tmp"},
         todo'[1][1] = "name_spare" => db.spare # "none"
  PROVE  Standing'
<1>1. /\ Head1({"sync_spare", "name_spare"}, {"call"})' => db.spare # "none"
      /\ ~Head1({"sync_sst"}, Builders)' /\ ~Head1({"sync_tmp"}, Builders \cup {"create", "move"})'
  BY DEF Head1
<1>2. QED
  BY <1>1 DEF Standing, Live

\* The same, after a call that ends with the store.
LEMMA StandingOver ==
  ASSUME Standing, todo' = <<>>, state' \in {"off", "failed"}, db' = NewStore \/ UNCHANGED db
  PROVE  Standing'
<1>1. \A S, J : ~Head1(S, J)'
  BY DEF Head1
<1>2. \A f \in db'.files \cup db'.new : f.num < db'.next
  BY DEF Standing, NewStore
<1>3. QED
  BY <1>1, <1>2 DEF Standing, Live

\* A step of a call finds the store open.
LEMMA Opened ==
  ASSUME StateOK, CallShape, todo # <<>>, todo[1][2] # "create"
  PROVE  state = "open"
<1>1. todo[1] \in Range(todo)
  BY RestNone, PathTail DEF CallShape
<1>2. QED
  BY <1>1 DEF StateOK, CallShape

\* A call that starts and writes nothing.
LEMMA StartTypes ==
  ASSUME Types, state = "open", UNCHANGED <<disk, db, state, opens, hist, acked, stale>>,
         txns' \in txns .. MaxTxn, flushes' \in 0 .. MaxFlushes,
         Path(todo'), todo' # <<>>,
         \A p \in Range(todo') : p[2] # "create" /\ p[1] # "insert" /\ (p[2] = "run" => 1 <= txns'),
         todo'[1][1] \in Plain
  PROVE  Types' /\ Idle'
<1>1. txns \in Nat /\ txns' \in Nat /\ txns <= txns' /\ opens \in Nat /\ Len(hist) \in Nat
  BY Numbers DEF Types, StateOK
<1>2. StateOK'
  <2>1. 1 .. txns \subseteq 1 .. txns'
    BY <1>1
  <2>2. db' \in GsStore(1 .. txns', Len(hist'))
    BY <1>1, <2>1, DbGrows DEF Types, StateOK
  <2>3. hist' \in Seq(1 .. txns')
    BY <2>1 DEF Types, StateOK
  <2>4. acked' \subseteq 1 .. txns'
    BY <2>1 DEF Types, StateOK
  <2>5. txns' \in 0 .. MaxTxn
    BY <1>1
  <2>6. QED
    BY <2>2, <2>3, <2>4, <2>5 DEF Types, StateOK
<1>3. DiskKinds(disk, opens, txns)'
  BY <1>1, KindsGrow DEF Types
<1>4. CallShape' /\ LogShape'
  <2>1. todo'[1][1] \in Calls \ {"make_spare", "sync_spare", "name_spare"}
    BY DEF Plain
  <2>2. QED
    BY <1>1, <2>1, CallStarts DEF Types
<1>5. Standing'
  <2>1. todo'[1][1] \notin {"sync_spare", "sync_sst", "sync_tmp", "name_spare"}
    BY DEF Plain, Calls
  <2>2. QED
    BY <2>1, StandingGrown DEF Types
<1>6. Idle'
  BY DEF Idle, Plain
<1>7. QED
  BY <1>2, <1>3, <1>4, <1>5, <1>6 DEF Types

\* The calls that are one list of steps.
LEMMA SimpleCallTypes ==
  ASSUME Types, SyncCall \/ BeginRead \/ CloseCall
  PROVE  Types' /\ Idle'
<1>1. PICK x : /\ x \in {<<"harden">>, <<"slice">>, <<"harden", "close">>} /\ Call(x)
               /\ UNCHANGED <<disk, db, state, counts, hist, acked, stale>>
  BY DEF SyncCall, BeginRead, CloseCall
<1>2. x \in Seq(Plain) /\ x # <<>>
  BY <1>1, PlainLists
<1>3. Path(todo') /\ todo' # <<>> /\ todo'[1] = <<x[1], "call">>
      /\ \A p \in Range(todo') : p[2] = "call" /\ p[1] \in Plain
  BY <1>1, <1>2, PlainPath DEF Call, Listing
<1>4. x[1] \in Plain
  BY <1>2
<1>5. todo'[1][1] \in Plain
  BY <1>3, <1>4
<1>6. \A p \in Range(todo') : p[2] # "create" /\ p[1] # "insert" /\ (p[2] = "run" => 1 <= txns')
  BY <1>3 DEF Plain
<1>7. txns' \in txns .. MaxTxn /\ flushes' \in 0 .. MaxFlushes
  BY <1>1, Numbers DEF Types, StateOK, counts
<1>8. QED
  BY <1>1, <1>3, <1>5, <1>6, <1>7, StartTypes DEF Call, counts

\* lsm_flush.
LEMMA FlushCallTypes ==
  ASSUME Types, FlushCall
  PROVE  Types' /\ Idle'
<1>1. PICK x, y, z : /\ x = <<"harden", "drain">> /\ y \in {<<>>, <<"short", "freeze">>}
                     /\ z = <<"drain", "swap", "compact">> /\ Call(x \o y \o z)
  BY DEF FlushCall
<1>2. x \in Seq(Plain) /\ y \in Seq(Plain) /\ z \in Seq(Plain) /\ x # <<>>
  <2>1. <<"harden", "drain">> \in Seq(Plain) /\ <<"drain", "swap", "compact">> \in Seq(Plain)
        /\ <<"short", "freeze">> \in Seq(Plain) /\ <<"harden", "drain">> # <<>>
    BY PlainLists
  <2>2. <<>> \in Seq(Plain)
    OBVIOUS
  <2>3. QED
    BY <1>1, <2>1, <2>2
<1>3. PICK w : w = x \o y \o z
  OBVIOUS
<1>4. w \in Seq(Plain) /\ w # <<>>
  BY <1>2, <1>3
<1>5. Path(todo') /\ todo' # <<>> /\ todo'[1] = <<w[1], "call">>
      /\ \A p \in Range(todo') : p[2] = "call" /\ p[1] \in Plain
  BY <1>1, <1>3, <1>4, PlainPath DEF Call, Listing
<1>6. w[1] \in Plain
  BY <1>4
<1>7. todo'[1][1] \in Plain
  BY <1>5, <1>6
<1>8. \A p \in Range(todo') : p[2] # "create" /\ p[1] # "insert" /\ (p[2] = "run" => 1 <= txns')
  BY <1>5 DEF Plain
<1>9. txns' \in txns .. MaxTxn /\ flushes' \in 0 .. MaxFlushes
  BY Numbers DEF FlushCall, Types, StateOK
<1>10. QED
  BY <1>1, <1>5, <1>7, <1>8, <1>9, StartTypes DEF FlushCall, Call

\* commit_runs.
LEMMA CommitRunsTypes ==
  ASSUME Types, CommitRuns
  PROVE  Types' /\ Idle'
<1>1. PICK x, z : x = <<"drain", "freeze", "drain", "compact">> /\ z = <<"compact">>
  OBVIOUS
<1>2. PICK a, b, c : /\ a = Steps(x, "call") /\ b = Steps(BuildSteps, "run") /\ c = Steps(z, "call")
                     /\ todo' = a \o b \o c
  BY <1>1 DEF CommitRuns
<1>3. /\ Path(a) /\ a # <<>> /\ a[1] = <<"drain", "call">>
      /\ \A p \in Range(a) : p[2] = "call" /\ p[1] \in Plain
  BY <1>1, <1>2, PlainLists, PlainPath DEF Listing
<1>4. /\ Path(c) /\ c # <<>> /\ c[1] = <<"compact", "call">>
      /\ \A p \in Range(c) : p[2] = "call" /\ p[1] \in Plain
  BY <1>1, <1>2, PlainLists, PlainPath DEF Listing
<1>5. /\ Path(b) /\ b # <<>> /\ b[1] = <<"build", "run">>
      /\ \A p \in Range(b) : p[1] \in Pipe /\ p[2] = "run"
  BY <1>2, FilePaths
<1>6. Entry(b[1]) /\ Entry(c[1])
  BY <1>4, <1>5 DEF Entry, Calls
<1>7. /\ Path(a \o b) /\ Range(a \o b) = Range(a) \cup Range(b) /\ (a \o b)[1] = a[1] /\ a \o b # <<>>
  BY <1>3, <1>5, <1>6, PathJoin
<1>8. PICK ab : ab = a \o b
  OBVIOUS
<1>9. /\ Path(todo') /\ Range(todo') = Range(ab) \cup Range(c) /\ todo'[1] = ab[1] /\ todo' # <<>>
  BY <1>2, <1>4, <1>6, <1>7, <1>8, PathJoin
<1>10. 1 <= txns' /\ txns' \in txns .. MaxTxn
  BY Numbers DEF CommitRuns, Types, StateOK
<1>11. \A p \in Range(todo') : p[2] # "create" /\ p[1] # "insert" /\ (p[2] = "run" => 1 <= txns')
  BY <1>3, <1>4, <1>5, <1>7, <1>8, <1>9, <1>10 DEF Plain, Pipe
<1>12. todo'[1][1] \in Plain
  BY <1>3, <1>7, <1>8, <1>9 DEF Plain, Calls
<1>13. flushes' \in 0 .. MaxFlushes
  BY DEF CommitRuns, Types, StateOK
<1>14. QED
  BY <1>9, <1>10, <1>11, <1>12, <1>13, StartTypes DEF CommitRuns

\* lsm_commit.
LEMMA CommitTypes ==
  ASSUME Types, NEW sync \in BOOLEAN, Commit(sync)
  PROVE  Types' /\ Idle'
<1>1. PICK x : /\ x = (IF sync THEN <<"sync_log">> ELSE <<>>) \o <<"insert", "slice", "spare", "compact">>
               /\ Call(x)
  BY DEF Commit
<1>2. /\ todo' = Steps(x, "call") /\ state = "open" /\ state' = "open" /\ todo = <<>>
      /\ txns < MaxTxn /\ txns' = txns + 1 /\ db.end < MaxSlot /\ UNCHANGED <<db, opens, flushes, acked, stale>>
      /\ hist' = Append(hist, txns + 1)
  BY <1>1 DEF Commit, Call
<1>3. /\ txns \in Nat /\ txns' \in Nat /\ txns <= txns' /\ 1 <= txns' /\ txns' \in 0 .. MaxTxn /\ opens \in Nat
      /\ db.end \in Nat /\ db.end + 1 \in Slots /\ txns + 1 \in 1 .. txns' /\ opens \in 0 .. opens
      /\ db.chain \in Seq(Nat) /\ db.log \in LogNums
  BY <1>2, Numbers DEF Types, StateOK, GsStore, Slots
<1>4. \/ Listing(todo', "insert") \/ Listing(todo', "sync_log")
  <2>1. CASE sync
    <3>1. <<"sync_log">> \o <<"insert", "slice", "spare", "compact">>
             = <<"sync_log", "insert", "slice", "spare", "compact">>
      <4>1. PICK a, b : a = <<"sync_log">> /\ b = <<"insert", "slice", "spare", "compact">>
        OBVIOUS
      <4>2. /\ a \in Seq(Calls) /\ Len(a) = 1 /\ a[1] = "sync_log" /\ b \in Seq(Calls) /\ Len(b) = 4
            /\ b[1] = "insert" /\ b[2] = "slice" /\ b[3] = "spare" /\ b[4] = "compact"
        BY <4>1 DEF Calls
      <4>3. PICK c : c = a \o b
        OBVIOUS
      <4>4. /\ c \in Seq(Calls) /\ Len(c) = 5 /\ c[1] = a[1] /\ \A k \in 1 .. 4 : c[1 + k] = b[k]
        <5>1. a \in Seq(Calls) /\ b \in Seq(Calls)
          BY <4>2
        <5>2. /\ c \in Seq(Calls) /\ Len(c) = Len(a) + Len(b) /\ \A k \in 1 .. Len(a) : c[k] = a[k]
              /\ \A k \in 1 .. Len(b) : c[Len(a) + k] = b[k]
          BY <4>3, <5>1, Joined
        <5>3. QED
          BY <4>2, <5>2
      <4>5. c[1] = "sync_log" /\ c[2] = "insert" /\ c[3] = "slice" /\ c[4] = "spare" /\ c[5] = "compact"
        BY <4>2, <4>4
      <4>6. c = <<"sync_log", "insert", "slice", "spare", "compact">>
        BY <4>4, <4>5
      <4>7. QED
        BY <4>1, <4>3, <4>6
    <3>2. QED
      BY <1>1, <1>2, <2>1, <3>1, CallLists
  <2>2. CASE ~sync
    <3>1. <<>> \o <<"insert", "slice", "spare", "compact">> = <<"insert", "slice", "spare", "compact">>
      OBVIOUS
    <3>2. QED
      BY <1>1, <1>2, <2>2, <3>1, CallLists
  <2>3. QED
    BY <2>1, <2>2
<1>5. CallShape' /\ LogShape'
  <2>1. todo'[1][1] \in Calls \ {"make_spare", "sync_spare", "name_spare"} /\ Path(todo') /\ todo' # <<>>
    BY <1>4 DEF Listing, Calls
  <2>2. \A p \in Range(todo') : /\ p[2] # "create"
                                /\ p[1] = "insert" => db.end < MaxSlot /\ 1 <= txns'
                                /\ p[2] = "run" => 1 <= txns'
    BY <1>2, <1>3, <1>4 DEF Listing
  <2>3. QED
    BY <1>2, <1>3, <2>1, <2>2, CallStarts DEF Types
<1>6. StateOK'
  <2>1. 1 .. txns \subseteq 1 .. txns'
    BY <1>3
  <2>2. hist \in Seq(1 .. txns') /\ hist' \in Seq(1 .. txns') /\ Len(hist') = Len(hist) + 1 /\ Len(hist) \in Nat
    BY <1>2, <1>3, <2>1 DEF Types, StateOK
  <2>3. Len(hist') \in Nat /\ Len(hist) <= Len(hist')
    BY <2>2
  <2>4. db' \in GsStore(1 .. txns', Len(hist'))
    BY <1>2, <2>1, <2>2, <2>3, DbGrows DEF Types, StateOK
  <2>5. acked' \subseteq 1 .. txns'
    BY <1>2, <2>1 DEF Types, StateOK
  <2>6. QED
    BY <1>2, <1>3, <2>2, <2>4, <2>5 DEF Types, StateOK
<1>7. PICK rec : rec = [prev |-> db.chain, salt |-> opens, txn |-> txns + 1]
  OBVIOUS
<1>8. disk' = Write(disk, Log(db.log), db.end + 1, rec)
  BY <1>7 DEF Commit
<1>9. Exists(disk, Log(db.log))
  BY <1>2 DEF Types, Standing, Live, Exists
<1>10. rec \in Value /\ rec \in Held("log", opens', txns')
  <2>1. rec \in [prev : Seq(Nat), salt : 0 .. opens, txn : 1 .. txns']
    BY <1>3, <1>7
  <2>2. rec \in LogRecord
    BY <1>3, <1>7 DEF LogRecord
  <2>3. QED
    BY <1>2, <2>1, <2>2 DEF Value, Held
<1>11. DiskShape(disk') /\ disk'.names = disk.names
  BY <1>3, <1>8, <1>9, <1>10, WriteEffect DEF Types
<1>12. DiskKinds(disk, opens', txns')
  BY <1>2, <1>3, KindsGrow DEF Types
<1>13. DiskKinds(disk', opens', txns')
  <2>1. Class(Log(db.log)) = "log"
    BY <1>3, NameFacts
  <2>2. QED
    BY <1>3, <1>8, <1>9, <1>10, <1>12, <2>1, WriteKinds DEF Types
<1>14. Standing'
  <2>1. /\ ~Head1({"sync_spare", "name_spare"}, {"call"})'
        /\ ~Head1({"sync_sst"}, Builders)' /\ ~Head1({"sync_tmp"}, Builders \cup {"create", "move"})'
    BY <1>4 DEF Head1, Listing
  <2>2. QED
    BY <1>2, <1>11, <2>1 DEF Types, Standing, Live
<1>15. Idle'
  BY <1>4 DEF Idle, Listing, Calls
<1>16. QED
  BY <1>5, <1>6, <1>11, <1>13, <1>14, <1>15 DEF Types

\* A sync that fails.
LEMMA FailTypes ==
  ASSUME Types, NEW n, Exists(disk, n), disk' \in FailedSync(disk, n), state' = "failed", todo' = <<>>,
         UNCHANGED <<db, acked, counts, hist, stale>>
  PROVE  Types'
<1>1. DiskShape(disk') /\ DiskKinds(disk', opens, txns) /\ disk'.names = disk.names
  BY SyncKinds DEF Types
<1>2. CallShape' /\ LogShape'
  BY OverStep DEF Types
<1>3. Standing'
  BY StandingOver DEF Types
<1>4. StateOK'
  BY DEF Types, StateOK, counts
<1>5. QED
  BY <1>1, <1>2, <1>3, <1>4 DEF Types, counts

\* A GsStore whose commits all count as durable is one.
LEMMA HardenTypes ==
  ASSUME StateOK, Harden, UNCHANGED <<counts, hist>>
  PROVE  /\ db' \in GsStore(1 .. txns', Len(hist')) /\ acked' \subseteq 1 .. txns'
         /\ db' = [db EXCEPT !.durable = Len(hist)]
         /\ db'.log = db.log /\ db'.spare = db.spare /\ db'.fl = db.fl /\ db'.end = db.end
         /\ db'.files = db.files /\ db'.new = db.new /\ db'.next = db.next
<1>1. Len(hist) \in Nat /\ Len(hist) \in 0 .. Len(hist)
  BY DEF StateOK
<1>2. Range(hist) \subseteq 1 .. txns
  BY DEF StateOK, Range
<1>3. QED
  BY <1>1, <1>2 DEF Harden, StateOK, GsStore, counts

\* A sync that succeeds.
LEMMA SyncTypes ==
  ASSUME Types, NEW n, Exists(disk, n), disk' = Sync(disk, n), Rest(<<>>), todo # <<>>, UNCHANGED state,
         UNCHANGED <<counts, hist, stale>>, UNCHANGED <<db, acked>> \/ Harden,
         todo[1][1] \in {"sync_log", "harden", "sync_spare", "sync_sst", "sync_tmp"}
  PROVE  Types'
<1>1. DiskShape(disk') /\ DiskKinds(disk', opens, txns) /\ disk'.names = disk.names
  BY SyncKinds DEF Types
<1>2. /\ db'.log = db.log /\ db'.spare = db.spare /\ db'.fl = db.fl /\ db'.end = db.end
      /\ db'.files = db.files /\ db'.new = db.new /\ db'.next = db.next
  BY HardenTypes DEF Types
<1>3. todo[1][2] # "create" \/ todo[1][1] \in Linked
  BY RestNone DEF Types, CallShape, Linked, Pipe, StepOf, Builders, Calls
<1>4. CallShape' /\ LogShape'
  BY <1>2, <1>3, QuietStep DEF Types, counts
<1>5. Standing'
  BY <1>1, <1>2, StandingKept DEF Types
<1>6. StateOK'
  BY HardenTypes DEF Types, StateOK, counts
<1>7. QED
  BY <1>1, <1>4, <1>5, <1>6 DEF Types, counts

\* A step that is done, and changed nothing but the rest of the call.
LEMMA IdleTypes ==
  ASSUME Types, Rest(<<>>), todo # <<>>, UNCHANGED <<disk, db, state, counts, hist, acked, stale>>,
         todo[1][1] \in Calls \ {"make_spare"}
  PROVE  Types' /\ Idle'
<1>1. todo[1][2] # "create" \/ todo[1][1] \in Linked
  BY RestNone DEF Types, CallShape, Pipe, StepOf, Calls
<1>2. CallShape' /\ LogShape'
  BY <1>1, QuietStep DEF Types, counts
<1>3. Standing'
  <2>1. todo[1][1] \notin {"build", "manifest", "make_spare", "recover"}
    BY DEF Calls
  <2>2. QED
    BY <2>1, StandingKept DEF Types
<1>4. Idle'
  BY IdleRest DEF Types
<1>5. QED
  BY <1>2, <1>3, <1>4 DEF Types, StateOK, counts

\* flush_file, for commits.
LEMMA SyncLogTypes ==
  ASSUME Types, SyncLog \/ SyncIfNeeded
  PROVE  Types'
<1>1. todo # <<>> /\ todo[1][1] \in {"sync_log", "harden"} /\ UNCHANGED <<counts, hist, stale>>
  BY DEF SyncLog, SyncIfNeeded, At
<1>2. todo[1][2] # "create"
  BY <1>1, PathTail DEF Types, CallShape, StepOf, Calls, Pipe
<1>3. Exists(disk, Log(db.log))
  BY <1>1, <1>2, Opened DEF Types, Standing, Live, Exists
<1>4. \/ FlushFile(Log(db.log), Harden)
      \/ todo[1][1] = "harden" /\ Rest(<<>>) /\ UNCHANGED <<disk, db, state, acked>>
  BY DEF SyncLog, SyncIfNeeded, At
<1>5. CASE disk' = Sync(disk, Log(db.log)) /\ Harden /\ Rest(<<>>) /\ UNCHANGED state
  BY <1>1, <1>3, <1>5, SyncTypes
<1>6. CASE /\ disk' \in FailedSync(disk, Log(db.log)) /\ state' = "failed" /\ todo' = <<>>
           /\ UNCHANGED <<db, acked>>
  BY <1>1, <1>3, <1>6, FailTypes
<1>7. CASE todo[1][1] = "harden" /\ Rest(<<>>) /\ UNCHANGED <<disk, db, state, acked>>
  BY <1>1, <1>7, IdleTypes DEF Calls
<1>8. QED
  BY <1>4, <1>5, <1>6, <1>7 DEF FlushFile

\* flush_file, for a file or a log on its way.
LEMMA SyncFileTypes ==
  ASSUME Types, SyncSpare \/ SyncSst \/ SyncTmp
  PROVE  Types'
<1>1. /\ todo # <<>> /\ todo[1][1] \in {"sync_spare", "sync_sst", "sync_tmp"} /\ UNCHANGED <<counts, hist, stale>>
      /\ todo[1] \in StepOf
  BY PathTail DEF SyncSpare, SyncSst, SyncTmp, At, Types, CallShape
<1>2. PICK n : /\ FlushFile(n, UNCHANGED <<db, acked>>)
               /\ \/ n = Log(db.log + 1) /\ todo[1][1] = "sync_spare"
                  \/ n = Sst(db.next - 1) /\ todo[1][1] = "sync_sst"
                  \/ n = Tmp /\ todo[1][1] = "sync_tmp"
  BY DEF SyncSpare, SyncSst, SyncTmp, At
<1>3. Exists(disk, n)
  <2>1. CASE n = Log(db.log + 1) /\ todo[1][1] = "sync_spare"
    <3>1. todo[1][2] = "call"
      BY <1>1, <2>1 DEF StepOf, Pipe
    <3>2. Live /\ Head1({"sync_spare", "name_spare"}, {"call"})
      BY <1>1, <2>1, <3>1, Opened DEF Types, Live, Head1
    <3>3. QED
      BY <2>1, <3>2 DEF Types, Standing, Exists
  <2>2. CASE n = Sst(db.next - 1) /\ todo[1][1] = "sync_sst"
    <3>1. Head1({"sync_sst"}, Builders)
      BY <1>1, <2>2 DEF Head1, StepOf, Calls
    <3>2. PICK m \in FileNums : db.next = m + 1 /\ Sst(m) \in DOMAIN disk.names
      BY <3>1 DEF Types, Standing
    <3>3. db.next - 1 = m
      BY <3>2, Numbers
    <3>4. QED
      BY <2>2, <3>2, <3>3 DEF Exists
  <2>3. CASE n = Tmp /\ todo[1][1] = "sync_tmp"
    <3>1. Head1({"sync_tmp"}, Builders \cup {"create", "move"})
      BY <1>1, <2>3 DEF Head1, StepOf, Calls
    <3>2. QED
      BY <2>3, <3>1 DEF Types, Standing, Exists
  <2>4. QED
    BY <1>2, <2>1, <2>2, <2>3
<1>4. CASE disk' = Sync(disk, n) /\ UNCHANGED <<db, acked>> /\ Rest(<<>>) /\ UNCHANGED state
  BY <1>1, <1>3, <1>4, SyncTypes
<1>5. CASE /\ disk' \in FailedSync(disk, n) /\ state' = "failed" /\ todo' = <<>> /\ UNCHANGED <<db, acked>>
  BY <1>1, <1>3, <1>5, FailTypes
<1>6. QED
  BY <1>2, <1>4, <1>5 DEF FlushFile

\* A step that has more done, and changed nothing but the rest of the call.
LEMMA MoreTypes ==
  ASSUME Types, todo # <<>>, state = "open", UNCHANGED <<disk, db, state, counts, hist, acked, stale>>,
         NEW s, Path(s), s # <<>>,
         \/ Entry(todo[1]) /\ todo' = s \o todo
         \/ /\ todo[1][1] \notin Linked \cup {"sync_log", "make_spare", "sync_spare"}
            /\ Rest(s),
         \A p \in Range(s) : p[2] \notin {"create", "run"} /\ p[1] # "insert",
         s[1][1] \in Pipe /\ s[1][2] = "flush" => db.fl # 0,
         s[1][1] \in {"make_spare", "name_spare"} => db.log < MaxLog,
         s[1][1] \notin {"sync_spare", "sync_sst", "sync_tmp"},
         s[1][1] = "name_spare" => db.spare # "none"
  PROVE  Types' /\ todo' # <<>> /\ todo'[1] = s[1]
<1>1. Path(todo') /\ todo' # <<>> /\ todo'[1] = s[1] /\ Range(todo') \subseteq Range(s) \cup Range(todo)
  BY RestSome, Before DEF Types, CallShape
<1>2. txns \in Nat /\ txns' = txns /\ txns <= txns
  BY DEF Types, StateOK, counts
<1>3. CallShape' /\ LogShape'
  <2>1. \A p \in Range(s) : /\ p[2] # "create"
                            /\ p[1] = "insert" => db'.end < MaxSlot /\ 1 <= txns'
                            /\ p[2] = "run" => 1 <= txns'
    OBVIOUS
  <2>2. s[1][1] \in {"make_spare", "sync_spare", "name_spare"} => db.log < MaxLog
    OBVIOUS
  <2>3. Range(todo) \in SUBSET Range(todo)
    OBVIOUS
  <2>4. QED
    BY <1>1, <1>2, <2>1, <2>2, <2>3, GrowStep DEF Types
<1>4. Standing'
  BY <1>1, StandingGrown DEF Types
<1>5. QED
  BY <1>1, <1>3, <1>4 DEF Types, StateOK, counts

\* The step under way, of a call's own.
LEMMA OwnStep ==
  ASSUME Types, todo # <<>>, todo[1][1] \in Calls
  PROVE  /\ todo[1][2] = "call" /\ state = "open" /\ todo[1][1] \notin Linked
         /\ todo[1][1] \in Plain => Entry(todo[1])
<1>1. todo[1] \in StepOf
  BY PathTail DEF Types, CallShape
<1>2. todo[1][2] = "call"
  BY <1>1 DEF StepOf, Calls, Pipe
<1>3. QED
  BY <1>2, Opened DEF Types, Linked, Pipe, Calls, Entry, Plain

\* What spare_step and spare_now have left to do.
LEMMA SparePaths ==
  ASSUME Types
  PROVE  LET s == Steps(SpareSteps, "call") IN
           /\ Path(s) /\ s # <<>> /\ s[1][1] \in {"make_spare", "name_spare"}
           /\ s[1][1] = "name_spare" => db.spare # "none"
           /\ \A p \in Range(s) : p[2] = "call" /\ p[1] # "insert"
<1>1. CASE db.spare = "none"
  <2>1. PICK a, b, c : a = <<"make_spare", "sync_spare">> /\ b = <<"name_spare">> /\ c = a \o b
    OBVIOUS
  <2>2. SpareSteps = c
    BY <1>1, <2>1 DEF SpareSteps
  <2>3. /\ a \in Seq(Calls) /\ Len(a) = 2 /\ a[1] = "make_spare" /\ a[2] = "sync_spare"
        /\ b \in Seq(Calls) /\ Len(b) = 1 /\ b[1] = "name_spare"
    BY <2>1 DEF Calls
  <2>4. a \in Seq(Calls) /\ b \in Seq(Calls)
    BY <2>3
  <2>5. /\ c \in Seq(Calls) /\ Len(c) = Len(a) + Len(b) /\ \A k \in 1 .. Len(a) : c[k] = a[k]
        /\ \A k \in 1 .. Len(b) : c[Len(a) + k] = b[k]
    BY <2>1, <2>4, Joined
  <2>6. c \in Seq(Calls) /\ Len(c) = 3 /\ c[1] = "make_spare" /\ c[2] = "sync_spare" /\ c[3] = "name_spare"
    BY <2>3, <2>5
  <2>7. c = <<"make_spare", "sync_spare", "name_spare">>
    BY <2>6
  <2>8. SpareSteps = <<"make_spare", "sync_spare", "name_spare">>
    BY <2>2, <2>7
  <2>9. QED
    BY <2>8, CallLists DEF Listing
<1>2. CASE db.spare # "none"
  <2>1. <<>> \o <<"name_spare">> = <<"name_spare">>
    OBVIOUS
  <2>2. SpareSteps = <<"name_spare">>
    BY <1>2, <2>1 DEF SpareSteps
  <2>3. QED
    BY <1>2, <2>2, CallLists DEF Listing
<1>3. QED
  BY <1>1, <1>2

\* flush_step.
LEMMA DrainTypes ==
  ASSUME Types, Slice \/ Drain
  PROVE  Types' /\ Idle'
<1>1. /\ todo # <<>> /\ todo[1][1] \in {"slice", "drain"}
      /\ UNCHANGED <<disk, db, state, counts, hist, acked, stale>>
      /\ Rest(<<>>) \/ (db.fl # 0 /\ Rest(Steps(BuildSteps, "flush")))
  BY DEF Slice, Drain, At
<1>2. todo[1][1] \in Calls \ {"make_spare"}
  BY <1>1 DEF Calls
<1>3. CASE Rest(<<>>)
  BY <1>1, <1>2, <1>3, IdleTypes
<1>4. CASE db.fl # 0 /\ Rest(Steps(BuildSteps, "flush"))
  <2>1. PICK s : s = Steps(BuildSteps, "flush")
    OBVIOUS
  <2>2. Path(s) /\ s # <<>> /\ s[1] = <<"build", "flush">> /\ \A p \in Range(s) : p[1] \in Pipe /\ p[2] = "flush"
    BY <2>1, FilePaths
  <2>3. \A p \in Range(s) : p[2] \notin {"create", "run"} /\ p[1] # "insert"
    BY <2>2 DEF Pipe
  <2>4. todo[1][1] \notin Linked \cup {"sync_log", "make_spare", "sync_spare"} /\ state = "open"
    BY <1>1, <1>2, OwnStep
  <2>5. s[1][1] \notin {"make_spare", "name_spare", "sync_spare", "sync_sst", "sync_tmp"}
    BY <2>2
  <2>6. Types' /\ todo' # <<>> /\ todo'[1] = s[1]
    BY <1>1, <1>4, <2>1, <2>2, <2>3, <2>4, <2>5, MoreTypes
  <2>7. QED
    BY <2>2, <2>6 DEF Idle
<1>5. QED
  BY <1>1, <1>3, <1>4

\* spare_step.
LEMMA SpareTypes ==
  ASSUME Types, Spare
  PROVE  Types' /\ Idle'
<1>1. /\ todo # <<>> /\ todo[1][1] = "spare"
      /\ UNCHANGED <<disk, db, state, counts, hist, acked, stale>>
      /\ Rest(<<>>) \/ (db.log < MaxLog /\ Rest(Steps(SpareSteps, "call")))
  BY DEF Spare, At
<1>2. todo[1][1] \in Calls \ {"make_spare"}
  BY <1>1 DEF Calls
<1>3. CASE Rest(<<>>)
  BY <1>1, <1>2, <1>3, IdleTypes
<1>4. CASE db.log < MaxLog /\ Rest(Steps(SpareSteps, "call"))
  <2>1. PICK s : s = Steps(SpareSteps, "call")
    OBVIOUS
  <2>2. /\ Path(s) /\ s # <<>> /\ s[1][1] \in {"make_spare", "name_spare"}
        /\ s[1][1] = "name_spare" => db.spare # "none"
        /\ \A p \in Range(s) : p[2] = "call" /\ p[1] # "insert"
    BY <2>1, SparePaths
  <2>3. \A p \in Range(s) : p[2] \notin {"create", "run"} /\ p[1] # "insert"
    BY <2>2
  <2>4. todo[1][1] \notin Linked \cup {"sync_log", "make_spare", "sync_spare"} /\ state = "open"
    BY <1>1, <1>2, OwnStep
  <2>5. s[1][1] \notin Pipe \cup {"sync_spare", "sync_sst", "sync_tmp"}
    BY <2>2 DEF Pipe
  <2>6. Types' /\ todo' # <<>> /\ todo'[1] = s[1]
    BY <1>1, <1>4, <2>1, <2>2, <2>3, <2>4, <2>5, MoreTypes
  <2>7. QED
    BY <2>2, <2>6 DEF Idle, Calls
<1>5. QED
  BY <1>1, <1>3, <1>4

\* The log switched to the spare.
LEMMA SwitchTypes ==
  ASSUME Types, todo # <<>>, todo[1][1] \in {"freeze", "swap"}, Rest(<<>>), db.spare = "ready", db.fl = 0,
         \/ db' = [OnSpare(db) EXCEPT !.imm = db.mem, !.mem = {}, !.fl = db.log]
         \/ db' = [OnSpare(db) EXCEPT !.short = FALSE],
         UNCHANGED <<disk, state, counts, hist, acked, stale>>
  PROVE  Types' /\ Idle'
<1>1. todo[1][1] \in Calls /\ todo[1][1] \in Plain
  BY DEF Calls, Plain
<1>2. todo[1][2] = "call" /\ state = "open" /\ todo[1][1] \notin Linked
  BY <1>1, OwnStep
<1>3. db \in GsStore(1 .. txns, Len(hist)) /\ db.log < MaxLog /\ db.log \in LogNums
  BY DEF Types, StateOK, LogShape, GsStore
<1>4. db.log + 1 \in LogNums /\ db.log \in 0 .. MaxLog /\ 0 \in 0 .. MaxSlot /\ <<db.log + 1>> \in Seq(Nat)
  BY <1>3, Numbers DEF LogNums
<1>5. /\ db' \in GsStore(1 .. txns, Len(hist)) /\ db'.log = db.log + 1 /\ db'.spare = "none" /\ db'.end = 0
      /\ db'.fl \in {0, db.log} /\ db'.files = db.files /\ db'.new = db.new /\ db'.next = db.next
  <2>1. PICK x : x = OnSpare(db)
    OBVIOUS
  <2>2. /\ x \in GsStore(1 .. txns, Len(hist)) /\ x.log = db.log + 1 /\ x.spare = "none" /\ x.end = 0
        /\ x.fl = db.fl /\ x.files = db.files /\ x.new = db.new /\ x.next = db.next
    <3>1. x = [db EXCEPT !.log = db.log + 1, !.end = 0, !.chain = <<db.log + 1>>, !.spare = "none"]
      <4>1. x = OnSpare(db)
        BY <2>1
      <4>2. OnSpare(db) = [db EXCEPT !.log = @ + 1, !.end = 0, !.chain = <<db.log + 1>>, !.spare = "none"]
        BY DEF OnSpare
      <4>3. db = [mem |-> db.mem, imm |-> db.imm, files |-> db.files, new |-> db.new, comp |-> db.comp,
                  first |-> db.first, log |-> db.log, end |-> db.end, chain |-> db.chain, spare |-> db.spare,
                  fl |-> db.fl, next |-> db.next, durable |-> db.durable, short |-> db.short]
        BY <1>3 DEF GsStore
      <4>4. QED
        BY <4>1, <4>2, <4>3
    <3>2. x \in GsStore(1 .. txns, Len(hist))
      <4>1. PICK l : l = db.log + 1
        OBVIOUS
      <4>2. PICK c : c = <<db.log + 1>>
        OBVIOUS
      <4>3. l \in LogNums /\ c \in Seq(Nat)
        BY <1>4, <4>1, <4>2
      <4>4. x = [db EXCEPT !.log = l, !.end = 0, !.chain = c, !.spare = "none"]
        BY <3>1, <4>1, <4>2
      <4>5. QED
        BY <1>3, <1>4, <4>3, <4>4 DEF GsStore
    <3>3. /\ x.log = db.log + 1 /\ x.spare = "none" /\ x.end = 0
          /\ x.fl = db.fl /\ x.files = db.files /\ x.new = db.new /\ x.next = db.next
      BY <1>3, <3>1 DEF GsStore
    <3>4. QED
      BY <3>2, <3>3
  <2>3. db.mem \in SUBSET (1 .. txns) /\ {} \in SUBSET (1 .. txns)
    BY <1>3 DEF GsStore
  <2>4. CASE db' = [OnSpare(db) EXCEPT !.imm = db.mem, !.mem = {}, !.fl = db.log]
    <3>1. db' = [x EXCEPT !.imm = db.mem, !.mem = {}, !.fl = db.log]
      BY <2>1, <2>4
    <3>2. QED
      BY <1>4, <2>2, <2>3, <3>1 DEF GsStore
  <2>5. CASE db' = [OnSpare(db) EXCEPT !.short = FALSE]
    <3>1. db' = [x EXCEPT !.short = FALSE]
      BY <2>1, <2>5
    <3>2. QED
      BY <2>2, <3>1 DEF GsStore
  <2>6. QED
    BY <2>4, <2>5
<1>6. StateOK'
  BY <1>5 DEF Types, StateOK, counts
<1>7. CallShape'
  BY <1>1, <1>2, <1>5, CallKept DEF Types, counts
<1>8. ~Head1({"make_spare", "sync_spare", "name_spare", "sync_sst", "sync_tmp"}, {"call"} \cup Builders \cup {"create", "move"})'
  BY <1>2, HeadRest DEF Types, CallShape, Head1, Entry, Calls
<1>9. LogShape'
  <2>1. ~Head1({"make_spare", "sync_spare", "name_spare"}, {"call"})'
    BY <1>8 DEF Head1
  <2>2. QED
    BY <1>3, <1>5, <2>1, Numbers DEF LogShape
<1>10. Standing'
  <2>1. /\ ~Head1({"sync_spare", "name_spare"}, {"call"})' /\ ~Head1({"sync_sst"}, Builders)'
        /\ ~Head1({"sync_tmp"}, Builders \cup {"create", "move"})'
    BY <1>8 DEF Head1
  <2>2. Log(db.log) \in DOMAIN disk.names /\ Log(db.log + 1) \in DOMAIN disk.names
    BY <1>2 DEF Types, Standing, Live
  <2>3. QED
    BY <1>5, <2>1, <2>2 DEF Types, Standing
<1>11. Idle'
  BY <1>1, IdleRest DEF Types
<1>12. QED
  BY <1>6, <1>7, <1>9, <1>10, <1>11 DEF Types, counts

\* A step that has the spare made or named first.
LEMMA SpareFirst ==
  ASSUME Types, todo # <<>>, todo[1][1] \in {"freeze", "swap"}, db.log < MaxLog,
         todo' = Steps(SpareSteps, "call") \o todo, UNCHANGED <<disk, db, state, counts, hist, acked, stale>>
  PROVE  Types' /\ Idle'
<1>1. todo[1][1] \in Calls /\ todo[1][1] \in Plain
  BY DEF Calls, Plain
<1>2. Entry(todo[1]) /\ state = "open"
  BY <1>1, OwnStep
<1>3. PICK s : s = Steps(SpareSteps, "call")
  OBVIOUS
<1>4. /\ Path(s) /\ s # <<>> /\ s[1][1] \in {"make_spare", "name_spare"}
      /\ s[1][1] = "name_spare" => db.spare # "none"
      /\ \A p \in Range(s) : p[2] = "call" /\ p[1] # "insert"
  BY <1>3, SparePaths
<1>5. \A p \in Range(s) : p[2] \notin {"create", "run"} /\ p[1] # "insert"
  BY <1>4
<1>6. s[1][1] \notin Pipe \cup {"sync_spare", "sync_sst", "sync_tmp"}
  BY <1>4 DEF Pipe
<1>7. Types' /\ todo' # <<>> /\ todo'[1] = s[1]
  BY <1>2, <1>3, <1>4, <1>5, <1>6, MoreTypes
<1>8. QED
  BY <1>4, <1>7 DEF Idle, Calls

\* freeze.
LEMMA FreezeTypes ==
  ASSUME Types, Freeze
  PROVE  Types' /\ Idle'
<1> DEFINE idle == db.fl # 0 \/ db.mem = {}
<1>1. /\ todo # <<>> /\ todo[1][1] = "freeze" /\ UNCHANGED <<disk, state, counts, hist, acked, stale>>
      /\ \/ Rest(<<>>) /\ UNCHANGED db
         \/ db.log < MaxLog /\ todo' = Steps(SpareSteps, "call") \o todo /\ UNCHANGED db
         \/ todo' = Steps(<<"harden">>, "call") \o todo /\ UNCHANGED db
         \/ /\ db.fl = 0 /\ db.spare = "ready" /\ Rest(<<>>)
            /\ db' = [OnSpare(db) EXCEPT !.imm = db.mem, !.mem = {}, !.fl = db.log]
  BY DEF Freeze, At
<1>2. CASE Rest(<<>>) /\ UNCHANGED db
  BY <1>1, <1>2, IdleTypes DEF Calls
<1>3. CASE db.log < MaxLog /\ todo' = Steps(SpareSteps, "call") \o todo /\ UNCHANGED db
  BY <1>1, <1>3, SpareFirst
<1>4. CASE todo' = Steps(<<"harden">>, "call") \o todo /\ UNCHANGED db
  <2>1. PICK x, s : x = <<"harden">> /\ s = Steps(x, "call")
    OBVIOUS
  <2>2. x \in Seq(Plain) /\ x # <<>> /\ x[1] = "harden"
    BY <2>1, PlainLists
  <2>3. Path(s) /\ s # <<>> /\ s[1] = <<"harden", "call">> /\ \A p \in Range(s) : p[2] = "call" /\ p[1] \in Plain
    BY <2>1, <2>2, PlainPath DEF Listing
  <2>4. \A p \in Range(s) : p[2] \notin {"create", "run"} /\ p[1] # "insert"
    BY <2>3 DEF Plain
  <2>5. Entry(todo[1]) /\ state = "open"
    BY <1>1, OwnStep DEF Calls, Plain
  <2>6. s[1][1] \notin Pipe \cup {"make_spare", "name_spare", "sync_spare", "sync_sst", "sync_tmp"}
    BY <2>3 DEF Pipe
  <2>7. Types' /\ todo' # <<>> /\ todo'[1] = s[1]
    BY <1>1, <1>4, <2>1, <2>3, <2>4, <2>5, <2>6, MoreTypes
  <2>8. QED
    BY <2>3, <2>7 DEF Idle, Calls
<1>5. CASE /\ db.fl = 0 /\ db.spare = "ready" /\ Rest(<<>>)
           /\ db' = [OnSpare(db) EXCEPT !.imm = db.mem, !.mem = {}, !.fl = db.log]
  BY <1>1, <1>5, SwitchTypes
<1>6. QED
  BY <1>1, <1>2, <1>3, <1>4, <1>5

\* A step that is done, and changed what is short only.
LEMMA ShortTypes ==
  ASSUME Types, todo # <<>>, todo[1][1] \in {"short", "swap"}, Rest(<<>>),
         NEW b \in BOOLEAN, db' = [db EXCEPT !.short = b],
         UNCHANGED <<disk, state, counts, hist, acked, stale>>
  PROVE  Types' /\ Idle'
<1>1. todo[1][1] \in Calls
  BY DEF Calls
<1>2. todo[1][2] = "call" /\ todo[1][1] \notin Linked
  BY <1>1, OwnStep
<1>3. /\ db' \in GsStore(1 .. txns, Len(hist)) /\ db'.log = db.log /\ db'.spare = db.spare /\ db'.end = db.end
      /\ db'.fl = db.fl /\ db'.files = db.files /\ db'.new = db.new /\ db'.next = db.next
  BY DEF Types, StateOK, GsStore
<1>4. StateOK'
  BY <1>3 DEF Types, StateOK, counts
<1>5. CallShape' /\ LogShape'
  BY <1>2, <1>3, QuietStep DEF Types, counts
<1>6. Standing'
  BY <1>3, StandingKept DEF Types
<1>7. Idle'
  BY <1>1, IdleRest DEF Types
<1>8. QED
  BY <1>4, <1>5, <1>6, <1>7 DEF Types, counts

\* spare_now, and lsm_flush's swap.
LEMMA SwapTypes ==
  ASSUME Types, Short \/ Swap
  PROVE  Types' /\ Idle'
<1>1. /\ todo # <<>> /\ todo[1][1] \in {"short", "swap"} /\ UNCHANGED <<disk, state, counts, hist, acked, stale>>
      /\ \/ \E b \in BOOLEAN : Rest(<<>>) /\ db' = [db EXCEPT !.short = b]
         \/ todo[1][1] = "swap" /\ db.spare = "made" /\ todo' = Steps(SpareSteps, "call") \o todo /\ UNCHANGED db
         \/ /\ todo[1][1] = "swap" /\ db.fl = 0 /\ db.spare = "ready" /\ Rest(<<>>)
            /\ db' = [OnSpare(db) EXCEPT !.short = FALSE]
  BY DEF Short, Swap, At
<1>2. CASE \E b \in BOOLEAN : Rest(<<>>) /\ db' = [db EXCEPT !.short = b]
  BY <1>1, <1>2, ShortTypes
<1>3. CASE todo[1][1] = "swap" /\ db.spare = "made" /\ todo' = Steps(SpareSteps, "call") \o todo /\ UNCHANGED db
  BY <1>1, <1>3, SpareFirst DEF Types, LogShape
<1>4. CASE /\ todo[1][1] = "swap" /\ db.fl = 0 /\ db.spare = "ready" /\ Rest(<<>>)
           /\ db' = [OnSpare(db) EXCEPT !.short = FALSE]
  BY <1>1, <1>4, SwitchTypes
<1>5. QED
  BY <1>1, <1>2, <1>3, <1>4

\* The commit enters the memtable.
LEMMA InsertTypes ==
  ASSUME Types, Insert
  PROVE  Types' /\ Idle'
<1>1. /\ todo # <<>> /\ todo[1][1] = "insert" /\ UNCHANGED <<disk, state, counts, hist, acked, stale>>
      /\ \/ Rest(<<>>) \/ Rest(Steps(<<"drain", "freeze">>, "call"))
      /\ db' = [db EXCEPT !.mem = @ \cup {txns}, !.end = @ + 1, !.chain = Sum([prev |-> @, salt |-> opens])]
  BY DEF Insert, At
<1>2. todo[1][2] = "call" /\ state = "open" /\ todo[1][1] \notin Linked
  BY <1>1, OwnStep DEF Calls
<1>3. db.end < MaxSlot /\ 1 <= txns
  BY <1>1, PathTail DEF Types, CallShape
<1>4. db \in GsStore(1 .. txns, Len(hist)) /\ txns \in Nat /\ opens \in Nat
  BY DEF Types, StateOK
<1>5. db.end + 1 \in 0 .. MaxSlot /\ txns \in 1 .. txns /\ Sum([prev |-> db.chain, salt |-> opens]) \in Seq(Nat)
  BY <1>3, <1>4, Numbers DEF GsStore, Sum
<1>6. PICK c : c = Sum([prev |-> db.chain, salt |-> opens])
  OBVIOUS
<1>7. db' = [db EXCEPT !.mem = db.mem \cup {txns}, !.end = db.end + 1, !.chain = c]
  BY <1>1, <1>6
<1>8. /\ db' \in GsStore(1 .. txns, Len(hist)) /\ db'.log = db.log /\ db'.spare = db.spare /\ db'.fl = db.fl
      /\ db'.files = db.files /\ db'.new = db.new /\ db'.next = db.next /\ db'.end = db.end + 1
  BY <1>4, <1>5, <1>6, <1>7 DEF GsStore
<1>9. StateOK'
  BY <1>1, <1>8 DEF Types, StateOK, counts
<1>10. CASE Rest(<<>>)
  <2>1. CallShape' /\ LogShape'
    BY <1>1, <1>2, <1>8, <1>10, QuietStep DEF Types, counts
  <2>2. Standing'
    BY <1>1, <1>8, <1>10, StandingKept DEF Types
  <2>3. Idle'
    BY <1>1, <1>10, IdleRest DEF Types, Calls
  <2>4. QED
    BY <1>1, <1>9, <2>1, <2>2, <2>3 DEF Types, counts
<1>11. CASE Rest(Steps(<<"drain", "freeze">>, "call"))
  <2>1. PICK x, s : x = <<"drain", "freeze">> /\ s = Steps(x, "call")
    OBVIOUS
  <2>2. x \in Seq(Plain) /\ x # <<>> /\ x[1] = "drain"
    BY <2>1, PlainLists
  <2>3. Path(s) /\ s # <<>> /\ s[1] = <<"drain", "call">> /\ \A p \in Range(s) : p[2] = "call" /\ p[1] \in Plain
    BY <2>1, <2>2, PlainPath DEF Listing
  <2>4. Path(Tail(todo)) /\ Range(Tail(todo)) \subseteq Range(todo) /\ \A p \in Range(Tail(todo)) : p[1] # "insert"
    BY <1>1, PathTail, OneInsert DEF Types, CallShape
  <2>5. PICK t : t = Tail(todo)
    OBVIOUS
  <2>6. t = <<>> \/ Entry(t[1])
    BY <1>1, <1>2, <2>5, Behind DEF Types, CallShape
  <2>7. todo' = s \o t
    BY <1>11, <2>1, <2>5 DEF Rest
  <2>8. Path(todo') /\ todo' # <<>> /\ todo'[1] = s[1] /\ Range(todo') = Range(s) \cup Range(t)
    BY <2>3, <2>4, <2>5, <2>6, <2>7, PathJoin
  <2>9. \A p \in Range(s) : /\ p[2] # "create"
                            /\ p[1] = "insert" => db'.end < MaxSlot /\ 1 <= txns'
                            /\ p[2] = "run" => 1 <= txns'
    BY <2>3 DEF Plain
  <2>10. s[1][1] \notin Pipe /\ s[1][1] \notin {"make_spare", "sync_spare", "name_spare"}
    BY <2>3 DEF Pipe
  <2>11. txns' = txns /\ txns <= txns /\ Range(t) \in SUBSET Range(todo)
    BY <1>1, <1>4, <2>4, <2>5 DEF counts
  <2>12. CallShape' /\ LogShape'
    BY <1>1, <1>2, <1>4, <1>8, <2>4, <2>5, <2>8, <2>9, <2>10, <2>11, GrowStep DEF Types
  <2>13. Standing'
    BY <1>1, <1>2, <1>8, <2>3, <2>8, StandingGrown DEF Types
  <2>14. Idle'
    BY <2>3, <2>8 DEF Idle, Calls
  <2>15. QED
    BY <1>1, <1>9, <2>12, <2>13, <2>14 DEF Types, counts
<1>12. QED
  BY <1>1, <1>10, <1>11

\* maybe_compact.
LEMMA CompactTypes ==
  ASSUME Types, Compact
  PROVE  Types' /\ Idle'
<1>1. /\ todo # <<>> /\ todo[1][1] = "compact" /\ UNCHANGED <<disk, state, counts, hist, acked, stale>>
      /\ \/ Rest(<<>>) /\ UNCHANGED db
         \/ (\E S \in SUBSET db.files : db' = [db EXCEPT !.comp = {f.num : f \in S}]) /\ UNCHANGED todo
         \/ Rest(Steps(BuildSteps, "compact")) /\ UNCHANGED db
         \/ Rest(Steps(ManifestSteps, "move")) /\ UNCHANGED db
  BY DEF Compact, At
<1>2. todo[1][2] = "call" /\ state = "open" /\ todo[1][1] \notin Linked \cup {"sync_log", "make_spare", "sync_spare"}
  BY <1>1, OwnStep DEF Calls
<1>3. CASE Rest(<<>>) /\ UNCHANGED db
  BY <1>1, <1>3, IdleTypes DEF Calls
<1>4. CASE (\E S \in SUBSET db.files : db' = [db EXCEPT !.comp = {f.num : f \in S}]) /\ UNCHANGED todo
  <2>1. PICK S \in SUBSET db.files : db' = [db EXCEPT !.comp = {f.num : f \in S}]
    BY <1>4
  <2>2. PICK c : c = {f.num : f \in S}
    OBVIOUS
  <2>3. c \in SUBSET FileNums /\ db \in GsStore(1 .. txns, Len(hist))
    BY <2>2 DEF Types, StateOK, GsStore
  <2>4. /\ db' \in GsStore(1 .. txns, Len(hist)) /\ db'.log = db.log /\ db'.spare = db.spare /\ db'.fl = db.fl
        /\ db'.files = db.files /\ db'.new = db.new /\ db'.next = db.next /\ db'.end = db.end
    BY <2>1, <2>2, <2>3 DEF GsStore
  <2>5. StateOK'
    BY <1>1, <2>4 DEF Types, StateOK, counts
  <2>6. CallShape' /\ LogShape' /\ Standing'
    BY <1>1, <1>4, <2>4 DEF Types, CallShape, LogShape, Standing, Head1, Live, counts
  <2>7. Idle'
    BY <1>1, <1>4 DEF Idle, Calls
  <2>8. QED
    BY <1>1, <2>5, <2>6, <2>7 DEF Types, counts
<1>5. ASSUME UNCHANGED db,
             \/ Rest(Steps(BuildSteps, "compact")) \/ Rest(Steps(ManifestSteps, "move"))
      PROVE  Types' /\ Idle'
  <2>1. PICK s : Rest(s) /\ s \in {Steps(BuildSteps, "compact"), Steps(ManifestSteps, "move")}
    BY <1>5
  <2>2. /\ Path(s) /\ s # <<>> /\ s[1] \in {<<"build", "compact">>, <<"manifest", "move">>}
        /\ \A p \in Range(s) : p[1] \in Pipe /\ p[2] \in {"compact", "move"}
    BY <2>1, FilePaths
  <2>3. \A p \in Range(s) : p[2] \notin {"create", "run"} /\ p[1] # "insert"
    BY <2>2 DEF Pipe
  <2>4. s[1][1] \notin {"make_spare", "name_spare", "sync_spare", "sync_sst", "sync_tmp"} /\ s[1][2] # "flush"
    BY <2>2
  <2>5. Types' /\ todo' # <<>> /\ todo'[1] = s[1]
    BY <1>1, <1>2, <1>5, <2>1, <2>2, <2>3, <2>4, MoreTypes
  <2>6. QED
    BY <2>2, <2>5 DEF Idle
<1>6. QED
  BY <1>1, <1>3, <1>4, <1>5

\* open with CREATE, whether or not the name is there.
LEMMA MadeFile ==
  ASSUME NEW d, NEW o, NEW t, DiskShape(d), DiskKinds(d, o, t), NEW n \in Name, Room(d)
  PROVE  LET e == Create(d, n) IN
           /\ DiskShape(e) /\ DiskKinds(e, o, t)
           /\ DOMAIN e.names = DOMAIN d.names \cup {n} /\ e.view = d.view
           /\ \A a \in DOMAIN d.names : e.names[a] = d.names[a]
<1>1. CASE Exists(d, n)
  <2>1. Create(d, n) = d
    BY <1>1 DEF Create
  <2>2. QED
    BY <1>1, <2>1 DEF Exists
<1>2. CASE ~Exists(d, n)
  <2>1. PICK i \in Inodes \ Reachable(d) :
          LET e == Create(d, n) IN
            /\ DiskShape(e)
            /\ e.names = Created(d.names, n, i) /\ e.view = d.view /\ e.dur = d.dur /\ e.dirty = d.dirty
            /\ e.maybe = d.maybe \cup {Created(N, n, i) : N \in d.maybe}
    BY <1>2, CreateEffect
  <2>2. DiskKinds(Create(d, n), o, t)
    BY <1>2, CreateKinds
  <2>3. Namespace(d.names)
    BY DEF DiskShape
  <2>4. /\ DOMAIN Created(d.names, n, i) = DOMAIN d.names \cup {n}
        /\ \A a \in DOMAIN d.names : Created(d.names, n, i)[a] = d.names[a]
    BY <2>3, CreatedNames
  <2>5. QED
    BY <2>1, <2>2, <2>4
<1>3. QED
  BY <1>1, <1>2

\* Removals make no inode harder to find.
LEMMA UnlinkRoom ==
  ASSUME NEW d, DiskShape(d), NEW S
  PROVE  /\ Reachable(UnlinkAll(d, S)) = Reachable(d)
         /\ Room(d) => Room(UnlinkAll(d, S))
         /\ DOMAIN UnlinkAll(d, S).names = DOMAIN d.names \ S
         /\ UnlinkAll(d, S).view = d.view
         /\ \A a \in DOMAIN d.names \ S : UnlinkAll(d, S).names[a] = d.names[a]
<1>1. PICK e : e = UnlinkAll(d, S)
  OBVIOUS
<1>2. /\ DiskShape(e) /\ e.names = Without(d.names, S) /\ e.view = d.view
      /\ d.maybe \subseteq e.maybe
      /\ \A M \in e.maybe : \E N \in d.maybe, gone \in SUBSET (S \cap DOMAIN d.names) : M = Without(N, gone)
  BY <1>1, UnlinkEffect
<1>3. \A N \in d.maybe : Namespace(N)
  BY DEF DiskShape
<1>4. \A i : i \in Reachable(e) <=> i \in Reachable(d)
  <2>1. ASSUME NEW i, i \in Reachable(e) PROVE i \in Reachable(d)
    <3>1. PICK M \in e.maybe : \E a \in DOMAIN M : M[a] = i
      BY <2>1, Reaching
    <3>2. PICK N \in d.maybe, gone \in SUBSET (S \cap DOMAIN d.names) : M = Without(N, gone)
      BY <1>2
    <3>3. Namespace(N)
      BY <1>3
    <3>4. DOMAIN M = DOMAIN N \ gone /\ \A a \in DOMAIN N \ gone : M[a] = N[a]
      BY <3>2, <3>3, WithoutNames
    <3>5. QED
      BY <3>1, <3>4, Reaching
  <2>2. ASSUME NEW i, i \in Reachable(d) PROVE i \in Reachable(e)
    BY <1>2, <2>2, Reaching
  <2>3. QED
    BY <2>1, <2>2
<1>5. Reachable(e) = Reachable(d)
  BY <1>4 DEF Reachable
<1>6. Namespace(d.names)
  BY DEF DiskShape
<1>7. /\ DOMAIN e.names = DOMAIN d.names \ S
      /\ \A a \in DOMAIN d.names \ S : e.names[a] = d.names[a]
  <2>1. PICK N : N = d.names
    OBVIOUS
  <2>5. Namespace(N)
    BY <1>6, <2>1
  <2>2. DOMAIN Without(N, S) = DOMAIN N \ S /\ \A a \in DOMAIN N \ S : Without(N, S)[a] = N[a]
    BY <2>5, WithoutNames
  <2>3. e.names = Without(N, S)
    BY <1>2, <2>1
  <2>4. QED
    BY <2>1, <2>2, <2>3
<1>8. Room(d) => Room(e)
  BY <1>5 DEF Room
<1>9. QED
  BY <1>1, <1>2, <1>5, <1>7, <1>8

\* A rename, whether or not the name is there.
LEMMA MovedFile ==
  ASSUME NEW d, NEW o, NEW t, DiskShape(d), DiskKinds(d, o, t), NEW n \in Name, NEW m \in Name, Class(n) = Class(m)
  PROVE  LET e == Rename(d, n, m) IN
           /\ DiskShape(e) /\ DiskKinds(e, o, t) /\ e.view = d.view
           /\ DOMAIN d.names \ {n} \subseteq DOMAIN e.names
           /\ n \in DOMAIN d.names => m \in DOMAIN e.names
           /\ DOMAIN e.names \subseteq DOMAIN d.names \cup {m}
<1>1. CASE ~Exists(d, n)
  <2>1. Rename(d, n, m) = d
    BY <1>1 DEF Rename
  <2>2. QED
    BY <1>1, <2>1 DEF Exists
<1>2. CASE Exists(d, n)
  <2>1. LET e == Rename(d, n, m) IN
          /\ DiskShape(e)
          /\ e.names = Renamed(d.names, n, m) /\ e.view = d.view
    BY <1>2, RenameEffect
  <2>2. DiskKinds(Rename(d, n, m), o, t)
    BY <1>2, RenameKinds
  <2>3. PICK N : N = d.names
    OBVIOUS
  <2>4. Namespace(N) /\ n \in DOMAIN N
    BY <1>2, <2>3 DEF DiskShape, Exists
  <2>5. DOMAIN Renamed(N, n, m) = (DOMAIN N \ {n}) \cup {m}
    <3>1. PICK W : W = Without(N, {n})
      OBVIOUS
    <3>2. Renamed(N, n, m) = Bind(W, m, N[n])
      BY <2>4, <3>1 DEF Renamed
    <3>3. DOMAIN W = DOMAIN N \ {n}
      BY <3>1 DEF Without
    <3>4. DOMAIN Bind(W, m, N[n]) = DOMAIN W \cup {m}
      BY DEF Bind
    <3>5. QED
      BY <3>2, <3>3, <3>4
  <2>6. PICK e : e = Rename(d, n, m)
    OBVIOUS
  <2>7. DiskShape(e) /\ DiskKinds(e, o, t) /\ e.view = d.view /\ e.names = Renamed(N, n, m)
    BY <2>1, <2>2, <2>3, <2>6
  <2>8. DOMAIN e.names = (DOMAIN N \ {n}) \cup {m}
    BY <2>5, <2>7
  <2>9. QED
    BY <2>3, <2>4, <2>6, <2>7, <2>8
<1>3. QED
  BY <1>1, <1>2

\* spare_step makes the spare.
LEMMA MakeSpareTypes ==
  ASSUME Types, MakeSpare
  PROVE  Types'
<1>1. /\ todo # <<>> /\ todo[1][1] = "make_spare" /\ UNCHANGED <<state, counts, hist, acked, stale>>
      /\ Room(disk) /\ disk' = Create(disk, Log(db.log + 1)) /\ db' = [db EXCEPT !.spare = "made"] /\ Rest(<<>>)
  BY DEF MakeSpare, At
<1>2. todo[1][2] = "call" /\ state = "open" /\ todo[1][1] \notin Linked
  BY <1>1, OwnStep DEF Calls
<1>3. db.log < MaxLog /\ db.log \in LogNums
  BY <1>1, <1>2 DEF Types, LogShape, Head1, StateOK, GsStore
<1>4. db.log + 1 \in LogNums
  BY <1>3, Numbers DEF LogNums
<1>5. /\ DiskShape(disk') /\ DiskKinds(disk', opens, txns)
      /\ DOMAIN disk'.names = DOMAIN disk.names \cup {Log(db.log + 1)}
  BY <1>1, <1>4, NameFacts, MadeFile DEF Types
<1>6. /\ db' \in GsStore(1 .. txns, Len(hist)) /\ db'.log = db.log /\ db'.spare = "made" /\ db'.end = db.end
      /\ db'.fl = db.fl /\ db'.files = db.files /\ db'.new = db.new /\ db'.next = db.next
  BY <1>1 DEF Types, StateOK, GsStore
<1>7. StateOK'
  BY <1>1, <1>6 DEF Types, StateOK, counts
<1>8. CallShape' /\ LogShape'
  BY <1>1, <1>2, <1>3, <1>6, QuietStep DEF Types, counts
<1>9. Standing'
  <2>1. ~Head1({"sync_sst"}, Builders)' /\ ~Head1({"sync_tmp"}, Builders \cup {"create", "move"})'
    BY <1>1, <1>2, HeadRest DEF Types, CallShape, Head1, Entry, Calls, Builders
  <2>2. Live
    BY <1>2 DEF Live
  <2>3. QED
    BY <1>5, <1>6, <2>1, <2>2 DEF Types, Standing
<1>10. QED
  BY <1>1, <1>5, <1>7, <1>8, <1>9 DEF Types, counts

\* spare_step flushes the spare's name.
LEMMA NameSpareTypes ==
  ASSUME Types, NameSpare
  PROVE  Types'
<1>1. /\ todo # <<>> /\ todo[1][1] = "name_spare" /\ UNCHANGED <<state, counts, hist, acked, stale>>
      /\ disk' = SyncDir(disk) /\ db' = [db EXCEPT !.spare = "ready"] /\ Rest(<<>>)
  BY DEF NameSpare, At
<1>2. todo[1][2] = "call" /\ state = "open" /\ todo[1][1] \notin Linked
  BY <1>1, OwnStep DEF Calls
<1>3. db.log < MaxLog /\ Log(db.log + 1) \in DOMAIN disk.names
  BY <1>1, <1>2 DEF Types, LogShape, Standing, Live, Head1
<1>4. DiskShape(disk') /\ DiskKinds(disk', opens, txns) /\ disk'.names = disk.names
  BY <1>1, SyncDirEffect, SyncDirKinds DEF Types
<1>5. /\ db' \in GsStore(1 .. txns, Len(hist)) /\ db'.log = db.log /\ db'.spare = "ready" /\ db'.end = db.end
      /\ db'.fl = db.fl /\ db'.files = db.files /\ db'.new = db.new /\ db'.next = db.next
  BY <1>1 DEF Types, StateOK, GsStore
<1>6. StateOK'
  BY <1>1, <1>5 DEF Types, StateOK, counts
<1>7. CallShape' /\ LogShape'
  BY <1>1, <1>2, <1>3, <1>5, QuietStep DEF Types, counts
<1>8. Standing'
  <2>1. ~Head1({"sync_sst"}, Builders)' /\ ~Head1({"sync_tmp"}, Builders \cup {"create", "move"})'
    BY <1>1, <1>2, HeadRest DEF Types, CallShape, Head1, Entry, Calls, Builders
  <2>2. Live
    BY <1>2 DEF Live
  <2>3. QED
    BY <1>3, <1>4, <1>5, <2>1, <2>2 DEF Types, Standing
<1>9. QED
  BY <1>1, <1>4, <1>6, <1>7, <1>8 DEF Types, counts

\* manifest_write flushes the directory.
LEMMA FlushDirTypes ==
  ASSUME Types, FlushDir
  PROVE  Types'
<1>1. /\ todo # <<>> /\ todo[1][1] \in {"sync_new", "sync_name"} /\ UNCHANGED <<db, state, counts, hist, acked, stale>>
      /\ disk' = SyncDir(disk) /\ Rest(<<>>)
  BY DEF FlushDir, At
<1>2. todo[1][1] \in Linked
  BY <1>1 DEF Linked, Pipe
<1>3. DiskShape(disk') /\ DiskKinds(disk', opens, txns) /\ disk'.names = disk.names
  BY <1>1, SyncDirEffect, SyncDirKinds DEF Types
<1>4. CallShape' /\ LogShape'
  BY <1>1, <1>2, QuietStep DEF Types, counts
<1>5. Standing'
  BY <1>1, <1>3, StandingKept DEF Types
<1>6. QED
  BY <1>1, <1>3, <1>4, <1>5 DEF Types, StateOK, counts

\* What a job puts into a file.
LEMMA InputTypes ==
  ASSUME Types, todo # <<>>, todo[1][2] \in Builders
  PROVE  Input(todo[1][2]) \in SUBSET (1 .. txns)
<1>1. db.imm \in SUBSET (1 .. txns) /\ \A f \in db.files : f.txns \in SUBSET (1 .. txns)
  BY DEF Types, StateOK, GsStore
<1>2. todo[1][2] = "run" => txns \in 1 .. txns
  <2>1. todo[1] \in Range(todo)
    BY PathTail DEF Types, CallShape
  <2>2. QED
    BY <2>1 DEF Types, CallShape, StateOK
<1>3. UNION {f.txns : f \in {g \in db.files : g.num \in db.comp}} \subseteq 1 .. txns
  BY <1>1
<1>4. QED
  BY <1>1, <1>2, <1>3 DEF Input, Builders

\* A file is built.
LEMMA BuildTypes ==
  ASSUME Types, Build
  PROVE  Types'
<1>1. PICK v : v = Input(Job)
  OBVIOUS
<1>2. /\ todo # <<>> /\ todo[1][1] = "build" /\ UNCHANGED <<state, counts, hist, acked, stale>>
      /\ Room(disk) /\ db.next \in FileNums
      /\ disk' = Write(Create(disk, Sst(db.next)), Sst(db.next), 1, v)
      /\ db' = [db EXCEPT !.next = @ + 1, !.new = {[num |-> db.next, txns |-> v]}] /\ Rest(<<>>)
  BY <1>1 DEF Build, At
<1>3. todo[1] \in StepOf /\ todo[1][2] \in Builders /\ todo[1][1] \in Linked /\ state = "open"
  <2>1. todo[1] \in StepOf
    BY <1>2, PathTail DEF Types, CallShape
  <2>2. todo[1][2] \in Builders
    BY <1>2, <2>1 DEF StepOf, Calls
  <2>3. QED
    BY <1>2, <2>1, <2>2, Opened DEF Types, Builders, Linked, Pipe
<1>4. v \in SUBSET (1 .. txns)
  BY <1>1, <1>2, <1>3, InputTypes DEF Job
<1>5. PICK e : e = Create(disk, Sst(db.next))
  OBVIOUS
<1>6. /\ DiskShape(e) /\ DiskKinds(e, opens, txns) /\ Exists(e, Sst(db.next))
      /\ DOMAIN e.names = DOMAIN disk.names \cup {Sst(db.next)}
  BY <1>2, <1>5, NameFacts, MadeFile DEF Types, Exists
<1>7. v \in Value /\ v \in Held("sst", opens, txns)
  <2>1. 1 .. txns \subseteq Nat
    OBVIOUS
  <2>2. QED
    BY <1>4, <2>1 DEF Value, Held
<1>8. DiskShape(disk') /\ disk'.names = e.names
  BY <1>2, <1>5, <1>6, <1>7, Numbers, WriteEffect
<1>9. DiskKinds(disk', opens, txns)
  <2>1. Class(Sst(db.next)) = "sst"
    BY <1>2, NameFacts
  <2>2. QED
    BY <1>2, <1>5, <1>6, <1>7, <2>1, Numbers, WriteKinds
<1>10. PICK f : f = [num |-> db.next, txns |-> v]
  OBVIOUS
<1>11. f \in [num : FileNums, txns : SUBSET (1 .. txns)] /\ f.num = db.next
  BY <1>2, <1>4, <1>10
<1>12. db \in GsStore(1 .. txns, Len(hist)) /\ db' = [db EXCEPT !.next = db.next + 1, !.new = {f}]
       /\ db.next \in Nat /\ db.next + 1 \in Nat
  BY <1>2, <1>10, Numbers DEF Types, StateOK
<1>13. /\ db' \in GsStore(1 .. txns, Len(hist)) /\ db'.log = db.log /\ db'.spare = db.spare /\ db'.end = db.end
       /\ db'.fl = db.fl /\ db'.files = db.files /\ db'.new = {f} /\ db'.next = db.next + 1
  BY <1>11, <1>12 DEF GsStore
<1>14. StateOK'
  BY <1>2, <1>13 DEF Types, StateOK, counts
<1>15. CallShape' /\ LogShape'
  BY <1>2, <1>3, <1>13, QuietStep DEF Types, counts
<1>16. Standing'
  <2>1. todo' # <<>> /\ todo'[1] = <<"sync_sst", todo[1][2]>>
    BY <1>2, <1>3, RestNone DEF Types, CallShape, After
  <2>2. ~Head1({"sync_spare", "name_spare"}, {"call"})' /\ ~Head1({"sync_tmp"}, Builders \cup {"create", "move"})'
    BY <2>1 DEF Head1
  <2>3. db'.next = db.next + 1 /\ Sst(db.next) \in DOMAIN disk'.names /\ db.next \in FileNums
    BY <1>2, <1>6, <1>8, <1>13
  <2>4. \A g \in db.files \cup db.new : g.num < db.next /\ g.num \in Nat
    BY <1>12, Numbers DEF Types, Standing, GsStore
  <2>5. \A g \in db'.files \cup db'.new : g.num < db'.next
    BY <1>11, <1>12, <1>13, <2>4
  <2>6. Live
    BY <1>3 DEF Live
  <2>7. QED
    BY <1>6, <1>8, <1>13, <2>2, <2>3, <2>5, <2>6 DEF Types, Standing
<1>17. QED
  BY <1>2, <1>8, <1>9, <1>14, <1>15, <1>16 DEF Types, counts

\* The version a job installs is one.
LEMMA VersionTypes ==
  ASSUME Types, todo # <<>>, todo[1][1] = "manifest", NEW x, x = NextVersion(todo[1][2])
  PROVE  /\ x \in GsStore(1 .. txns, Len(hist)) /\ x.log = db.log /\ x.spare = db.spare /\ x.end = db.end
         /\ x.fl = db.fl /\ x.next = db.next /\ x.new = {}
         /\ x.files \subseteq db.files \cup db.new
         /\ \A f \in x.files : f.num < x.next /\ f.num \in FileNums
         /\ todo[1][2] = "flush" => x.first = db.fl + 1 /\ x.imm = {}
         /\ todo[1][2] # "flush" => x.first = db.first /\ x.imm = db.imm
         /\ x.mem = db.mem /\ x.comp = db.comp /\ x.chain = db.chain /\ x.durable = db.durable
<1>1. db \in GsStore(1 .. txns, Len(hist))
  BY DEF Types, StateOK
<1>2. todo[1][2] = "flush" => db.fl + 1 \in LogNums
  BY <1>1 DEF Types, CallShape, LogShape, Head1, Pipe, GsStore
<1>3. PICK F : F = {f \in db.files : todo[1][2] = "compact" => f.num \notin db.comp} \cup db.new
  OBVIOUS
<1>4. F \in SUBSET [num : FileNums, txns : SUBSET (1 .. txns)] /\ {} \in SUBSET [num : FileNums, txns : SUBSET (1 .. txns)]
      /\ F \subseteq db.files \cup db.new /\ {} \in SUBSET (1 .. txns)
  BY <1>1, <1>3 DEF GsStore
<1>5. x = IF todo[1][2] = "flush"
          THEN [db EXCEPT !.files = F, !.new = {}, !.imm = {}, !.first = db.fl + 1]
          ELSE [db EXCEPT !.files = F, !.new = {}]
  BY <1>3 DEF NextVersion
<1>6. /\ x \in GsStore(1 .. txns, Len(hist)) /\ x.files = F /\ x.next = db.next /\ x.new = {}
      /\ x.log = db.log /\ x.spare = db.spare /\ x.end = db.end /\ x.fl = db.fl
      /\ todo[1][2] = "flush" => x.first = db.fl + 1 /\ x.imm = {}
      /\ todo[1][2] # "flush" => x.first = db.first /\ x.imm = db.imm
      /\ x.mem = db.mem /\ x.comp = db.comp /\ x.chain = db.chain /\ x.durable = db.durable
  <2>1. CASE todo[1][2] = "flush"
    <3>1. x = [db EXCEPT !.files = F, !.new = {}, !.imm = {}, !.first = db.fl + 1]
      BY <1>5, <2>1
    <3>2. db.fl + 1 \in LogNums
      BY <1>2, <2>1
    <3>3. x \in GsStore(1 .. txns, Len(hist))
      BY <1>1, <1>4, <3>1, <3>2 DEF GsStore
    <3>4. /\ x.files = F /\ x.next = db.next /\ x.new = {}
          /\ x.log = db.log /\ x.spare = db.spare /\ x.end = db.end /\ x.fl = db.fl
          /\ x.first = db.fl + 1 /\ x.imm = {}
          /\ x.mem = db.mem /\ x.comp = db.comp /\ x.chain = db.chain /\ x.durable = db.durable
      BY <1>1, <3>1 DEF GsStore
    <3>5. QED
      BY <2>1, <3>3, <3>4
  <2>2. CASE todo[1][2] # "flush"
    <3>1. x = [db EXCEPT !.files = F, !.new = {}]
      BY <1>5, <2>2
    <3>2. x \in GsStore(1 .. txns, Len(hist))
      BY <1>1, <1>4, <3>1 DEF GsStore
    <3>3. /\ x.files = F /\ x.next = db.next /\ x.new = {}
          /\ x.log = db.log /\ x.spare = db.spare /\ x.end = db.end /\ x.fl = db.fl
          /\ x.first = db.first /\ x.imm = db.imm
          /\ x.mem = db.mem /\ x.comp = db.comp /\ x.chain = db.chain /\ x.durable = db.durable
      BY <1>1, <3>1 DEF GsStore
    <3>4. QED
      BY <2>2, <3>2, <3>3
  <2>3. QED
    BY <2>1, <2>2
<1>7. \A f \in F : f.num < db.next /\ f.num \in FileNums
  BY <1>4 DEF Types, Standing
<1>8. QED
  BY <1>4, <1>6, <1>7

\* A removal leaves a good disk.
LEMMA RemovedFiles ==
  ASSUME NEW d, NEW o, NEW t, DiskShape(d), DiskKinds(d, o, t), NEW S
  PROVE  LET e == UnlinkAll(d, S) IN
           /\ DiskShape(e) /\ DiskKinds(e, o, t) /\ e.view = d.view
           /\ Room(d) => Room(e)
           /\ DOMAIN e.names = DOMAIN d.names \ S
           /\ \A a \in DOMAIN d.names \ S : e.names[a] = d.names[a]
<1>1. PICK e : e = UnlinkAll(d, S)
  OBVIOUS
<1>2. DiskShape(e)
  BY <1>1, UnlinkEffect
<1>3. DiskKinds(e, o, t)
  BY <1>1, UnlinkKinds
<1>4. /\ Room(d) => Room(e)
      /\ DOMAIN e.names = DOMAIN d.names \ S /\ e.view = d.view
      /\ \A a \in DOMAIN d.names \ S : e.names[a] = d.names[a]
  BY <1>1, UnlinkRoom
<1>5. QED
  BY <1>1, <1>2, <1>3, <1>4

\* manifest_write writes its temporary file.
LEMMA WriteManifestTypes ==
  ASSUME Types, WriteManifest
  PROVE  Types'
<1>1. PICK v : v = [first |-> db'.first, next |-> db'.next, files |-> {f.num : f \in db'.files}]
  OBVIOUS
<1>2. PICK e1 : e1 = UnlinkAll(disk, {Tmp})
  OBVIOUS
<1>3. PICK e2 : e2 = Create(e1, Tmp)
  OBVIOUS
<1>4. /\ todo # <<>> /\ todo[1][1] = "manifest" /\ UNCHANGED <<state, counts, hist, acked, stale>>
      /\ Room(disk) /\ disk' = Write(e2, Tmp, 1, v) /\ db' = NextVersion(todo[1][2]) /\ Rest(<<>>)
  BY <1>1, <1>2, <1>3 DEF WriteManifest, At, Unlink, Job
<1>5. todo[1][1] \in Linked
  BY <1>4 DEF Linked, Pipe
<1>6. /\ db' \in GsStore(1 .. txns, Len(hist)) /\ db'.log = db.log /\ db'.spare = db.spare /\ db'.end = db.end
      /\ db'.fl = db.fl /\ db'.next = db.next /\ db'.new = {}
      /\ \A f \in db'.files : f.num < db'.next /\ f.num \in FileNums
  BY <1>4, VersionTypes
<1>7. v \in Value /\ v \in Held("manifest", opens, txns)
  <2>1. db'.first \in LogNums /\ db'.next \in Nat
    BY <1>6 DEF GsStore
  <2>2. PICK F : F = {f.num : f \in db'.files}
    OBVIOUS
  <2>3. F \subseteq FileNums /\ \A n \in F : n < db'.next
    BY <1>6, <2>2
  <2>4. v = [first |-> db'.first, next |-> db'.next, files |-> F]
    BY <1>1, <2>2
  <2>5. v \in Version
    BY <2>1, <2>3, <2>4, Numbers DEF Version
  <2>6. v.first \in LogNums /\ v.files \subseteq FileNums /\ \A n \in v.files : n < v.next
    BY <2>1, <2>3, <2>4
  <2>7. QED
    BY <2>5, <2>6 DEF Value, Held
<1>8. /\ DiskShape(e1) /\ DiskKinds(e1, opens, txns) /\ Room(e1) /\ DOMAIN e1.names = DOMAIN disk.names \ {Tmp}
  BY <1>2, <1>4, RemovedFiles DEF Types
<1>9. /\ DiskShape(e2) /\ DiskKinds(e2, opens, txns) /\ DOMAIN e2.names = DOMAIN e1.names \cup {Tmp}
  BY <1>3, <1>8, NameFacts, MadeFile
<1>10. Exists(e2, Tmp)
  BY <1>9 DEF Exists
<1>11. DiskShape(disk') /\ disk'.names = e2.names
  BY <1>4, <1>7, <1>9, <1>10, Numbers, WriteEffect
<1>12. DiskKinds(disk', opens, txns)
  <2>1. Class(Tmp) = "manifest"
    BY NameFacts
  <2>2. QED
    BY <1>4, <1>7, <1>9, <1>10, <2>1, Numbers, WriteKinds
<1>13. StateOK'
  BY <1>4, <1>6 DEF Types, StateOK, counts
<1>14. CallShape' /\ LogShape'
  BY <1>4, <1>5, <1>6, QuietStep DEF Types, counts
<1>15. Standing'
  <2>1. todo' # <<>> /\ todo'[1] = <<"sync_tmp", todo[1][2]>>
    BY <1>4, <1>5, RestNone DEF Types, CallShape, After
  <2>2. ~Head1({"sync_spare", "name_spare"}, {"call"})' /\ ~Head1({"sync_sst"}, Builders)'
    BY <2>1 DEF Head1
  <2>3. Live' => Live
    BY <1>4, <2>1 DEF Live, Head1, Pipe
  <2>4. \A k : Log(k) \in DOMAIN disk.names => Log(k) \in DOMAIN disk'.names
    BY <1>8, <1>9, <1>11, NameFacts
  <2>5. Tmp \in DOMAIN disk'.names
    BY <1>9, <1>11
  <2>6. QED
    BY <1>6, <2>2, <2>3, <2>4, <2>5 DEF Types, Standing
<1>16. QED
  BY <1>4, <1>11, <1>12, <1>13, <1>14, <1>15 DEF Types, counts

\* manifest_write renames its file.
LEMMA RenameManifestTypes ==
  ASSUME Types, RenameManifest
  PROVE  Types'
<1>1. /\ todo # <<>> /\ todo[1][1] = "rename" /\ UNCHANGED <<db, state, counts, acked, stale>>
      /\ disk' = Rename(disk, Tmp, Manifest) /\ Rest(<<>>)
      /\ hist' = IF todo[1][2] = "run" THEN Append(hist, txns) ELSE hist
  BY DEF RenameManifest, At, Job
<1>2. todo[1][1] \in Linked
  BY <1>1 DEF Linked, Pipe
<1>3. /\ DiskShape(disk') /\ DiskKinds(disk', opens, txns) /\ DOMAIN disk.names \ {Tmp} \subseteq DOMAIN disk'.names
  <2>1. Tmp \in Name /\ Manifest \in Name /\ Class(Tmp) = Class(Manifest)
    BY NameFacts
  <2>2. QED
    BY <1>1, <2>1, MovedFile DEF Types
<1>4. StateOK'
  <2>1. todo[1][2] = "run" => txns \in 1 .. txns
    <3>1. todo[1] \in Range(todo)
      BY <1>1, PathTail DEF Types, CallShape
    <3>2. QED
      BY <3>1 DEF Types, CallShape, StateOK
  <2>2. hist \in Seq(1 .. txns) /\ Len(hist) \in Nat
    BY DEF Types, StateOK
  <2>3. hist' \in Seq(1 .. txns) /\ Len(hist') \in Nat /\ Len(hist) <= Len(hist')
    <3>1. CASE todo[1][2] = "run"
      <4>1. hist' = Append(hist, txns) /\ txns \in 1 .. txns
        BY <1>1, <2>1, <3>1
      <4>2. hist' \in Seq(1 .. txns) /\ Len(hist') = Len(hist) + 1
        BY <2>2, <4>1
      <4>3. QED
        BY <2>2, <4>2
    <3>2. CASE todo[1][2] # "run"
      BY <1>1, <2>2, <3>2
    <3>3. QED
      BY <3>1, <3>2
  <2>4. db \in GsStore(1 .. txns, Len(hist'))
    BY <2>2, <2>3, DbGrows DEF Types, StateOK
  <2>5. QED
    BY <1>1, <2>3, <2>4 DEF Types, StateOK, counts
<1>5. CallShape' /\ LogShape'
  BY <1>1, <1>2, QuietStep DEF Types, counts
<1>6. Standing'
  <2>1. todo' # <<>> /\ todo'[1] = <<"sync_name", todo[1][2]>>
    BY <1>1, <1>2, RestNone DEF Types, CallShape, After
  <2>2. ~Head1({"sync_spare", "name_spare"}, {"call"})' /\ ~Head1({"sync_sst"}, Builders)'
        /\ ~Head1({"sync_tmp"}, Builders \cup {"create", "move"})'
    BY <2>1 DEF Head1
  <2>3. Live' => Live
    BY <1>1, <2>1 DEF Live, Head1, Pipe
  <2>4. \A k : Log(k) \in DOMAIN disk.names => Log(k) \in DOMAIN disk'.names
    BY <1>3, NameFacts
  <2>5. QED
    BY <1>1, <2>2, <2>3, <2>4 DEF Types, Standing
<1>7. QED
  BY <1>1, <1>3, <1>4, <1>5, <1>6 DEF Types, counts

\* The end of flush_install leaves a good disk, with the logs that are in use.
LEMMA RecycleDisk ==
  ASSUME Types, Live, db.fl # 0, Recycle
  PROVE  /\ DiskShape(disk') /\ DiskKinds(disk', opens, txns)
         /\ db.log < MaxLog
         /\ \E keep \in BOOLEAN : db' = [db EXCEPT !.fl = 0, !.spare = IF @ = "none" /\ keep THEN "made" ELSE @]
         /\ Log(db.log) \in DOMAIN disk'.names
         /\ db'.spare # "none" => Log(db.log + 1) \in DOMAIN disk'.names
<1>1. PICK keep \in BOOLEAN :
        LET last == Log(db.fl)
            to   == Log(db.log + 1)
            gone == {Log(k) : k \in {j \in LogNums : j <= db.fl}}
            took == IF db.spare # "none" THEN disk
                    ELSE IF keep THEN Rename(disk, last, to)
                    ELSE Unlink(Rename(disk, last, to), to)
        IN /\ db.log < MaxLog
           /\ disk' = UnlinkAll(took, gone)
           /\ db' = [db EXCEPT !.fl = 0, !.spare = IF @ = "none" /\ keep THEN "made" ELSE @]
  BY DEF Recycle
<1>2. PICK gone : gone = {Log(k) : k \in {j \in LogNums : j <= db.fl}}
  OBVIOUS
<1>3. PICK d1 : d1 = Rename(disk, Log(db.fl), Log(db.log + 1))
  OBVIOUS
<1>4. PICK d2 : d2 = UnlinkAll(d1, {Log(db.log + 1)})
  OBVIOUS
<1>5. PICK took : took = IF db.spare # "none" THEN disk ELSE IF keep THEN d1 ELSE d2
  OBVIOUS
<1>6. disk' = UnlinkAll(took, gone) /\ db.log < MaxLog
      /\ db' = [db EXCEPT !.fl = 0, !.spare = IF @ = "none" /\ keep THEN "made" ELSE @]
  BY <1>1, <1>2, <1>3, <1>4, <1>5 DEF Unlink
<1>7. db.log \in LogNums /\ db.fl \in LogNums /\ db.log + 1 \in LogNums /\ db.fl + 1 = db.log
  <2>1. db.log \in LogNums /\ db.fl \in 0 .. MaxLog
    BY DEF Types, StateOK, GsStore
  <2>2. db.fl + 1 = db.log
    BY DEF Types, LogShape
  <2>3. QED
    BY <1>6, <2>1, <2>2, Numbers DEF LogNums
<1>8. /\ Log(db.fl) \in Name /\ Log(db.log + 1) \in Name /\ Class(Log(db.fl)) = Class(Log(db.log + 1))
  BY <1>7, NameFacts
<1>9. Log(db.log) # Log(db.fl) /\ Log(db.log) # Log(db.log + 1)
      /\ Log(db.log) \notin gone /\ Log(db.log + 1) \notin gone
  BY <1>2, <1>7, Numbers, NameFacts
<1>10. /\ Log(db.log) \in DOMAIN disk.names /\ Log(db.fl) \in DOMAIN disk.names
       /\ db.spare # "none" => Log(db.log + 1) \in DOMAIN disk.names
  BY DEF Types, Standing
<1>11. /\ DiskShape(d1) /\ DiskKinds(d1, opens, txns) /\ Log(db.log) \in DOMAIN d1.names
       /\ Log(db.log + 1) \in DOMAIN d1.names
  <2>1. PICK a, b : a = Log(db.fl) /\ b = Log(db.log + 1)
    OBVIOUS
  <2>2. DiskShape(disk) /\ DiskKinds(disk, opens, txns) /\ a \in Name /\ b \in Name /\ Class(a) = Class(b)
    BY <1>8, <2>1 DEF Types
  <2>3. /\ DiskShape(Rename(disk, a, b)) /\ DiskKinds(Rename(disk, a, b), opens, txns)
        /\ DOMAIN disk.names \ {a} \subseteq DOMAIN Rename(disk, a, b).names
        /\ a \in DOMAIN disk.names => b \in DOMAIN Rename(disk, a, b).names
    BY <2>2, MovedFile
  <2>4. d1 = Rename(disk, a, b)
    BY <1>3, <2>1
  <2>5. Log(db.log) \in DOMAIN disk.names \ {a} /\ a \in DOMAIN disk.names
    BY <1>9, <1>10, <2>1
  <2>6. QED
    BY <2>1, <2>3, <2>4, <2>5
<1>12. /\ DiskShape(d2) /\ DiskKinds(d2, opens, txns) /\ Log(db.log) \in DOMAIN d2.names
  BY <1>4, <1>9, <1>11, RemovedFiles
<1>13. /\ DiskShape(took) /\ DiskKinds(took, opens, txns) /\ Log(db.log) \in DOMAIN took.names
       /\ db.spare # "none" \/ keep => Log(db.log + 1) \in DOMAIN took.names
  <2>1. CASE db.spare # "none"
    <3>1. took = disk
      BY <1>5, <2>1
    <3>2. DiskShape(disk) /\ DiskKinds(disk, opens, txns)
      BY DEF Types
    <3>3. QED
      BY <1>10, <2>1, <3>1, <3>2
  <2>2. CASE db.spare = "none" /\ keep
    BY <1>5, <1>11, <2>2
  <2>3. CASE db.spare = "none" /\ ~keep
    BY <1>5, <1>12, <2>3
  <2>4. QED
    BY <2>1, <2>2, <2>3
<1>14. /\ DiskShape(disk') /\ DiskKinds(disk', opens, txns) /\ DOMAIN disk'.names = DOMAIN took.names \ gone
  BY <1>6, <1>13, RemovedFiles
<1>15. db'.spare # "none" => db.spare # "none" \/ keep
  BY <1>6 DEF Types, StateOK, GsStore
<1>16. QED
  BY <1>6, <1>9, <1>13, <1>14, <1>15

\* What follows a durable manifest.
LEMMA InstalledTypes ==
  ASSUME Types, Installed
  PROVE  Types'
<1>1. /\ todo # <<>> /\ todo[1][1] = "installed" /\ UNCHANGED <<counts, hist, stale>> /\ state' = "open" /\ Rest(<<>>)
      /\ \/ todo[1][2] = "flush" /\ Recycle /\ UNCHANGED acked
         \/ /\ todo[1][2] = "compact"
            /\ disk' = UnlinkAll(disk, {Sst(n) : n \in db.comp})
            /\ db' = [db EXCEPT !.comp = {}]
            /\ UNCHANGED acked
         \/ todo[1][2] = "run" /\ Harden /\ UNCHANGED disk
         \/ UNCHANGED <<disk, db, acked>>
  BY DEF Installed, At, Job
<1>2. /\ todo[1] \in StepOf /\ todo[1][1] \notin Linked /\ todo[1][1] \in Pipe
      /\ todo' # <<>> => todo'[1] \in StepOf /\ Entry(todo'[1])
  <2>1. todo[1] \in StepOf
    BY <1>1, PathTail DEF Types, CallShape
  <2>2. todo[1][1] \notin Linked /\ todo[1][1] \in Pipe
    BY <1>1 DEF Linked, Pipe
  <2>3. todo' # <<>> => todo'[1] \in StepOf /\ Entry(todo'[1])
    BY <1>1, <2>2, HeadRest DEF Types, CallShape
  <2>4. QED
    BY <2>1, <2>2, <2>3
<1>3. Live
  <2>1. todo[1][2] = "create" => Head1(Pipe, {"create"})
    BY <1>1, <1>2 DEF Head1
  <2>2. QED
    BY <1>1, <2>1, Opened DEF Types, Live
<1>4. /\ ~Head1({"make_spare", "sync_spare", "name_spare"}, {"call"})' /\ ~Head1({"sync_sst"}, Builders)'
      /\ ~Head1({"sync_tmp"}, Builders \cup {"create", "move"})'
  BY <1>2 DEF Head1, Entry, Calls
<1>5. todo[1][2] = "flush" => db.fl # 0
  BY <1>1, <1>2 DEF Types, CallShape, Head1
<1>6. /\ DiskShape(disk') /\ DiskKinds(disk', opens, txns)
      /\ db' \in GsStore(1 .. txns, Len(hist)) /\ acked' \subseteq 1 .. txns
      /\ db'.log = db.log /\ db'.end = db.end /\ db'.files = db.files /\ db'.new = db.new /\ db'.next = db.next
      /\ db'.fl \in {db.fl, 0}
      /\ db'.spare = db.spare \/ db.log < MaxLog
      /\ Log(db.log) \in DOMAIN disk'.names
      /\ db'.spare # "none" => Log(db.log + 1) \in DOMAIN disk'.names
      /\ db'.fl # 0 => Log(db.fl) \in DOMAIN disk'.names
  <2>0. /\ db \in GsStore(1 .. txns, Len(hist)) /\ acked \subseteq 1 .. txns
        /\ DiskShape(disk) /\ DiskKinds(disk, opens, txns)
        /\ Log(db.log) \in DOMAIN disk.names
        /\ db.spare # "none" => Log(db.log + 1) \in DOMAIN disk.names
        /\ db.fl # 0 => Log(db.fl) \in DOMAIN disk.names
    BY <1>3 DEF Types, StateOK, Standing
  <2>1. CASE todo[1][2] = "flush" /\ Recycle /\ UNCHANGED acked
    <3>1. /\ DiskShape(disk') /\ DiskKinds(disk', opens, txns)
          /\ db.log < MaxLog
          /\ \E keep \in BOOLEAN : db' = [db EXCEPT !.fl = 0, !.spare = IF @ = "none" /\ keep THEN "made" ELSE @]
          /\ Log(db.log) \in DOMAIN disk'.names
          /\ db'.spare # "none" => Log(db.log + 1) \in DOMAIN disk'.names
      BY <1>3, <1>5, <2>1, RecycleDisk
    <3>2. PICK r \in {"none", "made", "ready"} : db' = [db EXCEPT !.fl = 0, !.spare = r]
      <4>1. PICK keep \in BOOLEAN : db' = [db EXCEPT !.fl = 0, !.spare = IF @ = "none" /\ keep THEN "made" ELSE @]
        BY <3>1
      <4>2. PICK r : r = IF db.spare = "none" /\ keep THEN "made" ELSE db.spare
        OBVIOUS
      <4>3. r \in {"none", "made", "ready"} /\ db' = [db EXCEPT !.fl = 0, !.spare = r]
        BY <2>0, <4>1, <4>2 DEF GsStore
      <4>4. QED
        BY <4>3
    <3>3. /\ db' \in GsStore(1 .. txns, Len(hist)) /\ db'.fl = 0
          /\ db'.log = db.log /\ db'.end = db.end /\ db'.files = db.files /\ db'.new = db.new /\ db'.next = db.next
      <4>1. 0 \in 0 .. MaxLog
        BY Numbers
      <4>2. db' \in GsStore(1 .. txns, Len(hist))
        BY <2>0, <3>2, <4>1 DEF GsStore
      <4>3. QED
        BY <2>0, <3>2, <4>2 DEF GsStore
    <3>4. QED
      BY <2>0, <2>1, <3>1, <3>3
  <2>2. CASE /\ todo[1][2] = "compact"
             /\ disk' = UnlinkAll(disk, {Sst(n) : n \in db.comp})
             /\ db' = [db EXCEPT !.comp = {}]
             /\ UNCHANGED acked
    <3>1. PICK G : G = {Sst(n) : n \in db.comp}
      OBVIOUS
    <3>2. \A k : Log(k) \notin G
      BY <3>1, NameFacts
    <3>3. DiskShape(disk') /\ DiskKinds(disk', opens, txns) /\ DOMAIN disk'.names = DOMAIN disk.names \ G
      BY <2>0, <2>2, <3>1, RemovedFiles
    <3>4. /\ db' \in GsStore(1 .. txns, Len(hist)) /\ db'.fl = db.fl /\ db'.spare = db.spare
          /\ db'.log = db.log /\ db'.end = db.end /\ db'.files = db.files /\ db'.new = db.new /\ db'.next = db.next
      BY <2>0, <2>2 DEF GsStore
    <3>5. QED
      BY <2>0, <2>2, <3>2, <3>3, <3>4
  <2>3. CASE todo[1][2] = "run" /\ Harden /\ UNCHANGED disk
    <3>1. /\ db' \in GsStore(1 .. txns, Len(hist)) /\ acked' \subseteq 1 .. txns
          /\ db'.log = db.log /\ db'.spare = db.spare /\ db'.fl = db.fl /\ db'.end = db.end
          /\ db'.files = db.files /\ db'.new = db.new /\ db'.next = db.next
      BY <1>1, <2>3, HardenTypes DEF Types, counts
    <3>2. QED
      BY <2>0, <2>3, <3>1
  <2>4. CASE UNCHANGED <<disk, db, acked>>
    BY <2>0, <2>4
  <2>5. QED
    BY <1>1, <2>1, <2>2, <2>3, <2>4
<1>7. StateOK'
  BY <1>1, <1>6 DEF Types, StateOK, counts
<1>8. CallShape' /\ LogShape'
  <2>1. db'.fl = db.fl \/ (db'.fl = 0 /\ todo[1][1] \notin Linked)
    BY <1>2, <1>6
  <2>2. QED
    BY <1>1, <1>6, <2>1, QuietStep DEF Types, counts
<1>9. Standing'
  <2>1. ~Head1({"sync_spare", "name_spare"}, {"call"})'
    BY <1>4 DEF Head1
  <2>2. db'.fl # 0 => Log(db'.fl) \in DOMAIN disk'.names
    BY <1>6
  <2>3. QED
    BY <1>4, <1>6, <2>1, <2>2 DEF Types, Standing
<1>10. QED
  BY <1>1, <1>6, <1>7, <1>8, <1>9 DEF Types, counts

\* lsm_close.
LEMMA ClosedTypes ==
  ASSUME Types, Closed, stale' \in BOOLEAN
  PROVE  Types'
<1>1. PICK e : e = UnlinkAll(disk, {Lease})
  OBVIOUS
<1>2. /\ disk' = SyncDir(e) /\ db' = NewStore /\ state' = "off" /\ todo' = <<>> /\ UNCHANGED <<counts, hist, acked>>
  BY <1>1 DEF Closed, Unlink
<1>3. DiskShape(e) /\ DiskKinds(e, opens, txns)
  BY <1>1, RemovedFiles DEF Types
<1>4. DiskShape(disk') /\ DiskKinds(disk', opens, txns)
  BY <1>2, <1>3, SyncDirEffect, SyncDirKinds
<1>5. CallShape' /\ LogShape' /\ Standing'
  BY <1>2, OverStep, StandingOver DEF Types
<1>6. StateOK'
  <2>1. Len(hist) \in Nat
    BY DEF Types, StateOK
  <2>2. db' \in GsStore(1 .. txns, Len(hist))
    BY <1>2, <2>1, NewStoreTypes
  <2>3. QED
    BY <1>2, <2>2 DEF Types, StateOK, counts
<1>7. QED
  BY <1>2, <1>4, <1>5, <1>6 DEF Types, counts

\* What the death of the process or of the machine leaves.
LEMMA GoneTypes ==
  ASSUME Types, Gone, DiskShape(disk'), DiskKinds(disk', opens, txns), stale' \in BOOLEAN
  PROVE  Types'
<1>1. /\ db' = NewStore /\ todo' = <<>> /\ state' = "off" /\ UNCHANGED <<counts, acked>>
      /\ \E X : hist' = Dropped(hist, X)
  BY DEF Gone
<1>2. CallShape' /\ LogShape' /\ Standing'
  BY <1>1, OverStep, StandingOver DEF Types
<1>3. hist' \in Seq(1 .. txns)
  BY <1>1, DroppedEmbeds DEF Types, StateOK
<1>4. db' \in GsStore(1 .. txns, Len(hist'))
  <2>1. Len(hist') \in Nat
    BY <1>3
  <2>2. QED
    BY <1>1, <2>1, NewStoreTypes
<1>5. StateOK'
  BY <1>1, <1>3, <1>4 DEF Types, StateOK, counts
<1>6. QED
  BY <1>1, <1>2, <1>5 DEF Types, counts

\* The machine loses power, or the process is killed.
LEMMA CrashTypes ==
  ASSUME Types, LosePower \/ Kill
  PROVE  Types'
<1>1. CASE LosePower
  <2>1. disk' \in PowerLoss(disk) /\ Gone /\ stale' \in BOOLEAN
    BY <1>1 DEF LosePower
  <2>2. DiskShape(disk') /\ DiskKinds(disk', opens, txns)
    BY <2>1, PowerLossEffect, PowerLossKinds DEF Types
  <2>3. QED
    BY <2>1, <2>2, GoneTypes
<1>2. CASE Kill
  BY <1>2, GoneTypes DEF Kill, Types
<1>3. QED
  BY <1>1, <1>2

\* An open takes the lease.
LEMMA OpenTypes ==
  ASSUME Types, Open
  PROVE  Types'
<1>1. PICK e : e = Create(disk, Lease)
  OBVIOUS
<1>2. /\ state = "off" /\ opens < MaxOpens /\ Room(disk) /\ opens' = opens + 1 /\ state' = "opening"
      /\ todo' = <<<<"recover", "create">>>> /\ UNCHANGED <<db, txns, flushes, hist, acked, stale>>
      /\ disk' = disk \/ disk' = SyncDir(e)
  BY <1>1 DEF Open
<1>3. DiskShape(e) /\ DiskKinds(e, opens, txns)
  BY <1>1, <1>2, NameFacts, MadeFile DEF Types
<1>4. DiskShape(disk') /\ DiskKinds(disk', opens, txns)
  <2>1. CASE disk' = disk
    BY <2>1 DEF Types
  <2>2. CASE disk' = SyncDir(e)
    BY <1>3, <2>2, SyncDirEffect, SyncDirKinds
  <2>3. QED
    BY <1>2, <2>1, <2>2
<1>5. opens \in Nat /\ txns \in Nat /\ opens' \in 0 .. MaxOpens /\ opens <= opens' /\ opens' \in Nat
  BY <1>2, Numbers DEF Types, StateOK
<1>6. DiskKinds(disk', opens', txns)
  BY <1>4, <1>5, KindsGrow
<1>7. Path(todo') /\ todo' # <<>> /\ \A p \in Range(todo') : p = <<"recover", "create">>
  <2>1. PICK t : t = <<<<"recover", "create">>>>
    OBVIOUS
  <2>2. t \in Seq(StepOf) /\ Len(t) = 1 /\ t[1] = <<"recover", "create">>
    <3>1. <<"recover", "create">> \in StepOf
      BY DEF StepOf
    <3>2. QED
      BY <2>1, <3>1
  <2>3. Ends(t[1])
    BY <2>2 DEF Ends, Linked, Pipe
  <2>4. Path(t)
    BY <2>2, <2>3 DEF Path
  <2>5. \A p \in Range(t) : p = <<"recover", "create">>
    <3>1. ASSUME NEW k \in DOMAIN t PROVE t[k] = <<"recover", "create">>
      <4>1. k = 1
        BY <2>2
      <4>2. QED
        BY <2>2, <4>1
    <3>2. QED
      BY <3>1 DEF Range
  <2>6. QED
    BY <1>2, <2>1, <2>2, <2>4, <2>5
<1>8. \A S, J : Head1(S, J)' => "recover" \in S
  BY <1>2 DEF Head1
<1>9. CallShape'
  BY <1>2, <1>7, <1>8 DEF CallShape, Pipe
<1>10. LogShape'
  BY <1>2, <1>8 DEF Types, LogShape
<1>11. Standing'
  BY <1>2, <1>8 DEF Types, Standing, Live, Pipe
<1>12. StateOK'
  BY <1>2, <1>5 DEF Types, StateOK
<1>13. QED
  BY <1>2, <1>4, <1>6, <1>9, <1>10, <1>11, <1>12 DEF Types

\* Recovery is the last step of an open, but for what it adds.
LEMMA RecoverAlone ==
  ASSUME StateOK, CallShape, At("recover")
  PROVE  Tail(todo) = <<>> /\ state = "opening" /\ todo[1] = <<"recover", "create">> /\ todo # <<>>
<1>1. todo # <<>> /\ todo[1] \in StepOf /\ todo[1][1] = "recover" /\ Path(Tail(todo)) /\ todo[1] \in Range(todo)
      /\ Range(Tail(todo)) \subseteq Range(todo)
  BY PathTail DEF At, CallShape
<1>2. todo[1] = <<"recover", "create">>
  BY <1>1 DEF StepOf, Calls, Pipe
<1>3. state = "opening"
  BY <1>1, <1>2 DEF CallShape
<1>4. PICK t : t = Tail(todo)
  OBVIOUS
<1>5. t = <<>>
  <2> SUFFICES ASSUME t # <<>> PROVE FALSE
    OBVIOUS
  <2>1. Entry(t[1])
    BY <1>1, <1>4, Behind DEF Linked, Pipe, CallShape
  <2>2. t \in Seq(StepOf)
    BY <1>1, <1>4 DEF Path
  <2>3. t[1] \in Range(t) /\ t[1] \in StepOf
    BY <2>2 DEF Range
  <2>4. t[1][2] = "create"
    BY <1>1, <1>3, <1>4, <2>3 DEF CallShape
  <2>5. QED
    BY <2>1, <2>3, <2>4 DEF Entry, StepOf, Calls, Pipe, Builders
<1>6. QED
  BY <1>1, <1>2, <1>3, <1>4, <1>5

\* create_db.
LEMMA CreateDbTypes ==
  ASSUME Types, CreateDb
  PROVE  Types'
<1>1. PICK e : e = UnlinkAll(disk, {Log(1)})
  OBVIOUS
<1>2. PICK s : s = Steps(ManifestSteps, "create")
  OBVIOUS
<1>3. /\ At("recover") /\ Room(disk) /\ disk' = Create(e, Log(1)) /\ db' = NewStore /\ Rest(s)
      /\ UNCHANGED <<state, counts, hist, acked, stale>>
  BY <1>1, <1>2 DEF CreateDb, Unlink
<1>4. Tail(todo) = <<>> /\ state = "opening" /\ todo[1] = <<"recover", "create">>
  BY <1>3, RecoverAlone DEF Types
<1>5. DiskShape(e) /\ DiskKinds(e, opens, txns) /\ Room(e)
  BY <1>1, <1>3, RemovedFiles DEF Types
<1>6. DiskShape(disk') /\ DiskKinds(disk', opens, txns) /\ Log(1) \in DOMAIN disk'.names
  BY <1>3, <1>5, NameFacts, Numbers, MadeFile
<1>7. /\ Path(s) /\ s[1] = <<"manifest", "create">> /\ s # <<>>
      /\ \A p \in Range(s) : p[1] \in Pipe /\ p[2] = "create"
  BY <1>2, FilePaths
<1>8. todo' = s
  <2>1. s \in Seq(StepOf)
    BY <1>7 DEF Path
  <2>2. todo' = s \o <<>>
    BY <1>3, <1>4 DEF Rest
  <2>3. QED
    BY <2>1, <2>2
<1>9. CallShape'
  <2>1. ~Head1(Pipe, {"flush"})'
    BY <1>7, <1>8 DEF Head1
  <2>2. \A p \in Range(todo') : p[1] # "insert" /\ p[2] # "run" /\ p[2] = "create"
    BY <1>7, <1>8 DEF Pipe
  <2>3. QED
    BY <1>3, <1>4, <1>7, <1>8, <2>1, <2>2 DEF CallShape
<1>10. LogShape'
  BY <1>3, <1>7, <1>8 DEF LogShape, NewStore, Head1
<1>11. Standing'
  BY <1>3, <1>6, <1>7, <1>8 DEF Standing, NewStore, Head1
<1>12. StateOK'
  <2>1. Len(hist) \in Nat
    BY DEF Types, StateOK
  <2>2. db' \in GsStore(1 .. txns, Len(hist))
    BY <1>3, <2>1, NewStoreTypes
  <2>3. QED
    BY <1>3, <2>2 DEF Types, StateOK, counts
<1>13. QED
  BY <1>3, <1>6, <1>9, <1>10, <1>11, <1>12 DEF Types, counts

\* A read finds what a file of its kind holds.
LEMMA ReadHeld ==
  ASSUME NEW d, NEW o, NEW t, DiskShape(d), DiskKinds(d, o, t), NEW n \in DOMAIN d.names, NEW s \in Slots
  PROVE  Read(d, n, s) \in Held(Class(n), o, t)
<1>1. d.names \in d.maybe /\ d.names[n] \in Inodes
  BY DEF DiskShape, Namespace
<1>2. d.view[d.names[n]][s] \in Value
  BY <1>1 DEF DiskShape
<1>3. Holds(d, d.names[n], s, d.view[d.names[n]][s])
  BY DEF Holds
<1>4. QED
  BY <1>1, <1>2, <1>3 DEF DiskKinds, Read

\* A replay stops at the first record that does not chain.
LEMMA LogEnd ==
  ASSUME NEW d, NEW k
  PROVE  /\ End(d, k) \in 0 .. MaxSlot /\ Chained(d, k, End(d, k))
         /\ \A n \in 0 .. MaxSlot : Chained(d, k, n) => n <= End(d, k)
<1> DEFINE T == {n \in 0 .. MaxSlot : Chained(d, k, n)}
<1>1. 0 \in T
  BY Numbers DEF Chained
<1>2. T \in SUBSET Nat /\ T # {} /\ MaxSlot \in Nat /\ \A y \in T : y <= MaxSlot
  BY <1>1, Numbers
<1>3. Max(T) \in T /\ \A y \in T : y <= Max(T)
  BY <1>2, GreatestElement
<1>4. End(d, k) = Max(T)
  BY DEF End
<1>5. QED
  BY <1>3, <1>4

\* What a replay reads.
LEMMA ReplayReads ==
  ASSUME NEW d, NEW o, NEW t, DiskShape(d), DiskKinds(d, o, t), NEW k \in LogNums, Log(k) \in DOMAIN d.names,
         NEW s \in 1 .. End(d, k)
  PROVE  s \in Slots /\ Read(d, Log(k), s) \in [prev : Seq(Nat), salt : 0 .. o, txn : 1 .. t]
<1>1. s \in Slots
  BY LogEnd, Numbers DEF Slots
<1>2. Read(d, Log(k), s) # Zero
  BY LogEnd DEF Chained
<1>3. Class(Log(k)) = "log"
  BY NameFacts
<1>4. Read(d, Log(k), s) \in Held("log", o, t)
  BY <1>1, <1>3, ReadHeld
<1>5. QED
  BY <1>1, <1>2, <1>4 DEF Held

\* The logs an open replays.
LEMMA OpenLogs ==
  ASSUME NEW d, NEW k \in LogNums
  PROVE  /\ \A j \in Logs(d, k) : j \in LogNums /\ k <= j /\ Log(j) \in DOMAIN d.names
         /\ \A j \in Logs(d, k) : \A i \in k .. j : i \in Logs(d, k)
         /\ k \in Logs(d, k) <=> Log(k) \in DOMAIN d.names
         /\ Logs(d, k) # {} => k \in Logs(d, k)
         /\ Logs(d, k) # {} => Max(Logs(d, k)) \in Logs(d, k) /\ \A j \in Logs(d, k) : j <= Max(Logs(d, k))
         /\ Logs(d, k) = {} => Log(k) \notin DOMAIN d.names
<1>1. \A j : j \in Logs(d, k) <=> j \in LogNums /\ j >= k /\ \A i \in k .. j : Log(i) \in DOMAIN d.names
  BY DEF Logs, Exists
<1>2. PICK L : L = Logs(d, k)
  OBVIOUS
<1>3. /\ \A j \in L : j \in LogNums /\ k <= j /\ Log(j) \in DOMAIN d.names
      /\ \A j \in L : \A i \in k .. j : i \in L
      /\ k \in L <=> Log(k) \in DOMAIN d.names
  <2>1. \A j \in L : j \in LogNums /\ k <= j /\ j \in Nat /\ k \in Nat
    BY <1>1, <1>2, NumberedNat
  <2>2. ASSUME NEW j \in L PROVE Log(j) \in DOMAIN d.names
    <3>1. j \in k .. j
      BY <2>1
    <3>2. QED
      BY <1>1, <1>2, <3>1
  <2>3. ASSUME NEW j \in L, NEW i \in k .. j PROVE i \in L
    <3>1. i \in LogNums /\ i >= k /\ \A h \in k .. i : h \in k .. j
      BY <2>1, Numbers DEF LogNums
    <3>2. QED
      BY <1>1, <1>2, <3>1
  <2>4. \A i \in k .. k : i = k
    BY Numbers
  <2>5. k >= k /\ k \in k .. k
    BY Numbers
  <2>6. k \in L <=> Log(k) \in DOMAIN d.names
    BY <1>1, <1>2, <2>4, <2>5
  <2>7. QED
    BY <2>1, <2>2, <2>3, <2>6
<1>4. L # {} => k \in L
  <2> SUFFICES ASSUME NEW j \in L PROVE k \in L
    OBVIOUS
  <2>1. k \in k .. j
    BY <1>3, Numbers
  <2>2. QED
    BY <1>3, <2>1
<1>5. L # {} => Max(L) \in L /\ \A j \in L : j <= Max(L)
  <2> SUFFICES ASSUME L # {} PROVE Max(L) \in L /\ \A j \in L : j <= Max(L)
    OBVIOUS
  <2>1. L \in SUBSET Nat /\ MaxLog \in Nat /\ \A j \in L : j <= MaxLog
    BY <1>3, Numbers DEF LogNums
  <2>2. QED
    BY <2>1, GreatestElement
<1>6. QED
  BY <1>2, <1>3, <1>4, <1>5

\* The GsStore an open makes of a manifest and of the logs it replays.
Found(m, logs, last, d) ==
    [NewStore EXCEPT
        !.mem = UNION {Replayed(disk, k) : k \in logs},
        !.files = Contents(disk, m.files),
        !.first = m.first, !.log = last, !.end = End(d, last),
        !.chain = IF End(d, last) = 0 THEN <<last>> ELSE Sum(Read(d, Log(last), End(d, last))),
        !.next = m.next, !.durable = Len(hist)]

\* What an open reads: the GsStore, and the disk it leaves.
LEMMA RecoverReads ==
  ASSUME Types, Recover
  PROVE  \E m, logs, last, d :
           /\ logs = Logs(disk, m.first)
           /\ m = Read(disk, Manifest, 1) /\ m \in Version /\ m.first \in LogNums /\ m.files \subseteq FileNums
           /\ \A n \in m.files : n < m.next /\ Sst(n) \in DOMAIN disk.names
                                 /\ Read(disk, Sst(n), 1) # Zero /\ Read(disk, Sst(n), 1) \in SUBSET (1 .. txns)
           /\ last \in LogNums
           /\ \/ logs = {} /\ last = m.first /\ d = Create(disk, Log(last))
              \/ logs # {} /\ last = Max(logs) /\ d = disk /\ last \in logs
           /\ DiskShape(d) /\ DiskKinds(d, opens, txns)
           /\ DOMAIN d.names = DOMAIN disk.names \cup {Log(last)}
           /\ \A a \in DOMAIN disk.names : d.names[a] = disk.names[a]
           /\ d.view = disk.view
           /\ db' = Found(m, logs, last, d)
           /\ disk' = UnlinkAll(d, DOMAIN d.names \ Named(db'))
<1>1. PICK m : m = Read(disk, Manifest, 1)
  OBVIOUS
<1>2. PICK logs : logs = Logs(disk, m.first)
  OBVIOUS
<1>3. PICK last : last = IF logs = {} THEN m.first ELSE Max(logs)
  OBVIOUS
<1>4. PICK d : d = IF logs = {} THEN Create(disk, Log(last)) ELSE disk
  OBVIOUS
<1>5. /\ Manifest \in DOMAIN disk.names /\ m # Zero /\ Room(disk)
      /\ \A n \in m.files : Sst(n) \in DOMAIN disk.names /\ Read(disk, Sst(n), 1) # Zero
  BY <1>1 DEF Recover, Exists, Sound
<1>6. /\ db' = Found(m, logs, last, d)
      /\ disk' = UnlinkAll(d, DOMAIN d.names \ Named(db'))
  BY <1>1, <1>2, <1>3, <1>4, Zenon DEF Recover, Found
<1>7. m \in Version /\ m.first \in LogNums /\ m.files \subseteq FileNums /\ \A n \in m.files : n < m.next
  <2>1. m \in Held("manifest", opens, txns)
    <3>1. Class(Manifest) = "manifest" /\ 1 \in Slots
      BY NameFacts, Numbers
    <3>2. QED
      BY <1>1, <1>5, <3>1, ReadHeld DEF Types
  <2>2. QED
    BY <1>5, <2>1 DEF Held
<1>8. \A n \in m.files : Read(disk, Sst(n), 1) \in SUBSET (1 .. txns)
  <2> SUFFICES ASSUME NEW n \in m.files PROVE Read(disk, Sst(n), 1) \in SUBSET (1 .. txns)
    OBVIOUS
  <2>1. Class(Sst(n)) = "sst" /\ 1 \in Slots
    BY <1>7, NameFacts, Numbers
  <2>2. Read(disk, Sst(n), 1) \in Held("sst", opens, txns)
    BY <1>5, <2>1, ReadHeld DEF Types
  <2>3. QED
    BY <1>5, <2>2 DEF Held
<1>9. CASE logs = {}
  <2>1. last = m.first /\ d = Create(disk, Log(last))
    BY <1>3, <1>4, <1>9
  <2>2. /\ DiskShape(d) /\ DiskKinds(d, opens, txns) /\ d.view = disk.view
        /\ DOMAIN d.names = DOMAIN disk.names \cup {Log(last)}
        /\ \A a \in DOMAIN disk.names : d.names[a] = disk.names[a]
    BY <1>5, <1>7, <2>1, NameFacts, MadeFile DEF Types
  <2>3. QED
    BY <1>1, <1>2, <1>5, <1>6, <1>7, <1>8, <1>9, <2>1, <2>2
<1>10. CASE logs # {}
  <2>1. last = Max(logs) /\ d = disk
    BY <1>3, <1>4, <1>10
  <2>2. last \in logs /\ last \in LogNums /\ Log(last) \in DOMAIN disk.names
    BY <1>2, <1>7, <1>10, <2>1, OpenLogs
  <2>3. /\ DiskShape(d) /\ DiskKinds(d, opens, txns) /\ DOMAIN d.names = DOMAIN disk.names \cup {Log(last)}
    BY <2>1, <2>2 DEF Types
  <2>4. QED
    BY <1>1, <1>2, <1>5, <1>6, <1>7, <1>8, <1>10, <2>1, <2>2, <2>3
<1>11. QED
  BY <1>9, <1>10

\* Recovery.
LEMMA RecoverTypes ==
  ASSUME Types, Recover
  PROVE  Types'
<1>1. PICK m, logs, last, d :
           /\ logs = Logs(disk, m.first)
           /\ m = Read(disk, Manifest, 1) /\ m \in Version /\ m.first \in LogNums /\ m.files \subseteq FileNums
           /\ \A n \in m.files : n < m.next /\ Read(disk, Sst(n), 1) \in SUBSET (1 .. txns)
           /\ last \in LogNums
           /\ DiskShape(d) /\ DiskKinds(d, opens, txns)
           /\ DOMAIN d.names = DOMAIN disk.names \cup {Log(last)}
           /\ db' = Found(m, logs, last, d)
           /\ disk' = UnlinkAll(d, DOMAIN d.names \ Named(db'))
           /\ m.first <= last
  <2>1. PICK m, logs, last, d :
           /\ logs = Logs(disk, m.first)
           /\ m = Read(disk, Manifest, 1) /\ m \in Version /\ m.first \in LogNums /\ m.files \subseteq FileNums
           /\ \A n \in m.files : n < m.next /\ Sst(n) \in DOMAIN disk.names
                                 /\ Read(disk, Sst(n), 1) # Zero /\ Read(disk, Sst(n), 1) \in SUBSET (1 .. txns)
           /\ last \in LogNums
           /\ \/ logs = {} /\ last = m.first /\ d = Create(disk, Log(last))
              \/ logs # {} /\ last = Max(logs) /\ d = disk /\ last \in logs
           /\ DiskShape(d) /\ DiskKinds(d, opens, txns)
           /\ DOMAIN d.names = DOMAIN disk.names \cup {Log(last)}
           /\ \A a \in DOMAIN disk.names : d.names[a] = disk.names[a]
           /\ d.view = disk.view
           /\ db' = Found(m, logs, last, d)
           /\ disk' = UnlinkAll(d, DOMAIN d.names \ Named(db'))
    BY RecoverReads
  <2>2. m.first <= last
    BY <2>1, OpenLogs, NumberedNat
  <2>3. QED
    BY <2>1, <2>2
<1>2. /\ At("recover") /\ state' = "open" /\ Rest(<<>>) /\ UNCHANGED <<counts, hist, acked, stale>>
  BY DEF Recover
<1>3. Tail(todo) = <<>> /\ state = "opening" /\ todo # <<>>
  BY <1>2, RecoverAlone DEF Types
<1>4. todo' = <<>>
  BY <1>2, <1>3, RestNone DEF Types, CallShape
<1>5. PICK M : M = UNION {Replayed(disk, k) : k \in logs}
  OBVIOUS
<1>6. M \subseteq 1 .. txns
  <2> SUFFICES ASSUME NEW k \in logs, NEW s \in 1 .. End(disk, k)
               PROVE  Read(disk, Log(k), s).txn \in 1 .. txns
    BY <1>5 DEF Replayed
  <2>1. k \in LogNums /\ Log(k) \in DOMAIN disk.names
    BY <1>1, OpenLogs
  <2>2. QED
    BY <2>1, ReplayReads DEF Types
<1>7. PICK F : F = Contents(disk, m.files)
  OBVIOUS
<1>8. F \subseteq [num : FileNums, txns : SUBSET (1 .. txns)] /\ \A f \in F : f.num < m.next
  <2>1. \A f \in F : \E n \in m.files : f = [num |-> n, txns |-> Read(disk, Sst(n), 1)]
    BY <1>7 DEF Contents
  <2>2. ASSUME NEW f \in F PROVE f \in [num : FileNums, txns : SUBSET (1 .. txns)] /\ f.num < m.next
    <3>1. PICK n \in m.files : f = [num |-> n, txns |-> Read(disk, Sst(n), 1)]
      BY <2>1
    <3>2. n \in FileNums /\ n < m.next /\ Read(disk, Sst(n), 1) \in SUBSET (1 .. txns)
      BY <1>1
    <3>3. QED
      BY <3>1, <3>2
  <2>3. QED
    BY <2>2
<1>9. PICK c : c = IF End(d, last) = 0 THEN <<last>> ELSE Sum(Read(d, Log(last), End(d, last)))
  OBVIOUS
<1>10. End(d, last) \in 0 .. MaxSlot
  BY LogEnd
<1>11. c \in Seq(Nat)
  <2>1. CASE End(d, last) = 0
    <3>1. c = <<last>> /\ last \in Nat
      BY <1>1, <1>9, <2>1, NumberedNat
    <3>2. QED
      BY <3>1
  <2>2. CASE End(d, last) # 0
    <3>1. End(d, last) \in 1 .. End(d, last)
      BY <1>10, <2>2, Numbers
    <3>2. Read(d, Log(last), End(d, last)) \in [prev : Seq(Nat), salt : 0 .. opens, txn : 1 .. txns]
      BY <1>1, <3>1, ReplayReads
    <3>3. Sum(Read(d, Log(last), End(d, last))) \in Seq(Nat)
      BY <3>2 DEF Sum
    <3>4. QED
      BY <1>9, <2>2, <3>3
  <2>3. QED
    BY <2>1, <2>2
<1>12. Len(hist) \in Nat /\ Len(hist) \in 0 .. Len(hist)
  BY DEF Types, StateOK
<1>13. m.next \in Nat
  BY <1>1 DEF Version
<1>14. db' = [NewStore EXCEPT !.mem = M, !.files = F, !.first = m.first, !.log = last, !.end = End(d, last),
                              !.chain = c, !.next = m.next, !.durable = Len(hist)]
  BY <1>1, <1>5, <1>7, <1>9 DEF Found
<1>15. NewStore \in GsStore(1 .. txns, Len(hist))
  BY <1>12, NewStoreTypes
<1>16. db' \in GsStore(1 .. txns, Len(hist))
  <2>1. m.first \in LogNums /\ last \in LogNums
    BY <1>1
  <2>2. M \in SUBSET (1 .. txns) /\ F \in SUBSET [num : FileNums, txns : SUBSET (1 .. txns)]
    BY <1>6, <1>8
  <2>3. PICK e : e = End(d, last)
    OBVIOUS
  <2>4. e \in 0 .. MaxSlot
    BY <1>10, <2>3
  <2>5. db' = [NewStore EXCEPT !.mem = M, !.files = F, !.first = m.first, !.log = last, !.end = e,
                               !.chain = c, !.next = m.next, !.durable = Len(hist)]
    BY <1>14, <2>3
  <2>6. QED
    BY <1>11, <1>12, <1>13, <1>15, <2>1, <2>2, <2>4, <2>5 DEF GsStore
<1>17. /\ db'.files = F /\ db'.first = m.first /\ db'.log = last /\ db'.next = m.next /\ db'.new = {}
       /\ db'.fl = 0 /\ db'.spare = "none"
  BY <1>14 DEF NewStore
<1>18. StateOK'
  BY <1>2, <1>16 DEF Types, StateOK, counts
<1>19. /\ DiskShape(disk') /\ DiskKinds(disk', opens, txns) /\ Log(last) \in DOMAIN disk'.names
  <2>1. PICK G : G = DOMAIN d.names \ Named(db')
    OBVIOUS
  <2>2. Log(last) \notin G
    <3>1. m.first \in Nat /\ last \in Nat /\ m.first <= last
      BY <1>1, NumberedNat
    <3>2. last \in m.first .. last
      BY <3>1
    <3>3. last \in db'.first .. db'.log
      BY <1>17, <3>2
    <3>4. Log(last) \in Named(db')
      BY <3>3 DEF Named
    <3>5. QED
      BY <2>1, <3>4
  <2>3. disk' = UnlinkAll(d, G)
    BY <1>1, <2>1
  <2>4. DiskShape(d) /\ DiskKinds(d, opens, txns)
    BY <1>1
  <2>5. DiskShape(disk') /\ DiskKinds(disk', opens, txns) /\ DOMAIN disk'.names = DOMAIN d.names \ G
    BY <2>3, <2>4, RemovedFiles
  <2>6. Log(last) \in DOMAIN d.names
    BY <1>1
  <2>7. QED
    BY <2>2, <2>5, <2>6
<1>20. CallShape'
  BY <1>2, <1>4, EmptyPath DEF CallShape, Head1
<1>21. LogShape'
  BY <1>4, <1>17 DEF LogShape, Head1
<1>22. Standing'
  BY <1>4, <1>8, <1>17, <1>19 DEF Standing, Head1
<1>23. QED
  BY <1>2, <1>18, <1>19, <1>20, <1>21, <1>22 DEF Types, counts

\* A database that was never opened.
LEMMA InitTypes ==
  ASSUME Init
  PROVE  Types
<1>1. PICK d : d = disk
  OBVIOUS
<1>2. d = [names |-> NoNames, maybe |-> {NoNames},
           view |-> [i \in Inodes |-> Blank], dur |-> [i \in Inodes |-> Blank], dirty |-> {}]
  BY <1>1 DEF Init, EmptyDisk
<1>3. /\ d.names = NoNames /\ d.maybe = {NoNames} /\ d.dirty = {}
      /\ d.view = [i \in Inodes |-> Blank] /\ d.dur = [i \in Inodes |-> Blank]
      /\ d = [names |-> d.names, maybe |-> d.maybe, view |-> d.view, dur |-> d.dur, dirty |-> d.dirty]
  BY <1>2
<1>4. DOMAIN NoNames = {} /\ Namespace(NoNames)
  BY DEF NoNames, Namespace
<1>5. Blank \in [Slots -> Value] /\ \A s \in Slots : Blank[s] = Zero
  BY DEF Blank, Value
<1>6. DiskShape(d)
  BY <1>3, <1>4, <1>5 DEF DiskShape
<1>7. DiskKinds(d, opens, txns)
  <2>1. \A i \in Inodes, s \in Slots, v \in Value : Holds(d, i, s, v) => v = Zero
    BY <1>3, <1>5 DEF Holds
  <2>2. QED
    BY <1>3, <1>4, <2>1 DEF DiskKinds
<1>8. /\ db = NewStore /\ todo = <<>> /\ state = "off" /\ opens = 0 /\ txns = 0 /\ flushes = 0 /\ hist = <<>>
      /\ acked = {} /\ stale = FALSE
  BY DEF Init
<1>9. StateOK
  <2>1. hist \in Seq(1 .. txns) /\ Len(hist) \in Nat
    BY <1>8
  <2>2. db \in GsStore(1 .. txns, Len(hist))
    BY <1>8, <2>1, NewStoreTypes
  <2>3. opens \in 0 .. MaxOpens /\ txns \in 0 .. MaxTxn /\ flushes \in 0 .. MaxFlushes
    BY <1>8, Numbers
  <2>4. QED
    BY <1>8, <2>1, <2>2, <2>3 DEF StateOK
<1>10. CallShape /\ LogShape /\ Standing
  BY <1>8, EmptyPath DEF CallShape, LogShape, Standing, Head1, Live, NewStore
<1>11. QED
  BY <1>1, <1>6, <1>7, <1>9, <1>10 DEF Types

\* What the types say of the disk and of the step under way.
LEMMA TypesTypeOK ==
  ASSUME Types PROVE TypeOK
<1>1. DiskShape(disk) /\ DiskKinds(disk, opens, txns)
  BY DEF Types
<1>2. PICK o, t : o = opens /\ t = txns
  OBVIOUS
<1>3. ASSUME NEW N \in disk.maybe, NEW n \in DOMAIN N
      PROVE  /\ n \in Name /\ N[n] \in Inodes
             /\ \A s \in Slots : {disk.view[N[n]][s], disk.dur[N[n]][s]} \subseteq Held(Class(n), o, t)
             /\ \A w \in disk.dirty : w[1] = N[n] => w[3] \in Held(Class(n), o, t)
  <2>1. n \in Name /\ N[n] \in Inodes
    BY <1>1 DEF DiskShape, Namespace
  <2>2. \A s \in Slots, v \in Value : Holds(disk, N[n], s, v) => v \in Held(Class(n), o, t)
    BY <1>1, <1>2 DEF DiskKinds
  <2>3. \A s \in Slots : disk.view[N[n]][s] \in Value /\ disk.dur[N[n]][s] \in Value
    BY <1>1, <2>1 DEF DiskShape
  <2>4. \A s \in Slots : {disk.view[N[n]][s], disk.dur[N[n]][s]} \subseteq Held(Class(n), o, t)
    BY <2>2, <2>3 DEF Holds
  <2>5. ASSUME NEW w \in disk.dirty, w[1] = N[n] PROVE w[3] \in Held(Class(n), o, t)
    <3>1. w = <<w[1], w[2], w[3]>> /\ w[2] \in Slots /\ w[3] \in Value
      BY <1>1 DEF DiskShape
    <3>2. Holds(disk, N[n], w[2], w[3])
      BY <2>5, <3>1 DEF Holds
    <3>3. QED
      BY <2>2, <3>1, <3>2
  <2>6. QED
    BY <2>1, <2>4, <2>5
<1>4. DiskOK
  BY <1>1, <1>2, <1>3 DEF DiskOK, DiskShape
<1>5. QED
  BY <1>4 DEF Types, TypeOK, CallShape, Path

\* Every step keeps the types.
LEMMA TypesStep ==
  ASSUME Types, [Next]_vars
  PROVE  Types'
<1>1. CASE UNCHANGED vars
  BY <1>1 DEF vars, Types, StateOK, CallShape, LogShape, Standing, Head1, Live
<1>2. CASE Open
  BY <1>2, OpenTypes
<1>3. CASE CreateDb
  BY <1>3, CreateDbTypes
<1>4. CASE Recover
  BY <1>4, RecoverTypes
<1>5. CASE CallStep
  BY <1>5, CommitTypes, CommitRunsTypes, SimpleCallTypes, FlushCallTypes DEF CallStep
<1>6. CASE LogStep
  BY <1>6, SyncLogTypes, InsertTypes, DrainTypes, FreezeTypes, SpareTypes, MakeSpareTypes, SyncFileTypes,
     NameSpareTypes, SwapTypes DEF LogStep
<1>7. CASE FileStep
  BY <1>7, BuildTypes, SyncFileTypes, WriteManifestTypes, FlushDirTypes, RenameManifestTypes, InstalledTypes,
     CompactTypes DEF FileStep
<1>8. CASE Close \/ CloseFailed
  BY <1>8, ClosedTypes DEF Close, CloseFailed, Types, StateOK
<1>9. CASE LosePower \/ Kill
  BY <1>9, CrashTypes
<1>10. QED
  BY <1>1, <1>2, <1>3, <1>4, <1>5, <1>6, <1>7, <1>8, <1>9 DEF Next

\* The engine's types hold, whatever is lost and whenever: the records an open
\* replays, the files it reads and the manifest that names them are of their
\* kind, and a commit number is one that was given out.
THEOREM TypeCorrect == Spec => []TypeOK
<1>1. Init => Types
  BY InitTypes
<1>2. Types /\ [Next]_vars => Types'
  BY TypesStep
<1>3. Types => TypeOK
  BY TypesTypeOK
<1>4. QED
  BY <1>1, <1>2, <1>3, PTL DEF Spec

-----------------------------------------------------------------------------
(* What the names lead to, operation by operation.                         *)

\* The names of P that N has, M has too; those of Q that M has, N has too.
Near(N, M, P, Q) ==
    /\ \A n \in DOMAIN N \cap P : n \in DOMAIN M /\ M[n] = N[n]
    /\ \A n \in DOMAIN M \cap Q : n \in DOMAIN N

\* The namespaces of e are each near to one of d.
Alike(d, e, st, P, Q) ==
    /\ Near(d.names, e.names, P, Q)
    /\ \A M \in Worlds(e, st) : \E N \in Worlds(d, st) : Near(N, M, P, Q)

\* Of the inodes of I, those that were whole remain as they were.
Stable(d, e, st, I) ==
    \A i \in I : Settled(d, st, i) => Settled(e, st, i) /\ e.view[i][1] = d.view[i][1]

\* The namespace the system sees is one of those an open may meet.
LEMMA WorldNames ==
  ASSUME NEW d, DiskShape(d), NEW st
  PROVE  d.names \in Worlds(d, st) /\ \A N \in Worlds(d, st) : N \in d.maybe /\ Namespace(N)
BY DEF Worlds, DiskShape

\* Two steps of a kind make one.
LEMMA AlikeTwice ==
  ASSUME NEW d, NEW e, NEW f, NEW st, NEW P, NEW Q, NEW R, NEW S,
         Alike(d, e, st, P, Q), Alike(e, f, st, R, S)
  PROVE  Alike(d, f, st, P \cap R, Q \cap S)
<1>1. \A N, M, L : Near(N, M, P, Q) /\ Near(M, L, R, S) => Near(N, L, P \cap R, Q \cap S)
  BY DEF Near
<1>2. ASSUME NEW L \in Worlds(f, st) PROVE \E N \in Worlds(d, st) : Near(N, L, P \cap R, Q \cap S)
  <2>1. PICK M \in Worlds(e, st) : Near(M, L, R, S)
    BY DEF Alike
  <2>2. PICK N \in Worlds(d, st) : Near(N, M, P, Q)
    BY DEF Alike
  <2>3. QED
    BY <1>1, <2>1, <2>2
<1>3. QED
  BY <1>1, <1>2 DEF Alike

\* Less may be asked.
LEMMA AlikeLess ==
  ASSUME NEW d, NEW e, NEW st, NEW P, NEW Q, NEW R, NEW S, Alike(d, e, st, P, Q), R \subseteq P, S \subseteq Q
  PROVE  Alike(d, e, st, R, S)
<1>1. \A N, M : Near(N, M, P, Q) => Near(N, M, R, S)
  BY DEF Near
<1>2. QED
  BY <1>1 DEF Alike

\* An operation that leaves the names alone.
LEMMA AlikeSame ==
  ASSUME NEW d, NEW e, NEW st, e.names = d.names, e.maybe = d.maybe, NEW P, NEW Q
  PROVE  Alike(d, e, st, P, Q) /\ Worlds(e, st) = Worlds(d, st)
BY DEF Alike, Near, Worlds

\* A creation adds one name.
LEMMA AlikeCreate ==
  ASSUME NEW d, DiskShape(d), NEW n \in Name, Room(d), NEW st
  PROVE  Alike(d, Create(d, n), st, Name, Name \ {n})
<1>1. CASE Exists(d, n)
  <2>1. Create(d, n) = d
    BY <1>1 DEF Create
  <2>2. QED
    BY <2>1, AlikeSame
<1>2. CASE ~Exists(d, n)
  <2>1. PICK i \in Inodes \ Reachable(d) :
          LET e == Create(d, n) IN
            /\ DiskShape(e)
            /\ e.names = Created(d.names, n, i) /\ e.view = d.view /\ e.dur = d.dur /\ e.dirty = d.dirty
            /\ e.maybe = d.maybe \cup {Created(N, n, i) : N \in d.maybe}
    BY <1>2, CreateEffect
  <2>2. PICK e : e = Create(d, n)
    OBVIOUS
  <2>3. /\ e.names = Created(d.names, n, i) /\ i \in Inodes
        /\ \A M \in e.maybe : M \in d.maybe \/ \E N \in d.maybe : M = Created(N, n, i)
    BY <2>1, <2>2
  <2>4. \A N : Namespace(N) => Near(N, Created(N, n, i), Name, Name \ {n})
    <3>1. SUFFICES ASSUME NEW N, Namespace(N) PROVE Near(N, Created(N, n, i), Name, Name \ {n})
      OBVIOUS
    <3>2. /\ DOMAIN Created(N, n, i) = DOMAIN N \cup {n}
          /\ \A a \in DOMAIN N : Created(N, n, i)[a] = N[a]
      BY <2>3, <3>1, CreatedNames
    <3>3. QED
      BY <3>2 DEF Near
  <2>5. \A N : Near(N, N, Name, Name \ {n})
    BY DEF Near
  <2>6. Namespace(d.names) /\ \A N \in d.maybe : Namespace(N)
    BY DEF DiskShape
  <2>7. Near(d.names, e.names, Name, Name \ {n})
    BY <2>3, <2>4, <2>6
  <2>8. ASSUME NEW M \in Worlds(e, st) PROVE \E N \in Worlds(d, st) : Near(N, M, Name, Name \ {n})
    <3>1. CASE st
      BY <2>7, <2>8, <3>1 DEF Worlds
    <3>2. CASE ~st
      <4>1. M \in e.maybe /\ Worlds(d, st) = d.maybe
        BY <2>8, <3>2 DEF Worlds
      <4>2. QED
        BY <2>3, <2>4, <2>5, <2>6, <4>1
    <3>3. QED
      BY <3>1, <3>2
  <2>9. QED
    BY <2>2, <2>7, <2>8 DEF Alike
<1>3. QED
  BY <1>1, <1>2

\* A rename takes one name and adds another.
LEMMA AlikeRename ==
  ASSUME NEW d, DiskShape(d), NEW n \in Name, NEW m \in Name, NEW st
  PROVE  Alike(d, Rename(d, n, m), st, Name \ {n, m}, Name \ {m})
<1>1. CASE ~Exists(d, n)
  <2>1. Rename(d, n, m) = d
    BY <1>1 DEF Rename
  <2>2. QED
    BY <2>1, AlikeSame
<1>2. CASE Exists(d, n)
  <2>1. PICK e : e = Rename(d, n, m)
    OBVIOUS
  <2>2. e.names = Renamed(d.names, n, m) /\ e.maybe = d.maybe \cup {Renamed(N, n, m) : N \in d.maybe}
    BY <1>2, <2>1, RenameEffect
  <2>3. \A M \in e.maybe : M \in d.maybe \/ \E N \in d.maybe : M = Renamed(N, n, m)
    BY <2>2
  <2>4. \A N : Namespace(N) => Near(N, Renamed(N, n, m), Name \ {n, m}, Name \ {m})
    <3>1. SUFFICES ASSUME NEW N, Namespace(N) PROVE Near(N, Renamed(N, n, m), Name \ {n, m}, Name \ {m})
      OBVIOUS
    <3>3. CASE n \notin DOMAIN N
      <4>1. Renamed(N, n, m) = N
        BY <3>1, <3>3, RenamedNames
      <4>2. QED
        BY <4>1 DEF Near
    <3>4. CASE n \in DOMAIN N
      <4>1. /\ DOMAIN Renamed(N, n, m) = (DOMAIN N \ {n}) \cup {m}
            /\ \A a \in DOMAIN N \ {n, m} : Renamed(N, n, m)[a] = N[a]
        BY <3>1, <3>4, RenamedNames
      <4>2. QED
        BY <4>1 DEF Near
    <3>5. QED
      BY <3>3, <3>4
  <2>5. \A N : Near(N, N, Name \ {n, m}, Name \ {m})
    BY DEF Near
  <2>6. Namespace(d.names) /\ \A N \in d.maybe : Namespace(N)
    BY DEF DiskShape
  <2>7. Near(d.names, e.names, Name \ {n, m}, Name \ {m})
    BY <2>2, <2>4, <2>6
  <2>8. ASSUME NEW M \in Worlds(e, st) PROVE \E N \in Worlds(d, st) : Near(N, M, Name \ {n, m}, Name \ {m})
    <3>1. CASE st
      BY <2>7, <2>8, <3>1 DEF Worlds
    <3>2. CASE ~st
      <4>1. M \in e.maybe /\ Worlds(d, st) = d.maybe
        BY <2>8, <3>2 DEF Worlds
      <4>2. QED
        BY <2>3, <2>4, <2>5, <2>6, <4>1
    <3>3. QED
      BY <3>1, <3>2
  <2>9. QED
    BY <2>1, <2>7, <2>8 DEF Alike
<1>3. QED
  BY <1>1, <1>2

\* Removals take what they remove.
LEMMA AlikeUnlink ==
  ASSUME NEW d, DiskShape(d), NEW S, NEW st
  PROVE  Alike(d, UnlinkAll(d, S), st, Name \ S, Name)
<1>1. PICK e : e = UnlinkAll(d, S)
  OBVIOUS
<1>2. /\ e.names = Without(d.names, S)
      /\ \A M \in e.maybe : \E N \in d.maybe, gone \in SUBSET (S \cap DOMAIN d.names) : M = Without(N, gone)
  BY <1>1, UnlinkEffect
<1>3. \A N, gone : Namespace(N) /\ gone \subseteq S => Near(N, Without(N, gone), Name \ S, Name)
  <2>1. SUFFICES ASSUME NEW N, NEW gone, Namespace(N), gone \subseteq S
                 PROVE  Near(N, Without(N, gone), Name \ S, Name)
    OBVIOUS
  <2>2. DOMAIN Without(N, gone) = DOMAIN N \ gone /\ \A a \in DOMAIN N \ gone : Without(N, gone)[a] = N[a]
    BY <2>1, WithoutNames
  <2>3. QED
    BY <2>1, <2>2 DEF Near
<1>4. Namespace(d.names) /\ \A N \in d.maybe : Namespace(N)
  BY DEF DiskShape
<1>5. Near(d.names, e.names, Name \ S, Name)
  BY <1>2, <1>3, <1>4
<1>6. ASSUME NEW M \in Worlds(e, st) PROVE \E N \in Worlds(d, st) : Near(N, M, Name \ S, Name)
  <2>1. CASE st
    BY <1>5, <1>6, <2>1 DEF Worlds
  <2>2. CASE ~st
    <3>1. M \in e.maybe /\ Worlds(d, st) = d.maybe
      BY <1>6, <2>2 DEF Worlds
    <3>2. PICK N \in d.maybe, gone \in SUBSET (S \cap DOMAIN d.names) : M = Without(N, gone)
      BY <1>2, <3>1
    <3>3. gone \subseteq S
      OBVIOUS
    <3>4. Near(N, M, Name \ S, Name)
      BY <1>3, <1>4, <3>2, <3>3
    <3>5. QED
      BY <3>1, <3>4
  <2>3. QED
    BY <2>1, <2>2
<1>7. QED
  BY <1>1, <1>5, <1>6 DEF Alike

\* A flush of the directory leaves one namespace of several.
LEMMA AlikeSyncDir ==
  ASSUME NEW d, DiskShape(d), NEW st
  PROVE  /\ Alike(d, SyncDir(d), st, Name, Name)
         /\ Worlds(SyncDir(d), st) = {d.names} /\ SyncDir(d).names = d.names
<1>1. SyncDir(d).names = d.names /\ SyncDir(d).maybe = {d.names}
  BY SyncDirEffect
<1>2. Worlds(SyncDir(d), st) = {d.names} /\ d.names \in Worlds(d, st)
  BY <1>1, WorldNames DEF Worlds
<1>3. Near(d.names, d.names, Name, Name)
  BY DEF Near
<1>4. QED
  BY <1>1, <1>2, <1>3 DEF Alike

-----------------------------------------------------------------------------
(* What stays whole, operation by operation.                               *)

\* Two steps of a kind make one.
LEMMA StableTwice ==
  ASSUME NEW d, NEW e, NEW f, NEW st, NEW I, NEW J, Stable(d, e, st, I), Stable(e, f, st, J)
  PROVE  Stable(d, f, st, I \cap J)
BY DEF Stable

\* An operation that brings no content, and leaves what the system sees.
LEMMA StableContent ==
  ASSUME NEW d, NEW e, NEW st, NEW I \in SUBSET Inodes,
         \A i \in I : e.view[i] = d.view[i],
         \A i \in I, v \in Value : Holds(e, i, 1, v) => Holds(d, i, 1, v)
  PROVE  Stable(d, e, st, I)
BY DEF Stable, Settled

\* An operation on names alone.
LEMMA StableNames ==
  ASSUME NEW d, NEW e, NEW st, e.view = d.view, e.dur = d.dur, e.dirty = d.dirty
  PROVE  Stable(d, e, st, Inodes)
<1>1. \A i \in Inodes, v \in Value : Holds(e, i, 1, v) => Holds(d, i, 1, v)
  BY DEF Holds
<1>2. QED
  BY <1>1, StableContent

\* open with CREATE.
LEMMA StableCreate ==
  ASSUME NEW d, DiskShape(d), NEW n \in Name, Room(d), NEW st
  PROVE  Stable(d, Create(d, n), st, Inodes)
<1>1. CASE Exists(d, n)
  <2>1. Create(d, n) = d
    BY <1>1 DEF Create
  <2>2. QED
    BY <2>1, StableNames
<1>2. CASE ~Exists(d, n)
  <2>1. LET e == Create(d, n) IN e.view = d.view /\ e.dur = d.dur /\ e.dirty = d.dirty
    BY <1>2, CreateEffect
  <2>2. QED
    BY <2>1, StableNames
<1>3. QED
  BY <1>1, <1>2

\* A rename.
LEMMA StableRename ==
  ASSUME NEW d, DiskShape(d), NEW n \in Name, NEW m \in Name, NEW st
  PROVE  Stable(d, Rename(d, n, m), st, Inodes)
<1>1. CASE ~Exists(d, n)
  <2>1. Rename(d, n, m) = d
    BY <1>1 DEF Rename
  <2>2. QED
    BY <2>1, StableNames
<1>2. CASE Exists(d, n)
  <2>1. LET e == Rename(d, n, m) IN e.view = d.view /\ e.dur = d.dur /\ e.dirty = d.dirty
    BY <1>2, RenameEffect
  <2>2. QED
    BY <2>1, StableNames
<1>3. QED
  BY <1>1, <1>2

\* Removals.
LEMMA StableUnlink ==
  ASSUME NEW d, DiskShape(d), NEW S, NEW st
  PROVE  Stable(d, UnlinkAll(d, S), st, Inodes)
<1>1. LET e == UnlinkAll(d, S) IN e.view = d.view /\ e.dur = d.dur /\ e.dirty = d.dirty
  BY UnlinkEffect
<1>2. QED
  BY <1>1, StableNames

\* A write changes one inode.
LEMMA StableWrite ==
  ASSUME NEW d, DiskShape(d), NEW n, Exists(d, n), NEW s \in Slots, NEW v \in Value, NEW st
  PROVE  Stable(d, Write(d, n, s, v), st, Inodes \ {d.names[n]})
<1>1. PICK e : e = Write(d, n, s, v)
  OBVIOUS
<1>2. /\ e.dur = d.dur /\ e.dirty = d.dirty \cup {<<d.names[n], s, v>>}
      /\ \A j \in Inodes : j # d.names[n] => e.view[j] = d.view[j]
  BY <1>1, WriteEffect
<1>3. ASSUME NEW i \in Inodes \ {d.names[n]}, NEW u \in Value, Holds(e, i, 1, u)
      PROVE  Holds(d, i, 1, u)
  <2>1. \A w : <<i, 1, w>> \in e.dirty => <<i, 1, w>> \in d.dirty
    BY <1>2
  <2>2. e.view[i] = d.view[i]
    BY <1>2
  <2>3. QED
    BY <1>2, <1>3, <2>1, <2>2 DEF Holds
<1>4. \A i \in Inodes \ {d.names[n]} : e.view[i] = d.view[i]
  BY <1>2
<1>5. QED
  BY <1>1, <1>3, <1>4, StableContent

\* A sync, and what it makes of its file.
LEMMA StableSync ==
  ASSUME NEW d, DiskShape(d), NEW n, Exists(d, n), NEW st
  PROVE  /\ Stable(d, Sync(d, n), st, Inodes)
         /\ d.view[d.names[n]][1] # Zero => Settled(Sync(d, n), st, d.names[n])
<1>1. PICK e, i : e = Sync(d, n) /\ i = d.names[n]
  OBVIOUS
<1>2. /\ i \in Inodes /\ e.view = d.view
      /\ e.dur[i] = d.view[i] /\ \A j \in Inodes : j # i => e.dur[j] = d.dur[j]
      /\ e.dirty \subseteq d.dirty
      /\ \A x \in d.dirty : x \in e.dirty <=> x[1] # i
  BY <1>1, SyncEffect
<1>3. ASSUME NEW j \in Inodes, NEW u \in Value, Holds(e, j, 1, u)
      PROVE  Holds(d, j, 1, u)
  BY <1>2, <1>3 DEF Holds
<1>4. Stable(d, e, st, Inodes)
  BY <1>2, <1>3, StableContent
<1>5. \A u : <<i, 1, u>> \notin e.dirty
  BY <1>2
<1>6. \A u \in Value : Holds(e, i, 1, u) => u = e.view[i][1]
  BY <1>2, <1>5 DEF Holds
<1>7. QED
  BY <1>1, <1>2, <1>4, <1>6 DEF Settled

\* A sync that fails.
LEMMA StableFailed ==
  ASSUME NEW d, DiskShape(d), NEW n, Exists(d, n), NEW e \in FailedSync(d, n), NEW st
  PROVE  Stable(d, e, st, Inodes)
<1>1. e.view = d.view /\ \A i \in Inodes, v \in Value : Holds(e, i, 1, v) => Holds(d, i, 1, v)
  BY FailedSyncEffect, Numbers
<1>2. QED
  BY <1>1, StableContent

\* A flush of the directory.
LEMMA StableSyncDir ==
  ASSUME NEW d, DiskShape(d), NEW st
  PROVE  Stable(d, SyncDir(d), st, Range(d.names) \cap Inodes)
<1>1. PICK e, live : e = SyncDir(d) /\ live = Range(d.names)
  OBVIOUS
<1>2. /\ e.view = [i \in Inodes |-> IF i \in live THEN d.view[i] ELSE Blank]
      /\ e.dur = [i \in Inodes |-> IF i \in live THEN d.dur[i] ELSE Blank]
      /\ e.dirty = {x \in d.dirty : x[1] \in live}
  BY <1>1, SyncDirEffect
<1>3. /\ \A i \in live \cap Inodes : e.view[i] = d.view[i] /\ e.dur[i] = d.dur[i]
      /\ e.dirty \subseteq d.dirty
  BY <1>2
<1>4. \A i \in live \cap Inodes, v \in Value : Holds(e, i, 1, v) => Holds(d, i, 1, v)
  BY <1>3 DEF Holds
<1>5. QED
  BY <1>1, <1>3, <1>4, StableContent

\* What the manifest of a namespace needs.
Needs(d, N) ==
    {Manifest, Log(d.view[N[Manifest]][1].first)} \cup {Sst(n) : n \in d.view[N[Manifest]][1].files}

\* The inodes of files and manifests that the namespaces lead to.
Kept(e, st) == UNION {{M[a] : a \in {b \in DOMAIN M : Class(b) \in {"sst", "manifest"}}} : M \in Worlds(e, st)}

\* A database that is whole remains so.
LEMMA WholeKept ==
  ASSUME NEW d, NEW e, NEW st, NEW N, NEW M, NEW P, NEW Q, NEW I,
         Whole(d, st, N), Near(N, M, P, Q), Stable(d, e, st, I), Manifest \in Q,
         Manifest \in DOMAIN N => DOMAIN N \cap Needs(d, N) \subseteq P,
         \A a \in DOMAIN M : Class(a) \in {"sst", "manifest"} => M[a] \in I
  PROVE  Whole(e, st, M)
<1> SUFFICES ASSUME Manifest \in DOMAIN M
             PROVE  /\ Settled(e, st, M[Manifest])
                    /\ \A n \in e.view[M[Manifest]][1].files :
                           Sst(n) \in DOMAIN M /\ Settled(e, st, M[Sst(n)])
                    /\ Log(e.view[M[Manifest]][1].first) \in DOMAIN M
  BY DEF Whole
<1>1. Manifest \in DOMAIN N
  BY DEF Near
<1>2. M[Manifest] = N[Manifest] /\ M[Manifest] \in I
  BY <1>1, NameFacts DEF Near, Needs
<1>3. Settled(e, st, M[Manifest]) /\ e.view[M[Manifest]][1] = d.view[N[Manifest]][1]
  BY <1>1, <1>2 DEF Whole, Stable
<1>4. ASSUME NEW n \in e.view[M[Manifest]][1].files
      PROVE  Sst(n) \in DOMAIN M /\ Settled(e, st, M[Sst(n)])
  <2>1. Sst(n) \in DOMAIN N \cap Needs(d, N) /\ Settled(d, st, N[Sst(n)])
    BY <1>1, <1>3, <1>4 DEF Whole, Needs
  <2>2. Sst(n) \in DOMAIN M /\ M[Sst(n)] = N[Sst(n)]
    BY <1>1, <2>1 DEF Near
  <2>3. M[Sst(n)] \in I
    BY <2>2 DEF Class, Sst
  <2>4. QED
    BY <2>1, <2>2, <2>3 DEF Stable
<1>5. Log(e.view[M[Manifest]][1].first) \in DOMAIN M
  <2>1. Log(d.view[N[Manifest]][1].first) \in DOMAIN N \cap Needs(d, N)
    BY <1>1 DEF Whole, Needs
  <2>2. QED
    BY <1>1, <1>3, <2>1 DEF Near
<1>6. QED
  BY <1>3, <1>4, <1>5

\* The same of all the namespaces an open may meet.
LEMMA WholesKept ==
  ASSUME NEW d, NEW e, NEW st, NEW P, NEW Q, NEW I,
         \A N \in Worlds(d, st) : Whole(d, st, N), Alike(d, e, st, P, Q), Stable(d, e, st, I), Manifest \in Q,
         \A N \in Worlds(d, st) : Manifest \in DOMAIN N => DOMAIN N \cap Needs(d, N) \subseteq P,
         Kept(e, st) \subseteq I
  PROVE  \A M \in Worlds(e, st) : Whole(e, st, M)
<1>1. SUFFICES ASSUME NEW M \in Worlds(e, st) PROVE Whole(e, st, M)
  OBVIOUS
<1>2. PICK N \in Worlds(d, st) : Near(N, M, P, Q)
  BY DEF Alike
<1>3. \A a \in DOMAIN M : Class(a) \in {"sst", "manifest"} => M[a] \in I
  BY DEF Kept
<1>4. QED
  BY <1>2, <1>3, WholeKept

\* A name that is fixed remains so.
LEMMA FixedKept ==
  ASSUME NEW d, NEW e, NEW st, NEW P, NEW Q, Alike(d, e, st, P, Q), NEW n \in P, Fixed(d, st, n)
  PROVE  Fixed(e, st, n) /\ e.names[n] = d.names[n]
<1>1. n \in DOMAIN e.names /\ e.names[n] = d.names[n]
  BY DEF Alike, Near, Fixed
<1>2. ASSUME NEW M \in Worlds(e, st) PROVE n \in DOMAIN M /\ M[n] = d.names[n]
  <2>1. PICK N \in Worlds(d, st) : Near(N, M, P, Q)
    BY DEF Alike
  <2>2. QED
    BY <2>1 DEF Near, Fixed
<1>3. QED
  BY <1>1, <1>2 DEF Fixed

\* A file that is whole remains so, under its name.
LEMMA FileKept ==
  ASSUME NEW d, NEW e, NEW st, NEW P, NEW Q, NEW I, DiskShape(e), Alike(d, e, st, P, Q),
         Stable(d, e, st, I), Kept(e, st) \subseteq I,
         NEW n \in P, n \in DOMAIN d.names, Class(n) \in {"sst", "manifest"}, Settled(d, st, d.names[n])
  PROVE  /\ n \in DOMAIN e.names /\ e.names[n] = d.names[n] /\ Settled(e, st, e.names[n])
         /\ e.view[e.names[n]][1] = d.view[d.names[n]][1]
<1>1. n \in DOMAIN e.names /\ e.names[n] = d.names[n]
  BY DEF Alike, Near
<1>2. e.names \in Worlds(e, st)
  BY WorldNames
<1>3. e.names[n] \in I
  BY <1>1, <1>2 DEF Kept
<1>4. QED
  BY <1>1, <1>3 DEF Stable

-----------------------------------------------------------------------------
(* Between two manifests.                                                  *)

\* Inodes are inodes.
LEMMA KeptInodes ==
  ASSUME NEW d, DiskShape(d), NEW st
  PROVE  Kept(d, st) \subseteq Inodes
<1>1. \A N \in Worlds(d, st) : \A a \in DOMAIN N : N[a] \in Inodes
  BY WorldNames DEF Namespace
<1>2. QED
  BY <1>1 DEF Kept

\* What Naming says between two manifests.
LEMMA IdleIn ==
  ASSUME Types, Naming, state = "open", Idle
  PROVE  Ready(disk, db, stale)
<1>1. Live /\ ~Head1(Pipe, {"create"})
  <2>1. todo # <<>> => todo[1] \in Range(todo)
    BY PathTail DEF Types, CallShape
  <2>2. todo # <<>> => todo[1][2] # "create"
    BY <2>1 DEF Types, CallShape
  <2>3. QED
    BY <2>2 DEF Live, Head1
<1>2. /\ ~Head1({"sync_tmp", "sync_new"}, Builders) /\ ~Head1({"sync_sst", "manifest"}, Builders)
      /\ ~Head1(Pipe \ {"build", "sync_sst", "manifest"}, {"compact"})
      /\ ~Head1({"manifest", "sync_tmp", "sync_new"}, {"create"})
  BY DEF Idle, Head1, Calls, Pipe, Builders
<1>3. \A N \in Worlds(disk, stale) : Whole(disk, stale, N) /\ Manifest \in DOMAIN N
  BY DEF Naming, Wholes, Present
<1>4. \A f \in db.files :
        /\ f.num < db.next /\ Fixed(disk, stale, Sst(f.num))
        /\ Settled(disk, stale, disk.names[Sst(f.num)]) /\ disk.view[disk.names[Sst(f.num)]][1] = f.txns
  BY <1>1, <1>2 DEF Naming, Filed
<1>5. db.new = {} /\ db.comp \subseteq {f.num : f \in db.files}
  BY <1>1, <1>2 DEF Naming, Built, Picked, Nums
<1>6. /\ db.first <= db.log /\ \A k \in db.first .. db.log : Fixed(disk, stale, Log(k))
      /\ db.spare = "ready" => Fixed(disk, stale, Log(db.log + 1))
  BY <1>1, <1>2 DEF Naming, LogsNamed
<1>7. QED
  BY <1>1, <1>3, <1>4, <1>5, <1>6 DEF Ready

\* And what makes it so.
LEMMA IdleOut ==
  ASSUME Ready(disk', db', stale'), Below', state' = "open", Idle', CallShape'
  PROVE  Naming'
<1>1. todo' # <<>> => todo'[1][2] # "create"
  <2>1. todo' # <<>> => todo'[1] \in Range(todo')
    <3>1. todo' \in Seq(StepOf)
      BY DEF CallShape, Path
    <3>2. todo' # <<>> => 1 \in DOMAIN todo'
      BY <3>1
    <3>3. QED
      BY <3>2 DEF Range
  <2>2. todo' # <<>> => todo'[1][2] # "create"
    BY <2>1 DEF CallShape
  <2>3. QED
    BY <2>2
<1>2. /\ ~Head1({"sync_tmp", "sync_new"}, Builders)' /\ ~Head1({"sync_sst", "manifest"}, Builders)'
      /\ ~Head1({"sync_tmp", "sync_new", "rename"}, Builders \cup {"create", "move"})'
      /\ ~Head1({"sync_new", "rename"}, Builders \cup {"create", "move"})'
      /\ ~Head1({"sync_name", "installed"}, Builders \cup {"create", "move"})'
      /\ ~Head1({"rename", "installed"}, Builders \cup {"create", "move"})'
      /\ ~Head1({"recover"}, {"create"})'
      /\ ~Head1(Pipe \ {"build", "sync_sst", "manifest"}, {"compact"})'
      /\ ~Head1(Pipe \ {"build", "sync_sst", "manifest"}, {"flush"})'
      /\ ~Head1(Pipe, {"create"})'
  <2>1. todo' # <<>> =>
          /\ todo'[1][1] \notin {"sync_sst", "sync_tmp", "sync_new", "rename", "sync_name", "installed", "recover"}
          /\ todo'[1][1] = "manifest" => todo'[1][2] = "move"
    BY DEF Idle, Calls
  <2>2. /\ ~Head1({"sync_tmp", "sync_new"}, Builders)' /\ ~Head1({"sync_sst", "manifest"}, Builders)'
        /\ ~Head1({"sync_tmp", "sync_new", "rename"}, Builders \cup {"create", "move"})'
        /\ ~Head1({"sync_new", "rename"}, Builders \cup {"create", "move"})'
        /\ ~Head1({"sync_name", "installed"}, Builders \cup {"create", "move"})'
        /\ ~Head1({"rename", "installed"}, Builders \cup {"create", "move"})'
    BY <2>1 DEF Head1, Builders
  <2>3. /\ ~Head1({"recover"}, {"create"})'
        /\ ~Head1(Pipe \ {"build", "sync_sst", "manifest"}, {"compact"})'
        /\ ~Head1(Pipe \ {"build", "sync_sst", "manifest"}, {"flush"})'
    BY <2>1 DEF Head1, Pipe
  <2>4. ~Head1(Pipe, {"create"})'
    BY <1>1 DEF Head1
  <2>5. QED
    BY <2>2, <2>3, <2>4
<1>3. Wholes' /\ Calm' /\ Present'
  BY <1>2 DEF Ready, Wholes, Calm, Present
<1>4. Creating' /\ Filed' /\ Built'
  BY <1>2 DEF Ready, Creating, Filed, Built, Fixed
<1>5. Picked' /\ Placed'
  BY <1>2 DEF Ready, Picked, Placed, Nums
<1>6. LogsNamed'
  BY <1>2 DEF Ready, LogsNamed, Fixed
<1>7. QED
  BY <1>3, <1>4, <1>5, <1>6 DEF Naming

\* An operation on the disk that keeps the names that count.
LEMMA ReadyKept ==
  ASSUME NEW d, NEW e, NEW b, NEW st, NEW P, NEW Q, NEW I, Ready(d, b, st), DiskShape(d), DiskShape(e),
         Alike(d, e, st, P, Q), Stable(d, e, st, I), Kept(e, st) \subseteq I,
         Manifest \in P, Manifest \in Q,
         \A N \in Worlds(d, st) : DOMAIN N \cap Needs(d, N) \subseteq P,
         \A f \in b.files : Sst(f.num) \in P, \A k \in b.first .. b.log : Log(k) \in P,
         b.spare = "ready" => Log(b.log + 1) \in P
  PROVE  Ready(e, b, st)
<1>1. \A N \in Worlds(d, st) : Whole(d, st, N) /\ Manifest \in DOMAIN N
  BY DEF Ready
<1>2. \A M \in Worlds(e, st) : Whole(e, st, M)
  BY <1>1, WholesKept
<1>3. \A M \in Worlds(e, st) : Manifest \in DOMAIN M
  <2>1. SUFFICES ASSUME NEW M \in Worlds(e, st) PROVE Manifest \in DOMAIN M
    OBVIOUS
  <2>2. PICK N \in Worlds(d, st) : Near(N, M, P, Q)
    BY DEF Alike
  <2>3. QED
    BY <1>1, <2>2 DEF Near
<1>5. ASSUME NEW f \in b.files
      PROVE  /\ f.num < b.next /\ Fixed(e, st, Sst(f.num))
             /\ Settled(e, st, e.names[Sst(f.num)]) /\ e.view[e.names[Sst(f.num)]][1] = f.txns
  <2>1. Sst(f.num) \in P /\ Class(Sst(f.num)) = "sst"
    BY DEF Class, Sst
  <2>2. /\ f.num < b.next /\ Fixed(d, st, Sst(f.num))
        /\ Settled(d, st, d.names[Sst(f.num)]) /\ d.view[d.names[Sst(f.num)]][1] = f.txns
    BY DEF Ready
  <2>3. Fixed(e, st, Sst(f.num))
    BY <2>1, <2>2, FixedKept
  <2>4. Sst(f.num) \in DOMAIN d.names
    BY <2>2 DEF Fixed
  <2>5. Settled(e, st, e.names[Sst(f.num)]) /\ e.view[e.names[Sst(f.num)]][1] = d.view[d.names[Sst(f.num)]][1]
    BY <2>1, <2>2, <2>4, FileKept
  <2>6. QED
    BY <2>2, <2>3, <2>5
<1>6. \A k \in b.first .. b.log : Fixed(e, st, Log(k))
  <2>1. SUFFICES ASSUME NEW k \in b.first .. b.log PROVE Fixed(e, st, Log(k))
    OBVIOUS
  <2>2. Log(k) \in P /\ Fixed(d, st, Log(k))
    BY DEF Ready
  <2>3. QED
    BY <2>2, FixedKept
<1>7. b.spare = "ready" => Fixed(e, st, Log(b.log + 1))
  <2>1. SUFFICES ASSUME b.spare = "ready" PROVE Fixed(e, st, Log(b.log + 1))
    OBVIOUS
  <2>2. Log(b.log + 1) \in P /\ Fixed(d, st, Log(b.log + 1))
    BY <2>1 DEF Ready
  <2>3. QED
    BY <2>2, FixedKept
<1>8. QED
  BY <1>2, <1>3, <1>5, <1>6, <1>7 DEF Ready

\* A change of memory alone.
LEMMA ReadyDb ==
  ASSUME NEW d, NEW b, NEW c, NEW st, Ready(d, b, st),
         c.files = b.files, c.new = {}, c.comp \subseteq {f.num : f \in b.files}, c.next = b.next, c.first = b.first,
         b.log \in Nat, b.first \in Nat,
         \/ c.log = b.log /\ (c.spare = "ready" => Fixed(d, st, Log(b.log + 1)))
         \/ c.log = b.log + 1 /\ b.spare = "ready" /\ c.spare # "ready"
  PROVE  Ready(d, c, st)
<1>1. /\ \A N \in Worlds(d, st) : Whole(d, st, N) /\ Manifest \in DOMAIN N
      /\ \A f \in c.files :
             /\ f.num < c.next /\ Fixed(d, st, Sst(f.num))
             /\ Settled(d, st, d.names[Sst(f.num)]) /\ d.view[d.names[Sst(f.num)]][1] = f.txns
      /\ c.new = {} /\ c.comp \subseteq {f.num : f \in c.files}
  BY DEF Ready
<1>2. c.first <= c.log /\ (c.spare = "ready" => Fixed(d, st, Log(c.log + 1)))
  BY DEF Ready
<1>3. ASSUME NEW k \in c.first .. c.log PROVE Fixed(d, st, Log(k))
  <2>1. k \in b.first .. b.log \/ (k = b.log + 1 /\ b.spare = "ready")
    OBVIOUS
  <2>2. QED
    BY <2>1 DEF Ready
<1>4. QED
  BY <1>1, <1>2, <1>3 DEF Ready

\* The names of a store that is open, or on the way to be, are names.
LEMMA OwnNames ==
  ASSUME Types
  PROVE  /\ \A f \in db.files \cup db.new : f.num \in FileNums /\ Sst(f.num) \in Name
         /\ \A k \in db.first .. db.log : k \in LogNums /\ Log(k) \in Name
         /\ db.spare # "none" => db.log + 1 \in LogNums /\ Log(db.log + 1) \in Name
         /\ db.log \in LogNums /\ db.first \in LogNums /\ Log(db.log) \in Name /\ db.next \in Nat
         /\ db.comp \subseteq FileNums
<1>1. db \in GsStore(1 .. txns, Len(hist))
  BY DEF Types, StateOK
<1>2. /\ \A f \in db.files \cup db.new : f.num \in FileNums
      /\ db.log \in LogNums /\ db.first \in LogNums /\ db.next \in Nat /\ db.comp \subseteq FileNums
  BY <1>1 DEF GsStore
<1>3. \A k \in db.first .. db.log : k \in LogNums
  BY <1>2, Numbers DEF LogNums
<1>4. db.spare # "none" => db.log + 1 \in LogNums
  BY <1>2, Numbers DEF Types, LogShape, LogNums
<1>5. QED
  BY <1>2, <1>3, <1>4, NameFacts

\* A step that changes memory alone, between two manifests.
LEMMA QuietNaming ==
  ASSUME Types, Naming, Types', Idle, Idle', state = "open", UNCHANGED <<disk, state, stale>>,
         db'.files = db.files, db'.new = db.new, db'.comp \subseteq Nums, db'.next = db.next, db'.first = db.first,
         \/ db'.log = db.log /\ (db'.spare = "ready" => db.spare = "ready")
         \/ db'.log = db.log + 1 /\ db.spare = "ready" /\ db'.spare # "ready"
  PROVE  Naming'
<1>1. Ready(disk, db, stale)
  BY IdleIn
<1>2. db.log \in Nat /\ db.first \in Nat
  BY OwnNames, Numbers
<1>3. db.new = {} /\ (db.spare = "ready" => Fixed(disk, stale, Log(db.log + 1)))
  BY <1>1 DEF Ready
<1>4. PICK b, c : b = db /\ c = db'
  OBVIOUS
<1>5. Ready(disk, b, stale)
  BY <1>1, <1>4
<1>6. /\ c.files = b.files /\ c.new = {} /\ c.comp \subseteq {f.num : f \in b.files}
      /\ c.next = b.next /\ c.first = b.first /\ b.log \in Nat /\ b.first \in Nat
      /\ \/ c.log = b.log /\ (c.spare = "ready" => Fixed(disk, stale, Log(b.log + 1)))
         \/ c.log = b.log + 1 /\ b.spare = "ready" /\ c.spare # "ready"
  BY <1>2, <1>3, <1>4 DEF Nums
<1>7. Ready(disk, c, stale)
  BY <1>5, <1>6, ReadyDb
<1>8. Ready(disk', db', stale') /\ state' = "open"
  BY <1>4, <1>7
<1>9. Below'
  BY DEF Naming, Below, Live
<1>10. QED
  BY <1>8, <1>9, IdleOut DEF Types

\* A step that changes the disk, and takes no name away, between two manifests.
LEMMA DiskNaming ==
  ASSUME Types, Naming, Types', Idle, Idle', state = "open", UNCHANGED <<state, stale>>,
         NEW Q, NEW I, Alike(disk, disk', stale, Name, Q), Stable(disk, disk', stale, I),
         Kept(disk', stale) \subseteq I, Manifest \in Q, \A n \in FileNums : Sst(n) \in Q,
         db'.files = db.files, db'.new = db.new, db'.comp = db.comp, db'.next = db.next, db'.first = db.first,
         db'.log = db.log,
         db'.spare = "ready" => db.spare = "ready" \/ Fixed(disk', stale, Log(db.log + 1))
  PROVE  Naming'
<1>1. Ready(disk, db, stale)
  BY IdleIn
<1>2. /\ \A f \in db.files : Sst(f.num) \in Name
      /\ \A k \in db.first .. db.log : Log(k) \in Name
      /\ db.spare = "ready" => Log(db.log + 1) \in Name
      /\ db.log \in Nat /\ db.first \in Nat
  BY OwnNames, Numbers
<1>3. \A N \in Worlds(disk, stale) : DOMAIN N \cap Needs(disk, N) \subseteq Name
  BY WorldNames DEF Namespace, Types
<1>4. Manifest \in Name
  BY NameFacts
<1>5. PICK d, e, b, c : d = disk /\ e = disk' /\ b = db /\ c = db'
  OBVIOUS
<1>6. DiskShape(d) /\ DiskShape(e)
  BY <1>5 DEF Types
<1>7. Ready(e, b, stale)
  <2>1. /\ Ready(d, b, stale) /\ Alike(d, e, stale, Name, Q) /\ Stable(d, e, stale, I) /\ Kept(e, stale) \subseteq I
        /\ \A N \in Worlds(d, stale) : DOMAIN N \cap Needs(d, N) \subseteq Name
        /\ \A f \in b.files : Sst(f.num) \in Name
        /\ \A k \in b.first .. b.log : Log(k) \in Name
        /\ b.spare = "ready" => Log(b.log + 1) \in Name
    BY <1>1, <1>2, <1>3, <1>5
  <2>2. QED
    BY <1>4, <1>6, <2>1, ReadyKept
<1>8. /\ c.files = b.files /\ c.new = {} /\ c.comp \subseteq {f.num : f \in b.files}
      /\ c.next = b.next /\ c.first = b.first /\ b.log \in Nat /\ b.first \in Nat /\ c.log = b.log
      /\ c.spare = "ready" => Fixed(e, stale, Log(b.log + 1))
  BY <1>1, <1>2, <1>5, <1>7 DEF Ready
<1>9. Ready(e, c, stale)
  BY <1>7, <1>8, ReadyDb
<1>10. Ready(disk', db', stale') /\ state' = "open"
  BY <1>5, <1>9
<1>11. Below'
  <2>1. SUFFICES ASSUME NEW n \in FileNums, Sst(n) \in DOMAIN disk'.names PROVE n < db.next
    BY DEF Below
  <2>2. Sst(n) \in DOMAIN disk.names
    BY <2>1 DEF Alike, Near
  <2>3. QED
    BY <2>2 DEF Naming, Below, Live
<1>12. QED
  BY <1>10, <1>11, IdleOut DEF Types

-----------------------------------------------------------------------------
(* Names, action by action.                                                *)

\* A call that starts and writes nothing.
LEMMA CallNaming ==
  ASSUME Types, Naming, SyncCall \/ BeginRead \/ CloseCall \/ FlushCall \/ CommitRuns
  PROVE  Naming'
<1>1. Types' /\ Idle'
  BY SimpleCallTypes, FlushCallTypes, CommitRunsTypes
<1>2. todo = <<>> /\ state = "open" /\ UNCHANGED <<disk, db, state, stale>>
  BY DEF SyncCall, BeginRead, CloseCall, FlushCall, CommitRuns, Call
<1>3. Idle
  BY <1>2 DEF Idle
<1>4. db.comp \subseteq Nums
  BY <1>2, <1>3, IdleIn DEF Ready, Nums
<1>5. QED
  BY <1>1, <1>2, <1>3, <1>4, QuietNaming

\* A step of a call's own, which only changes what is left to do.
LEMMA LeftNaming ==
  ASSUME Types, Naming, Types', Idle', todo # <<>>, todo[1][1] \in Calls, UNCHANGED <<disk, db, state, stale>>
  PROVE  Naming'
<1>1. state = "open" /\ Idle
  BY OwnStep DEF Idle
<1>2. db.comp \subseteq Nums
  BY <1>1, IdleIn DEF Ready, Nums
<1>3. QED
  BY <1>1, <1>2, QuietNaming

\* flush_step, spare_step, and what begins a compaction or a flush.
LEMMA DrainNaming ==
  ASSUME Types, Naming, Slice \/ Drain \/ Spare
  PROVE  Naming'
<1>1. Types' /\ Idle'
  BY DrainTypes, SpareTypes
<1>2. todo # <<>> /\ todo[1][1] \in Calls /\ UNCHANGED <<disk, db, state, stale>>
  BY DEF Slice, Drain, Spare, At, Calls
<1>3. QED
  BY <1>1, <1>2, LeftNaming

\* The log switched to the spare.
LEMMA SwitchNaming ==
  ASSUME Types, Naming, Types', Idle', todo # <<>>, todo[1][1] \in Calls, UNCHANGED <<disk, state, stale>>,
         db.spare = "ready",
         \/ db' = [OnSpare(db) EXCEPT !.imm = db.mem, !.mem = {}, !.fl = db.log]
         \/ db' = [OnSpare(db) EXCEPT !.short = FALSE]
  PROVE  Naming'
<1>1. state = "open" /\ Idle
  BY OwnStep DEF Idle
<1>2. db.comp \subseteq Nums
  BY <1>1, IdleIn DEF Ready, Nums
<1>3. PICK T : db \in GsStore(T, Len(hist))
  BY DEF Types, StateOK
<1>4. PICK x : x = OnSpare(db)
  OBVIOUS
<1>5. /\ x.files = db.files /\ x.new = db.new /\ x.comp = db.comp /\ x.next = db.next /\ x.first = db.first
      /\ x.log = db.log + 1 /\ x.spare = "none"
      /\ x = [mem |-> x.mem, imm |-> x.imm, files |-> x.files, new |-> x.new, comp |-> x.comp,
              first |-> x.first, log |-> x.log, end |-> x.end, chain |-> x.chain, spare |-> x.spare,
              fl |-> x.fl, next |-> x.next, durable |-> x.durable, short |-> x.short]
  BY <1>3, <1>4 DEF OnSpare, GsStore
<1>6. db' = [x EXCEPT !.imm = db.mem, !.mem = {}, !.fl = db.log] \/ db' = [x EXCEPT !.short = FALSE]
  BY <1>4
<1>7. /\ db'.files = x.files /\ db'.new = x.new /\ db'.comp = x.comp /\ db'.next = x.next /\ db'.first = x.first
      /\ db'.log = x.log /\ db'.spare = x.spare
  BY <1>5, <1>6
<1>8. /\ db'.files = db.files /\ db'.new = db.new /\ db'.comp \subseteq Nums /\ db'.next = db.next
      /\ db'.first = db.first /\ db'.log = db.log + 1 /\ db'.spare # "ready"
  BY <1>2, <1>5, <1>7
<1>9. QED
  BY <1>1, <1>8, QuietNaming

\* freeze.
LEMMA FreezeNaming ==
  ASSUME Types, Naming, Freeze
  PROVE  Naming'
<1>1. Types' /\ Idle'
  BY FreezeTypes
<1>2. /\ todo # <<>> /\ todo[1][1] \in Calls /\ UNCHANGED <<disk, state, stale>>
      /\ \/ UNCHANGED db
         \/ db.spare = "ready" /\ db' = [OnSpare(db) EXCEPT !.imm = db.mem, !.mem = {}, !.fl = db.log]
  BY DEF Freeze, At, Calls
<1>3. QED
  BY <1>1, <1>2, LeftNaming, SwitchNaming

\* A step that changes what is short only.
LEMMA ShortNaming ==
  ASSUME Types, Naming, Types', Idle', todo # <<>>, todo[1][1] \in Calls, UNCHANGED <<disk, state, stale>>,
         NEW b, db' = [db EXCEPT !.short = b]
  PROVE  Naming'
<1>1. state = "open" /\ Idle
  BY OwnStep DEF Idle
<1>2. db.comp \subseteq Nums
  BY <1>1, IdleIn DEF Ready, Nums
<1>3. /\ db'.files = db.files /\ db'.new = db.new /\ db'.comp = db.comp /\ db'.next = db.next
      /\ db'.first = db.first /\ db'.log = db.log /\ db'.spare = db.spare
  BY DEF Types, StateOK, GsStore
<1>4. QED
  BY <1>1, <1>2, <1>3, QuietNaming

\* spare_now, and lsm_flush's swap.
LEMMA SwapNaming ==
  ASSUME Types, Naming, Short \/ Swap
  PROVE  Naming'
<1>1. Types' /\ Idle'
  BY SwapTypes
<1>2. /\ todo # <<>> /\ todo[1][1] \in Calls /\ UNCHANGED <<disk, state, stale>>
      /\ \/ UNCHANGED db
         \/ \E b \in BOOLEAN : db' = [db EXCEPT !.short = b]
         \/ db.spare = "ready" /\ db' = [OnSpare(db) EXCEPT !.short = FALSE]
  BY DEF Short, Swap, At, Calls
<1>3. QED
  BY <1>1, <1>2, LeftNaming, ShortNaming, SwitchNaming

\* The commit enters the memtable.
LEMMA InsertNaming ==
  ASSUME Types, Naming, Insert
  PROVE  Naming'
<1>1. Types' /\ Idle'
  BY InsertTypes
<1>2. todo # <<>> /\ todo[1][1] \in Calls /\ UNCHANGED <<disk, state, stale>>
  BY DEF Insert, At, Calls
<1>3. state = "open" /\ Idle
  BY <1>2, OwnStep DEF Idle
<1>4. db.comp \subseteq Nums
  BY <1>3, IdleIn DEF Ready, Nums
<1>5. PICK m, n, c : db' = [db EXCEPT !.mem = m, !.end = n, !.chain = c]
  BY DEF Insert
<1>6. /\ db'.files = db.files /\ db'.new = db.new /\ db'.comp = db.comp /\ db'.next = db.next
      /\ db'.first = db.first /\ db'.log = db.log /\ db'.spare = db.spare
  BY <1>5 DEF Types, StateOK, GsStore
<1>7. QED
  BY <1>1, <1>2, <1>3, <1>4, <1>6, QuietNaming

\* maybe_compact.
LEMMA CompactNaming ==
  ASSUME Types, Naming, Compact
  PROVE  Naming'
<1>1. Types' /\ Idle'
  BY CompactTypes
<1>2. /\ todo # <<>> /\ todo[1][1] \in Calls /\ UNCHANGED <<disk, state, stale>>
      /\ \/ UNCHANGED db
         \/ \E S \in SUBSET db.files : db' = [db EXCEPT !.comp = {f.num : f \in S}]
  BY DEF Compact, At, Calls
<1>3. CASE UNCHANGED db
  BY <1>1, <1>2, <1>3, LeftNaming
<1>4. CASE \E S \in SUBSET db.files : db' = [db EXCEPT !.comp = {f.num : f \in S}]
  <2>0. PICK S \in SUBSET db.files : db' = [db EXCEPT !.comp = {f.num : f \in S}]
    BY <1>4
  <2>1. PICK c : c = {f.num : f \in S} /\ db' = [db EXCEPT !.comp = c]
    BY <2>0
  <2>2. state = "open" /\ Idle
    BY <1>2, OwnStep DEF Idle
  <2>3. c \subseteq Nums
    BY <2>1 DEF Nums
  <2>4. /\ db'.files = db.files /\ db'.new = db.new /\ db'.comp = c /\ db'.next = db.next
        /\ db'.first = db.first /\ db'.log = db.log /\ db'.spare = db.spare
    BY <2>1 DEF Types, StateOK, GsStore
  <2>5. QED
    BY <1>1, <1>2, <2>2, <2>3, <2>4, QuietNaming
<1>5. QED
  BY <1>2, <1>3, <1>4

\* lsm_commit writes into the log.
LEMMA CommitNaming ==
  ASSUME Types, Naming, NEW sync \in BOOLEAN, Commit(sync)
  PROVE  Naming'
<1>1. Types' /\ Idle'
  BY CommitTypes
<1>2. state = "open" /\ todo = <<>> /\ UNCHANGED <<db, state, stale>>
  BY DEF Commit, Call
<1>3. Idle
  BY <1>2 DEF Idle
<1>4. PICK n, s, v : /\ n = Log(db.log) /\ s = db.end + 1 /\ disk' = Write(disk, n, s, v)
                     /\ v = [prev |-> db.chain, salt |-> opens, txn |-> txns + 1] /\ db.end < MaxSlot
  BY DEF Commit
<1>5. s \in Slots /\ v \in Value /\ n \in Name /\ Class(n) = "log"
  <2>1. /\ txns \in Nat /\ opens \in Nat /\ db.end \in Nat /\ db.chain \in Seq(Nat) /\ db.log \in LogNums
    BY Numbers DEF Types, StateOK, GsStore
  <2>2. v \in LogRecord
    BY <1>4, <2>1 DEF LogRecord
  <2>3. QED
    <3>1. s \in Slots
      BY <1>4, <2>1, Numbers DEF Slots
    <3>2. v \in Value
      BY <2>2 DEF Value
    <3>3. n \in Name /\ Class(n) = "log"
      BY <1>4, <2>1, NameFacts
    <3>4. QED
      BY <3>1, <3>2, <3>3
<1>6. n \in DOMAIN disk.names
  BY <1>2, <1>4 DEF Types, Standing, Live
<1>7. disk'.names = disk.names /\ disk'.maybe = disk.maybe
  BY <1>4, <1>5, <1>6, WriteEffect DEF Types, Exists
<1>8. Alike(disk, disk', stale, Name, Name) /\ Worlds(disk', stale) = Worlds(disk, stale)
  BY <1>7, AlikeSame
<1>9. PICK I : I = Inodes \ {disk.names[n]}
  OBVIOUS
<1>10. Stable(disk, disk', stale, I)
  BY <1>4, <1>5, <1>6, <1>9, StableWrite DEF Types, Exists
<1>11. Kept(disk', stale) \subseteq I
  <2>1. SUFFICES ASSUME NEW N \in Worlds(disk, stale), NEW a \in DOMAIN N, Class(a) \in {"sst", "manifest"}
                 PROVE  N[a] \in I
    BY <1>8 DEF Kept
  <2>2. N \in disk.maybe /\ Namespace(N) /\ disk.names \in disk.maybe
    BY WorldNames DEF Types, DiskShape
  <2>3. N[a] = disk.names[n] => Class(a) = Class(n)
    BY <1>6, <2>2 DEF Types, DiskKinds
  <2>4. N[a] \in Inodes
    BY <2>2 DEF Namespace
  <2>5. QED
    BY <1>5, <1>9, <2>1, <2>3, <2>4
<1>12. Manifest \in Name /\ \A k \in FileNums : Sst(k) \in Name
  BY NameFacts
<1>13. QED
  BY <1>1, <1>2, <1>3, <1>8, <1>10, <1>11, <1>12, DiskNaming

\* What a sync does to the names.
LEMMA SyncAlike ==
  ASSUME Types, NEW n, Exists(disk, n), disk' \in {Sync(disk, n)} \cup FailedSync(disk, n)
  PROVE  /\ Alike(disk, disk', stale, Name, Name) /\ Worlds(disk', stale) = Worlds(disk, stale)
         /\ Stable(disk, disk', stale, Inodes) /\ Kept(disk', stale) \subseteq Inodes
         /\ disk'.names = disk.names /\ disk'.view = disk.view
<1>1. DiskShape(disk') /\ disk'.names = disk.names /\ disk'.maybe = disk.maybe /\ disk'.view = disk.view
  BY SyncKinds DEF Types
<1>2. Stable(disk, disk', stale, Inodes)
  BY StableSync, StableFailed DEF Types
<1>3. Kept(disk', stale) \subseteq Inodes
  BY <1>1, KeptInodes
<1>4. QED
  BY <1>1, <1>2, <1>3, AlikeSame

\* A call that ends with the store.
LEMMA OverNaming ==
  ASSUME todo' = <<>>, state' \in {"off", "failed"},
         \A N \in Worlds(disk', stale') : Whole(disk', stale', N),
         \A N \in Worlds(disk', stale') :
             Manifest \in DOMAIN N \/ \A n \in FileNums : Sst(n) \notin DOMAIN N,
         state' = "off" => Worlds(disk', stale') = {disk'.names}
  PROVE  Naming'
<1>1. \A S, J : ~Head1(S, J)'
  BY DEF Head1
<1>2. ~Live'
  BY <1>1 DEF Live
<1>3. Wholes' /\ Calm' /\ Present'
  BY <1>1 DEF Wholes, Calm, Present
<1>4. Below' /\ Filed' /\ Built' /\ Picked' /\ LogsNamed'
  BY <1>2 DEF Below, Filed, Built, Picked, LogsNamed
<1>5. Creating' /\ Placed'
  BY <1>1 DEF Creating, Placed
<1>6. QED
  BY <1>3, <1>4, <1>5 DEF Naming

\* A sync that fails.
LEMMA FailNaming ==
  ASSUME Types, Naming, NEW n, Exists(disk, n), disk' \in FailedSync(disk, n), state' = "failed", todo' = <<>>,
         UNCHANGED stale
  PROVE  Naming'
<1>1. /\ Alike(disk, disk', stale, Name, Name) /\ Worlds(disk', stale) = Worlds(disk, stale)
      /\ Stable(disk, disk', stale, Inodes) /\ Kept(disk', stale) \subseteq Inodes
  BY SyncAlike
<1>2. \A N \in Worlds(disk, stale) : DOMAIN N \cap Needs(disk, N) \subseteq Name
  BY WorldNames DEF Namespace, Types
<1>3. \A N \in Worlds(disk', stale) : Whole(disk', stale, N)
  <2>1. \A N \in Worlds(disk, stale) : Whole(disk, stale, N)
    BY DEF Naming, Wholes
  <2>2. QED
    BY <1>1, <1>2, <2>1, NameFacts, WholesKept
<1>4. \A N \in Worlds(disk', stale') :
          Manifest \in DOMAIN N \/ \A k \in FileNums : Sst(k) \notin DOMAIN N
  BY <1>1 DEF Naming, Present
<1>5. QED
  BY <1>3, <1>4, OverNaming

\* A sync of the log, or of the spare.
LEMMA SyncLogNaming ==
  ASSUME Types, Naming, SyncLog \/ SyncIfNeeded \/ SyncSpare
  PROVE  Naming'
<1>1. Types'
  BY SyncLogTypes, SyncFileTypes
<1>2. todo # <<>> /\ todo[1][1] \in Calls /\ UNCHANGED stale
  BY DEF SyncLog, SyncIfNeeded, SyncSpare, At, Calls
<1>3. state = "open" /\ Idle /\ todo[1][2] = "call"
  BY <1>2, OwnStep DEF Idle
<1>4. PICK n : /\ \/ FlushFile(n, Harden) \/ FlushFile(n, UNCHANGED <<db, acked>>)
                  \/ Rest(<<>>) /\ UNCHANGED <<disk, db, state, acked>>
               /\ \/ n = Log(db.log)
                  \/ n = Log(db.log + 1) /\ todo[1][1] = "sync_spare"
  BY DEF SyncLog, SyncIfNeeded, SyncSpare, At
<1>5. Exists(disk, n)
  BY <1>2, <1>3, <1>4 DEF Types, Standing, Live, Exists, Head1
<1>6. CASE disk' \in FailedSync(disk, n) /\ state' = "failed" /\ todo' = <<>>
  BY <1>2, <1>5, <1>6, FailNaming
<1>7. CASE Rest(<<>>) /\ UNCHANGED <<disk, db, state, acked>>
  <2>1. Idle'
    BY <1>2, <1>7, IdleRest DEF Types
  <2>2. QED
    BY <1>1, <1>2, <1>7, <2>1, LeftNaming
<1>8. CASE disk' = Sync(disk, n) /\ Rest(<<>>) /\ UNCHANGED state /\ (Harden \/ UNCHANGED <<db, acked>>)
  <2>1. Idle'
    BY <1>2, <1>8, IdleRest DEF Types
  <2>2. /\ Alike(disk, disk', stale, Name, Name)
        /\ Stable(disk, disk', stale, Inodes) /\ Kept(disk', stale) \subseteq Inodes
    BY <1>5, <1>8, SyncAlike
  <2>3. /\ db'.files = db.files /\ db'.new = db.new /\ db'.comp = db.comp /\ db'.next = db.next
        /\ db'.first = db.first /\ db'.log = db.log /\ db'.spare = db.spare
    <3>1. CASE Harden
      <4>1. PICK k : db' = [db EXCEPT !.durable = k]
        BY <3>1 DEF Harden
      <4>2. QED
        BY <4>1 DEF Types, StateOK, GsStore
    <3>2. QED
      BY <1>8, <3>1
  <2>4. Manifest \in Name /\ \A k \in FileNums : Sst(k) \in Name
    BY NameFacts
  <2>5. QED
    BY <1>1, <1>2, <1>3, <1>8, <2>1, <2>2, <2>3, <2>4, DiskNaming
<1>9. QED
  BY <1>4, <1>6, <1>7, <1>8 DEF FlushFile

\* spare_step makes the spare.
LEMMA MakeSpareNaming ==
  ASSUME Types, Naming, MakeSpare
  PROVE  Naming'
<1>1. Types'
  BY MakeSpareTypes
<1>2. /\ todo # <<>> /\ todo[1][1] = "make_spare" /\ UNCHANGED <<state, stale>>
      /\ Room(disk) /\ disk' = Create(disk, Log(db.log + 1)) /\ db' = [db EXCEPT !.spare = "made"] /\ Rest(<<>>)
  BY DEF MakeSpare, At
<1>3. state = "open" /\ Idle /\ todo[1][2] = "call" /\ todo[1][1] \in Calls
  BY <1>2, OwnStep DEF Idle, Calls
<1>4. Idle'
  BY <1>2, <1>3, IdleRest DEF Types
<1>5. PICK n : n = Log(db.log + 1)
  OBVIOUS
<1>6. n \in Name
  <2>1. db.log < MaxLog /\ db.log \in LogNums
    BY <1>2, <1>3, OwnNames DEF Types, LogShape, Head1
  <2>2. db.log + 1 \in LogNums
    BY <2>1, Numbers DEF LogNums
  <2>3. QED
    BY <1>5, <2>2, NameFacts
<1>7. Alike(disk, disk', stale, Name, Name \ {n})
  BY <1>2, <1>5, <1>6, AlikeCreate DEF Types
<1>8. Stable(disk, disk', stale, Inodes)
  BY <1>2, <1>5, <1>6, StableCreate DEF Types
<1>9. Kept(disk', stale) \subseteq Inodes
  BY <1>1, KeptInodes DEF Types
<1>10. Manifest \in Name \ {n} /\ \A k \in FileNums : Sst(k) \in Name \ {n}
  BY <1>5, NameFacts
<1>11. /\ db'.files = db.files /\ db'.new = db.new /\ db'.comp = db.comp /\ db'.next = db.next
       /\ db'.first = db.first /\ db'.log = db.log /\ db'.spare = "made"
  BY <1>2 DEF Types, StateOK, GsStore
<1>12. QED
  BY <1>1, <1>2, <1>3, <1>4, <1>7, <1>8, <1>9, <1>10, <1>11, DiskNaming

\* After a flush of the directory every name is fixed.
LEMMA FlushedNames ==
  ASSUME NEW d, NEW e, DiskShape(d), NEW st, e = SyncDir(d)
  PROVE  /\ Alike(d, e, st, Name, Name) /\ Worlds(e, st) = {d.names} /\ e.names = d.names
         /\ Stable(d, e, st, Range(d.names) \cap Inodes) /\ Kept(e, st) \subseteq Range(d.names) \cap Inodes
         /\ \A n \in DOMAIN d.names : Fixed(e, st, n)
         /\ \A i \in Range(d.names) \cap Inodes : e.view[i] = d.view[i]
<1>1. Alike(d, e, st, Name, Name) /\ Worlds(e, st) = {d.names} /\ e.names = d.names
  BY AlikeSyncDir
<1>2. Stable(d, e, st, Range(d.names) \cap Inodes)
  BY StableSyncDir
<1>3. Kept(e, st) \subseteq Range(d.names) \cap Inodes
  <2>1. Namespace(d.names)
    BY DEF DiskShape
  <2>2. \A a \in DOMAIN d.names : d.names[a] \in Range(d.names) /\ d.names[a] \in Inodes
    BY <2>1 DEF Range, Namespace
  <2>3. QED
    BY <1>1, <2>2 DEF Kept
<1>4. \A n \in DOMAIN d.names : Fixed(e, st, n)
  BY <1>1 DEF Fixed
<1>5. \A i \in Range(d.names) \cap Inodes : e.view[i] = d.view[i]
  <2>1. PICK live : live = Range(d.names)
    OBVIOUS
  <2>2. e.view = [i \in Inodes |-> IF i \in Range(d.names) THEN d.view[i] ELSE Blank]
    BY SyncDirEffect, Zenon
  <2>3. QED
    BY <2>1, <2>2
<1>6. QED
  BY <1>1, <1>2, <1>3, <1>4, <1>5

\* spare_step flushes the spare's name.
LEMMA NameSpareNaming ==
  ASSUME Types, Naming, NameSpare
  PROVE  Naming'
<1>1. Types'
  BY NameSpareTypes
<1>2. /\ todo # <<>> /\ todo[1][1] = "name_spare" /\ UNCHANGED <<state, stale>>
      /\ disk' = SyncDir(disk) /\ db' = [db EXCEPT !.spare = "ready"] /\ Rest(<<>>)
  BY DEF NameSpare, At
<1>3. state = "open" /\ Idle /\ todo[1][2] = "call" /\ todo[1][1] \in Calls
  BY <1>2, OwnStep DEF Idle, Calls
<1>4. Idle'
  BY <1>2, <1>3, IdleRest DEF Types
<1>5. Log(db.log + 1) \in DOMAIN disk.names
  BY <1>2, <1>3 DEF Types, Standing, Live, Head1
<1>6. PICK I : I = Range(disk.names) \cap Inodes
  OBVIOUS
<1>7. /\ Alike(disk, disk', stale, Name, Name) /\ Stable(disk, disk', stale, I)
      /\ Kept(disk', stale) \subseteq I /\ Fixed(disk', stale, Log(db.log + 1))
  BY <1>2, <1>5, <1>6, FlushedNames DEF Types
<1>8. Manifest \in Name /\ \A k \in FileNums : Sst(k) \in Name
  BY NameFacts
<1>9. /\ db'.files = db.files /\ db'.new = db.new /\ db'.comp = db.comp /\ db'.next = db.next
      /\ db'.first = db.first /\ db'.log = db.log
  BY <1>2 DEF Types, StateOK, GsStore
<1>10. QED
  BY <1>1, <1>2, <1>3, <1>4, <1>7, <1>8, <1>9, DiskNaming

\* A step of a manifest on its way that makes something durable.
LEMMA PipeNaming ==
  ASSUME Types, Naming, Types', todo # <<>>, Rest(<<>>), UNCHANGED <<db, state, stale>>,
         todo[1][1] \in {"sync_sst", "sync_tmp", "sync_new", "sync_name"},
         NEW I, Alike(disk, disk', stale, Name, Name), Stable(disk, disk', stale, I), Kept(disk', stale) \subseteq I,
         disk'.names = disk.names, \A n \in DOMAIN disk.names : disk'.view[disk.names[n]] = disk.view[disk.names[n]],
         todo[1][1] = "sync_sst" =>
             \A n \in FileNums : db.next = n + 1 /\ Sst(n) \in DOMAIN disk.names =>
                 Settled(disk', stale, disk.names[Sst(n)]),
         todo[1][1] = "sync_tmp" => Settled(disk', stale, disk.names[Tmp]),
         todo[1][1] = "sync_new" /\ Tmp \in DOMAIN disk.names => disk.names[Tmp] \in I,
         todo[1][1] \in {"sync_new", "sync_name"} => Worlds(disk', stale) = {disk.names}
  PROVE  Naming'
<1>1. /\ todo[1] \in StepOf /\ todo' # <<>> /\ todo'[1] = <<After(todo[1][1]), todo[1][2]>>
      /\ todo[1][2] \in Builders \cup {"create", "move"}
      /\ todo[1][1] = "sync_sst" => todo[1][2] \in Builders
  <2>1. todo[1][1] \in Linked
    BY DEF Linked, Pipe
  <2>2. todo[1] \in StepOf /\ todo' # <<>> /\ todo'[1] = <<After(todo[1][1]), todo[1][2]>>
    BY <2>1, RestNone DEF Types, CallShape
  <2>3. todo[1][2] \in Builders \cup {"create", "move"} /\ (todo[1][1] = "sync_sst" => todo[1][2] \in Builders)
    BY <2>2 DEF StepOf, Calls
  <2>4. QED
    BY <2>2, <2>3
<1>2. PICK j : j = todo[1][2]
  OBVIOUS
<1>3. \/ todo[1][1] = "sync_sst" /\ todo'[1][1] = "manifest" /\ j \in Builders
      \/ todo[1][1] = "sync_tmp" /\ todo'[1][1] = "sync_new"
      \/ todo[1][1] = "sync_new" /\ todo'[1][1] = "rename"
      \/ todo[1][1] = "sync_name" /\ todo'[1][1] = "installed"
  BY <1>1, <1>2 DEF After
<1>4. todo'[1][2] = j /\ j \in Builders \cup {"create", "move"}
  BY <1>1, <1>2
<1>5. Live' <=> Live
  BY <1>1, <1>2, <1>3, <1>4 DEF Live, Head1, Pipe
<1>6. \A N \in Worlds(disk', stale) : Whole(disk', stale, N)
  <2>1. \A N \in Worlds(disk, stale) : DOMAIN N \cap Needs(disk, N) \subseteq Name
    BY WorldNames DEF Namespace, Types
  <2>2. \A N \in Worlds(disk, stale) : Whole(disk, stale, N)
    BY DEF Naming, Wholes
  <2>3. QED
    BY <2>1, <2>2, NameFacts, WholesKept
<1>7. \A M \in Worlds(disk', stale) : \E N \in Worlds(disk, stale) : Near(N, M, Name, Name)
  BY DEF Alike
<1>8. Wholes'
  BY <1>6 DEF Wholes
<1>9. Calm'
  BY <1>1, <1>3 DEF Calm, Head1, Types, CallShape
<1>10. Present'
  <2>1. state' = "open" => \A N \in Worlds(disk', stale) : Manifest \in DOMAIN N
    BY <1>7, NameFacts DEF Naming, Present, Near
  <2>2. ASSUME NEW M \in Worlds(disk', stale), Manifest \notin DOMAIN M, NEW n \in FileNums
        PROVE  Sst(n) \notin DOMAIN M
    <3>1. PICK N \in Worlds(disk, stale) : Near(N, M, Name, Name)
      BY <1>7
    <3>2. Manifest \notin DOMAIN N
      BY <2>2, <3>1, NameFacts DEF Near
    <3>3. QED
      BY <3>1, <3>2, NameFacts DEF Near, Naming, Present
  <2>3. QED
    BY <2>1, <2>2 DEF Present
<1>11. Below'
  BY <1>5 DEF Naming, Below
<1>12. Creating'
  <2>1. Head1(Pipe, {"create"})' => Head1(Pipe, {"create"})
    BY <1>1, <1>2, <1>3, <1>4 DEF Head1, Pipe
  <2>2. QED
    BY <2>1 DEF Naming, Creating
<1>13. Filed'
  <2>1. SUFFICES ASSUME Live, NEW f \in db.files
                 PROVE  /\ f.num < db.next /\ Sst(f.num) \in DOMAIN disk'.names
                        /\ Settled(disk', stale, disk'.names[Sst(f.num)])
                        /\ disk'.view[disk'.names[Sst(f.num)]][1] = f.txns
                        /\ \/ Fixed(disk', stale, Sst(f.num))
                           \/ f.num + 1 = db.next /\ Head1({"sync_tmp", "sync_new"}, Builders)'
    BY <1>5 DEF Filed
  <2>2. /\ f.num < db.next /\ Sst(f.num) \in DOMAIN disk.names
        /\ Settled(disk, stale, disk.names[Sst(f.num)])
        /\ disk.view[disk.names[Sst(f.num)]][1] = f.txns
        /\ \/ Fixed(disk, stale, Sst(f.num))
           \/ f.num + 1 = db.next /\ Head1({"sync_tmp", "sync_new"}, Builders)
    BY <2>1 DEF Naming, Filed
  <2>3. Sst(f.num) \in Name /\ Class(Sst(f.num)) = "sst"
    BY OwnNames DEF Class, Sst
  <2>4. Settled(disk', stale, disk'.names[Sst(f.num)]) /\ disk'.view[disk'.names[Sst(f.num)]][1] = f.txns
    BY <2>2, <2>3, FileKept DEF Types
  <2>5. CASE Fixed(disk, stale, Sst(f.num))
    BY <2>2, <2>3, <2>4, <2>5, FixedKept
  <2>6. CASE todo[1][1] = "sync_tmp" /\ f.num + 1 = db.next /\ Head1({"sync_tmp", "sync_new"}, Builders)
    <3>1. Head1({"sync_tmp", "sync_new"}, Builders)'
      BY <1>1, <1>2, <1>3, <1>4, <2>6 DEF Head1
    <3>2. QED
      BY <2>2, <2>4, <2>6, <3>1
  <2>7. CASE todo[1][1] = "sync_new"
    <3>1. Fixed(disk', stale, Sst(f.num))
      BY <2>2, <2>7 DEF Fixed
    <3>2. QED
      BY <2>2, <2>4, <3>1
  <2>8. QED
    BY <2>2, <2>5, <2>6, <2>7 DEF Head1
<1>14. Built'
  <2>1. CASE todo[1][1] = "sync_sst"
    <3>1. Head1({"sync_sst", "manifest"}, Builders) /\ Head1({"sync_sst", "manifest"}, Builders)'
      BY <1>1, <1>2, <1>3, <1>4, <2>1 DEF Head1
    <3>2. SUFFICES ASSUME Live
                   PROVE  \E n \in FileNums :
                     /\ db.next = n + 1 /\ Sst(n) \in DOMAIN disk'.names
                     /\ db.new = {[num |-> n, txns |-> disk'.view[disk'.names[Sst(n)]][1]]}
                     /\ todo'[1][1] = "manifest" => Settled(disk', stale, disk'.names[Sst(n)])
                     /\ \A f \in db.files : f.num < n
      BY <1>5, <3>1 DEF Built
    <3>3. PICK n \in FileNums :
                     /\ db.next = n + 1 /\ Sst(n) \in DOMAIN disk.names
                     /\ db.new = {[num |-> n, txns |-> disk.view[disk.names[Sst(n)]][1]]}
                     /\ \A f \in db.files : f.num < n
      BY <3>1, <3>2 DEF Naming, Built
    <3>4. disk'.view[disk'.names[Sst(n)]][1] = disk.view[disk.names[Sst(n)]][1]
      BY <3>3
    <3>5. QED
      BY <2>1, <3>3, <3>4
  <2>2. CASE todo[1][1] # "sync_sst"
    <3>1. ~Head1({"sync_sst", "manifest"}, Builders) /\ ~Head1({"sync_sst", "manifest"}, Builders)'
      BY <1>1, <1>3, <2>2 DEF Head1
    <3>2. QED
      BY <1>5, <3>1 DEF Naming, Built
  <2>3. QED
    BY <2>1, <2>2
<1>15. Picked'
  <2>1. Head1(Pipe \ {"build", "sync_sst", "manifest"}, {"compact"})'
          <=> Head1(Pipe \ {"build", "sync_sst", "manifest"}, {"compact"})
    BY <1>1, <1>2, <1>3, <1>4 DEF Head1, Pipe
  <2>2. Nums' = Nums
    BY DEF Nums
  <2>3. QED
    BY <1>5, <2>1, <2>2 DEF Naming, Picked
<1>16. Placed'
  <2>1. Memory' = Memory
    BY DEF Memory, Nums
  <2>2. CASE todo[1][1] = "sync_sst"
    BY <1>3, <2>2 DEF Placed, Head1
  <2>3. CASE todo[1][1] = "sync_tmp"
    <3>1. Head1({"sync_tmp", "sync_new", "rename"}, Builders \cup {"create", "move"})
      BY <1>1, <2>3 DEF Head1
    <3>2. Tmp \in DOMAIN disk.names /\ disk.view[disk.names[Tmp]][1] = Memory
      BY <3>1 DEF Naming, Placed
    <3>3. todo'[1][1] = "sync_new" /\ disk'.view[disk'.names[Tmp]][1] = Memory' /\ Tmp \in DOMAIN disk'.names
          /\ Settled(disk', stale', disk'.names[Tmp])
      BY <1>3, <2>1, <2>3, <3>2
    <3>4. QED
      BY <3>3 DEF Placed, Head1
  <2>4. CASE todo[1][1] = "sync_new"
    <3>1. /\ Head1({"sync_tmp", "sync_new", "rename"}, Builders \cup {"create", "move"})
          /\ Head1({"sync_new", "rename"}, Builders \cup {"create", "move"})
      BY <1>1, <2>4 DEF Head1
    <3>2. /\ Tmp \in DOMAIN disk.names /\ disk.view[disk.names[Tmp]][1] = Memory
          /\ Settled(disk, stale, disk.names[Tmp])
      BY <3>1 DEF Naming, Placed
    <3>3. todo'[1][1] = "rename" /\ disk'.view[disk'.names[Tmp]][1] = Memory' /\ Tmp \in DOMAIN disk'.names
          /\ Settled(disk', stale', disk'.names[Tmp]) /\ Worlds(disk', stale') = {disk'.names}
      BY <1>3, <2>1, <2>4, <3>2 DEF Stable
    <3>4. QED
      BY <3>3 DEF Placed, Head1
  <2>5. CASE todo[1][1] = "sync_name"
    <3>1. Head1({"sync_name", "installed"}, Builders \cup {"create", "move"})
      BY <1>1, <2>5 DEF Head1
    <3>2. Manifest \in DOMAIN disk.names /\ disk.view[disk.names[Manifest]][1] = Memory
      BY <3>1 DEF Naming, Placed
    <3>3. todo'[1][1] = "installed" /\ disk'.view[disk'.names[Manifest]][1] = Memory'
          /\ Manifest \in DOMAIN disk'.names /\ Worlds(disk', stale') = {disk'.names}
      BY <1>3, <2>1, <2>5, <3>2
    <3>4. QED
      BY <3>3 DEF Placed, Head1
  <2>6. QED
    BY <1>3, <2>2, <2>3, <2>4, <2>5
<1>17. LogsNamed'
  <2>1. ASSUME NEW n \in Name, Fixed(disk, stale, n) PROVE Fixed(disk', stale', n)
    BY <2>1, FixedKept
  <2>2. Head1(Pipe \ {"build", "sync_sst", "manifest"}, {"flush"})'
          => Head1(Pipe \ {"build", "sync_sst", "manifest"}, {"flush"})
    BY <1>1, <1>2, <1>3, <1>4 DEF Head1, Pipe
  <2>3. ASSUME Live, NEW k \in db.first .. db.log
        PROVE  /\ Log(k) \in DOMAIN disk'.names
               /\ Fixed(disk', stale', Log(k)) \/ Head1({"manifest", "sync_tmp", "sync_new"}, {"create"})'
    <3>1. /\ Log(k) \in DOMAIN disk.names /\ Log(k) \in Name
          /\ Fixed(disk, stale, Log(k)) \/ Head1({"manifest", "sync_tmp", "sync_new"}, {"create"})
      BY <2>3, OwnNames DEF Naming, LogsNamed
    <3>2. CASE Fixed(disk, stale, Log(k))
      BY <2>1, <3>1, <3>2
    <3>3. CASE todo[1][1] = "sync_tmp" /\ Head1({"manifest", "sync_tmp", "sync_new"}, {"create"})
      <4>1. Head1({"manifest", "sync_tmp", "sync_new"}, {"create"})'
        BY <1>1, <1>2, <1>3, <1>4, <3>3 DEF Head1
      <4>2. QED
        BY <3>1, <4>1
    <3>4. CASE todo[1][1] = "sync_new"
      <4>1. Fixed(disk', stale', Log(k))
        BY <3>1, <3>4 DEF Fixed
      <4>2. QED
        BY <3>1, <4>1
    <3>5. QED
      BY <3>1, <3>2, <3>3, <3>4 DEF Head1
  <2>4. Live /\ db.spare = "ready" => Fixed(disk', stale', Log(db.log + 1))
    BY <2>1, OwnNames DEF Naming, LogsNamed
  <2>5. QED
    BY <1>5, <2>2, <2>3, <2>4 DEF Naming, LogsNamed
<1>18. QED
  BY <1>8, <1>9, <1>10, <1>11, <1>12, <1>13, <1>14, <1>15, <1>16, <1>17 DEF Naming

\* A new file is synced.
LEMMA SyncSstNaming ==
  ASSUME Types, Naming, SyncSst
  PROVE  Naming'
<1>1. Types'
  BY SyncFileTypes
<1>2. /\ todo # <<>> /\ todo[1][1] = "sync_sst" /\ UNCHANGED stale
      /\ FlushFile(Sst(db.next - 1), UNCHANGED <<db, acked>>) /\ todo[1] \in StepOf
  BY PathTail DEF SyncSst, At, Types, CallShape
<1>3. Head1({"sync_sst"}, Builders) /\ Head1({"sync_sst", "manifest"}, Builders) /\ Live
  <2>1. Head1({"sync_sst"}, Builders) /\ Head1({"sync_sst", "manifest"}, Builders)
    BY <1>2 DEF Head1, StepOf, Calls
  <2>2. QED
    BY <1>2, <2>1, Opened DEF Types, Live, Head1, Builders
<1>4. PICK n \in FileNums : /\ db.next = n + 1 /\ Sst(n) \in DOMAIN disk.names
                            /\ db.new = {[num |-> n, txns |-> disk.view[disk.names[Sst(n)]][1]]}
  BY <1>3 DEF Naming, Built
<1>5. db.next - 1 = n
  BY <1>4, Numbers
<1>6. Exists(disk, Sst(n)) /\ FlushFile(Sst(n), UNCHANGED <<db, acked>>)
  BY <1>2, <1>4, <1>5 DEF Exists
<1>7. CASE disk' \in FailedSync(disk, Sst(n)) /\ state' = "failed" /\ todo' = <<>>
  BY <1>2, <1>6, <1>7, FailNaming
<1>8. CASE disk' = Sync(disk, Sst(n)) /\ Rest(<<>>) /\ UNCHANGED <<db, state>>
  <2>1. /\ Alike(disk, disk', stale, Name, Name) /\ Stable(disk, disk', stale, Inodes)
        /\ Kept(disk', stale) \subseteq Inodes /\ disk'.names = disk.names /\ disk'.view = disk.view
    BY <1>6, <1>8, SyncAlike
  <2>2. disk.view[disk.names[Sst(n)]][1] # Zero
    <3>0. PICK w, f : w = disk.view[disk.names[Sst(n)]][1] /\ f = [num |-> n, txns |-> w]
      OBVIOUS
    <3>1. f \in db.new /\ f.txns = disk.view[disk.names[Sst(n)]][1]
      BY <1>4, <3>0
    <3>2. f.txns \in SUBSET (1 .. txns) /\ txns \in 0 .. MaxTxn
      BY <3>1 DEF Types, StateOK, GsStore
    <3>3. f.txns \in SUBSET (1 .. MaxTxn)
      BY <3>2, Numbers
    <3>4. QED
      BY <3>1, <3>3, ZeroAssumption
  <2>3. Settled(disk', stale, disk.names[Sst(n)])
    BY <1>6, <1>8, <2>2, StableSync DEF Types
  <2>4. \A m \in FileNums : db.next = m + 1 => m = n
    BY <1>4, Numbers
  <2>5. QED
    BY <1>1, <1>2, <1>8, <2>1, <2>3, <2>4, PipeNaming
<1>9. QED
  BY <1>6, <1>7, <1>8 DEF FlushFile

\* The temporary manifest is synced.
LEMMA SyncTmpNaming ==
  ASSUME Types, Naming, SyncTmp
  PROVE  Naming'
<1>1. Types'
  BY SyncFileTypes
<1>2. /\ todo # <<>> /\ todo[1][1] = "sync_tmp" /\ UNCHANGED stale
      /\ FlushFile(Tmp, UNCHANGED <<db, acked>>) /\ todo[1] \in StepOf
  BY PathTail DEF SyncTmp, At, Types, CallShape
<1>3. Head1({"sync_tmp", "sync_new", "rename"}, Builders \cup {"create", "move"})
  BY <1>2 DEF Head1, StepOf, Calls
<1>4. Tmp \in DOMAIN disk.names /\ disk.view[disk.names[Tmp]][1] = Memory
  BY <1>3 DEF Naming, Placed
<1>5. Exists(disk, Tmp)
  BY <1>4 DEF Exists
<1>6. CASE disk' \in FailedSync(disk, Tmp) /\ state' = "failed" /\ todo' = <<>>
  BY <1>2, <1>5, <1>6, FailNaming
<1>7. CASE disk' = Sync(disk, Tmp) /\ Rest(<<>>) /\ UNCHANGED <<db, state>>
  <2>1. /\ Alike(disk, disk', stale, Name, Name) /\ Stable(disk, disk', stale, Inodes)
        /\ Kept(disk', stale) \subseteq Inodes /\ disk'.names = disk.names /\ disk'.view = disk.view
    BY <1>5, <1>7, SyncAlike
  <2>2. Memory # Zero
    <3>1. db.first \in Nat /\ db.next \in Nat /\ Nums \subseteq Nat
      BY OwnNames, Numbers DEF Nums
    <3>2. Memory \in Version
      BY <3>1 DEF Memory, Version
    <3>3. QED
      BY <3>2, ZeroAssumption
  <2>3. Settled(disk', stale, disk.names[Tmp])
    BY <1>4, <1>5, <1>7, <2>2, StableSync DEF Types
  <2>4. QED
    BY <1>1, <1>2, <1>7, <2>1, <2>3, PipeNaming
<1>8. QED
  BY <1>2, <1>6, <1>7 DEF FlushFile

\* manifest_write flushes the directory.
LEMMA FlushDirNaming ==
  ASSUME Types, Naming, FlushDir
  PROVE  Naming'
<1>1. Types'
  BY FlushDirTypes
<1>2. /\ todo # <<>> /\ todo[1][1] \in {"sync_new", "sync_name"} /\ UNCHANGED <<db, state, stale>>
      /\ disk' = SyncDir(disk) /\ Rest(<<>>)
  BY DEF FlushDir, At
<1>3. PICK I : I = Range(disk.names) \cap Inodes
  OBVIOUS
<1>4. /\ Alike(disk, disk', stale, Name, Name) /\ Worlds(disk', stale) = {disk.names} /\ disk'.names = disk.names
      /\ Stable(disk, disk', stale, I) /\ Kept(disk', stale) \subseteq I
      /\ \A i \in I : disk'.view[i] = disk.view[i]
  <2>1. PICK d, e : d = disk /\ e = disk'
    OBVIOUS
  <2>2. DiskShape(d) /\ e = SyncDir(d)
    BY <1>2, <2>1 DEF Types
  <2>3. /\ Alike(d, e, stale, Name, Name) /\ Worlds(e, stale) = {d.names} /\ e.names = d.names
        /\ Stable(d, e, stale, Range(d.names) \cap Inodes) /\ Kept(e, stale) \subseteq Range(d.names) \cap Inodes
        /\ \A i \in Range(d.names) \cap Inodes : e.view[i] = d.view[i]
    BY <2>2, FlushedNames
  <2>4. QED
    BY <1>3, <2>1, <2>3
<1>5. \A n \in DOMAIN disk.names : disk.names[n] \in I
  BY <1>3 DEF Types, DiskShape, Namespace, Range
<1>6. QED
  BY <1>1, <1>2, <1>4, <1>5, PipeNaming

\* e is d with a new file n that holds v.
Written(d, e, n, v, st) ==
    /\ DiskShape(e)
    /\ Alike(d, e, st, Name, Name \ {n}) /\ Stable(d, e, st, Inodes)
    /\ DOMAIN e.names = DOMAIN d.names \cup {n} /\ \A a \in DOMAIN d.names : e.names[a] = d.names[a]
    /\ e.view[e.names[n]][1] = v
    /\ \A a \in DOMAIN d.names : e.view[d.names[a]] = d.view[d.names[a]]

\* A file that is new and written, on the disk.
LEMMA WrittenFile ==
  ASSUME NEW d, NEW e, NEW o, NEW t, DiskShape(d), DiskKinds(d, o, t), Room(d), NEW n \in Name, ~Exists(d, n),
         NEW v \in Value, NEW st, e = Write(Create(d, n), n, 1, v)
  PROVE  Written(d, e, n, v, st)
<1>1. PICK i \in Inodes \ Reachable(d) :
        LET c == Create(d, n) IN
          /\ DiskShape(c)
          /\ c.names = Created(d.names, n, i) /\ c.view = d.view /\ c.dur = d.dur /\ c.dirty = d.dirty
          /\ c.maybe = d.maybe \cup {Created(N, n, i) : N \in d.maybe}
  BY CreateEffect
<1>2. PICK c : c = Create(d, n)
  OBVIOUS
<1>3. DiskShape(c) /\ c.names = Created(d.names, n, i) /\ c.view = d.view /\ i \in Inodes
  BY <1>1, <1>2
<1>4. /\ DOMAIN c.names = DOMAIN d.names \cup {n} /\ c.names[n] = i
      /\ \A a \in DOMAIN d.names : c.names[a] = d.names[a]
  <2>1. PICK N : N = d.names
    OBVIOUS
  <2>2. Namespace(N) /\ n \notin DOMAIN N
    BY <2>1 DEF DiskShape, Exists
  <2>3. /\ DOMAIN Created(N, n, i) = DOMAIN N \cup {n} /\ \A a \in DOMAIN N : Created(N, n, i)[a] = N[a]
        /\ Created(N, n, i)[n] = i
    BY <1>3, <2>2, CreatedNames, Zenon
  <2>4. QED
    BY <1>3, <2>1, <2>3
<1>5. e = Write(c, n, 1, v)
  BY <1>2
<1>6. Exists(c, n) /\ 1 \in Slots
  BY <1>4, Numbers DEF Exists
<1>7. /\ DiskShape(e) /\ e.names = c.names /\ e.maybe = c.maybe /\ e.view[i][1] = v
      /\ \A j \in Inodes : j # i => e.view[j] = c.view[j]
  BY <1>3, <1>4, <1>5, <1>6, WriteEffect
<1>8. Alike(d, c, st, Name, Name \ {n}) /\ Stable(d, c, st, Inodes)
  BY <1>2, AlikeCreate, StableCreate
<1>9. Alike(d, e, st, Name, Name \ {n})
  <2>1. Alike(c, e, st, Name, Name)
    BY <1>7, AlikeSame
  <2>2. Name \cap Name = Name /\ (Name \ {n}) \cap Name = Name \ {n}
    OBVIOUS
  <2>3. QED
    BY <1>8, <2>1, <2>2, AlikeTwice
<1>10. Stable(d, e, st, Inodes)
  <2>1. Stable(c, e, st, Inodes \ {i})
    BY <1>3, <1>4, <1>5, <1>6, StableWrite
  <2>2. d.view[i][1] = Zero
    <3>1. i \in Inodes \ Reachable(d) /\ 1 \in Slots /\ d.view[i][1] \in Value
      BY <1>6 DEF DiskShape
    <3>2. QED
      BY <3>1 DEF DiskKinds, Holds
  <2>3. ~Settled(d, st, i)
    BY <2>2 DEF Settled
  <2>4. ASSUME NEW j \in Inodes, Settled(d, st, j) PROVE Settled(e, st, j) /\ e.view[j][1] = d.view[j][1]
    <3>1. j # i
      BY <2>3, <2>4
    <3>2. Settled(c, st, j) /\ c.view[j][1] = d.view[j][1]
      BY <1>8, <2>4 DEF Stable
    <3>3. QED
      BY <2>1, <3>1, <3>2 DEF Stable
  <2>5. QED
    BY <2>4 DEF Stable
<1>11. \A a \in DOMAIN d.names : e.view[d.names[a]] = d.view[d.names[a]]
  <2>1. SUFFICES ASSUME NEW a \in DOMAIN d.names PROVE e.view[d.names[a]] = d.view[d.names[a]]
    OBVIOUS
  <2>2. d.names[a] \in Reachable(d) /\ d.names[a] \in Inodes
    BY Reaching DEF DiskShape, Namespace
  <2>3. QED
    BY <1>3, <1>7, <2>2
<1>12. QED
  BY <1>2, <1>4, <1>5, <1>7, <1>9, <1>10, <1>11 DEF Written

\* A file that is built.
LEMMA BuildNaming ==
  ASSUME Types, Naming, Build
  PROVE  Naming'
<1>1. PICK v, n : v = Input(Job) /\ n = db.next
  OBVIOUS
<1>2. /\ todo # <<>> /\ todo[1][1] = "build" /\ UNCHANGED <<state, stale>>
      /\ Room(disk) /\ n \in FileNums
      /\ disk' = Write(Create(disk, Sst(n)), Sst(n), 1, v)
      /\ db' = [db EXCEPT !.next = @ + 1, !.new = {[num |-> n, txns |-> v]}] /\ Rest(<<>>)
  BY <1>1 DEF Build, At
<1>3. todo[1] \in StepOf /\ todo[1][2] \in Builders /\ todo[1][1] \in Linked /\ state = "open"
  <2>1. todo[1] \in StepOf
    BY <1>2, PathTail DEF Types, CallShape
  <2>2. todo[1][2] \in Builders
    BY <1>2, <2>1 DEF StepOf, Calls
  <2>3. QED
    BY <1>2, <2>1, <2>2, Opened DEF Types, Builders, Linked, Pipe
<1>4. v \in Value
  <2>1. v \in SUBSET (1 .. txns)
    BY <1>1, <1>2, <1>3, InputTypes DEF Job
  <2>2. 1 .. txns \subseteq Nat
    OBVIOUS
  <2>3. QED
    BY <2>1, <2>2 DEF Value
<1>5. Ready(disk, db, stale) /\ Live /\ Types'
  BY <1>2, <1>3, IdleIn, BuildTypes DEF Idle, Live
<1>6. ~Exists(disk, Sst(n)) /\ Sst(n) \in Name
  <2>1. Sst(n) \in DOMAIN disk.names => n < db.next
    BY <1>2, <1>5 DEF Naming, Below
  <2>2. QED
    BY <1>1, <1>2, <2>1, NameFacts, Numbers DEF Exists
<1>7. PICK Q : Q = Name \ {Sst(n)}
  OBVIOUS
<1>8. /\ Alike(disk, disk', stale, Name, Q) /\ Stable(disk, disk', stale, Inodes)
      /\ DOMAIN disk'.names = DOMAIN disk.names \cup {Sst(n)}
      /\ disk'.view[disk'.names[Sst(n)]][1] = v
  <2>1. PICK d, e : d = disk /\ e = disk' /\ DiskShape(d) /\ DiskKinds(d, opens, txns)
    BY DEF Types
  <2>2. Room(d) /\ ~Exists(d, Sst(n)) /\ e = Write(Create(d, Sst(n)), Sst(n), 1, v)
    BY <1>2, <1>6, <2>1
  <2>3. /\ Alike(d, e, stale, Name, Name \ {Sst(n)}) /\ Stable(d, e, stale, Inodes)
        /\ DOMAIN e.names = DOMAIN d.names \cup {Sst(n)} /\ e.view[e.names[Sst(n)]][1] = v
    <3>1. Written(d, e, Sst(n), v, stale)
      BY <1>4, <1>6, <2>1, <2>2, WrittenFile
    <3>2. QED
      BY <3>1 DEF Written
  <2>4. QED
    BY <1>7, <2>1, <2>3
<1>9. Kept(disk', stale) \subseteq Inodes
  BY <1>5, KeptInodes DEF Types
<1>10. Ready(disk', db, stale)
  <2>1. PICK d, e, b : d = disk /\ e = disk' /\ b = db
    OBVIOUS
  <2>2. /\ Ready(d, b, stale) /\ DiskShape(d) /\ DiskShape(e) /\ Alike(d, e, stale, Name, Q)
        /\ Stable(d, e, stale, Inodes) /\ Kept(e, stale) \subseteq Inodes
    BY <1>5, <1>8, <1>9, <2>1 DEF Types
  <2>3. Manifest \in Name /\ Manifest \in Q
    BY <1>7, NameFacts
  <2>4. \A N \in Worlds(d, stale) : DOMAIN N \cap Needs(d, N) \subseteq Name
    BY <2>2, WorldNames DEF Namespace
  <2>5. /\ \A f \in b.files : Sst(f.num) \in Name
        /\ \A k \in b.first .. b.log : Log(k) \in Name
        /\ b.spare = "ready" => Log(b.log + 1) \in Name
    BY <2>1, OwnNames
  <2>6. Ready(e, b, stale)
    BY <2>2, <2>3, <2>4, <2>5, ReadyKept
  <2>7. QED
    BY <2>1, <2>6
<1>11. /\ db'.next = n + 1 /\ n \in Nat /\ db.next = n /\ db'.files = db.files /\ db'.comp = db.comp
       /\ db'.first = db.first /\ db'.log = db.log /\ db'.spare = db.spare
       /\ db'.new = {[num |-> n, txns |-> v]}
  <2>1. PICK m, g : m = n + 1 /\ g = {[num |-> n, txns |-> v]}
    OBVIOUS
  <2>2. db' = [db EXCEPT !.next = m, !.new = g]
    BY <1>1, <1>2, <2>1
  <2>3. /\ db'.next = m /\ db'.files = db.files /\ db'.comp = db.comp
        /\ db'.first = db.first /\ db'.log = db.log /\ db'.spare = db.spare /\ db'.new = g
    BY <2>2 DEF Types, StateOK, GsStore
  <2>4. n \in Nat
    BY <1>2, Numbers
  <2>5. QED
    BY <1>1, <2>1, <2>3, <2>4
<1>12. todo' # <<>> /\ todo'[1] = <<"sync_sst", todo[1][2]>>
  BY <1>2, <1>3, RestNone DEF Types, CallShape, After
<1>13. /\ Head1({"sync_sst", "manifest"}, Builders)' /\ ~Head1({"recover"}, {"create"})'
       /\ ~Head1(Pipe, {"create"})' /\ ~Head1(Pipe \ {"build", "sync_sst", "manifest"}, {"compact"})'
       /\ ~Head1(Pipe \ {"build", "sync_sst", "manifest"}, {"flush"})'
       /\ \A J : \A S \in SUBSET {"sync_tmp", "sync_new", "rename", "sync_name", "installed"} : ~Head1(S, J)'
  BY <1>3, <1>12 DEF Head1, Builders
<1>14. Wholes' /\ Calm' /\ Present'
  BY <1>2, <1>3, <1>10, <1>13 DEF Ready, Wholes, Calm, Present
<1>15. Below'
  <2>1. SUFFICES ASSUME NEW k \in FileNums, Sst(k) \in DOMAIN disk'.names PROVE k < db'.next
    BY DEF Below
  <2>2. CASE k = n
    BY <1>11, <2>2
  <2>3. CASE k # n
    <3>1. Sst(k) \in DOMAIN disk.names
      BY <1>8, <2>1, <2>3, NameFacts
    <3>2. k < db.next /\ k \in Nat
      BY <1>5, <3>1, Numbers DEF Naming, Below
    <3>3. QED
      BY <1>11, <3>2
  <2>4. QED
    BY <2>2, <2>3
<1>16. Creating' /\ Placed'
  BY <1>13 DEF Creating, Placed
<1>17. Filed'
  <2>1. \A f \in db.files : f.num < db'.next
    <3>1. \A f \in db.files : f.num < db.next /\ f.num \in Nat
      BY <1>10, OwnNames, Numbers DEF Ready
    <3>2. QED
      BY <1>11, <3>1
  <2>2. QED
    BY <1>2, <1>10, <1>11, <2>1 DEF Ready, Filed, Fixed
<1>18. Built'
  <2>1. \A f \in db.files : f.num < n
    BY <1>10, <1>11 DEF Ready
  <2>2. /\ db'.next = n + 1 /\ Sst(n) \in DOMAIN disk'.names
        /\ db'.new = {[num |-> n, txns |-> disk'.view[disk'.names[Sst(n)]][1]]}
        /\ todo'[1][1] # "manifest" /\ \A f \in db'.files : f.num < n
    BY <1>8, <1>11, <1>12, <2>1
  <2>3. QED
    BY <1>2, <1>13, <2>2 DEF Built
<1>19. Picked'
  <2>1. db.comp \subseteq {f.num : f \in db.files}
    BY <1>10 DEF Ready
  <2>2. QED
    BY <1>11, <1>13, <2>1 DEF Picked, Nums
<1>20. LogsNamed'
  BY <1>2, <1>10, <1>11, <1>13 DEF Ready, LogsNamed, Fixed
<1>21. QED
  BY <1>14, <1>15, <1>16, <1>17, <1>18, <1>19, <1>20 DEF Naming

\* manifest_write's temporary file, on the disk.
LEMMA TmpWritten ==
  ASSUME Types, Naming, WriteManifest
  PROVE  LET R == Name \ {Tmp} IN
         /\ Alike(disk, disk', stale, R, R) /\ Stable(disk, disk', stale, Inodes)
         /\ Kept(disk', stale) \subseteq Inodes
         /\ DOMAIN disk'.names = DOMAIN disk.names \cup {Tmp}
         /\ disk'.view[disk'.names[Tmp]][1] = Memory'
         /\ \A a \in DOMAIN disk.names \ {Tmp} :
                disk'.names[a] = disk.names[a] /\ disk'.view[disk.names[a]] = disk.view[disk.names[a]]
<1>1. PICK v : v = Memory'
  OBVIOUS
<1>2. PICK d, c, e : d = disk /\ c = UnlinkAll(disk, {Tmp}) /\ e = disk'
  OBVIOUS
<1>3. /\ todo # <<>> /\ todo[1][1] = "manifest" /\ Room(d) /\ e = Write(Create(c, Tmp), Tmp, 1, v)
      /\ db' = NextVersion(todo[1][2])
  BY <1>1, <1>2 DEF WriteManifest, At, Unlink, Job, Memory, Nums
<1>4. v \in Value
  <2>1. /\ db' \in GsStore(1 .. txns, Len(hist)) /\ \A f \in db'.files : f.num \in FileNums
    BY <1>3, VersionTypes
  <2>2. db'.first \in Nat /\ db'.next \in Nat
    BY <2>1, Numbers DEF GsStore
  <2>3. PICK F : F = Nums'
    OBVIOUS
  <2>4. F \in SUBSET Nat
    BY <2>1, <2>3, Numbers DEF Nums
  <2>5. v = [first |-> db'.first, next |-> db'.next, files |-> F]
    BY <1>1, <2>3 DEF Memory
  <2>6. QED
    BY <2>2, <2>4, <2>5 DEF Value, Version
<1>5. /\ DiskShape(c) /\ DiskKinds(c, opens, txns) /\ Room(c) /\ DOMAIN c.names = DOMAIN d.names \ {Tmp}
      /\ c.view = d.view /\ \A a \in DOMAIN d.names \ {Tmp} : c.names[a] = d.names[a]
  BY <1>2, <1>3, RemovedFiles DEF Types
<1>6. ~Exists(c, Tmp)
  BY <1>5 DEF Exists
<1>7. Written(c, e, Tmp, v, stale)
  BY <1>3, <1>4, <1>5, <1>6, NameFacts, WrittenFile
<1>8. Alike(d, c, stale, Name \ {Tmp}, Name) /\ Stable(d, c, stale, Inodes)
  BY <1>2, AlikeUnlink, StableUnlink DEF Types
<1>9. Alike(d, e, stale, Name \ {Tmp}, Name \ {Tmp})
  <2>1. Alike(c, e, stale, Name, Name \ {Tmp})
    BY <1>7 DEF Written
  <2>2. (Name \ {Tmp}) \cap Name = Name \ {Tmp} /\ Name \cap (Name \ {Tmp}) = Name \ {Tmp}
    OBVIOUS
  <2>3. QED
    BY <1>8, <2>1, <2>2, AlikeTwice
<1>10. Stable(d, e, stale, Inodes)
  <2>1. Stable(c, e, stale, Inodes)
    BY <1>7 DEF Written
  <2>2. Inodes \cap Inodes = Inodes
    OBVIOUS
  <2>3. QED
    BY <1>8, <2>1, <2>2, StableTwice
<1>11. Kept(e, stale) \subseteq Inodes
  BY <1>7, KeptInodes DEF Written
<1>12. DOMAIN e.names = DOMAIN d.names \cup {Tmp} /\ e.view[e.names[Tmp]][1] = v
  BY <1>5, <1>7 DEF Written
<1>13. \A a \in DOMAIN d.names \ {Tmp} : e.names[a] = d.names[a] /\ e.view[d.names[a]] = d.view[d.names[a]]
  BY <1>5, <1>7 DEF Written
<1>14. QED
  BY <1>1, <1>2, <1>9, <1>10, <1>11, <1>12, <1>13

\* manifest_write's temporary file.
LEMMA WriteManifestNaming ==
  ASSUME Types, Naming, WriteManifest
  PROVE  Naming'
<1>1. PICK R, j : R = Name \ {Tmp} /\ j = todo[1][2]
  OBVIOUS
<1>2. Types'
  BY WriteManifestTypes
<1>3. /\ todo # <<>> /\ todo[1][1] = "manifest" /\ UNCHANGED <<state, stale>>
      /\ db' = NextVersion(j) /\ Rest(<<>>)
  BY <1>1 DEF WriteManifest, At, Job
<1>4. /\ todo[1] \in StepOf /\ j \in Builders \cup {"create", "move"}
      /\ todo' # <<>> /\ todo'[1] = <<"sync_tmp", j>> /\ todo[1] \in Range(todo)
  <2>1. todo[1] \in StepOf /\ todo[1] \in Range(todo)
    BY <1>3, PathTail DEF Types, CallShape
  <2>2. j \in Builders \cup {"create", "move"}
    BY <1>1, <1>3, <2>1 DEF StepOf, Calls
  <2>3. todo' # <<>> /\ todo'[1] = <<"sync_tmp", j>>
    BY <1>1, <1>3, RestNone DEF Types, CallShape, Linked, Pipe, After
  <2>4. QED
    BY <2>1, <2>2, <2>3
<1>5. Live /\ state # "off" /\ (j # "create" => state = "open")
  <2>1. j = "create" => Head1(Pipe, {"create"})
    BY <1>1, <1>3, <1>4 DEF Head1, Pipe
  <2>2. j # "create" => state = "open"
    BY <1>1, <1>3, Opened DEF Types
  <2>3. state # "off"
    BY <1>3 DEF Types, CallShape
  <2>4. QED
    BY <2>1, <2>2, <2>3 DEF Live
<1>6. /\ Alike(disk, disk', stale, R, R) /\ Stable(disk, disk', stale, Inodes)
      /\ Kept(disk', stale) \subseteq Inodes
      /\ DOMAIN disk'.names = DOMAIN disk.names \cup {Tmp}
      /\ disk'.view[disk'.names[Tmp]][1] = Memory'
      /\ \A a \in DOMAIN disk.names \ {Tmp} :
             disk'.names[a] = disk.names[a] /\ disk'.view[disk.names[a]] = disk.view[disk.names[a]]
  BY <1>1, TmpWritten
<1>7. /\ db' \in GsStore(1 .. txns, Len(hist)) /\ db'.log = db.log /\ db'.spare = db.spare
      /\ db'.fl = db.fl /\ db'.next = db.next /\ db'.new = {}
      /\ db'.files \subseteq db.files \cup db.new
      /\ j = "flush" => db'.first = db.fl + 1
      /\ j # "flush" => db'.first = db.first
      /\ db'.comp = db.comp
      /\ \A f \in db'.files : f.num \in FileNums
  BY <1>1, <1>3, VersionTypes
<1>8. Manifest \in R /\ (\A n \in FileNums : Sst(n) \in R /\ Class(Sst(n)) = "sst") /\ (\A k \in LogNums : Log(k) \in R)
  BY <1>1, NameFacts
<1>9. \A S, J : Head1(S, J)' <=> "sync_tmp" \in S /\ j \in J
  BY <1>4 DEF Head1
<1>10. \A S, J : Head1(S, J) <=> "manifest" \in S /\ j \in J
  BY <1>1, <1>3 DEF Head1
<1>11. Wholes'
  <2>1. \A N \in Worlds(disk, stale) : Whole(disk, stale, N)
    BY DEF Naming, Wholes
  <2>2. ASSUME NEW N \in Worlds(disk, stale) PROVE DOMAIN N \cap Needs(disk, N) \subseteq R
    <3>1. DOMAIN N \subseteq Name
      BY WorldNames DEF Namespace, Types
    <3>2. Tmp \notin Needs(disk, N)
      BY NameFacts DEF Needs
    <3>3. QED
      BY <1>1, <3>1, <3>2
  <2>3. \A N \in Worlds(disk', stale) : Whole(disk', stale, N)
    BY <1>6, <1>8, <2>1, <2>2, WholesKept
  <2>4. QED
    BY <1>3, <2>3 DEF Wholes
<1>12. \A M \in Worlds(disk', stale) : \E N \in Worlds(disk, stale) : Near(N, M, R, R)
  BY <1>6 DEF Alike
<1>13. Calm'
  BY <1>3, <1>5, <1>9 DEF Calm
<1>14. Present'
  <2>1. state' = "open" => \A N \in Worlds(disk', stale) : Manifest \in DOMAIN N
    BY <1>3, <1>8, <1>12 DEF Naming, Present, Near
  <2>2. ASSUME NEW M \in Worlds(disk', stale), Manifest \notin DOMAIN M, NEW n \in FileNums
        PROVE  Sst(n) \notin DOMAIN M
    <3>1. PICK N \in Worlds(disk, stale) : Near(N, M, R, R)
      BY <1>12
    <3>2. Manifest \notin DOMAIN N
      BY <1>8, <2>2, <3>1 DEF Near
    <3>3. QED
      BY <1>8, <3>1, <3>2 DEF Near, Naming, Present
  <2>3. QED
    BY <1>3, <2>1, <2>2 DEF Present
<1>15. Below'
  <2>1. SUFFICES ASSUME NEW n \in FileNums, Sst(n) \in DOMAIN disk'.names PROVE n < db.next
    BY <1>7 DEF Below
  <2>2. Sst(n) \in DOMAIN disk.names
    BY <1>6, <2>1, NameFacts
  <2>3. QED
    BY <1>5, <2>2 DEF Naming, Below
<1>16. Creating'
  <2>1. SUFFICES ASSUME j = "create" PROVE db' = NewStore
    BY <1>9 DEF Creating
  <2>2. db = NewStore
    BY <1>10, <2>1 DEF Naming, Creating, Pipe
  <2>3. db' = [NewStore EXCEPT !.files = {f \in NewStore.files : TRUE} \cup NewStore.new, !.new = {}]
    BY <1>3, <2>1, <2>2 DEF NextVersion
  <2>4. {f \in NewStore.files : TRUE} \cup NewStore.new = {}
    BY DEF NewStore
  <2>5. QED
    BY <2>3, <2>4 DEF NewStore
<1>17. \A f \in db.files :
         /\ f.num < db.next /\ f.num \in FileNums
         /\ Fixed(disk', stale, Sst(f.num)) /\ Sst(f.num) \in DOMAIN disk'.names
         /\ Settled(disk', stale, disk'.names[Sst(f.num)]) /\ disk'.view[disk'.names[Sst(f.num)]][1] = f.txns
  <2>1. SUFFICES ASSUME NEW f \in db.files
                 PROVE  /\ f.num < db.next /\ f.num \in FileNums
                        /\ Fixed(disk', stale, Sst(f.num)) /\ Sst(f.num) \in DOMAIN disk'.names
                        /\ Settled(disk', stale, disk'.names[Sst(f.num)])
                        /\ disk'.view[disk'.names[Sst(f.num)]][1] = f.txns
    OBVIOUS
  <2>2. PICK w : w = Sst(f.num)
    OBVIOUS
  <2>3. f.num \in FileNums /\ w \in R /\ Class(w) = "sst"
    BY <1>8, <2>2, OwnNames
  <2>4. /\ f.num < db.next /\ w \in DOMAIN disk.names /\ Settled(disk, stale, disk.names[w])
        /\ disk.view[disk.names[w]][1] = f.txns /\ Fixed(disk, stale, w)
    BY <1>5, <1>10, <2>2 DEF Naming, Filed
  <2>5. Fixed(disk', stale, w)
    BY <1>6, <2>3, <2>4, FixedKept
  <2>6. DiskShape(disk')
    BY <1>2 DEF Types
  <2>7. /\ w \in DOMAIN disk'.names /\ Settled(disk', stale, disk'.names[w])
        /\ disk'.view[disk'.names[w]][1] = disk.view[disk.names[w]][1]
    BY <1>6, <2>3, <2>4, <2>6, FileKept
  <2>8. QED
    BY <2>2, <2>3, <2>4, <2>5, <2>7
<1>18. \A f \in db.new :
         /\ j \in Builders /\ f.num + 1 = db.next /\ f.num \in FileNums /\ Sst(f.num) \in DOMAIN disk'.names
         /\ Settled(disk', stale, disk'.names[Sst(f.num)]) /\ disk'.view[disk'.names[Sst(f.num)]][1] = f.txns
         /\ \A g \in db.files : g.num < f.num
  <2>1. SUFFICES ASSUME NEW f \in db.new
                 PROVE  /\ j \in Builders /\ f.num + 1 = db.next /\ f.num \in FileNums
                        /\ Sst(f.num) \in DOMAIN disk'.names
                        /\ Settled(disk', stale, disk'.names[Sst(f.num)])
                        /\ disk'.view[disk'.names[Sst(f.num)]][1] = f.txns
                        /\ \A g \in db.files : g.num < f.num
    OBVIOUS
  <2>2. j \in Builders
    BY <1>5, <1>10, <2>1 DEF Naming, Built
  <2>3. PICK n \in FileNums :
          /\ db.next = n + 1 /\ Sst(n) \in DOMAIN disk.names
          /\ db.new = {[num |-> n, txns |-> disk.view[disk.names[Sst(n)]][1]]}
          /\ Settled(disk, stale, disk.names[Sst(n)])
          /\ \A g \in db.files : g.num < n
    BY <1>3, <1>5, <1>10, <2>2 DEF Naming, Built
  <2>4. f.num = n /\ f.txns = disk.view[disk.names[Sst(n)]][1]
    BY <2>3
  <2>5. PICK w : w = Sst(n)
    OBVIOUS
  <2>6. w \in R /\ Class(w) = "sst" /\ w \in DOMAIN disk.names /\ Settled(disk, stale, disk.names[w])
    BY <1>8, <2>3, <2>5
  <2>7. DiskShape(disk')
    BY <1>2 DEF Types
  <2>8. /\ w \in DOMAIN disk'.names /\ Settled(disk', stale, disk'.names[w])
        /\ disk'.view[disk'.names[w]][1] = disk.view[disk.names[w]][1]
    BY <1>6, <2>6, <2>7, FileKept
  <2>9. QED
    BY <2>2, <2>3, <2>4, <2>5, <2>8
<1>19. Filed'
  <2>1. SUFFICES ASSUME NEW f \in db'.files
                 PROVE  /\ f.num < db'.next /\ Sst(f.num) \in DOMAIN disk'.names
                        /\ Settled(disk', stale', disk'.names[Sst(f.num)])
                        /\ disk'.view[disk'.names[Sst(f.num)]][1] = f.txns
                        /\ \/ Fixed(disk', stale', Sst(f.num))
                           \/ f.num + 1 = db'.next /\ Head1({"sync_tmp", "sync_new"}, Builders)'
    BY DEF Filed
  <2>2. CASE f \in db.files
    BY <1>3, <1>7, <1>17, <2>2
  <2>3. CASE f \in db.new
    <3>1. f.num \in Nat /\ f.num + 1 = db.next
      BY <1>18, <2>3, Numbers
    <3>2. f.num < db.next
      BY <3>1
    <3>3. Head1({"sync_tmp", "sync_new"}, Builders)'
      BY <1>9, <1>18, <2>3
    <3>4. QED
      BY <1>3, <1>7, <1>18, <2>3, <3>1, <3>2, <3>3
  <2>4. QED
    BY <1>7, <2>2, <2>3
<1>20. Built'
  BY <1>7, <1>9 DEF Built
<1>21. Picked'
  <2>1. db.comp \subseteq Nums
    BY <1>5, <1>10 DEF Naming, Picked
  <2>2. PICK F : F = {f \in db.files : j = "compact" => f.num \notin db.comp}
    OBVIOUS
  <2>3. db'.files = F \cup db.new
    <3>1. PICK G : G = F \cup db.new
      OBVIOUS
    <3>2. db' = IF j = "flush" THEN [db EXCEPT !.files = G, !.new = {}, !.imm = {}, !.first = db.fl + 1]
                ELSE [db EXCEPT !.files = G, !.new = {}]
      BY <1>3, <2>2, <3>1 DEF NextVersion
    <3>3. db'.files = G
      BY <3>2 DEF Types, StateOK, GsStore
    <3>4. QED
      BY <3>1, <3>3
  <2>4. CASE j = "compact"
    <3>1. ASSUME NEW f \in db'.files PROVE f.num \notin db'.comp
      <4>1. CASE f \in db.new
        <5>1. \A g \in db.files : g.num < f.num /\ g.num \in Nat /\ f.num \in Nat
          BY <1>17, <1>18, <4>1, Numbers
        <5>2. \A g \in db.files : g.num # f.num
          BY <5>1
        <5>3. QED
          BY <1>7, <2>1, <5>2 DEF Nums
      <4>2. CASE f \in F
        BY <1>7, <2>2, <2>4, <4>2
      <4>3. QED
        BY <2>3, <4>1, <4>2
    <3>2. db'.comp \cap Nums' = {}
      BY <3>1 DEF Nums
    <3>3. QED
      BY <1>9, <2>4, <3>2 DEF Picked, Pipe
  <2>5. CASE j # "compact"
    <3>1. db.files \subseteq db'.files
      BY <2>2, <2>3, <2>5
    <3>2. db'.comp \subseteq Nums'
      BY <1>7, <2>1, <3>1 DEF Nums
    <3>3. QED
      BY <1>9, <2>5, <3>2 DEF Picked
  <2>6. QED
    BY <2>4, <2>5
<1>22. Placed'
  BY <1>6, <1>9 DEF Placed
<1>23. LogsNamed'
  <2>1. db.first <= db.log /\ db.first \in Nat /\ db.log \in Nat /\ db'.first <= db'.log /\ db.first <= db'.first
        /\ (j = "flush" => db'.first = db'.log) /\ db'.first \in Nat
    <3>1. db.first <= db.log /\ db.first \in Nat /\ db.log \in Nat
      BY <1>5, OwnNames, Numbers DEF Naming, LogsNamed
    <3>2. j = "flush" => db.fl + 1 = db.log
      <4>1. j = "flush" => db.fl # 0
        BY <1>10 DEF Types, CallShape, Pipe
      <4>2. QED
        BY <4>1 DEF Types, LogShape
    <3>3. QED
      BY <1>7, <3>1, <3>2
  <2>2. ASSUME NEW k \in db'.first .. db'.log
        PROVE  /\ Log(k) \in DOMAIN disk'.names
               /\ \/ Fixed(disk', stale', Log(k))
                  \/ Head1({"manifest", "sync_tmp", "sync_new"}, {"create"})'
    <3>1. k \in db.first .. db.log
      BY <1>7, <2>1
    <3>2. /\ Log(k) \in DOMAIN disk.names /\ k \in LogNums
          /\ Fixed(disk, stale, Log(k)) \/ Head1({"manifest", "sync_tmp", "sync_new"}, {"create"})
      BY <1>5, <3>1, OwnNames DEF Naming, LogsNamed
    <3>3. Log(k) \in DOMAIN disk'.names
      BY <1>6, <3>2
    <3>4. CASE Fixed(disk, stale, Log(k))
      <4>1. Fixed(disk', stale, Log(k))
        BY <1>6, <1>8, <3>2, <3>4, FixedKept
      <4>2. QED
        BY <1>3, <3>3, <4>1
    <3>5. CASE Head1({"manifest", "sync_tmp", "sync_new"}, {"create"})
      BY <1>9, <1>10, <3>3, <3>5
    <3>6. QED
      BY <3>2, <3>4, <3>5
  <2>3. db'.spare = "ready" => Fixed(disk', stale', Log(db'.log + 1))
    <3>1. SUFFICES ASSUME db.spare = "ready" PROVE Fixed(disk', stale', Log(db.log + 1))
      BY <1>7
    <3>2. Fixed(disk, stale, Log(db.log + 1)) /\ db.log + 1 \in LogNums
      BY <1>5, <3>1, OwnNames DEF Naming, LogsNamed
    <3>3. Fixed(disk', stale, Log(db.log + 1))
      BY <1>6, <1>8, <3>2, FixedKept
    <3>4. QED
      BY <1>3, <3>3
  <2>4. QED
    BY <1>9, <2>1, <2>2, <2>3 DEF LogsNamed
<1>24. QED
  BY <1>11, <1>13, <1>14, <1>15, <1>16, <1>19, <1>20, <1>21, <1>22, <1>23 DEF Naming

\* manifest_write's rename.
LEMMA RenameManifestNaming ==
  ASSUME Types, Naming, RenameManifest
  PROVE  Naming'
<1>1. PICK d, e, N, M, j : d = disk /\ e = disk' /\ N = disk.names /\ M = disk'.names /\ j = todo[1][2]
  OBVIOUS
<1>2. Types'
  BY RenameManifestTypes
<1>3. /\ todo # <<>> /\ todo[1][1] = "rename" /\ UNCHANGED <<db, state, stale>>
      /\ e = Rename(d, Tmp, Manifest) /\ Rest(<<>>)
  BY <1>1 DEF RenameManifest, At
<1>4. /\ j \in Builders \cup {"create", "move"} /\ todo' # <<>> /\ todo'[1] = <<"sync_name", j>>
  <2>1. todo[1] \in StepOf
    BY <1>3, PathTail DEF Types, CallShape
  <2>2. j \in Builders \cup {"create", "move"}
    BY <1>1, <1>3, <2>1 DEF StepOf, Calls
  <2>3. todo' # <<>> /\ todo'[1] = <<"sync_name", j>>
    BY <1>1, <1>3, RestNone DEF Types, CallShape, Linked, Pipe, After
  <2>4. QED
    BY <2>2, <2>3
<1>5. \A S, J : Head1(S, J)' <=> "sync_name" \in S /\ j \in J
  BY <1>4 DEF Head1
<1>6. \A S, J : Head1(S, J) <=> "rename" \in S /\ j \in J
  BY <1>1, <1>3 DEF Head1
<1>7. Live /\ state # "off" /\ (j # "create" => state = "open")
  <2>1. j = "create" => Head1(Pipe, {"create"})
    BY <1>6 DEF Pipe
  <2>2. j # "create" => state = "open"
    BY <1>1, <1>3, Opened DEF Types
  <2>3. state # "off"
    BY <1>3 DEF Types, CallShape
  <2>4. QED
    BY <2>1, <2>2, <2>3 DEF Live
<1>8. /\ Tmp \in DOMAIN N /\ d.view[N[Tmp]][1] = Memory /\ Settled(d, stale, N[Tmp]) /\ Worlds(d, stale) = {N}
  BY <1>1, <1>4, <1>6 DEF Naming, Placed
<1>9. Namespace(N) /\ DiskShape(d)
  BY <1>1 DEF Types, DiskShape
<1>10. /\ e.view = d.view /\ e.dur = d.dur /\ e.dirty = d.dirty
       /\ M = Renamed(N, Tmp, Manifest) /\ e.maybe = d.maybe \cup {Renamed(L, Tmp, Manifest) : L \in d.maybe}
  BY <1>1, <1>3, <1>8, <1>9, NameFacts, RenameEffect DEF Exists
<1>11. \A L \in Worlds(e, stale) : L \in {N, M}
  <2>1. CASE stale
    BY <1>1, <2>1 DEF Worlds
  <2>2. CASE ~stale
    <3>1. d.maybe = {N} /\ Worlds(e, stale) = e.maybe
      BY <1>8, <2>2 DEF Worlds
    <3>2. QED
      BY <1>10, <3>1
  <2>3. QED
    BY <2>1, <2>2
<1>12. /\ DOMAIN M = (DOMAIN N \ {Tmp}) \cup {Manifest} /\ M[Manifest] = N[Tmp] /\ N[Tmp] \in Inodes
       /\ \A a \in DOMAIN N \ {Tmp, Manifest} : M[a] = N[a]
  <2>1. PICK n, m : n = Tmp /\ m = Manifest
    OBVIOUS
  <2>2. n \in Name /\ m \in Name /\ n \in DOMAIN N /\ M = Renamed(N, n, m)
    BY <1>8, <1>10, <2>1, NameFacts
  <2>3. /\ DOMAIN Renamed(N, n, m) = (DOMAIN N \ {n}) \cup {m}
        /\ Renamed(N, n, m)[m] = N[n] /\ N[n] \in Inodes
        /\ \A a \in DOMAIN N \ {n, m} : Renamed(N, n, m)[a] = N[a]
    BY <1>9, <2>2, RenamedNames
  <2>4. QED
    BY <2>1, <2>2, <2>3
<1>13. Stable(d, e, stale, Inodes)
  BY <1>10, StableNames
<1>14. ASSUME NEW a \in DOMAIN N \ {Tmp, Manifest}
       PROVE  Fixed(e, stale, a) /\ e.names[a] = d.names[a] /\ e.view[e.names[a]] = d.view[d.names[a]]
              /\ (Settled(d, stale, d.names[a]) => Settled(e, stale, e.names[a]))
  <2>1. a \in DOMAIN M /\ M[a] = N[a] /\ N[a] \in Inodes
    BY <1>9, <1>12 DEF Namespace
  <2>2. Fixed(e, stale, a)
    BY <1>1, <1>11, <2>1 DEF Fixed
  <2>3. QED
    BY <1>1, <1>10, <1>13, <2>1, <2>2 DEF Stable
<1>15. ASSUME NEW f \in db.files
       PROVE  /\ f.num < db.next /\ Sst(f.num) \in DOMAIN N \ {Tmp, Manifest}
              /\ Settled(d, stale, d.names[Sst(f.num)]) /\ d.view[d.names[Sst(f.num)]][1] = f.txns
  BY <1>1, <1>7, NameFacts DEF Naming, Filed
<1>16. /\ db.first <= db.log /\ db.first \in Nat /\ db.log \in Nat
       /\ \A k \in db.first .. db.log : Log(k) \in DOMAIN N \ {Tmp, Manifest}
  BY <1>1, <1>7, OwnNames, Numbers, NameFacts DEF Naming, LogsNamed
<1>17. Wholes'
  <2>1. Whole(e, stale, N)
    <3>1. Near(N, N, Name, Name)
      BY DEF Near
    <3>2. Whole(d, stale, N)
      BY <1>1, <1>8 DEF Naming, Wholes
    <3>3. \A a \in DOMAIN N : N[a] \in Inodes
      BY <1>9 DEF Namespace
    <3>4. DOMAIN N \cap Needs(d, N) \subseteq Name
      BY <1>9 DEF Namespace
    <3>5. QED
      BY <1>13, <3>1, <3>2, <3>3, <3>4, NameFacts, WholeKept
  <2>2. Whole(e, stale, M)
    <3>1. Settled(e, stale, M[Manifest]) /\ e.view[M[Manifest]][1] = Memory
      BY <1>8, <1>10, <1>12, <1>13 DEF Stable
    <3>2. Memory.files = Nums /\ Memory.first = db.first
      BY DEF Memory
    <3>3. ASSUME NEW n \in Nums PROVE Sst(n) \in DOMAIN M /\ Settled(e, stale, M[Sst(n)])
      <4>1. PICK f \in db.files : n = f.num
        BY DEF Nums
      <4>2. QED
        BY <1>1, <1>12, <1>14, <1>15, <4>1
    <3>4. Log(db.first) \in DOMAIN M
      <4>1. db.first \in db.first .. db.log
        BY <1>16
      <4>2. QED
        BY <1>12, <1>16, <4>1
    <3>5. QED
      BY <3>1, <3>2, <3>3, <3>4 DEF Whole
  <2>3. QED
    BY <1>1, <1>3, <1>11, <2>1, <2>2 DEF Wholes
<1>18. Calm' /\ Creating' /\ Built' /\ Picked'
  <2>1. Calm'
    BY <1>3, <1>5, <1>7 DEF Calm
  <2>2. Creating'
    BY <1>3, <1>5, <1>6 DEF Naming, Creating, Pipe
  <2>3. Built'
    BY <1>3, <1>5, <1>6, <1>7 DEF Naming, Built
  <2>4. Picked'
    BY <1>3, <1>5, <1>6, <1>7 DEF Naming, Picked, Pipe, Nums
  <2>5. QED
    BY <2>1, <2>2, <2>3, <2>4
<1>19. Present'
  <2>1. N \in Worlds(disk, stale)
    BY <1>1, <1>8
  <2>2. state = "open" => Manifest \in DOMAIN N
    BY <2>1 DEF Naming, Present
  <2>3. Manifest \in DOMAIN N \/ \A n \in FileNums : Sst(n) \notin DOMAIN N
    BY <2>1 DEF Naming, Present
  <2>4. Manifest \in DOMAIN M
    BY <1>12
  <2>5. QED
    BY <1>1, <1>3, <1>11, <2>2, <2>3, <2>4 DEF Present
<1>20. Below'
  <2>1. SUFFICES ASSUME NEW n \in FileNums, Sst(n) \in DOMAIN M PROVE n < db.next
    BY <1>1, <1>3 DEF Below
  <2>2. Sst(n) \in DOMAIN disk.names
    BY <1>1, <1>12, <2>1, NameFacts
  <2>3. QED
    BY <1>7, <2>2 DEF Naming, Below
<1>21. Filed'
  BY <1>1, <1>3, <1>14, <1>15 DEF Filed, Fixed
<1>22. Placed'
  <2>1. Manifest \in DOMAIN M /\ e.view[M[Manifest]][1] = Memory
    BY <1>8, <1>10, <1>12
  <2>2. Memory' = Memory
    BY <1>3 DEF Memory, Nums
  <2>3. QED
    BY <1>1, <1>5, <2>1, <2>2 DEF Placed
<1>23. LogsNamed'
  <2>1. \A k \in db.first .. db.log : Log(k) \in DOMAIN M /\ Fixed(e, stale, Log(k))
    BY <1>1, <1>14, <1>16 DEF Fixed
  <2>2. db.spare = "ready" => Fixed(e, stale, Log(db.log + 1))
    <3>1. SUFFICES ASSUME db.spare = "ready" PROVE Fixed(e, stale, Log(db.log + 1))
      OBVIOUS
    <3>2. Fixed(d, stale, Log(db.log + 1))
      BY <1>1, <1>7, <3>1 DEF Naming, LogsNamed
    <3>3. Log(db.log + 1) \in DOMAIN N \ {Tmp, Manifest}
      BY <1>1, <3>2, NameFacts DEF Fixed
    <3>4. QED
      BY <1>14, <3>3
  <2>3. j = "flush" => db.first = db.log
    BY <1>6, <1>7 DEF Naming, LogsNamed, Pipe
  <2>4. QED
    BY <1>1, <1>3, <1>5, <1>16, <2>1, <2>2, <2>3 DEF LogsNamed
<1>24. QED
  BY <1>17, <1>18, <1>19, <1>20, <1>21, <1>22, <1>23 DEF Naming

\* Once the manifest's name is durable there is one namespace, and the store is as between two manifests.
LEMMA InstalledReady ==
  ASSUME Types, Naming, todo # <<>>, todo[1][1] = "installed",
         NEW b, b.files = db.files, b.new = db.new, b.next = db.next, b.first = db.first, b.log = db.log,
         b.spare = db.spare, b.comp = IF todo[1][2] = "compact" THEN {} ELSE db.comp
  PROVE  /\ Ready(disk, b, stale) /\ Live /\ Worlds(disk, stale) = {disk.names}
         /\ disk.view[disk.names[Manifest]][1] = Memory
         /\ todo[1][2] = "flush" => db.first = db.log
         /\ todo[1][2] = "compact" => db.comp \cap Nums = {}
<1>1. PICK j : j = todo[1][2]
  OBVIOUS
<1>2. j \in Builders \cup {"create", "move"}
  <2>1. todo[1] \in StepOf
    BY PathTail DEF Types, CallShape
  <2>2. QED
    BY <1>1, <2>1 DEF StepOf, Calls
<1>3. \A S, J : Head1(S, J) <=> "installed" \in S /\ j \in J
  BY <1>1 DEF Head1
<1>4. Live
  <2>1. j = "create" => Head1(Pipe, {"create"})
    BY <1>3 DEF Pipe
  <2>2. j # "create" => state = "open"
    BY <1>1, Opened DEF Types
  <2>3. QED
    BY <2>1, <2>2 DEF Live
<1>5. /\ Manifest \in DOMAIN disk.names /\ disk.view[disk.names[Manifest]][1] = Memory
      /\ Worlds(disk, stale) = {disk.names}
  BY <1>2, <1>3 DEF Naming, Placed
<1>6. \A N \in Worlds(disk, stale) : Whole(disk, stale, N) /\ Manifest \in DOMAIN N
  BY <1>5 DEF Naming, Wholes
<1>7. \A f \in b.files :
        /\ f.num < b.next /\ Fixed(disk, stale, Sst(f.num))
        /\ Settled(disk, stale, disk.names[Sst(f.num)]) /\ disk.view[disk.names[Sst(f.num)]][1] = f.txns
  BY <1>3, <1>4 DEF Naming, Filed
<1>8. j = "compact" => db.comp \cap Nums = {}
  BY <1>3, <1>4 DEF Naming, Picked, Pipe
<1>9. b.new = {} /\ b.comp \subseteq {f.num : f \in b.files}
  <2>1. b.new = {}
    BY <1>3, <1>4 DEF Naming, Built
  <2>2. j # "compact" => db.comp \subseteq Nums
    BY <1>3, <1>4 DEF Naming, Picked
  <2>3. QED
    BY <1>1, <2>1, <2>2 DEF Nums
<1>10. /\ b.first <= b.log /\ \A k \in b.first .. b.log : Fixed(disk, stale, Log(k))
       /\ b.spare = "ready" => Fixed(disk, stale, Log(b.log + 1))
       /\ j = "flush" => db.first = db.log
  BY <1>3, <1>4 DEF Naming, LogsNamed, Pipe
<1>11. Ready(disk, b, stale)
  <2>1. b.spare = "ready" => Fixed(disk, stale, Log(b.log + 1))
    BY <1>10
  <2>2. b.first <= b.log /\ \A k \in b.first .. b.log : Fixed(disk, stale, Log(k))
    BY <1>10
  <2>3. QED
    BY <1>6, <1>7, <1>9, <2>1, <2>2 DEF Ready
<1>12. QED
  BY <1>1, <1>4, <1>5, <1>8, <1>10, <1>11

\* The end of flush_install takes the logs that are no longer needed.
LEMMA RecycleAlike ==
  ASSUME Types, db.fl # 0, Recycle
  PROVE  \E P, Q \in SUBSET Name :
           /\ Alike(disk, disk', stale, P, Q) /\ Stable(disk, disk', stale, Inodes)
           /\ Manifest \in P /\ Manifest \in Q /\ \A n \in FileNums : Sst(n) \in P /\ Sst(n) \in Q
           /\ Log(db.log) \in P /\ (db.spare # "none" => Log(db.log + 1) \in P)
           /\ \E r : /\ db' = [db EXCEPT !.fl = 0, !.spare = r] /\ (r = "ready" => db.spare = "ready")
<1>1. PICK keep \in BOOLEAN :
        LET last == Log(db.fl)
            to   == Log(db.log + 1)
            gone == {Log(k) : k \in {j \in LogNums : j <= db.fl}}
            took == IF db.spare # "none" THEN disk
                    ELSE IF keep THEN Rename(disk, last, to)
                    ELSE Unlink(Rename(disk, last, to), to)
        IN /\ db.log < MaxLog
           /\ disk' = UnlinkAll(took, gone)
           /\ db' = [db EXCEPT !.fl = 0, !.spare = IF @ = "none" /\ keep THEN "made" ELSE @]
  BY DEF Recycle
<1>2. PICK a, b, gone : a = Log(db.fl) /\ b = Log(db.log + 1) /\ gone = {Log(k) : k \in {j \in LogNums : j <= db.fl}}
  OBVIOUS
<1>3. PICK d, d1, d2, took : /\ d = disk /\ d1 = Rename(d, a, b) /\ d2 = UnlinkAll(d1, {b})
                             /\ took = IF db.spare # "none" THEN d ELSE IF keep THEN d1 ELSE d2
  OBVIOUS
<1>4. disk' = UnlinkAll(took, gone) /\ db.log < MaxLog
      /\ db' = [db EXCEPT !.fl = 0, !.spare = IF @ = "none" /\ keep THEN "made" ELSE @]
  BY <1>1, <1>2, <1>3 DEF Unlink
<1>5. db.log \in LogNums /\ db.fl \in LogNums /\ db.log + 1 \in LogNums /\ db.fl + 1 = db.log
  <2>1. db.log \in LogNums /\ db.fl \in 0 .. MaxLog
    BY DEF Types, StateOK, GsStore
  <2>2. db.fl + 1 = db.log
    BY DEF Types, LogShape
  <2>3. QED
    BY <1>4, <2>1, <2>2, Numbers DEF LogNums
<1>6. a \in Name /\ b \in Name /\ Class(a) = Class(b)
  BY <1>2, <1>5, NameFacts
<1>7. /\ Log(db.log) \in Name \ {a, b} /\ Log(db.log) \notin gone /\ b \notin gone
  BY <1>2, <1>5, Numbers, NameFacts
<1>8. DiskShape(d) /\ DiskKinds(d, opens, txns)
  BY <1>3 DEF Types
<1>9. /\ DiskShape(d1) /\ Alike(d, d1, stale, Name \ {a, b}, Name \ {b}) /\ Stable(d, d1, stale, Inodes)
  BY <1>3, <1>6, <1>8, MovedFile, AlikeRename, StableRename
<1>10. /\ DiskShape(d2) /\ Alike(d, d2, stale, Name \ {a, b}, Name \ {b}) /\ Stable(d, d2, stale, Inodes)
  <2>1. DiskShape(d2)
    BY <1>3, <1>9, UnlinkEffect
  <2>2. Alike(d1, d2, stale, Name \ {b}, Name) /\ Stable(d1, d2, stale, Inodes)
    BY <1>3, <1>9, AlikeUnlink, StableUnlink
  <2>3. (Name \ {a, b}) \cap (Name \ {b}) = Name \ {a, b} /\ (Name \ {b}) \cap Name = Name \ {b}
        /\ Inodes \cap Inodes = Inodes
    OBVIOUS
  <2>4. Alike(d, d2, stale, Name \ {a, b}, Name \ {b})
    BY <1>9, <2>2, <2>3, AlikeTwice
  <2>5. Stable(d, d2, stale, Inodes)
    BY <1>9, <2>2, <2>3, StableTwice
  <2>6. QED
    BY <2>1, <2>4, <2>5
<1>11. PICK P0, Q0 : P0 = (IF db.spare = "none" THEN Name \ {a, b} ELSE Name) /\ Q0 = Name \ {b}
  OBVIOUS
<1>12. DiskShape(took) /\ Alike(d, took, stale, P0, Q0) /\ Stable(d, took, stale, Inodes)
  <2>1. CASE db.spare # "none"
    <3>1. took = d /\ P0 = Name
      BY <1>3, <1>11, <2>1
    <3>2. Alike(d, d, stale, P0, Q0)
      BY AlikeSame
    <3>3. Stable(d, d, stale, Inodes)
      BY StableNames
    <3>4. QED
      BY <1>8, <3>1, <3>2, <3>3
  <2>2. CASE db.spare = "none" /\ keep
    BY <1>3, <1>9, <1>11, <2>2
  <2>3. CASE db.spare = "none" /\ ~keep
    BY <1>3, <1>10, <1>11, <2>3
  <2>4. QED
    BY <2>1, <2>2, <2>3
<1>13. Alike(took, disk', stale, Name \ gone, Name) /\ Stable(took, disk', stale, Inodes)
  BY <1>4, <1>12, AlikeUnlink, StableUnlink
<1>14. PICK P : P = P0 \cap (Name \ gone)
  OBVIOUS
<1>15. Alike(disk, disk', stale, P, Q0) /\ Stable(disk, disk', stale, Inodes)
  <2>1. Q0 \cap Name = Q0 /\ Inodes \cap Inodes = Inodes
    BY <1>11
  <2>2. Alike(d, disk', stale, P, Q0)
    BY <1>12, <1>13, <1>14, <2>1, AlikeTwice
  <2>3. Stable(d, disk', stale, Inodes)
    BY <1>12, <1>13, <2>1, StableTwice
  <2>4. QED
    BY <1>3, <2>2, <2>3
<1>16. Manifest \in P /\ Manifest \in Q0 /\ \A n \in FileNums : Sst(n) \in P /\ Sst(n) \in Q0
  BY <1>2, <1>11, <1>14, NameFacts
<1>17. Log(db.log) \in P /\ (db.spare # "none" => Log(db.log + 1) \in P)
  BY <1>2, <1>6, <1>7, <1>11, <1>14
<1>18. \E r : /\ db' = [db EXCEPT !.fl = 0, !.spare = r] /\ (r = "ready" => db.spare = "ready")
  <2>1. PICK r : r = IF db.spare = "none" /\ keep THEN "made" ELSE db.spare
    OBVIOUS
  <2>2. db' = [db EXCEPT !.fl = 0, !.spare = r] /\ (r = "ready" => db.spare = "ready")
    BY <1>4, <2>1 DEF Types, StateOK, GsStore
  <2>3. QED
    BY <2>2
<1>19. P \in SUBSET Name /\ Q0 \in SUBSET Name
  BY <1>11, <1>14
<1>20. QED
  BY <1>15, <1>16, <1>17, <1>18, <1>19

\* What follows a durable manifest.
LEMMA InstalledNaming ==
  ASSUME Types, Naming, Installed
  PROVE  Naming'
<1>1. PICK j : j = todo[1][2]
  OBVIOUS
<1>2. Types'
  BY InstalledTypes
<1>3. /\ todo # <<>> /\ todo[1][1] = "installed" /\ UNCHANGED stale /\ state' = "open" /\ Rest(<<>>)
      /\ \/ j = "flush" /\ Recycle
         \/ /\ j = "compact"
            /\ disk' = UnlinkAll(disk, {Sst(n) : n \in db.comp})
            /\ db' = [db EXCEPT !.comp = {}]
         \/ j = "run" /\ Harden /\ UNCHANGED disk
         \/ j \in {"create", "move"} /\ UNCHANGED <<disk, db>>
  BY <1>1 DEF Installed, At, Job
<1>4. Idle'
  BY <1>3, IdleRest DEF Types
<1>6. db \in GsStore(1 .. txns, Len(hist))
  BY DEF Types, StateOK
<1>5. Live
  <2>1. PICK m : m = IF todo[1][2] = "compact" THEN {} ELSE db.comp
    OBVIOUS
  <2>2. PICK b : b = [db EXCEPT !.comp = m]
    OBVIOUS
  <2>3. /\ b.files = db.files /\ b.new = db.new /\ b.next = db.next /\ b.first = db.first /\ b.log = db.log
        /\ b.spare = db.spare /\ b.comp = m
    BY <1>6, <2>2 DEF GsStore
  <2>4. QED
    BY <1>3, <2>1, <2>3, InstalledReady
<1>7. ASSUME Ready(disk', db', stale), db'.next = db.next,
             \A n \in FileNums : Sst(n) \in DOMAIN disk'.names => Sst(n) \in DOMAIN disk.names
      PROVE  Naming'
  <2>1. Below'
    BY <1>5, <1>7 DEF Naming, Below
  <2>2. QED
    BY <1>2, <1>3, <1>4, <1>7, <2>1, IdleOut DEF Types
<1>8. CASE j \in {"create", "move"} /\ UNCHANGED <<disk, db>>
  <2>1. Ready(disk, db, stale)
    BY <1>1, <1>3, <1>8, InstalledReady
  <2>2. QED
    BY <1>7, <1>8, <2>1
<1>9. CASE j = "run" /\ Harden /\ UNCHANGED disk
  <2>1. PICK m : db' = [db EXCEPT !.durable = m]
    BY <1>9 DEF Harden
  <2>2. PICK b : b = db'
    OBVIOUS
  <2>3. /\ b.files = db.files /\ b.new = db.new /\ b.next = db.next /\ b.first = db.first /\ b.log = db.log
        /\ b.spare = db.spare /\ b.comp = db.comp
    BY <1>6, <2>1, <2>2 DEF GsStore
  <2>4. Ready(disk, b, stale)
    BY <1>1, <1>3, <1>9, <2>3, InstalledReady
  <2>5. QED
    BY <1>7, <1>9, <2>2, <2>3, <2>4
<1>10. CASE /\ j = "compact"
            /\ disk' = UnlinkAll(disk, {Sst(n) : n \in db.comp})
            /\ db' = [db EXCEPT !.comp = {}]
  <2>1. PICK d, e, b, G, P : d = disk /\ e = disk' /\ b = db' /\ G = {Sst(n) : n \in db.comp} /\ P = Name \ G
    OBVIOUS
  <2>2. /\ b.files = db.files /\ b.new = db.new /\ b.next = db.next /\ b.first = db.first /\ b.log = db.log
        /\ b.spare = db.spare /\ b.comp = {}
    BY <1>6, <1>10, <2>1 DEF GsStore
  <2>3. /\ Ready(disk, b, stale) /\ Worlds(disk, stale) = {disk.names}
        /\ disk.view[disk.names[Manifest]][1] = Memory /\ db.comp \cap Nums = {}
    BY <1>1, <1>3, <1>10, <2>2, InstalledReady
  <2>4. DiskShape(d) /\ DiskShape(e) /\ e = UnlinkAll(d, G)
    BY <1>2, <1>10, <2>1 DEF Types
  <2>5. Alike(d, e, stale, P, Name) /\ Stable(d, e, stale, Inodes) /\ Kept(e, stale) \subseteq Inodes
    BY <2>1, <2>4, AlikeUnlink, StableUnlink, KeptInodes
  <2>6. Manifest \in P /\ (\A k \in LogNums : Log(k) \in P) /\ (\A n \in Nums : n \in FileNums /\ Sst(n) \in P)
    <3>1. \A n \in Nums : n \in FileNums
      BY OwnNames DEF Nums
    <3>2. QED
      BY <2>1, <2>3, <3>1, NameFacts
  <2>7. \A N \in Worlds(d, stale) : DOMAIN N \cap Needs(d, N) \subseteq P
    <3>1. Needs(d, d.names) = {Manifest, Log(db.first)} \cup {Sst(n) : n \in Nums}
      BY <2>1, <2>3 DEF Needs, Memory
    <3>2. db.first \in LogNums
      BY OwnNames
    <3>3. QED
      BY <2>1, <2>3, <2>6, <3>1, <3>2
  <2>8. \A f \in b.files : Sst(f.num) \in P
    BY <2>2, <2>6 DEF Nums
  <2>9. (\A k \in b.first .. b.log : Log(k) \in P) /\ (b.spare = "ready" => Log(b.log + 1) \in P)
    BY <2>2, <2>6, OwnNames
  <2>10. Ready(d, b, stale) /\ Manifest \in Name
    BY <2>1, <2>3, NameFacts
  <2>11. Ready(e, b, stale)
    BY <2>4, <2>5, <2>6, <2>7, <2>8, <2>9, <2>10, ReadyKept
  <2>12. \A n \in FileNums : Sst(n) \in DOMAIN e.names => Sst(n) \in DOMAIN d.names
    BY <2>5, NameFacts DEF Alike, Near
  <2>13. QED
    BY <1>7, <2>1, <2>2, <2>11, <2>12
<1>11. CASE j = "flush" /\ Recycle
  <2>1. PICK d, e, b, c : d = disk /\ e = disk' /\ b = db /\ c = db'
    OBVIOUS
  <2>2. /\ Ready(disk, db, stale) /\ Worlds(disk, stale) = {disk.names}
        /\ disk.view[disk.names[Manifest]][1] = Memory /\ db.first = db.log
    BY <1>1, <1>3, <1>11, InstalledReady
  <2>3. db.fl # 0
    BY <1>1, <1>3, <1>11 DEF Types, CallShape, Head1, Pipe
  <2>4. PICK P, Q \in SUBSET Name :
           /\ Alike(disk, disk', stale, P, Q) /\ Stable(disk, disk', stale, Inodes)
           /\ Manifest \in P /\ Manifest \in Q /\ \A n \in FileNums : Sst(n) \in P /\ Sst(n) \in Q
           /\ Log(db.log) \in P /\ (db.spare # "none" => Log(db.log + 1) \in P)
           /\ \E r : /\ db' = [db EXCEPT !.fl = 0, !.spare = r] /\ (r = "ready" => db.spare = "ready")
    BY <1>11, <2>3, RecycleAlike
  <2>5. PICK r : db' = [db EXCEPT !.fl = 0, !.spare = r] /\ (r = "ready" => db.spare = "ready")
    BY <2>4
  <2>6. DiskShape(d) /\ DiskShape(e)
    BY <1>2, <2>1 DEF Types
  <2>7. Alike(d, e, stale, P, Q) /\ Stable(d, e, stale, Inodes) /\ Kept(e, stale) \subseteq Inodes
    BY <2>1, <2>4, <2>6, KeptInodes
  <2>8. \A n \in Nums : n \in FileNums /\ Sst(n) \in P
    BY <2>4, OwnNames DEF Nums
  <2>9. \A N \in Worlds(d, stale) : DOMAIN N \cap Needs(d, N) \subseteq P
    <3>1. Needs(d, d.names) = {Manifest, Log(db.first)} \cup {Sst(n) : n \in Nums}
      BY <2>1, <2>2 DEF Needs, Memory
    <3>2. QED
      BY <2>1, <2>2, <2>4, <2>8, <3>1
  <2>10. \A f \in b.files : Sst(f.num) \in P
    BY <2>1, <2>8 DEF Nums
  <2>11. \A k \in b.first .. b.log : Log(k) \in P
    <3>1. db.first \in Nat /\ db.log \in Nat
      BY OwnNames, Numbers
    <3>2. ASSUME NEW k \in b.first .. b.log PROVE k = db.log
      BY <2>1, <2>2, <3>1
    <3>3. QED
      BY <2>4, <3>2
  <2>12. b.spare = "ready" => Log(b.log + 1) \in P
    BY <2>1, <2>4
  <2>13. Ready(d, b, stale) /\ Manifest \in P /\ Manifest \in Q
    BY <2>1, <2>2, <2>4
  <2>14. Ready(e, b, stale)
    BY <2>6, <2>7, <2>9, <2>10, <2>11, <2>12, <2>13, ReadyKept
  <2>15. /\ c.files = b.files /\ c.new = b.new /\ c.comp = b.comp /\ c.next = b.next /\ c.first = b.first
         /\ c.log = b.log /\ c.spare = r
    BY <1>6, <2>1, <2>5 DEF GsStore
  <2>16. Ready(e, c, stale)
    <3>1. /\ c.new = {} /\ c.comp \subseteq {f.num : f \in b.files}
          /\ c.spare = "ready" => Fixed(e, stale, Log(b.log + 1))
      BY <2>1, <2>5, <2>14, <2>15 DEF Ready
    <3>2. b.log \in Nat /\ b.first \in Nat
      BY <2>1, OwnNames, Numbers
    <3>3. QED
      BY <2>14, <2>15, <3>1, <3>2, ReadyDb
  <2>17. \A n \in FileNums : Sst(n) \in DOMAIN e.names => Sst(n) \in DOMAIN d.names
    BY <2>4, <2>7 DEF Alike, Near
  <2>18. QED
    BY <1>7, <2>1, <2>15, <2>16, <2>17
<1>12. QED
  BY <1>3, <1>8, <1>9, <1>10, <1>11

\* A file is only built over a manifest, and an operation that keeps the manifest keeps it so.
LEMMA PresentKept ==
  ASSUME NEW d, NEW e, NEW st, NEW P, NEW Q, Alike(d, e, st, P, Q), Manifest \in P, \A n \in FileNums : Sst(n) \in Q,
         \A N \in Worlds(d, st) : Manifest \in DOMAIN N \/ \A n \in FileNums : Sst(n) \notin DOMAIN N
  PROVE  \A M \in Worlds(e, st) : Manifest \in DOMAIN M \/ \A n \in FileNums : Sst(n) \notin DOMAIN M
<1>1. SUFFICES ASSUME NEW M \in Worlds(e, st), Manifest \notin DOMAIN M, NEW n \in FileNums
               PROVE  Sst(n) \notin DOMAIN M
  OBVIOUS
<1>2. PICK N \in Worlds(d, st) : Near(N, M, P, Q)
  BY DEF Alike
<1>3. Manifest \notin DOMAIN N
  BY <1>1, <1>2 DEF Near
<1>4. QED
  BY <1>2, <1>3 DEF Near

\* An open takes the lease.
LEMMA OpenNaming ==
  ASSUME Types, Naming, Open
  PROVE  Naming'
<1>1. PICK d, c, e : d = disk /\ c = Create(disk, Lease) /\ e = disk'
  OBVIOUS
<1>2. /\ state = "off" /\ Room(d) /\ state' = "opening" /\ todo' = <<<<"recover", "create">>>>
      /\ UNCHANGED <<db, stale>> /\ (e = d \/ e = SyncDir(c))
  BY <1>1 DEF Open
<1>3. DiskShape(d) /\ Worlds(d, stale) = {d.names}
  BY <1>1, <1>2 DEF Types, Naming, Calm
<1>4. /\ \A N \in Worlds(d, stale) : Whole(d, stale, N)
      /\ \A N \in Worlds(d, stale) : Manifest \in DOMAIN N \/ \A n \in FileNums : Sst(n) \notin DOMAIN N
  BY <1>1 DEF Naming, Wholes, Present
<1>5. /\ \A N \in Worlds(e, stale) : Whole(e, stale, N)
      /\ \A N \in Worlds(e, stale) : Manifest \in DOMAIN N \/ \A n \in FileNums : Sst(n) \notin DOMAIN N
      /\ Worlds(e, stale) = {e.names}
  <2>1. CASE e = d
    BY <1>3, <1>4, <2>1
  <2>2. CASE e = SyncDir(c)
    <3>1. DiskShape(c) /\ Alike(d, c, stale, Name, Name \ {Lease}) /\ Stable(d, c, stale, Inodes)
      <4>1. DiskShape(c)
        BY <1>1, <1>2, NameFacts, MadeFile DEF Types
      <4>2. QED
        BY <1>1, <1>2, <1>3, <4>1, NameFacts, AlikeCreate, StableCreate
    <3>2. PICK I : I = Range(c.names) \cap Inodes
      OBVIOUS
    <3>3. /\ Alike(c, e, stale, Name, Name) /\ Worlds(e, stale) = {c.names} /\ e.names = c.names
          /\ Stable(c, e, stale, I) /\ Kept(e, stale) \subseteq I
      BY <2>2, <3>1, <3>2, FlushedNames
    <3>4. PICK Q : Q = Name \ {Lease}
      OBVIOUS
    <3>5. Alike(d, e, stale, Name, Q)
      <4>1. Name \cap Name = Name /\ Q \cap Name = Q
        BY <3>4
      <4>2. QED
        BY <3>1, <3>3, <3>4, <4>1, AlikeTwice
    <3>6. Stable(d, e, stale, I)
      <4>1. Inodes \cap I = I
        BY <3>2
      <4>2. QED
        BY <3>1, <3>3, <4>1, StableTwice
    <3>7. Manifest \in Name /\ Manifest \in Q /\ \A n \in FileNums : Sst(n) \in Q
      BY <3>4, NameFacts
    <3>8. \A N \in Worlds(d, stale) : DOMAIN N \cap Needs(d, N) \subseteq Name
      BY <1>3, WorldNames DEF Namespace
    <3>9. \A N \in Worlds(e, stale) : Whole(e, stale, N)
      BY <1>4, <3>3, <3>5, <3>6, <3>7, <3>8, WholesKept
    <3>10. \A N \in Worlds(e, stale) : Manifest \in DOMAIN N \/ \A n \in FileNums : Sst(n) \notin DOMAIN N
      BY <1>4, <3>5, <3>7, PresentKept
    <3>11. QED
      BY <3>3, <3>9, <3>10
  <2>3. QED
    BY <1>2, <2>1, <2>2
<1>6. \A S, J : Head1(S, J)' => "recover" \in S
  BY <1>2 DEF Head1
<1>7. ~Live'
  BY <1>2, <1>6 DEF Live, Pipe
<1>8. Wholes' /\ Calm' /\ Present'
  BY <1>1, <1>2, <1>5 DEF Wholes, Calm, Present
<1>9. Below' /\ Filed' /\ Built' /\ Picked' /\ LogsNamed'
  BY <1>7 DEF Below, Filed, Built, Picked, LogsNamed
<1>10. Creating' /\ Placed'
  BY <1>6 DEF Creating, Placed, Pipe
<1>11. QED
  BY <1>8, <1>9, <1>10 DEF Naming

\* create_db.
LEMMA CreateDbNaming ==
  ASSUME Types, Naming, CreateDb
  PROVE  Naming'
<1>1. PICK d, c, e, R, s : /\ d = disk /\ c = UnlinkAll(disk, {Log(1)}) /\ e = disk' /\ R = Name \ {Log(1)}
                           /\ s = Steps(ManifestSteps, "create")
  OBVIOUS
<1>2. /\ At("recover") /\ Manifest \notin DOMAIN d.names /\ Room(d) /\ e = Create(c, Log(1)) /\ db' = NewStore
      /\ Rest(s) /\ UNCHANGED <<state, stale>>
  BY <1>1 DEF CreateDb, Unlink, Exists
<1>3. Tail(todo) = <<>> /\ state = "opening" /\ todo[1] = <<"recover", "create">> /\ todo # <<>>
  BY <1>2, RecoverAlone DEF Types
<1>4. todo' # <<>> /\ todo'[1] = <<"manifest", "create">>
  <2>1. Path(s) /\ s[1] = <<"manifest", "create">> /\ s # <<>>
    BY <1>1, FilePaths
  <2>2. s \in Seq(StepOf)
    BY <2>1 DEF Path
  <2>3. todo' = s \o <<>>
    BY <1>2, <1>3 DEF Rest
  <2>4. QED
    BY <2>1, <2>2, <2>3
<1>5. \A S, J : Head1(S, J)' <=> "manifest" \in S /\ "create" \in J
  BY <1>4 DEF Head1
<1>6. DiskShape(d) /\ Worlds(d, stale) = {d.names}
  BY <1>1, <1>3 DEF Types, Naming, Calm, Head1
<1>7. \A n \in FileNums : Sst(n) \notin DOMAIN d.names
  BY <1>1, <1>2, <1>6 DEF Naming, Present
<1>8. DiskShape(c) /\ DiskKinds(c, opens, txns) /\ Room(c)
  BY <1>1, <1>2, RemovedFiles DEF Types
<1>9. Log(1) \in Name
  BY Numbers, NameFacts
<1>10. Alike(d, e, stale, R, R)
  <2>1. Alike(d, c, stale, Name \ {Log(1)}, Name)
    BY <1>1, <1>6, AlikeUnlink
  <2>2. Alike(c, e, stale, Name, Name \ {Log(1)})
    BY <1>2, <1>8, <1>9, AlikeCreate
  <2>3. (Name \ {Log(1)}) \cap Name = R /\ Name \cap (Name \ {Log(1)}) = R
    BY <1>1
  <2>4. QED
    BY <2>1, <2>2, <2>3, AlikeTwice
<1>11. Log(1) \in DOMAIN e.names
  BY <1>2, <1>8, <1>9, MadeFile
<1>12. Manifest \in R /\ \A n \in FileNums : Sst(n) \in R
  BY <1>1, NameFacts
<1>13. \A M \in Worlds(e, stale) : Manifest \notin DOMAIN M /\ \A n \in FileNums : Sst(n) \notin DOMAIN M
  <2>1. SUFFICES ASSUME NEW M \in Worlds(e, stale)
                 PROVE  Manifest \notin DOMAIN M /\ \A n \in FileNums : Sst(n) \notin DOMAIN M
    OBVIOUS
  <2>2. PICK N \in Worlds(d, stale) : Near(N, M, R, R)
    BY <1>10 DEF Alike
  <2>3. N = d.names
    BY <1>6
  <2>4. QED
    BY <1>2, <1>7, <1>12, <2>2, <2>3 DEF Near
<1>14. \A n \in FileNums : Sst(n) \notin DOMAIN e.names
  BY <1>7, <1>10, <1>12 DEF Alike, Near
<1>15. Wholes' /\ Calm' /\ Present'
  BY <1>1, <1>2, <1>3, <1>5, <1>13 DEF Wholes, Whole, Calm, Present
<1>16. Below' /\ Creating'
  BY <1>1, <1>2, <1>14 DEF Below, Creating
<1>17. Filed' /\ Built' /\ Picked'
  <2>1. db'.files = {} /\ db'.new = {} /\ db'.comp = {}
    BY <1>2 DEF NewStore
  <2>2. QED
    BY <1>5, <2>1 DEF Filed, Built, Picked, Builders
<1>18. Placed'
  BY <1>5 DEF Placed
<1>19. LogsNamed'
  <2>1. db'.first = 1 /\ db'.log = 1 /\ db'.spare = "none"
    BY <1>2 DEF NewStore
  <2>2. Head1({"manifest", "sync_tmp", "sync_new"}, {"create"})'
    BY <1>5
  <2>3. ~Head1(Pipe \ {"build", "sync_sst", "manifest"}, {"flush"})'
    BY <1>5
  <2>4. \A k \in 1 .. 1 : Log(k) \in DOMAIN e.names
    BY <1>11
  <2>5. QED
    BY <1>1, <2>1, <2>2, <2>3, <2>4 DEF LogsNamed
<1>20. QED
  BY <1>15, <1>16, <1>17, <1>18, <1>19 DEF Naming

\* An open of a database there is.
LEMMA RecoverNaming ==
  ASSUME Types, Naming, Recover
  PROVE  Naming'
<1>1. PICK m, logs, last, d :
           /\ logs = Logs(disk, m.first)
           /\ m = Read(disk, Manifest, 1) /\ m \in Version /\ m.first \in LogNums /\ m.files \subseteq FileNums
           /\ \A n \in m.files : n < m.next /\ Sst(n) \in DOMAIN disk.names
                                 /\ Read(disk, Sst(n), 1) # Zero /\ Read(disk, Sst(n), 1) \in SUBSET (1 .. txns)
           /\ last \in LogNums
           /\ \/ logs = {} /\ last = m.first /\ d = Create(disk, Log(last))
              \/ logs # {} /\ last = Max(logs) /\ d = disk /\ last \in logs
           /\ DiskShape(d) /\ DiskKinds(d, opens, txns)
           /\ DOMAIN d.names = DOMAIN disk.names \cup {Log(last)}
           /\ \A a \in DOMAIN disk.names : d.names[a] = disk.names[a]
           /\ d.view = disk.view
           /\ db' = Found(m, logs, last, d)
           /\ disk' = UnlinkAll(d, DOMAIN d.names \ Named(db'))
  BY RecoverReads
<1>2. Types'
  BY RecoverTypes
<1>3. At("recover") /\ state' = "open" /\ Rest(<<>>) /\ UNCHANGED stale /\ Manifest \in DOMAIN disk.names
  BY DEF Recover, Exists
<1>4. Tail(todo) = <<>> /\ state = "opening" /\ todo # <<>> /\ todo[1] = <<"recover", "create">>
  BY <1>3, RecoverAlone DEF Types
<1>5. todo' = <<>>
  BY <1>3, <1>4, RestNone DEF Types, CallShape
<1>6. Worlds(disk, stale) = {disk.names}
  BY <1>4 DEF Naming, Calm, Head1
<1>7. m = disk.view[disk.names[Manifest]][1]
  BY <1>1 DEF Read
<1>8. /\ Whole(disk, stale, disk.names)
      /\ \A n \in m.files : Sst(n) \in DOMAIN disk.names /\ Settled(disk, stale, disk.names[Sst(n)])
      /\ Log(m.first) \in DOMAIN disk.names
  BY <1>3, <1>6, <1>7 DEF Naming, Wholes, Whole
<1>9. /\ d = disk /\ last \in logs /\ m.first <= last /\ m.first \in Nat /\ last \in Nat
      /\ \A k \in m.first .. last : k \in LogNums /\ Log(k) \in DOMAIN disk.names
  <2>1. logs # {}
    BY <1>1, <1>8, OpenLogs
  <2>2. d = disk /\ last \in logs
    BY <1>1, <2>1
  <2>3. m.first <= last /\ \A k \in m.first .. last : k \in logs
    BY <1>1, <2>2, OpenLogs
  <2>4. \A k \in logs : k \in LogNums /\ Log(k) \in DOMAIN disk.names
    BY <1>1, OpenLogs
  <2>5. QED
    BY <1>1, <2>2, <2>3, <2>4, Numbers
<1>10. PICK b, e, G, P : b = db' /\ e = disk' /\ G = DOMAIN disk.names \ Named(db') /\ P = Name \ G
  OBVIOUS
<1>11. PICK F : F = Contents(disk, m.files)
  OBVIOUS
<1>12. /\ b.files = F /\ b.first = m.first /\ b.log = last /\ b.next = m.next /\ b.new = {} /\ b.comp = {}
       /\ b.spare = "none"
  BY <1>1, <1>10, <1>11 DEF Found, NewStore
<1>13. \A f \in F : f.num \in m.files /\ f.txns = disk.view[disk.names[Sst(f.num)]][1]
  BY <1>11 DEF Contents, Read
<1>14. \A n \in m.files : \E f \in F : f.num = n
  <2>1. SUFFICES ASSUME NEW n \in m.files PROVE \E f \in F : f.num = n
    OBVIOUS
  <2>2. PICK f : f = [num |-> n, txns |-> Read(disk, Sst(n), 1)]
    OBVIOUS
  <2>3. f \in F
    BY <1>11, <2>2 DEF Contents
  <2>4. f.num = n
    BY <2>2
  <2>5. QED
    BY <2>3, <2>4
<1>15. Ready(disk, b, stale)
  <2>1. \A n \in DOMAIN disk.names : Fixed(disk, stale, n)
    BY <1>6 DEF Fixed
  <2>2. \A N \in Worlds(disk, stale) : Whole(disk, stale, N) /\ Manifest \in DOMAIN N
    BY <1>3, <1>6, <1>8
  <2>3. \A f \in b.files :
           /\ f.num < b.next /\ Fixed(disk, stale, Sst(f.num))
           /\ Settled(disk, stale, disk.names[Sst(f.num)]) /\ disk.view[disk.names[Sst(f.num)]][1] = f.txns
    BY <1>1, <1>8, <1>12, <1>13, <2>1
  <2>4. b.first <= b.log /\ \A k \in b.first .. b.log : Fixed(disk, stale, Log(k))
    BY <1>9, <1>12, <2>1
  <2>5. QED
    BY <1>12, <2>2, <2>3, <2>4 DEF Ready
<1>16. e = UnlinkAll(disk, G) /\ DiskShape(disk) /\ DiskShape(e)
  BY <1>1, <1>2, <1>9, <1>10 DEF Types
<1>17. /\ Alike(disk, e, stale, P, Name) /\ Stable(disk, e, stale, Inodes) /\ Kept(e, stale) \subseteq Inodes
       /\ DOMAIN e.names = DOMAIN disk.names \ G
  <2>1. Alike(disk, e, stale, P, Name) /\ Stable(disk, e, stale, Inodes)
    BY <1>10, <1>16, AlikeUnlink, StableUnlink
  <2>2. Kept(e, stale) \subseteq Inodes
    BY <1>16, KeptInodes
  <2>3. DOMAIN e.names = DOMAIN disk.names \ G
    BY <1>16, UnlinkRoom
  <2>4. QED
    BY <2>1, <2>2, <2>3
<1>18. \A f \in b.files : Sst(f.num) \in P
  <2>1. SUFFICES ASSUME NEW f \in b.files PROVE Sst(f.num) \in P
    OBVIOUS
  <2>2. Sst(f.num) \in Named(b)
    BY DEF Named
  <2>3. f.num \in FileNums
    BY <1>1, <1>12, <1>13
  <2>4. QED
    BY <1>10, <2>2, <2>3, NameFacts
<1>19. \A k \in b.first .. b.log : Log(k) \in P
  <2>1. SUFFICES ASSUME NEW k \in b.first .. b.log PROVE Log(k) \in P
    OBVIOUS
  <2>2. Log(k) \in Named(b)
    BY DEF Named
  <2>3. k \in LogNums
    BY <1>9, <1>12
  <2>4. QED
    BY <1>10, <2>2, <2>3, NameFacts
<1>20. Manifest \in P /\ Manifest \in Name
  <2>1. Manifest \in Named(b)
    BY DEF Named
  <2>2. QED
    BY <1>10, <2>1, NameFacts
<1>21. \A N \in Worlds(disk, stale) : DOMAIN N \cap Needs(disk, N) \subseteq P
  <2>1. Needs(disk, disk.names) = {Manifest, Log(m.first)} \cup {Sst(n) : n \in m.files}
    BY <1>7 DEF Needs
  <2>2. Log(m.first) \in P
    <3>1. m.first \in b.first .. b.log
      BY <1>9, <1>12
    <3>2. QED
      BY <1>12, <1>19, <3>1
  <2>3. \A n \in m.files : Sst(n) \in P
    BY <1>12, <1>14, <1>18
  <2>4. QED
    BY <1>6, <1>20, <2>1, <2>2, <2>3
<1>22. Ready(e, b, stale)
  <2>1. b.spare = "ready" => Log(b.log + 1) \in P
    BY <1>12
  <2>2. QED
    BY <1>15, <1>16, <1>17, <1>18, <1>19, <1>20, <1>21, <2>1, ReadyKept
<1>23. Below'
  <2>1. SUFFICES ASSUME NEW n \in FileNums, Sst(n) \in DOMAIN e.names PROVE n < b.next
    BY <1>10 DEF Below
  <2>2. Sst(n) \in Named(b)
    BY <1>10, <1>17, <2>1
  <2>3. \E f \in b.files : Sst(n) = Sst(f.num)
    BY <2>2, NameFacts DEF Named
  <2>4. PICK f \in b.files : n = f.num
    BY <2>3, NameFacts
  <2>5. QED
    BY <1>1, <1>12, <1>13, <2>4
<1>24. Idle'
  BY <1>5 DEF Idle
<1>25. QED
  BY <1>2, <1>3, <1>10, <1>22, <1>23, <1>24, IdleOut DEF Types

\* A page cache that is older than the process asks for less.
LEMMA StaleWhole ==
  ASSUME NEW d, NEW st, NEW N, Whole(d, st, N)
  PROVE  Whole(d, TRUE, N)
<1>1. \A i : Settled(d, st, i) => Settled(d, TRUE, i)
  BY DEF Settled
<1>2. QED
  BY <1>1 DEF Whole

\* lsm_close, and the end of a store that failed.
LEMMA ClosedNaming ==
  ASSUME Types, Naming, Close \/ CloseFailed
  PROVE  Naming'
<1>1. PICK d, c, e, R : d = disk /\ c = UnlinkAll(disk, {Lease}) /\ e = disk' /\ R = Name \ {Lease}
  OBVIOUS
<1>2. e = SyncDir(c) /\ state' = "off" /\ todo' = <<>> /\ (stale' = stale \/ stale' = TRUE)
  BY <1>1 DEF Close, CloseFailed, Closed, Unlink
<1>3. DiskShape(d) /\ DiskShape(c)
  BY <1>1, UnlinkEffect DEF Types
<1>4. Alike(d, c, stale, R, Name) /\ Stable(d, c, stale, Inodes)
  BY <1>1, <1>3, AlikeUnlink, StableUnlink
<1>5. PICK I : I = Range(c.names) \cap Inodes
  OBVIOUS
<1>6. /\ Alike(c, e, stale, Name, Name) /\ Worlds(e, stale) = {c.names} /\ e.names = c.names
      /\ Stable(c, e, stale, I) /\ Kept(e, stale) \subseteq I
  BY <1>2, <1>3, <1>5, FlushedNames
<1>7. Alike(d, e, stale, R, Name) /\ Stable(d, e, stale, I)
  <2>1. R \cap Name = R /\ Name \cap Name = Name /\ Inodes \cap I = I
    BY <1>1, <1>5
  <2>2. Alike(d, e, stale, R, Name)
    BY <1>4, <1>6, <2>1, AlikeTwice
  <2>3. Stable(d, e, stale, I)
    BY <1>4, <1>6, <2>1, StableTwice
  <2>4. QED
    BY <2>2, <2>3
<1>8. Manifest \in R /\ Manifest \in Name /\ \A n \in FileNums : Sst(n) \in Name
  BY <1>1, NameFacts
<1>9. ASSUME NEW N \in Worlds(d, stale) PROVE DOMAIN N \cap Needs(d, N) \subseteq R
  <2>1. DOMAIN N \subseteq Name
    BY <1>3, WorldNames DEF Namespace
  <2>2. Lease \notin Needs(d, N)
    BY NameFacts DEF Needs
  <2>3. QED
    BY <1>1, <2>1, <2>2
<1>10. /\ \A N \in Worlds(d, stale) : Whole(d, stale, N)
       /\ \A N \in Worlds(d, stale) : Manifest \in DOMAIN N \/ \A n \in FileNums : Sst(n) \notin DOMAIN N
  BY <1>1 DEF Naming, Wholes, Present
<1>11. \A N \in Worlds(e, stale) : Whole(e, stale, N)
  BY <1>6, <1>7, <1>8, <1>9, <1>10, WholesKept
<1>12. \A N \in Worlds(e, stale) : Manifest \in DOMAIN N \/ \A n \in FileNums : Sst(n) \notin DOMAIN N
  BY <1>7, <1>8, <1>10, PresentKept
<1>13. Worlds(e, stale') = {e.names}
  BY <1>2, <1>6 DEF Worlds
<1>14. \A N \in Worlds(e, stale') : Whole(e, stale', N)
  <2>1. Whole(e, stale, e.names) /\ Whole(e, TRUE, e.names)
    BY <1>6, <1>11, StaleWhole
  <2>2. QED
    BY <1>2, <1>13, <2>1
<1>15. \A N \in Worlds(e, stale') : Manifest \in DOMAIN N \/ \A n \in FileNums : Sst(n) \notin DOMAIN N
  BY <1>6, <1>12, <1>13
<1>16. QED
  BY <1>1, <1>2, <1>13, <1>14, <1>15, OverNaming

\* The process is killed: what the names lead to remains.
LEMMA KillNaming ==
  ASSUME Types, Naming, Kill
  PROVE  Naming'
<1>1. disk' = disk /\ state' = "off" /\ todo' = <<>> /\ stale' = TRUE
  BY DEF Kill, Gone
<1>2. Worlds(disk', stale') = {disk.names} /\ disk.names \in Worlds(disk, stale)
  BY <1>1, WorldNames DEF Worlds, Types
<1>3. Whole(disk', stale', disk.names)
  BY <1>1, <1>2, StaleWhole DEF Naming, Wholes
<1>4. Manifest \in DOMAIN disk.names \/ \A n \in FileNums : Sst(n) \notin DOMAIN disk.names
  BY <1>2 DEF Naming, Present
<1>5. QED
  BY <1>1, <1>2, <1>3, <1>4, OverNaming

\* Power is lost: one of the namespaces that may be left is.
LEMMA LosePowerNaming ==
  ASSUME ~Mix, Types, Naming, LosePower
  PROVE  Naming'
<1>1. PICK d, e, N : d = disk /\ e = disk' /\ N = disk'.names
  OBVIOUS
<1>2. ~stale /\ e \in PowerLoss(d) /\ state' = "off" /\ todo' = <<>> /\ stale' = FALSE
  BY <1>1 DEF LosePower, Gone
<1>3. DiskShape(d)
  BY <1>1 DEF Types
<1>4. /\ DiskShape(e) /\ N \in d.maybe /\ e.maybe = {N} /\ e.dur = e.view /\ e.dirty = {}
      /\ \A i \in Range(N) \cap Inodes, s \in Slots : Holds(d, i, s, e.view[i][s])
  BY <1>1, <1>2, <1>3, PowerLossEffect
<1>5. Worlds(d, stale) = d.maybe /\ Worlds(e, stale') = {N}
  BY <1>2, <1>4 DEF Worlds
<1>6. PICK I : I = Range(N) \cap Inodes
  OBVIOUS
<1>7. Stable(d, e, FALSE, I)
  <2>1. SUFFICES ASSUME NEW i \in I, Settled(d, FALSE, i)
                 PROVE  Settled(e, FALSE, i) /\ e.view[i][1] = d.view[i][1]
    BY DEF Stable
  <2>2. e.view[i][1] \in Value /\ i \in Inodes
    BY <1>4, <1>6, Numbers DEF DiskShape
  <2>3. Holds(d, i, 1, e.view[i][1])
    BY <1>4, <1>6, Numbers
  <2>4. e.view[i][1] = d.view[i][1] /\ e.view[i][1] # Zero
    BY <2>1, <2>2, <2>3 DEF Settled
  <2>5. \A v \in Value : Holds(e, i, 1, v) => v = e.view[i][1]
    BY <1>4 DEF Holds
  <2>6. QED
    BY <2>4, <2>5 DEF Settled
<1>8. Whole(e, FALSE, N)
  <2>1. Whole(d, FALSE, N)
    <3>1. stale = FALSE
      BY <1>2 DEF Types, StateOK
    <3>2. Whole(d, stale, N)
      BY <1>1, <1>4, <1>5 DEF Naming, Wholes
    <3>3. QED
      BY <3>1, <3>2
  <2>2. Near(N, N, Name, Name)
    BY DEF Near
  <2>3. Namespace(N)
    BY <1>3, <1>4 DEF DiskShape
  <2>4. DOMAIN N \cap Needs(d, N) \subseteq Name
    BY <2>3 DEF Namespace
  <2>5. \A a \in DOMAIN N : N[a] \in I
    BY <1>6, <2>3 DEF Namespace, Range
  <2>6. QED
    BY <1>7, <2>1, <2>2, <2>4, <2>5, NameFacts, WholeKept
<1>9. Manifest \in DOMAIN N \/ \A n \in FileNums : Sst(n) \notin DOMAIN N
  BY <1>1, <1>4, <1>5 DEF Naming, Present
<1>10. QED
  BY <1>1, <1>2, <1>5, <1>8, <1>9, OverNaming

\* A new disk has no names.
LEMMA InitNaming == Init => Naming
<1>1. SUFFICES ASSUME Init PROVE Naming
  OBVIOUS
<1>2. disk.names = NoNames /\ disk.maybe = {NoNames} /\ DOMAIN NoNames = {}
  BY <1>1 DEF Init, EmptyDisk, NoNames
<1>3. Worlds(disk, stale) = {disk.names} /\ DOMAIN disk.names = {}
  BY <1>2 DEF Worlds
<1>4. todo = <<>> /\ state = "off"
  BY <1>1 DEF Init
<1>5. (\A S, J : ~Head1(S, J)) /\ ~Live
  BY <1>4 DEF Head1, Live
<1>6. Wholes /\ Calm /\ Present
  BY <1>3, <1>4 DEF Wholes, Whole, Calm, Present
<1>7. Below /\ Filed /\ Built /\ Picked /\ LogsNamed
  BY <1>5 DEF Below, Filed, Built, Picked, LogsNamed
<1>8. Creating /\ Placed
  BY <1>5 DEF Creating, Placed
<1>9. QED
  BY <1>6, <1>7, <1>8 DEF Naming

\* Nothing happens.
LEMMA SameNaming ==
  ASSUME Naming, UNCHANGED vars
  PROVE  Naming'
<1>1. /\ disk' = disk /\ db' = db /\ todo' = todo /\ state' = state /\ stale' = stale
  BY DEF vars
<1>2. Wholes' /\ Calm' /\ Present'
  BY <1>1 DEF Naming, Wholes, Calm, Present, Head1
<1>3. Below' /\ Creating'
  BY <1>1 DEF Naming, Below, Creating, Live, Head1
<1>4. Filed'
  BY <1>1 DEF Naming, Filed, Live, Head1
<1>5. Built'
  BY <1>1 DEF Naming, Built, Live, Head1
<1>6. Picked' /\ Placed'
  BY <1>1 DEF Naming, Picked, Placed, Live, Head1, Nums, Memory
<1>7. LogsNamed'
  BY <1>1 DEF Naming, LogsNamed, Live, Head1
<1>8. QED
  BY <1>2, <1>3, <1>4, <1>5, <1>6, <1>7 DEF Naming

\* Every step keeps the names right.
LEMMA NamingStep ==
  ASSUME ~Mix, Types, Naming, [Next]_vars
  PROVE  Naming'
<1>1. CASE Open \/ CreateDb \/ Recover
  BY <1>1, OpenNaming, CreateDbNaming, RecoverNaming
<1>2. CASE CallStep
  BY <1>2, CommitNaming, CallNaming DEF CallStep
<1>3. CASE LogStep
  BY <1>3, SyncLogNaming, InsertNaming, DrainNaming, FreezeNaming, MakeSpareNaming, NameSpareNaming,
     ShortNaming, SwapNaming DEF LogStep
<1>4. CASE FileStep
  BY <1>4, BuildNaming, SyncSstNaming, WriteManifestNaming, SyncTmpNaming, FlushDirNaming,
     RenameManifestNaming, InstalledNaming, CompactNaming DEF FileStep
<1>5. CASE Close \/ CloseFailed
  BY <1>5, ClosedNaming
<1>6. CASE LosePower \/ Kill
  BY <1>6, LosePowerNaming, KillNaming
<1>7. CASE UNCHANGED vars
  BY <1>7, SameNaming
<1>8. QED
  BY <1>1, <1>2, <1>3, <1>4, <1>5, <1>6, <1>7 DEF Next

\* An open never answers CORRUPT: the manifest, if there is one, is whole, and so is every file it names
\* (manifest_write's two flushes of the directory, and the order of the removals after it), unless power is
\* lost over a page cache that no process knows the state of.
THEOREM OpenCorrect ==
  ASSUME ~Mix
  PROVE  Spec => []OpenSound
<1>1. Init => Types /\ Naming
  BY InitTypes, InitNaming
<1>2. Types /\ Naming /\ [Next]_vars => (Types /\ Naming)'
  BY TypesStep, NamingStep
<1>3. Types /\ Naming => OpenSound
  <2>1. SUFFICES ASSUME Types, Naming, Manifest \in DOMAIN disk.names PROVE Sound(disk)
    BY DEF OpenSound, Exists
  <2>2. Whole(disk, stale, disk.names)
    BY <2>1, WorldNames DEF Naming, Wholes, Types
  <2>3. QED
    BY <2>1, <2>2 DEF Whole, Settled, Sound, Read, Exists
<1>4. QED
  BY <1>1, <1>2, <1>3, PTL DEF Spec

\* The log that commits go to keeps its name through a power loss (spare_step and create_db flush the
\* directory before a commit can reach it).
THEOREM LogCorrect ==
  ASSUME ~Mix
  PROVE  Spec => []LogNamed
<1>1. Init => Types /\ Naming
  BY InitTypes, InitNaming
<1>2. Types /\ Naming /\ [Next]_vars => (Types /\ Naming)'
  BY TypesStep, NamingStep
<1>3. Types /\ Naming => LogNamed
  <2>1. SUFFICES ASSUME Types, Naming, state = "open", ~stale, NEW N \in disk.maybe
                 PROVE  Log(db.log) \in DOMAIN N /\ N[Log(db.log)] = disk.names[Log(db.log)]
    BY DEF LogNamed
  <2>2. Live /\ ~Head1({"manifest", "sync_tmp", "sync_new"}, {"create"})
    <3>1. todo # <<>> => todo[1][2] # "create"
      <4>1. todo # <<>> => todo[1] \in Range(todo)
        BY <2>1, PathTail DEF Types, CallShape
      <4>2. QED
        BY <2>1, <4>1 DEF Types, CallShape
    <3>2. QED
      BY <2>1, <3>1 DEF Live, Head1
  <2>3. db.log \in db.first .. db.log
    <3>1. db.first <= db.log
      BY <2>1, <2>2 DEF Naming, LogsNamed
    <3>2. db.first \in Nat /\ db.log \in Nat
      BY <2>1, OwnNames, Numbers
    <3>3. QED
      BY <3>1, <3>2
  <2>4. Fixed(disk, stale, Log(db.log))
    BY <2>1, <2>2, <2>3 DEF Naming, LogsNamed
  <2>5. QED
    BY <2>1, <2>4 DEF Fixed, Worlds
<1>4. QED
  BY <1>1, <1>2, <1>3, PTL DEF Spec

=============================================================================
